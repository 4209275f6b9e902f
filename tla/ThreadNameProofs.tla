--------------------------- MODULE ThreadNameProofs ---------------------------
(***************************************************************************)
(* Proofs about the conversions of StringUtils, for every code point and   *)
(* every text, and about ThreadName, which converts names with them.  The  *)
(* provers are named in most leaves: Zenon cannot read the large numbers   *)
(* of Unicode, and SMT gets lost among sequences of sequences.             *)
(*                                                                         *)
(* A conversion is a function on the positions of a text, which reads one  *)
(* character and goes on behind it: a walk.  Where each of two walks reads *)
(* what a step of the other has written they undo each other (Mirrored),   *)
(* which is shown for the last position at which it could be false         *)
(* (Latest), from that of the step from there on.                          *)
(***************************************************************************)
EXTENDS ThreadName, WellFoundedInduction, TLAPS

-----------------------------------------------------------------------------
(* What AppendUtf8 and AppendUtf16 write, and what is read of it           *)

(* A code point that text can hold.                                        *)
Scalar == {c \in 0..MAX_UNICODE_CODE_POINT : ~IsHighSurrogate(c) /\ ~IsLowSurrogate(c)}

Byte == 0..255

(* The bytes of c are in text from i on.                                   *)
Holds(text, i, c) ==
    /\ i + Len(AppendUtf8(c)) - 1 <= Len(text)
    /\ \A k \in 1..Len(AppendUtf8(c)) : text[i + k - 1] = AppendUtf8(c)[k]

LEMMA MaxIsNat == MAX_UNICODE_CODE_POINT \in Nat
BY SMTT(30) DEF MAX_UNICODE_CODE_POINT

-----------------------------------------------------------------------------

(* Bits taken off six at a time.                                           *)
LEMMA SixBits ==
    ASSUME NEW c \in Nat
    PROVE  /\ c \div 64 \in Nat /\ c \div 4096 \in Nat /\ c \div 262144 \in Nat
           /\ (c \div 64) \div 64 = c \div 4096
           /\ (c \div 4096) \div 64 = c \div 262144
BY SMTT(30)

(* Six bits written are put back by Shifted, from a byte that follows.     *)
LEMMA PutBack ==
    ASSUME NEW c \in Nat
    PROVE  Follow(c) \div 64 = 2 /\ Shifted(c \div 64, Follow(c)) = c
<1>1. /\ (128 + (c % 64)) % 64 = c % 64 /\ (128 + (c % 64)) \div 64 = 2
      /\ (c \div 64) * 64 + (c % 64) = c
  BY SMTT(30)
<1> QED
  BY SMTT(30), <1>1 DEF Follow, Shifted

LEMMA OneLess ==
    ASSUME NEW l \in 1..4, NEW i \in Nat
    PROVE  l - 1 < 4 /\ i + (l - 1) = i + l - 1
BY SMTT(30)

LEMMA FirstOfTwo ==
    ASSUME NEW b \in Nat, 2 <= b, b <= 31
    PROVE  First(192 + b) = [bits |-> b, least |-> 128, follow |-> 1]
<1>1. (192 + b) % 32 = b
  BY SMTT(30)
<1>2. ~(192 + b <= 127) /\ 192 + b \in 194..223
  BY SMTT(30)
<1> QED
  BY SMTT(30), <1>1, <1>2 DEF First

LEMMA FirstOfThree ==
    ASSUME NEW b \in Nat, b <= 15
    PROVE  First(224 + b) = [bits |-> b, least |-> 2048, follow |-> 2]
<1>1. (224 + b) % 16 = b
  BY SMTT(30)
<1>2. ~(224 + b <= 127) /\ 224 + b \notin 194..223 /\ 224 + b \in 224..239
  BY SMTT(30)
<1> QED
  BY SMTT(30), <1>1, <1>2 DEF First

LEMMA FirstOfFour ==
    ASSUME NEW b \in Nat, b <= 4
    PROVE  First(240 + b) = [bits |-> b, least |-> 65536, follow |-> 3]
<1>1. (240 + b) % 8 = b
  BY SMTT(30)
<1>2. /\ ~(240 + b <= 127) /\ 240 + b \notin 194..223
      /\ 240 + b \notin 224..239 /\ 240 + b \in 240..244
  BY SMTT(30)
<1> QED
  BY SMTT(30), <1>1, <1>2 DEF First

LEMMA Lengths ==
    ASSUME NEW c \in Nat
    PROVE  Len(AppendUtf8(c)) = IF c <= 127 THEN 1 ELSE IF c <= 2047 THEN 2
                                ELSE IF c <= 65535 THEN 3 ELSE 4
BY SMTT(30) DEF AppendUtf8

-----------------------------------------------------------------------------

(* What AppendUtf8 writes for a code point is read again by                *)
(* DecodeUtf8CodePoint, wherever it is in a text: the same code point, and *)
(* the reading goes on right behind its bytes.                             *)
THEOREM ReadsWhatItWrites ==
    ASSUME NEW c \in Scalar, NEW text \in Seq(Byte), NEW i \in 1..Len(text), Holds(text, i, c)
    PROVE  DecodeUtf8CodePoint(text, i) =
               [ok |-> TRUE, code_point |-> c, next |-> i + Len(AppendUtf8(c))]
<1> DEFINE f == First(text[i])
<1>0. c \in Nat /\ c <= MAX_UNICODE_CODE_POINT
  BY SMTT(30), MaxIsNat DEF Scalar
<1>1. SUFFICES /\ f.follow = Len(AppendUtf8(c)) - 1
               /\ \A k \in 1..f.follow : text[i + k] \div 64 = 2
               /\ CodePointAt(text, i) = c
               /\ f.least <= c
  <2>1. Len(AppendUtf8(c)) \in 1..4
    BY SMTT(30), <1>0, Lengths
  <2>2. i + Len(AppendUtf8(c)) - 1 <= Len(text)
    BY SMTT(30) DEF Holds
  <2>3. f.follow < 4 /\ i + f.follow <= Len(text)
    <3>1. f.follow = Len(AppendUtf8(c)) - 1
      BY SMTT(30), <1>1
    <3>2. i \in Nat
      BY SMTT(30)
    <3> HIDE DEF f
    <3>3. Len(AppendUtf8(c)) - 1 < 4 /\ i + (Len(AppendUtf8(c)) - 1) = i + Len(AppendUtf8(c)) - 1
      BY Zenon, <2>1, <3>2, OneLess
    <3> QED
      BY Zenon, <2>2, <3>1, <3>3
  <2>4. i + f.follow + 1 = i + Len(AppendUtf8(c))
    BY SMTT(30), <1>1, <2>1
  <2>5. DecodesAt(text, i)
    BY SMTT(30), <1>0, <1>1, <2>3 DEF DecodesAt, Scalar
  <2> QED
    BY SMTT(30), <1>1, <2>4, <2>5 DEF DecodeUtf8CodePoint
<1>2. CASE c <= 127
  <2>1. text[i] = c
    BY SMTT(30), <1>0, <1>2 DEF Holds, AppendUtf8
  <2>2. f = [bits |-> c, least |-> 0, follow |-> 0]
    BY SMTT(30), <1>2, <2>1 DEF First
  <2> QED
    BY SMTT(30), <1>0, <1>2, <2>2, Lengths DEF CodePointAt
<1>3. CASE c > 127 /\ c <= 2047
  <2>1. text[i] = 192 + c \div 64 /\ text[i + 1] = Follow(c)
    BY SMTT(30), <1>0, <1>3 DEF Holds, AppendUtf8
  <2>2. c \div 64 \in Nat /\ 2 <= c \div 64 /\ c \div 64 <= 31
    BY SMTT(30), <1>0, <1>3
  <2>3. f = [bits |-> c \div 64, least |-> 128, follow |-> 1]
    <3>1. First(192 + c \div 64) = [bits |-> c \div 64, least |-> 128, follow |-> 1]
      BY SMTT(30), <2>2, FirstOfTwo
    <3> QED
      BY SMTT(30), <2>1, <3>1
  <2>4. CodePointAt(text, i) = Shifted(c \div 64, Follow(c))
    BY SMTT(30), <2>1, <2>3 DEF CodePointAt
  <2>5. CodePointAt(text, i) = c /\ text[i + 1] \div 64 = 2
    BY SMTT(30), <1>0, <2>1, <2>4, PutBack
  <2>6. \A k \in 1..1 : text[i + k] \div 64 = 2
    BY SMTT(30), <2>5
  <2>7. Len(AppendUtf8(c)) = 2
    BY SMTT(30), <1>0, <1>3, Lengths
  <2> QED
    BY SMTT(30), <1>0, <1>3, <2>3, <2>5, <2>6, <2>7
<1>4. CASE c > 2047 /\ c <= 65535
  <2>1. text[i] = 224 + c \div 4096 /\ text[i + 1] = Follow(c \div 64) /\ text[i + 2] = Follow(c)
    BY SMTT(30), <1>0, <1>4 DEF Holds, AppendUtf8
  <2>2. c \div 4096 \in Nat /\ c \div 4096 <= 15
    BY SMTT(30), <1>0, <1>4
  <2>3. f = [bits |-> c \div 4096, least |-> 2048, follow |-> 2]
    <3>1. First(224 + c \div 4096) = [bits |-> c \div 4096, least |-> 2048, follow |-> 2]
      BY SMTT(30), <2>2, FirstOfThree
    <3> QED
      BY SMTT(30), <2>1, <3>1
  <2>4. CodePointAt(text, i) = Shifted(Shifted(c \div 4096, Follow(c \div 64)), Follow(c))
    BY SMTT(30), <2>1, <2>3 DEF CodePointAt
  <2>5. Shifted(c \div 4096, Follow(c \div 64)) = c \div 64 /\ Follow(c \div 64) \div 64 = 2
    <3>1. c \div 64 \in Nat /\ (c \div 64) \div 64 = c \div 4096
      BY SMTT(30), <1>0, SixBits
    <3>2. /\ Shifted((c \div 64) \div 64, Follow(c \div 64)) = c \div 64
          /\ Follow(c \div 64) \div 64 = 2
      BY SMTT(30), <3>1, PutBack
    <3> QED
      BY SMTT(30), <3>1, <3>2
  <2>6. CodePointAt(text, i) = c /\ Follow(c) \div 64 = 2
    BY SMTT(30), <1>0, <2>4, <2>5, PutBack
  <2>7. \A k \in 1..2 : text[i + k] \div 64 = 2
    <3>1. \A k \in 1..2 : k = 1 \/ k = 2
      BY SMTT(30)
    <3> QED
      BY SMTT(30), <2>1, <2>5, <2>6, <3>1
  <2>8. Len(AppendUtf8(c)) = 3
    BY SMTT(30), <1>0, <1>4, Lengths
  <2> QED
    BY SMTT(30), <1>0, <1>4, <2>3, <2>6, <2>7, <2>8
<1>5. CASE c > 65535
  <2>1. /\ text[i] = 240 + c \div 262144 /\ text[i + 1] = Follow(c \div 4096)
        /\ text[i + 2] = Follow(c \div 64) /\ text[i + 3] = Follow(c)
    BY SMTT(30), <1>0, <1>5 DEF Holds, AppendUtf8
  <2>2. c \div 262144 \in Nat /\ c \div 262144 <= 4
    <3>1. c <= 1114111
      BY SMTT(30), <1>0 DEF MAX_UNICODE_CODE_POINT
    <3> QED
      BY SMTT(30), <1>0, <3>1
  <2>3. f = [bits |-> c \div 262144, least |-> 65536, follow |-> 3]
    BY SMTT(30), <2>1, <2>2, FirstOfFour
  <2>4. CodePointAt(text, i) =
            Shifted(Shifted(Shifted(c \div 262144, Follow(c \div 4096)), Follow(c \div 64)), Follow(c))
    BY SMTT(30), <2>1, <2>3 DEF CodePointAt
  <2>5. /\ Shifted(c \div 262144, Follow(c \div 4096)) = c \div 4096
        /\ Follow(c \div 4096) \div 64 = 2
    <3>1. c \div 4096 \in Nat /\ (c \div 4096) \div 64 = c \div 262144
      BY SMTT(30), <1>0, SixBits
    <3>2. /\ Shifted((c \div 4096) \div 64, Follow(c \div 4096)) = c \div 4096
          /\ Follow(c \div 4096) \div 64 = 2
      BY SMTT(30), <3>1, PutBack
    <3> QED
      BY SMTT(30), <3>1, <3>2
  <2>6. Shifted(c \div 4096, Follow(c \div 64)) = c \div 64 /\ Follow(c \div 64) \div 64 = 2
    <3>1. c \div 64 \in Nat /\ (c \div 64) \div 64 = c \div 4096
      BY SMTT(30), <1>0, SixBits
    <3>2. /\ Shifted((c \div 64) \div 64, Follow(c \div 64)) = c \div 64
          /\ Follow(c \div 64) \div 64 = 2
      BY SMTT(30), <3>1, PutBack
    <3> QED
      BY SMTT(30), <3>1, <3>2
  <2>7. CodePointAt(text, i) = c /\ Follow(c) \div 64 = 2
    BY SMTT(30), <1>0, <2>4, <2>5, <2>6, PutBack
  <2>8. \A k \in 1..3 : text[i + k] \div 64 = 2
    <3>1. \A k \in 1..3 : k = 1 \/ k = 2 \/ k = 3
      BY SMTT(30)
    <3> QED
      BY SMTT(30), <2>1, <2>5, <2>6, <2>7, <3>1
  <2>9. Len(AppendUtf8(c)) = 4
    BY SMTT(30), <1>0, <1>5, Lengths
  <2> QED
    BY SMTT(30), <1>0, <1>5, <2>3, <2>7, <2>8, <2>9
<1> QED
  BY SMTT(30), <1>0, <1>2, <1>3, <1>4, <1>5

-----------------------------------------------------------------------------

(* The units of c are in the wide text from i on.                          *)
HoldsUnits(text, i, c, width) ==
    /\ i + Len(Units(c, width)) - 1 <= Len(text)
    /\ \A k \in 1..Len(Units(c, width)) : text[i + k - 1] = Units(c, width)[k]

LEMMA TenBits ==
    ASSUME NEW d \in Nat, d <= 1048575
    PROVE  /\ d \div 1024 \in Nat /\ d \div 1024 <= 1023
           /\ d % 1024 \in Nat /\ d % 1024 <= 1023
           /\ d = (d \div 1024) * 1024 + (d % 1024)
BY SMTT(30)

LEMMA Surrogates ==
    ASSUME NEW b \in Nat, b <= 1023
    PROVE  IsHighSurrogate(55296 + b) /\ IsLowSurrogate(56320 + b)
BY SMTT(30) DEF IsHighSurrogate, IsLowSurrogate

(* The wide units StringToWString writes for a code point are read again   *)
(* by WStringToString, with units of two bytes and with units of four.     *)
THEOREM ReadsUnitsAgain ==
    ASSUME NEW c \in Scalar, NEW width \in {2, 4},
           NEW text \in Seq(Nat), NEW i \in 1..Len(text), HoldsUnits(text, i, c, width)
    PROVE  WideCodePoint(text, i, width) =
               [ok |-> TRUE, units |-> Len(Units(c, width)), code_point |-> c]
<1>1. c \in Nat /\ c <= MAX_UNICODE_CODE_POINT /\ ~IsHighSurrogate(c) /\ ~IsLowSurrogate(c)
  BY SMTT(30), MaxIsNat DEF Scalar
<1>2. CASE width = 2 /\ c > 65535
  <2> DEFINE d == c - 65536
  <2>1. d \in Nat /\ d <= 1048575 /\ c = 65536 + d
    <3>1. c <= 1114111
      BY SMTT(30), <1>1 DEF MAX_UNICODE_CODE_POINT
    <3> QED
      BY SMTT(30), <1>1, <1>2, <3>1
  <2>2. Units(c, width) = <<55296 + d \div 1024, 56320 + (d % 1024)>>
    BY SMTT(30), <1>2 DEF Units
  <2> HIDE DEF d
  <2>3. Len(Units(c, width)) = 2
    BY SMTT(30), <2>2
  <2>4. text[i] = 55296 + d \div 1024 /\ text[i + 1] = 56320 + (d % 1024) /\ i < Len(text)
    BY SMTT(30), <2>2, <2>3 DEF HoldsUnits
  <2>5. Pair(text, i)
    BY SMTT(30), <2>1, <2>4, TenBits, Surrogates DEF Pair
  <2>6. Joined(text[i], text[i + 1]) = c
    BY SMTT(30), <2>1, <2>4, TenBits DEF Joined
  <2>7. width = 2
    BY SMTT(30), <1>2
  <2> QED
    BY Zenon, <2>3, <2>5, <2>6, <2>7 DEF WideCodePoint
<1>3. CASE ~(width = 2 /\ c > 65535)
  <2>1. Units(c, width) = <<c>>
    BY SMTT(30), <1>1, <1>3 DEF Units
  <2>2. text[i] = c /\ Len(Units(c, width)) = 1
    BY SMTT(30), <2>1 DEF HoldsUnits
  <2>3. Single(text, i)
    BY SMTT(30), <1>1, <2>2 DEF Single
  <2>4. ~(width = 2 /\ Pair(text, i))
    BY SMTT(30), <1>1, <2>2 DEF Pair
  <2> QED
    BY SMTT(30), <2>2, <2>3, <2>4 DEF WideCodePoint
<1> QED
  BY <1>2, <1>3

-----------------------------------------------------------------------------
(* Least positions, and conversions as walks over a text                   *)

LEMMA Least ==
  ASSUME NEW T, T \subseteq Nat, T # {}
  PROVE  \E n \in T : \A m \in T : n <= m
<1> DEFINE R == OpToRel(<, Nat)
<1>1. \A m, n \in Nat : m < n => <<m, n>> \in R
  BY DEF OpToRel
<1>2. IsWellFoundedOn(R, Nat)
  BY NatLessThanWellFounded
<1> HIDE DEF R
<1>3. PICK n \in T : \A m \in T : ~(<<m, n>> \in R)
  BY <1>2, WFMin
<1>4. \A m \in T : ~(m < n)
  BY <1>1, <1>3
<1> QED
  BY <1>4

(* Of a set of positions that is not empty, the last.                      *)
LEMMA Latest ==
  ASSUME NEW n \in Nat, NEW T, T \subseteq 1..n, T # {}
  PROVE  \E i \in T : \A j \in T : j <= i
<1> DEFINE D == {n - i : i \in T}
<1>1. D \subseteq Nat /\ D # {}
  <2>1. \A i \in T : n - i \in Nat
    OBVIOUS
  <2> QED
    BY <2>1
<1> HIDE DEF D
<1>2. PICK d \in D : \A m \in D : d <= m
  BY <1>1, Least
<1>3. PICK i \in T : d = n - i
  BY DEF D
<1>4. \A j \in T : n - i <= n - j
  BY <1>2, <1>3 DEF D
<1>5. \A j \in T : j \in 1..n
  OBVIOUS
<1>6. \A j \in T : j <= i
  BY <1>4, <1>5
<1> QED
  BY <1>3, <1>6

(* A conversion as a walk: step[i] is what is read at position i of a text *)
(* of length n, r[i] what the conversion makes of the text from there on.  *)

Result(S) == [ok : BOOLEAN, text : Seq(S)]

Done == [ok |-> TRUE, text |-> <<>>]

Steps(step, n, S) ==
    /\ step \in [1..n -> [ok : BOOLEAN, text : Seq(S), next : Nat]]
    /\ \A i \in 1..n : step[i].ok => step[i].next \in i + 1..n + 1

Goes(step, n, r, i) ==
    IF i > n THEN Done
    ELSE IF step[i].ok THEN Ahead(step[i].text, r[step[i].next]) ELSE Failed

Walk(step, n, S, r, m) ==
    /\ r \in [m..n + 1 -> Result(S)]
    /\ \A i \in m..n + 1 : r[i] = Goes(step, n, r, i)

LEMMA Joins ==
    ASSUME NEW S, NEW a \in Seq(S), NEW b \in Seq(S)
    PROVE  /\ a \o b \in Seq(S) /\ Len(a \o b) = Len(a) + Len(b)
           /\ \A i \in 1..Len(a) : (a \o b)[i] = a[i]
           /\ \A i \in 1..Len(b) : (a \o b)[Len(a) + i] = b[i]
OBVIOUS

LEMMA AheadType ==
    ASSUME NEW S, NEW s \in Seq(S), NEW r \in Result(S)
    PROVE  /\ Ahead(s, r) \in Result(S) /\ Failed \in Result(S) /\ Done \in Result(S)
           /\ Ahead(s, r).ok = r.ok /\ ~Failed.ok /\ Done.ok /\ Failed.text = <<>> /\ Done.text = <<>>
           /\ r.ok => Ahead(s, r).text = s \o r.text
           /\ ~r.ok => Ahead(s, r).text = <<>>
<1>1. s \o r.text \in Seq(S)
  BY Joins DEF Result
<1>2. <<>> \in Seq(S) /\ r.ok \in BOOLEAN
  BY DEF Result
<1> HIDE DEF Result
<1>5. Failed \in Result(S) /\ Done \in Result(S)
  BY DEF Result, Failed, Done
<1>6. ~Failed.ok /\ Done.ok /\ Failed.text = <<>> /\ Done.text = <<>>
  BY DEF Failed, Done
<1>3. CASE r.ok
  <2> DEFINE t == s \o r.text
  <2>1. Ahead(s, r) = [ok |-> TRUE, text |-> t]
    BY <1>3 DEF Ahead
  <2> HIDE DEF t
  <2>2. Ahead(s, r) \in Result(S) /\ Ahead(s, r).ok = TRUE /\ Ahead(s, r).text = t
    <3>1. t \in Seq(S)
      BY <1>1 DEF t
    <3> QED
      BY <2>1, <3>1 DEF Result
  <2>3. r.ok = TRUE
    BY <1>2, <1>3
  <2> QED
    BY <1>3, <1>5, <1>6, <2>2, <2>3 DEF t
<1>4. CASE ~r.ok
  <2>1. Ahead(s, r) = Failed
    BY <1>4 DEF Ahead
  <2>2. r.ok = FALSE /\ Failed.ok = FALSE
    BY <1>2, <1>4 DEF Failed
  <2> QED
    BY <1>4, <1>5, <1>6, <2>1, <2>2
<1> QED
  BY <1>3, <1>4

LEMMA GoesType ==
    ASSUME NEW n \in Nat, NEW S, NEW step, Steps(step, n, S), NEW i \in 1..n + 1,
           NEW r, NEW m \in i..i + 1, r \in [m..n + 1 -> Result(S)]
    PROVE  Goes(step, n, r, i) \in Result(S)
<1>1. CASE i > n
  BY <1>1, AheadType DEF Goes, Done, Result
<1>2. CASE ~(i > n)
  <2>1. i \in 1..n
    BY <1>2
  <2>2. CASE step[i].ok
    <3>1. step[i].next \in m..n + 1 /\ step[i].text \in Seq(S)
      BY <2>1, <2>2 DEF Steps
    <3>2. r[step[i].next] \in Result(S)
      BY <3>1
    <3>3. Ahead(step[i].text, r[step[i].next]) \in Result(S)
      BY <3>1, <3>2, AheadType
    <3> QED
      BY <1>2, <2>2, <3>3 DEF Goes
  <2>3. CASE ~step[i].ok
    BY <1>2, <2>3 DEF Goes, Failed, Result
  <2> QED
    BY <2>2, <2>3
<1> QED
  BY <1>1, <1>2

LEMMA WalkExists ==
    ASSUME NEW n \in Nat, NEW S, NEW step, Steps(step, n, S)
    PROVE  \E r : Walk(step, n, S, r, 1)
<1> DEFINE Bad == {k \in 0..n : ~ \E r : Walk(step, n, S, r, (n + 1) - k)}
<1>1. SUFFICES ASSUME Bad # {} PROVE FALSE
  <2>1. ASSUME Bad = {} PROVE \E r : Walk(step, n, S, r, 1)
    <3>1. n \in 0..n /\ n \notin Bad /\ (n + 1) - n = 1
      BY <2>1
    <3> QED
      BY <3>1
  <2> QED
    BY <2>1
<1>2. PICK k \in Bad : \A l \in Bad : k <= l
  <2>1. Bad \subseteq Nat
    OBVIOUS
  <2> HIDE DEF Bad
  <2> QED
    BY <1>1, <2>1, Least
<1>3. k # 0
  <2> DEFINE r == [i \in n + 1..n + 1 |-> Done]
  <2>1. Done \in Result(S)
    BY DEF Done, Result
  <2>2. r \in [n + 1..n + 1 -> Result(S)]
    BY <2>1
  <2>3. \A i \in n + 1..n + 1 : i > n /\ r[i] = Done
    OBVIOUS
  <2> HIDE DEF r
  <2>4. Walk(step, n, S, r, n + 1)
    BY <2>2, <2>3 DEF Walk, Goes
  <2>5. (n + 1) - 0 = n + 1
    OBVIOUS
  <2> QED
    BY <2>4, <2>5
<1> DEFINE p == (n + 1) - k
<1>4. k \in 1..n /\ k - 1 \in 0..n /\ k - 1 \notin Bad /\ p \in 1..n /\ (n + 1) - (k - 1) = p + 1
  <2>1. k \in 1..n
    BY <1>3
  <2>2. ~(k <= k - 1) /\ k - 1 \in 0..n /\ p \in 1..n /\ (n + 1) - (k - 1) = p + 1
    BY <2>1
  <2> HIDE DEF Bad
  <2> QED
    BY <1>2, <2>1, <2>2
<1>5. PICK r : Walk(step, n, S, r, p + 1)
  BY <1>4
<1> DEFINE x == Goes(step, n, r, p)
           q == [i \in p..n + 1 |-> IF i = p THEN x ELSE r[i]]
<1>h. ~Walk(step, n, S, q, p)
  BY <1>2
<1> HIDE DEF Bad
<1>t. p \in Nat
  BY <1>4
<1> HIDE DEF p
<1>6. x \in Result(S)
  <2>1. r \in [p + 1..n + 1 -> Result(S)] /\ p \in 1..n + 1 /\ p + 1 \in p..p + 1
    BY <1>4, <1>5 DEF Walk
  <2> QED
    BY <2>1, GoesType
<1> HIDE DEF x
<1>7. q[p] = x /\ \A i \in p + 1..n + 1 : q[i] = r[i]
  BY <1>4
<1>8. q \in [p..n + 1 -> Result(S)]
  <2>1. \A i \in p..n + 1 : i # p => i \in p + 1..n + 1
    BY <1>4
  <2>2. \A i \in p + 1..n + 1 : r[i] \in Result(S)
    BY <1>5 DEF Walk
  <2> QED
    BY <1>6, <2>1, <2>2
<1> HIDE DEF q
<1>9. ASSUME NEW i \in p..n + 1 PROVE q[i] = Goes(step, n, q, i)
  <2>1. Goes(step, n, q, i) = Goes(step, n, r, i)
    <3>1. CASE i \in 1..n /\ step[i].ok
      <4>1. step[i].next \in p + 1..n + 1
        BY SMTT(60), <1>4, <3>1 DEF Steps
      <4> QED
        BY <1>7, <4>1 DEF Goes
    <3>2. CASE ~(i \in 1..n /\ step[i].ok)
      <4>1. i > n \/ ~step[i].ok
        BY <1>4, <3>2
      <4> QED
        BY <4>1 DEF Goes
    <3> QED
      BY <3>1, <3>2
  <2>2. CASE i = p
    BY <1>7, <2>1, <2>2 DEF x
  <2>3. CASE i # p
    <3>1. i \in p + 1..n + 1
      BY <1>4, <2>3
    <3> QED
      BY <1>5, <1>7, <2>1, <3>1 DEF Walk
  <2> QED
    BY <2>2, <2>3
<1>10. Walk(step, n, S, q, p)
  BY <1>8, <1>9 DEF Walk
<1> QED
  BY <1>h, <1>10

(* There is only one walk.                                                 *)
LEMMA WalkOnly ==
    ASSUME NEW n \in Nat, NEW S, NEW step, Steps(step, n, S), NEW r, Walk(step, n, S, r, 1),
           NEW q, \A i \in 1..n + 1 : q[i] = Goes(step, n, q, i)
    PROVE  \A i \in 1..n + 1 : q[i] = r[i]
<1> DEFINE Bad == {i \in 1..n + 1 : q[i] # r[i]}
<1>1. SUFFICES ASSUME Bad # {} PROVE FALSE
  OBVIOUS
<1>2. PICK i \in Bad : \A j \in Bad : j <= i
  <2>1. Bad \subseteq 1..n + 1 /\ n + 1 \in Nat
    OBVIOUS
  <2> HIDE DEF Bad
  <2> QED
    BY <1>1, <2>1, Latest
<1>3. \A j \in i + 1..n + 1 : q[j] = r[j]
  <2>1. \A j \in i + 1..n + 1 : j \in 1..n + 1 /\ ~(j <= i)
    OBVIOUS
  <2> QED
    BY <1>2, <2>1
<1>4. q[i] = Goes(step, n, q, i) /\ r[i] = Goes(step, n, r, i)
  BY DEF Walk
<1>5. Goes(step, n, q, i) = Goes(step, n, r, i)
  <2>1. CASE i \in 1..n /\ step[i].ok
    <3>1. step[i].next \in i + 1..n + 1
      BY <2>1 DEF Steps
    <3> QED
      BY <1>3, <3>1 DEF Goes
  <2>2. CASE ~(i \in 1..n /\ step[i].ok)
    <3>1. i > n \/ ~step[i].ok
      BY <2>2
    <3> QED
      BY <3>1 DEF Goes
  <2> QED
    BY <2>1, <2>2
<1> QED
  BY <1>2, <1>4, <1>5

-----------------------------------------------------------------------------
(* What UTF-8 is read as is what it was written from                       *)

LEMMA Continues ==
    ASSUME NEW b \in Byte, b \div 64 = 2
    PROVE  b \in 128..191
<1>1. b = 64 * (b \div 64) + (b % 64) /\ b % 64 \in 0..63
  BY SMTT(30) DEF Byte
<1> QED
  BY SMTT(30), <1>1 DEF Byte

(* c is p and the six bits of b.                                           *)
With(c, p, b) == c \in Nat /\ c \div 64 = p /\ Follow(c) = b /\ 64 * p <= c /\ c <= 64 * p + 63

(* Six bits that Shifted has put there are taken off again by Follow.      *)
LEMMA TakeOff == ASSUME NEW p \in Nat, NEW b \in 128..191 PROVE With(Shifted(p, b), p, b)
<1>1. b % 64 = b - 128
  BY SMTT(30)
<1> DEFINE c == Shifted(p, b)
<1>2. c = p * 64 + (b - 128)
  BY <1>1 DEF Shifted
<1> HIDE DEF c
<1>3. c \in Nat /\ c \div 64 = p /\ c % 64 = b - 128 /\ 64 * p <= c /\ c <= 64 * p + 63
  BY SMTT(30), <1>2
<1>4. Follow(c) = b
  BY SMTT(30), <1>3 DEF Follow
<1> QED
  BY <1>3, <1>4 DEF With, c

LEMMA TwelveBits ==
    ASSUME NEW c \in Nat, NEW e \in Nat, c \div 64 = e
    PROVE  c \div 4096 = e \div 64
BY SMTT(30)

LEMMA EighteenBits ==
    ASSUME NEW c \in Nat, NEW g \in Nat, NEW e \in Nat, c \div 64 = g, g \div 64 = e
    PROVE  c \div 262144 = e \div 64
<1>1. c \div 4096 = e
  BY TwelveBits
<1> QED
  BY SMTT(30), <1>1

LEMMA FirstIs ==
    ASSUME NEW a \in Byte
    PROVE  \/ a <= 127 /\ First(a) = [bits |-> a, least |-> 0, follow |-> 0]
           \/ a \in 194..223 /\ First(a) = [bits |-> a - 192, least |-> 128, follow |-> 1]
           \/ a \in 224..239 /\ First(a) = [bits |-> a - 224, least |-> 2048, follow |-> 2]
           \/ a \in 240..244 /\ First(a) = [bits |-> a - 240, least |-> 65536, follow |-> 3]
           \/ a \in 128..193 \cup 245..255 /\ First(a).follow = 4
<1>1. CASE a <= 127
  BY SMTT(30), <1>1 DEF First
<1>2. CASE a \in 194..223
  <2>1. a % 32 = a - 192 /\ ~(a <= 127)
    BY SMTT(30), <1>2
  <2> QED
    BY SMTT(30), <1>2, <2>1 DEF First
<1>3. CASE a \in 224..239
  <2>1. a % 16 = a - 224 /\ ~(a <= 127) /\ a \notin 194..223
    BY SMTT(30), <1>3
  <2> QED
    BY SMTT(30), <1>3, <2>1 DEF First
<1>4. CASE a \in 240..244
  <2>1. a % 8 = a - 240 /\ ~(a <= 127) /\ a \notin 194..223 /\ a \notin 224..239
    BY SMTT(30), <1>4
  <2> QED
    BY SMTT(30), <1>4, <2>1 DEF First
<1>5. CASE a \in 128..193 \cup 245..255
  <2>1. ~(a <= 127) /\ a \notin 194..223 /\ a \notin 224..239 /\ a \notin 240..244
    BY SMTT(30), <1>5
  <2> QED
    BY SMTT(30), <1>5, <2>1 DEF First
<1>6. a <= 127 \/ a \in 194..223 \/ a \in 224..239 \/ a \in 240..244 \/ a \in 128..193 \cup 245..255
  BY SMTT(30) DEF Byte
<1> QED
  BY SMTT(30), <1>1, <1>2, <1>3, <1>4, <1>5, <1>6

(* What a code point is made of, for each number of bytes.                 *)
LEMMA Written ==
    ASSUME NEW c \in Nat
    PROVE  /\ c <= 127 => AppendUtf8(c) = <<c>>
           /\ c > 127 /\ c <= 2047 => AppendUtf8(c) = <<192 + c \div 64, Follow(c)>>
           /\ c > 2047 /\ c <= 65535 =>
                AppendUtf8(c) = <<224 + c \div 4096, Follow(c \div 64), Follow(c)>>
           /\ c > 65535 =>
                AppendUtf8(c) = <<240 + c \div 262144, Follow(c \div 4096), Follow(c \div 64), Follow(c)>>
BY SMTT(30) DEF AppendUtf8

(* c is written as the bytes s.                                            *)
Makes(c, s) == c \in Nat /\ AppendUtf8(c) = s

LEMMA One ==
    ASSUME NEW a \in 0..127, NEW s, s = <<a>>
    PROVE  Makes(a, s)
BY SMTT(30), Written DEF Makes

LEMMA Two ==
    ASSUME NEW a \in 194..223, NEW b \in 128..191, NEW c, c = Shifted(a - 192, b),
           NEW s, s = <<a, b>>
    PROVE  Makes(c, s)
<1> DEFINE p == a - 192
<1>1. p \in Nat /\ 2 <= p /\ p <= 31 /\ 192 + p = a
  BY SMTT(30)
<1> HIDE DEF p
<1>2. c = Shifted(p, b)
  BY DEF p
<1>t. With(c, p, b)
  BY ZenonT(60), <1>1, <1>2, TakeOff
<1>3. c \in Nat /\ c \div 64 = p /\ Follow(c) = b /\ 64 * p <= c /\ c <= 64 * p + 63
  BY Zenon, <1>t DEF With
<1>4. c > 127 /\ c <= 2047
  BY SMTT(30), <1>1, <1>3
<1>5. AppendUtf8(c) = <<192 + c \div 64, Follow(c)>>
  BY <1>3, <1>4, Written
<1> QED
  BY <1>1, <1>3, <1>5 DEF Makes

(* The least code points of three and of four bytes.                       *)
Third(c)  == 2048 <= c

Fourth(c) == 65536 <= c

LEMMA Three ==
    ASSUME NEW a \in 224..239, NEW b \in 128..191, NEW d \in 128..191,
           NEW c, c = Shifted(Shifted(a - 224, b), d), Third(c),
           NEW s, s = <<a, b, d>>
    PROVE  Makes(c, s)
<1> DEFINE p == a - 224
           e == Shifted(p, b)
<1>1. p \in Nat /\ p <= 15 /\ 224 + p = a
  BY SMTT(30)
<1>2. e = Shifted(p, b) /\ c = Shifted(e, d)
  OBVIOUS
<1> HIDE DEF p, e
<1>t. With(e, p, b)
  BY SMTT(30), <1>1, <1>2, TakeOff
<1>3. e \in Nat /\ e \div 64 = p /\ Follow(e) = b /\ e <= 64 * p + 63
  BY SMTT(30), <1>t DEF With
<1>u. With(c, e, d)
  BY SMTT(30), <1>2, <1>3, TakeOff
<1>4. c \in Nat /\ c \div 64 = e /\ Follow(c) = d /\ c <= 64 * e + 63
  BY SMTT(30), <1>u DEF With
<1>5. c > 2047 /\ c <= 65535
  BY SMTT(30), <1>1, <1>3, <1>4 DEF Third
<1>6. c \div 4096 = p
  <2>1. c \div 4096 = e \div 64
    BY SMTT(30), <1>3, <1>4, TwelveBits
  <2> QED
    BY SMTT(30), <1>3, <2>1
<1>7. AppendUtf8(c) = <<224 + c \div 4096, Follow(c \div 64), Follow(c)>>
  BY SMTT(30), <1>4, <1>5, Written
<1> QED
  BY SMTT(30), <1>1, <1>3, <1>4, <1>6, <1>7 DEF Makes

LEMMA Four ==
    ASSUME NEW a \in 240..244, NEW b \in 128..191, NEW d \in 128..191, NEW h \in 128..191,
           NEW c, c = Shifted(Shifted(Shifted(a - 240, b), d), h), Fourth(c),
           NEW s, s = <<a, b, d, h>>
    PROVE  Makes(c, s)
<1> DEFINE p == a - 240
           e == Shifted(p, b)
           g == Shifted(e, d)
<1>1. p \in Nat /\ 240 + p = a
  BY SMTT(30)
<1>2. e = Shifted(p, b) /\ g = Shifted(e, d) /\ c = Shifted(g, h)
  OBVIOUS
<1> HIDE DEF p, e, g
<1>t. With(e, p, b)
  BY SMTT(30), <1>1, <1>2, TakeOff
<1>3. e \in Nat /\ e \div 64 = p /\ Follow(e) = b
  BY SMTT(30), <1>t DEF With
<1>u. With(g, e, d)
  BY SMTT(30), <1>2, <1>3, TakeOff
<1>4. g \in Nat /\ g \div 64 = e /\ Follow(g) = d
  BY SMTT(30), <1>u DEF With
<1>v. With(c, g, h)
  BY SMTT(30), <1>2, <1>4, TakeOff
<1>5. c \in Nat /\ c \div 64 = g /\ Follow(c) = h
  BY SMTT(30), <1>v DEF With
<1>6. c > 65535
  BY SMTT(30), <1>5 DEF Fourth
<1>7. c \div 4096 = e
  <2>1. c \div 4096 = g \div 64
    BY SMTT(30), <1>4, <1>5, TwelveBits
  <2> QED
    BY SMTT(30), <1>4, <2>1
<1>8. c \div 262144 = p
  BY SMTT(30), <1>3, <1>4, <1>5, EighteenBits
<1>9. AppendUtf8(c) = <<240 + c \div 262144, Follow(c \div 4096), Follow(c \div 64), Follow(c)>>
  BY SMTT(30), <1>5, <1>6, Written
<1> QED
  BY SMTT(30), <1>1, <1>3, <1>4, <1>5, <1>7, <1>8, <1>9 DEF Makes

LEMMA HoldsThese ==
    ASSUME NEW text \in Seq(Byte), NEW i \in 1..Len(text), NEW c, NEW s \in Seq(Byte),
           Makes(c, s), i + Len(s) - 1 <= Len(text),
           \A k \in 1..Len(s) : text[i + k - 1] = s[k]
    PROVE  Holds(text, i, c)
BY DEF Holds, Makes

(* The reverse of ReadsWhatItWrites: what is read is what AppendUtf8 would *)
(* have written.                                                           *)
LEMMA WritesWhatItReads ==
    ASSUME NEW text \in Seq(Byte), NEW i \in 1..Len(text), DecodesAt(text, i)
    PROVE  /\ CodePointAt(text, i) \in Scalar
           /\ Holds(text, i, CodePointAt(text, i))
           /\ First(text[i]).follow + 1 = Len(AppendUtf8(CodePointAt(text, i)))
<1> DEFINE a == text[i]
           f == First(a)
           c == CodePointAt(text, i)
<1>1. /\ f.follow < 4 /\ i + f.follow <= Len(text)
      /\ \A k \in 1..f.follow : text[i + k] \div 64 = 2
      /\ f.least <= c /\ c <= MAX_UNICODE_CODE_POINT /\ ~IsHighSurrogate(c) /\ ~IsLowSurrogate(c)
  BY DEF DecodesAt
<1>2. a \in Byte /\ i \in Nat /\ Len(text) \in Nat /\ 1 <= i /\ i <= Len(text)
  OBVIOUS
<1>a. text[i] = a /\ c = CodePointAt(text, i) /\ f = First(a) /\ f = First(text[i])
  OBVIOUS
<1>3. ASSUME NEW k \in 1..f.follow, i + k \in 1..Len(text) PROVE text[i + k] \in 128..191 /\ text[i + k] \in Byte
  <2>1. text[i + k] \in Byte /\ text[i + k] \div 64 = 2
    BY <1>1, <1>3
  <2> QED
    BY <2>1, Continues
<1> HIDE DEF a, f, c
<1>s. SUFFICES c \in Nat /\ Holds(text, i, c) /\ f.follow + 1 = Len(AppendUtf8(c))
  <2>1. c \in Nat => c \in Scalar
    BY SMTT(30), <1>1, MaxIsNat DEF Scalar
  <2> QED
    BY <2>1, <1>a, <1>s
<1>4. CASE a <= 127 /\ f = [bits |-> a, least |-> 0, follow |-> 0]
  <2> DEFINE s == <<a>>
  <2>1. c = a /\ a \in 0..127
    BY SMTT(30), <1>2, <1>4, <1>a DEF CodePointAt, Byte
  <2>3. s = <<a>> /\ s \in Seq(Byte) /\ Len(s) = 1 /\ s[1] = a
    BY <1>2
  <2> HIDE DEF s
  <2>2. Makes(c, s)
    BY Zenon, <2>1, <2>3, One
  <2>4. i + 1 - 1 = i /\ i + Len(s) - 1 <= Len(text)
    BY <1>2, <2>3
  <2>5. \A k \in 1..Len(s) : text[i + k - 1] = s[k]
    BY <2>3, <2>4, <1>a
  <2>6. Holds(text, i, c)
    BY Zenon, <2>2, <2>3, <2>4, <2>5, <1>2, HoldsThese
  <2> QED
    BY SMTT(30), <1>4, <2>1, <2>2, <2>3, <2>6 DEF Makes
<1>5. CASE a \in 194..223 /\ f = [bits |-> a - 192, least |-> 128, follow |-> 1]
  <2> DEFINE b == text[i + 1]
             s == <<a, b>>
  <2>0. a \in 194..223
    BY SMTT(30), <1>5
  <2>1. f.follow = 1 /\ i + 1 \in 1..Len(text) /\ 1 \in 1..f.follow
    BY <1>1, <1>2, <1>5
  <2>2. b \in 128..191 /\ b \in Byte
    BY <1>3, <2>1
  <2>3. c = Shifted(a - 192, b)
    BY <1>5, <1>a DEF CodePointAt
  <2> HIDE DEF b
  <2>5. s = <<a, b>> /\ s \in Seq(Byte) /\ Len(s) = 2 /\ s[1] = a /\ s[2] = b
    BY <1>2, <2>2
  <2> HIDE DEF s
  <2>4. Makes(c, s)
    BY ZenonT(60), <2>0, <2>2, <2>3, <2>5, Two
  <2>6. i + 1 - 1 = i /\ i + 2 - 1 = i + 1 /\ \A k \in 1..2 : k = 1 \/ k = 2
    BY <1>2
  <2>9. i + Len(s) - 1 <= Len(text)
    BY <1>2, <2>1, <2>5
  <2>7. \A k \in 1..Len(s) : text[i + k - 1] = s[k]
    BY <2>5, <2>6, <1>a DEF b
  <2>8. Holds(text, i, c)
    BY Zenon, <2>1, <2>4, <2>5, <2>9, <2>7, HoldsThese
  <2> QED
    BY SMTT(30), <2>1, <2>4, <2>5, <2>8 DEF Makes
<1>6. CASE a \in 224..239 /\ f = [bits |-> a - 224, least |-> 2048, follow |-> 2]
  <2> DEFINE b == text[i + 1]
             d == text[i + 2]
             s == <<a, b, d>>
  <2>0. a \in 224..239
    BY SMTT(30), <1>6
  <2>1. /\ f.follow = 2 /\ f.least = 2048 /\ i + 1 \in 1..Len(text) /\ i + 2 \in 1..Len(text)
        /\ 1 \in 1..f.follow /\ 2 \in 1..f.follow
    BY <1>1, <1>2, <1>6
  <2>2. b \in 128..191 /\ b \in Byte /\ d \in 128..191 /\ d \in Byte
    BY <1>3, <2>1
  <2>3. c = Shifted(Shifted(a - 224, b), d) /\ Third(c)
    BY <1>1, <1>6, <1>a, <2>1 DEF CodePointAt, Third, Fourth
  <2> HIDE DEF b, d
  <2>5. s = <<a, b, d>> /\ s \in Seq(Byte) /\ Len(s) = 3 /\ s[1] = a /\ s[2] = b /\ s[3] = d
    BY <1>2, <2>2
  <2> HIDE DEF s
  <2>4. Makes(c, s)
    BY ZenonT(60), <2>0, <2>2, <2>3, <2>5, Three
  <2>6. /\ i + 1 - 1 = i /\ i + 2 - 1 = i + 1 /\ i + 3 - 1 = i + 2
        /\ \A k \in 1..3 : k = 1 \/ k = 2 \/ k = 3
    BY <1>2
  <2>9. i + Len(s) - 1 <= Len(text)
    BY <1>2, <2>1, <2>5
  <2>7. \A k \in 1..Len(s) : text[i + k - 1] = s[k]
    BY <2>5, <2>6, <1>a DEF b, d
  <2>8. Holds(text, i, c)
    BY Zenon, <2>4, <2>5, <2>9, <2>7, HoldsThese
  <2> QED
    BY SMTT(30), <2>1, <2>4, <2>5, <2>8 DEF Makes
<1>7. CASE a \in 240..244 /\ f = [bits |-> a - 240, least |-> 65536, follow |-> 3]
  <2> DEFINE b == text[i + 1]
             d == text[i + 2]
             h == text[i + 3]
             s == <<a, b, d, h>>
  <2>0. a \in 240..244
    BY SMTT(30), <1>7
  <2>1. /\ f.follow = 3 /\ f.least = 65536
        /\ i + 1 \in 1..Len(text) /\ i + 2 \in 1..Len(text) /\ i + 3 \in 1..Len(text)
        /\ 1 \in 1..f.follow /\ 2 \in 1..f.follow /\ 3 \in 1..f.follow
    BY <1>1, <1>2, <1>7
  <2>2. b \in 128..191 /\ b \in Byte /\ d \in 128..191 /\ d \in Byte /\ h \in 128..191 /\ h \in Byte
    BY <1>3, <2>1
  <2>3. c = Shifted(Shifted(Shifted(a - 240, b), d), h) /\ Fourth(c)
    BY <1>1, <1>7, <1>a, <2>1 DEF CodePointAt, Third, Fourth
  <2> HIDE DEF b, d, h
  <2>5. s = <<a, b, d, h>> /\ s \in Seq(Byte) /\ Len(s) = 4 /\ s[1] = a /\ s[2] = b /\ s[3] = d /\ s[4] = h
    BY <1>2, <2>2
  <2> HIDE DEF s
  <2>4. Makes(c, s)
    BY ZenonT(60), <2>0, <2>2, <2>3, <2>5, Four
  <2>6. /\ i + 1 - 1 = i /\ i + 2 - 1 = i + 1 /\ i + 3 - 1 = i + 2 /\ i + 4 - 1 = i + 3
        /\ \A k \in 1..4 : k = 1 \/ k = 2 \/ k = 3 \/ k = 4
    BY <1>2
  <2>9. i + Len(s) - 1 <= Len(text)
    BY <1>2, <2>1, <2>5
  <2>7. \A k \in 1..Len(s) : text[i + k - 1] = s[k]
    BY <2>5, <2>6, <1>a DEF b, d, h
  <2>8. Holds(text, i, c)
    BY Zenon, <2>4, <2>5, <2>9, <2>7, HoldsThese
  <2> QED
    BY SMTT(30), <2>1, <2>4, <2>5, <2>8 DEF Makes
<1>8. CASE f.follow = 4
  BY <1>1, <1>8
<1> QED
  <2>1. \/ a <= 127 /\ f = [bits |-> a, least |-> 0, follow |-> 0]
        \/ a \in 194..223 /\ f = [bits |-> a - 192, least |-> 128, follow |-> 1]
        \/ a \in 224..239 /\ f = [bits |-> a - 224, least |-> 2048, follow |-> 2]
        \/ a \in 240..244 /\ f = [bits |-> a - 240, least |-> 65536, follow |-> 3]
        \/ f.follow = 4
    BY <1>2, <1>a, FirstIs
  <2> QED
    BY <1>4, <1>5, <1>6, <1>7, <1>8, <2>1

-----------------------------------------------------------------------------
(* And what UTF-16 and UTF-32 are                                          *)

LEMMA ScalarIs ==
    ASSUME NEW c
    PROVE  /\ c \in Scalar => c \in Nat /\ c <= 1114111 /\ ~IsHighSurrogate(c) /\ ~IsLowSurrogate(c)
           /\ c \in Nat /\ c <= 1114111 /\ ~IsHighSurrogate(c) /\ ~IsLowSurrogate(c) => c \in Scalar
<1>1. c \in Scalar <=> c \in Nat /\ c <= MAX_UNICODE_CODE_POINT /\ ~IsHighSurrogate(c) /\ ~IsLowSurrogate(c)
  BY SMTT(30), MaxIsNat DEF Scalar
<1>2. ASSUME c \in Nat PROVE c <= MAX_UNICODE_CODE_POINT <=> c <= 1114111
  BY SMTT(30), <1>2 DEF MAX_UNICODE_CODE_POINT
<1> QED
  <2>1. ASSUME c \in Scalar PROVE c \in Nat /\ c <= 1114111
    BY SMTT(30), <1>1, <1>2, <2>1
  <2>2. ASSUME c \in Nat, c <= 1114111 PROVE c <= MAX_UNICODE_CODE_POINT
    BY SMTT(30), <1>2, <2>2
  <2> QED
    BY SMTT(30), <1>1, <2>1, <2>2

LEMMA Halves ==
    ASSUME NEW h \in Nat, h <= 1023, NEW l \in Nat, l <= 1023, NEW e, e = h * 1024 + l
    PROVE  e \in Nat /\ e <= 1048575 /\ e \div 1024 = h /\ e % 1024 = l
BY SMTT(30)

LEMMA BytesOf ==
    ASSUME NEW c \in Scalar
    PROVE  AppendUtf8(c) \in Seq(Byte) /\ Len(AppendUtf8(c)) \in 1..4
<1>1. c \in Nat /\ c <= 1114111
  BY SMTT(30), ScalarIs
<1>2. Follow(c) \in Byte /\ Follow(c \div 64) \in Byte /\ Follow(c \div 4096) \in Byte
  <2>1. \A d \in Nat : d % 64 \in 0..63
    BY SMTT(30)
  <2>2. \A d \in Nat : Follow(d) \in Byte
    BY SMTT(30), <2>1 DEF Follow, Byte
  <2> QED
    BY SMTT(30), <1>1, <2>2, SixBits
<1>3. CASE c <= 127
  <2>1. AppendUtf8(c) = <<c>> /\ c \in Byte
    BY SMTT(30), <1>1, <1>3, Written DEF Byte
  <2> QED
    BY <2>1
<1>4. CASE c > 127 /\ c <= 2047
  <2>1. AppendUtf8(c) = <<192 + c \div 64, Follow(c)>>
    BY SMTT(30), <1>1, <1>4, Written
  <2>2. 192 + c \div 64 \in Byte
    BY SMTT(30), <1>1, <1>4 DEF Byte
  <2> QED
    BY <1>2, <2>1, <2>2
<1>5. CASE c > 2047 /\ c <= 65535
  <2>1. AppendUtf8(c) = <<224 + c \div 4096, Follow(c \div 64), Follow(c)>>
    BY SMTT(30), <1>1, <1>5, Written
  <2>2. 224 + c \div 4096 \in Byte
    BY SMTT(30), <1>1, <1>5 DEF Byte
  <2> QED
    BY <1>2, <2>1, <2>2
<1>6. CASE c > 65535
  <2>1. AppendUtf8(c) = <<240 + c \div 262144, Follow(c \div 4096), Follow(c \div 64), Follow(c)>>
    BY SMTT(30), <1>1, <1>6, Written
  <2>2. 240 + c \div 262144 \in Byte
    BY SMTT(30), <1>1, <1>6 DEF Byte
  <2> QED
    BY <1>2, <2>1, <2>2
<1> QED
  BY SMTT(30), <1>1, <1>3, <1>4, <1>5, <1>6

(* What a wchar_t of that width can be.                                    *)
Unit(width) == {unit \in Nat : width = 2 => unit <= 65535}

LEMMA UnitsOf ==
    ASSUME NEW c \in Scalar, NEW width \in {2, 4}
    PROVE  Units(c, width) \in Seq(Unit(width)) /\ Len(Units(c, width)) \in 1..2
<1>1. c \in Nat /\ c <= 1114111
  BY SMTT(30), ScalarIs
<1>2. CASE width = 2 /\ c > 65535
  <2> DEFINE d == c - 65536
             h == 55296 + d \div 1024
             l == 56320 + (d % 1024)
  <2>1. d \in Nat /\ d <= 1048575
    BY SMTT(30), <1>1, <1>2
  <2>2. Units(c, width) = <<h, l>>
    BY SMTT(30), <1>2 DEF Units
  <2> HIDE DEF d
  <2>3. h \in Unit(width) /\ l \in Unit(width)
    <3>1. /\ d \div 1024 \in Nat /\ d \div 1024 <= 1023
          /\ d % 1024 \in Nat /\ d % 1024 <= 1023
      BY SMTT(30), <2>1, TenBits
    <3>2. h \in Nat /\ h <= 65535 /\ l \in Nat /\ l <= 65535
      BY SMTT(30), <3>1
    <3> HIDE DEF h, l
    <3> QED
      BY SMTT(30), <3>2 DEF Unit
  <2> HIDE DEF h, l
  <2> QED
    BY SMTT(30), <2>2, <2>3
<1>3. CASE ~(width = 2 /\ c > 65535)
  <2>1. Units(c, width) = <<c>>
    BY SMTT(30), <1>1, <1>3 DEF Units
  <2>2. c \in Unit(width)
    <3>1. width = 2 => c <= 65535
      BY SMTT(30), <1>1, <1>3
    <3> QED
      BY SMTT(30), <1>1, <3>1 DEF Unit
  <2> QED
    BY SMTT(30), <2>1, <2>2
<1> QED
  BY <1>2, <1>3

LEMMA SurrogateIs ==
    ASSUME NEW v \in Int
    PROVE  /\ IsHighSurrogate(v) <=> 55296 <= v /\ v <= 56319
           /\ IsLowSurrogate(v) <=> 56320 <= v /\ v <= 57343
BY SMTT(30) DEF IsHighSurrogate, IsLowSurrogate

LEMMA JoinedIs ==
    ASSUME NEW a \in Nat, IsHighSurrogate(a), NEW b \in Nat, IsLowSurrogate(b),
           NEW c, c = Joined(a, b)
    PROVE  c \in Scalar /\ Units(c, 2) = <<a, b>>
<1> DEFINE h == a - 55296
           l == b - 56320
           e == h * 1024 + l
<1>1. 55296 <= a /\ a <= 56319 /\ 56320 <= b /\ b <= 57343
  BY SMTT(30), SurrogateIs
<1>2. h \in Nat /\ h <= 1023 /\ l \in Nat /\ l <= 1023 /\ a = 55296 + h /\ b = 56320 + l
  BY SMTT(30), <1>1
<1>3. c = 65536 + (h * 1024 + l)
  BY SMTT(30), <1>1 DEF Joined
<1> HIDE DEF h, l
<1>4. e \in Nat /\ e <= 1048575 /\ e \div 1024 = h /\ e % 1024 = l
  BY SMTT(30), <1>2, Halves
<1>5. c = 65536 + e
  BY SMTT(30), <1>3
<1> HIDE DEF e
<1>6. c - 65536 = e /\ c > 65535 /\ c \in Nat /\ c <= 1114111
  BY SMTT(30), <1>4, <1>5
<1>7. c \in Scalar
  <2>1. ~IsHighSurrogate(c) /\ ~IsLowSurrogate(c)
    BY SMTT(30), <1>6, SurrogateIs
  <2> QED
    BY SMTT(30), <1>6, <2>1, ScalarIs
<1>8. Units(c, 2) = <<a, b>>
  <2>1. Units(c, 2) = <<55296 + (c - 65536) \div 1024, 56320 + ((c - 65536) % 1024)>>
    BY SMTT(30), <1>6 DEF Units
  <2> QED
    BY SMTT(30), <1>2, <1>4, <1>6, <2>1
<1> QED
  BY <1>7, <1>8

LEMMA SingleIs ==
    ASSUME NEW text, NEW i, NEW width \in {2, 4}, Single(text, i), NEW c, c = text[i], c \in Unit(width)
    PROVE  c \in Scalar /\ Units(c, width) = <<c>>
<1>1. c <= MAX_UNICODE_CODE_POINT /\ ~IsHighSurrogate(c) /\ ~IsLowSurrogate(c)
  BY Zenon DEF Single
<1>2. c \in Nat /\ ~(width = 2 /\ c > 65535)
  BY SMTT(30) DEF Unit
<1>3. c <= 1114111
  BY SMTT(30), <1>1, <1>2 DEF MAX_UNICODE_CODE_POINT
<1>4. c \in Scalar
  BY SMTT(30), <1>1, <1>2, <1>3, ScalarIs
<1> QED
  BY SMTT(30), <1>2, <1>4 DEF Units

LEMMA HoldsUnitsOf ==
    ASSUME NEW width, NEW text \in Seq(Nat), NEW i \in 1..Len(text), NEW c, NEW s \in Seq(Nat),
           Units(c, width) = s, i + Len(s) - 1 <= Len(text),
           \A k \in 1..Len(s) : text[i + k - 1] = s[k]
    PROVE  HoldsUnits(text, i, c, width)
BY DEF HoldsUnits

(* The reverse of ReadsUnitsAgain.                                         *)
LEMMA WritesUnitsAgain ==
    ASSUME NEW width \in {2, 4}, NEW text \in Seq(Unit(width)), NEW i \in 1..Len(text),
           NEW d, d = WideCodePoint(text, i, width), d.ok
    PROVE  /\ d.code_point \in Scalar
           /\ HoldsUnits(text, i, d.code_point, width)
           /\ d.units = Len(Units(d.code_point, width))
<1>1. text \in Seq(Nat) /\ text[i] \in Unit(width)
  BY DEF Unit
<1>2. CASE width = 2 /\ Pair(text, i)
  <2> DEFINE a == text[i]
             b == text[i + 1]
             c == d.code_point
             s == <<a, b>>
  <2>1. d = [ok |-> TRUE, units |-> 2, code_point |-> Joined(a, b)]
    BY <1>2 DEF WideCodePoint
  <2>2. c = Joined(a, b) /\ d.units = 2
    BY <2>1
  <2>3. IsHighSurrogate(a) /\ IsLowSurrogate(b) /\ i < Len(text) /\ i + 1 \in 1..Len(text)
    BY <1>2 DEF Pair
  <2>4. a \in Nat /\ b \in Nat
    <3>1. i \in 1..Len(text) /\ i + 1 \in 1..Len(text) /\ text \in Seq(Nat)
      BY <1>1, <2>3
    <3>2. \A j \in 1..Len(text) : text[j] \in Nat
      BY SMTT(30), <3>1
    <3> QED
      BY Zenon, <3>1, <3>2
  <2> HIDE DEF c
  <2>5. c \in Scalar /\ Units(c, width) = s
    BY Zenon, <1>2, <2>2, <2>3, <2>4, JoinedIs
  <2>6. i + 1 - 1 = i /\ i + 2 - 1 = i + 1 /\ \A k \in 1..2 : k = 1 \/ k = 2
    OBVIOUS
  <2>7. s \in Seq(Nat) /\ Len(s) = 2 /\ s[1] = a /\ s[2] = b
    BY <2>4
  <2>8. i + Len(s) - 1 <= Len(text) /\ \A k \in 1..Len(s) : text[i + k - 1] = s[k]
    BY <2>3, <2>6, <2>7
  <2> HIDE DEF s
  <2>9. HoldsUnits(text, i, c, width)
    BY Zenon, <1>1, <2>5, <2>7, <2>8, HoldsUnitsOf
  <2> QED
    BY <2>2, <2>5, <2>7, <2>9 DEF c
<1>3. CASE ~(width = 2 /\ Pair(text, i))
  <2> DEFINE c == d.code_point
             s == <<c>>
  <2>1. Single(text, i) /\ d = [ok |-> TRUE, units |-> 1, code_point |-> text[i]]
    BY <1>3 DEF WideCodePoint
  <2>2. c = text[i] /\ d.units = 1 /\ c \in Unit(width)
    BY <1>1, <2>1
  <2> HIDE DEF c
  <2>3. c \in Scalar /\ Units(c, width) = s
    BY SMTT(30), <2>1, <2>2, SingleIs
  <2>4. i + 1 - 1 = i /\ \A k \in 1..1 : k = 1
    OBVIOUS
  <2>5. s \in Seq(Nat) /\ Len(s) = 1 /\ s[1] = c
    BY <2>2 DEF Unit
  <2>6. i + Len(s) - 1 <= Len(text) /\ \A k \in 1..Len(s) : text[i + k - 1] = s[k]
    BY <2>2, <2>4, <2>5
  <2> HIDE DEF s
  <2>7. HoldsUnits(text, i, c, width)
    BY Zenon, <1>1, <2>3, <2>5, <2>6, HoldsUnitsOf
  <2> QED
    BY <2>2, <2>3, <2>5, <2>7 DEF c
<1> QED
  BY <1>2, <1>3

-----------------------------------------------------------------------------
(* The steps of the conversions                                            *)

(* The steps of both conversions, and of reading the code points.          *)
WideStep(text, width) ==
    [i \in 1..Len(text) |->
        LET d == DecodeUtf8CodePoint(text, i) IN
        [ok |-> d.ok, text |-> IF d.ok THEN Units(d.code_point, width) ELSE <<>>, next |-> d.next]]

ReadStep(text) ==
    [i \in 1..Len(text) |->
        LET d == DecodeUtf8CodePoint(text, i) IN
        [ok |-> d.ok, text |-> IF d.ok THEN <<d.code_point>> ELSE <<>>, next |-> d.next]]

NarrowStep(text, width) ==
    [i \in 1..Len(text) |->
        LET d == WideCodePoint(text, i, width) IN
        [ok |-> d.ok, text |-> IF d.ok THEN AppendUtf8(d.code_point) ELSE <<>>, next |-> i + d.units]]

LEMMA Decodes ==
    ASSUME NEW text \in Seq(Byte), NEW i \in 1..Len(text), NEW d, d = DecodeUtf8CodePoint(text, i)
    PROVE  /\ d.ok \in BOOLEAN /\ d.next \in Nat
           /\ d.ok <=> DecodesAt(text, i)
           /\ d.ok => /\ d.code_point = CodePointAt(text, i) /\ d.code_point \in Scalar
                      /\ Holds(text, i, d.code_point)
                      /\ d.next = i + Len(AppendUtf8(d.code_point))
                      /\ d.next \in i + 1..Len(text) + 1
<1>1. CASE DecodesAt(text, i)
  <2> DEFINE c == CodePointAt(text, i)
             follow == First(text[i]).follow
             n == Len(AppendUtf8(c))
  <2>1. d = [ok |-> TRUE, code_point |-> c, next |-> i + follow + 1]
    BY <1>1 DEF DecodeUtf8CodePoint
  <2>2. c \in Scalar /\ Holds(text, i, c) /\ follow + 1 = n
    BY Zenon, <1>1, WritesWhatItReads
  <2>3. n \in 1..4
    BY <2>2, BytesOf
  <2>4. i + n - 1 <= Len(text)
    BY <2>2 DEF Holds
  <2> HIDE DEF c
  <2>5. follow \in 0..3
    <3>1. follow = 0 \/ follow = 1 \/ follow = 2 \/ follow = 3 \/ follow = 4
      BY SMTT(30) DEF First
    <3> HIDE DEF follow, n
    <3> QED
      BY <2>2, <2>3, <3>1
  <2> HIDE DEF follow, n
  <2>6. i + follow + 1 = i + n /\ i + n \in i + 1..Len(text) + 1 /\ i + n \in Nat
    BY <2>2, <2>3, <2>4, <2>5
  <2>7. d.ok = TRUE /\ d.code_point = c /\ d.next = i + n
    BY <2>1, <2>6
  <2> QED
    BY <1>1, <2>2, <2>6, <2>7 DEF c, n
<1>2. CASE ~DecodesAt(text, i)
  <2>1. d = [ok |-> FALSE, code_point |-> 0, next |-> Len(text) + 1]
    BY <1>2 DEF DecodeUtf8CodePoint
  <2>2. d.ok = FALSE /\ d.next = Len(text) + 1 /\ Len(text) + 1 \in Nat
    BY <2>1
  <2> QED
    BY <1>2, <2>2
<1> QED
  BY <1>1, <1>2

LEMMA WideSteps ==
    ASSUME NEW text \in Seq(Byte), NEW width \in {2, 4}
    PROVE  Steps(WideStep(text, width), Len(text), Unit(width))
<1> DEFINE step == WideStep(text, width)
<1>1. ASSUME NEW i \in 1..Len(text)
      PROVE  /\ step[i] \in [ok : BOOLEAN, text : Seq(Unit(width)), next : Nat]
             /\ step[i].ok => step[i].next \in i + 1..Len(text) + 1
  <2> DEFINE d == DecodeUtf8CodePoint(text, i)
             out == IF d.ok THEN Units(d.code_point, width) ELSE <<>>
  <2>1. step[i] = [ok |-> d.ok, text |-> out, next |-> d.next]
    BY DEF WideStep
  <2>2. /\ d.ok \in BOOLEAN /\ d.next \in Nat
        /\ d.ok => d.code_point \in Scalar /\ d.next \in i + 1..Len(text) + 1
    BY Decodes
  <2> HIDE DEF d
  <2>3. out \in Seq(Unit(width))
    BY <2>2, UnitsOf
  <2> HIDE DEF out, step
  <2> QED
    BY <2>1, <2>2, <2>3
<1>2. step = [i \in 1..Len(text) |-> step[i]]
  BY DEF WideStep
<1> HIDE DEF step
<1>3. step \in [1..Len(text) -> [ok : BOOLEAN, text : Seq(Unit(width)), next : Nat]]
  BY <1>1, <1>2
<1>4. Steps(step, Len(text), Unit(width))
  BY <1>1, <1>3 DEF Steps
<1> QED
  BY <1>4 DEF step

LEMMA ReadSteps ==
    ASSUME NEW text \in Seq(Byte)
    PROVE  Steps(ReadStep(text), Len(text), Scalar)
<1> DEFINE step == ReadStep(text)
<1>1. ASSUME NEW i \in 1..Len(text)
      PROVE  /\ step[i] \in [ok : BOOLEAN, text : Seq(Scalar), next : Nat]
             /\ step[i].ok => step[i].next \in i + 1..Len(text) + 1
  <2> DEFINE d == DecodeUtf8CodePoint(text, i)
             out == IF d.ok THEN <<d.code_point>> ELSE <<>>
  <2>1. step[i] = [ok |-> d.ok, text |-> out, next |-> d.next]
    BY DEF ReadStep
  <2>2. /\ d.ok \in BOOLEAN /\ d.next \in Nat
        /\ d.ok => d.code_point \in Scalar /\ d.next \in i + 1..Len(text) + 1
    BY Decodes
  <2> HIDE DEF d
  <2>3. out \in Seq(Scalar)
    BY <2>2
  <2> HIDE DEF out, step
  <2> QED
    BY <2>1, <2>2, <2>3
<1>2. step = [i \in 1..Len(text) |-> step[i]]
  BY DEF ReadStep
<1> HIDE DEF step
<1>3. step \in [1..Len(text) -> [ok : BOOLEAN, text : Seq(Scalar), next : Nat]]
  BY <1>1, <1>2
<1>4. Steps(step, Len(text), Scalar)
  BY <1>1, <1>3 DEF Steps
<1> QED
  BY <1>4 DEF step

LEMMA WideReads ==
    ASSUME NEW width \in {2, 4}, NEW text \in Seq(Unit(width)), NEW i \in 1..Len(text),
           NEW d, d = WideCodePoint(text, i, width)
    PROVE  /\ d.ok \in BOOLEAN /\ d.units \in 1..2
           /\ d.ok => /\ d.code_point \in Scalar
                      /\ HoldsUnits(text, i, d.code_point, width)
                      /\ d.units = Len(Units(d.code_point, width))
                      /\ i + d.units \in i + 1..Len(text) + 1
<1>1. d.ok \in BOOLEAN /\ d.units \in 1..2
  <2>1. CASE width = 2 /\ Pair(text, i)
    <3>1. d = [ok |-> TRUE, units |-> 2, code_point |-> Joined(text[i], text[i + 1])]
      BY <2>1 DEF WideCodePoint
    <3> QED
      BY <3>1
  <2>2. CASE ~(width = 2 /\ Pair(text, i)) /\ Single(text, i)
    <3>1. d = [ok |-> TRUE, units |-> 1, code_point |-> text[i]]
      BY <2>2 DEF WideCodePoint
    <3> QED
      BY <3>1
  <2>3. CASE ~(width = 2 /\ Pair(text, i)) /\ ~Single(text, i)
    <3>1. d = [ok |-> FALSE, units |-> 1, code_point |-> 0]
      BY <2>3 DEF WideCodePoint
    <3> QED
      BY <3>1
  <2> QED
    BY <2>1, <2>2, <2>3
<1>2. ASSUME d.ok
      PROVE  /\ d.code_point \in Scalar
             /\ HoldsUnits(text, i, d.code_point, width)
             /\ d.units = Len(Units(d.code_point, width))
  BY <1>2, WritesUnitsAgain
<1>3. ASSUME d.ok PROVE i + d.units \in i + 1..Len(text) + 1
  <2>1. i + Len(Units(d.code_point, width)) - 1 <= Len(text)
    BY <1>2, <1>3 DEF HoldsUnits
  <2> DEFINE n == Len(Units(d.code_point, width))
  <2>2. d.units = n
    BY <1>2, <1>3
  <2>3. i + n - 1 <= Len(text)
    BY <2>1
  <2> HIDE DEF n
  <2> QED
    BY <1>1, <2>2, <2>3
<1> QED
  BY <1>1, <1>2, <1>3

LEMMA NarrowSteps ==
    ASSUME NEW width \in {2, 4}, NEW text \in Seq(Unit(width))
    PROVE  Steps(NarrowStep(text, width), Len(text), Byte)
<1> DEFINE step == NarrowStep(text, width)
<1>1. ASSUME NEW i \in 1..Len(text)
      PROVE  /\ step[i] \in [ok : BOOLEAN, text : Seq(Byte), next : Nat]
             /\ step[i].ok => step[i].next \in i + 1..Len(text) + 1
  <2> DEFINE d == WideCodePoint(text, i, width)
             out == IF d.ok THEN AppendUtf8(d.code_point) ELSE <<>>
  <2>1. step[i] = [ok |-> d.ok, text |-> out, next |-> i + d.units]
    BY DEF NarrowStep
  <2>2. /\ d.ok \in BOOLEAN /\ d.units \in 1..2
        /\ d.ok => d.code_point \in Scalar /\ i + d.units \in i + 1..Len(text) + 1
    BY WideReads
  <2> HIDE DEF d
  <2>3. out \in Seq(Byte)
    BY <2>2, BytesOf
  <2>4. i + d.units \in Nat
    BY <2>2
  <2> HIDE DEF out, step
  <2> QED
    BY <2>1, <2>2, <2>3, <2>4
<1>2. step = [i \in 1..Len(text) |-> step[i]]
  BY DEF NarrowStep
<1> HIDE DEF step
<1>3. step \in [1..Len(text) -> [ok : BOOLEAN, text : Seq(Byte), next : Nat]]
  BY <1>1, <1>2
<1>4. Steps(step, Len(text), Byte)
  BY <1>1, <1>3 DEF Steps
<1> QED
  BY <1>4 DEF step

LEMMA WideWalk ==
    ASSUME NEW text \in Seq(Byte), NEW width \in {2, 4}, NEW r,
           Walk(WideStep(text, width), Len(text), Unit(width), r, 1)
    PROVE  StringToWString(text, width) = r[1].text
<1> DEFINE n == Len(text)
           step == WideStep(text, width)
           At(f, i) == IF i > n THEN [ok |-> TRUE, text |-> <<>>]
                       ELSE LET d == DecodeUtf8CodePoint(text, i) IN
                            IF d.ok THEN Ahead(Units(d.code_point, width), f[d.next]) ELSE Failed
           Body(f) == [i \in 1..n + 1 |-> At(f, i)]
           R == CHOOSE f : f = Body(f)
<1>1. StringToWString(text, width) = R[1].text
  BY DEF StringToWString
<1>2. ASSUME NEW f, NEW i \in 1..n + 1 PROVE At(f, i) = Goes(step, n, f, i)
  <2>1. CASE i > n
    BY <2>1 DEF Goes, Done
  <2>2. CASE ~(i > n)
    <3>1. i \in 1..Len(text)
      BY <2>2
    <3> DEFINE d == DecodeUtf8CodePoint(text, i)
    <3>2. step[i] = [ok |-> d.ok, text |-> IF d.ok THEN Units(d.code_point, width) ELSE <<>>, next |-> d.next]
      BY <3>1 DEF WideStep
    <3>3. At(f, i) = IF d.ok THEN Ahead(Units(d.code_point, width), f[d.next]) ELSE Failed
      BY <2>2
    <3>4. Goes(step, n, f, i) = IF step[i].ok THEN Ahead(step[i].text, f[step[i].next]) ELSE Failed
      BY <2>2 DEF Goes
    <3> HIDE DEF d, step, At
    <3> QED
      BY <3>2, <3>3, <3>4
  <2> QED
    BY <2>1, <2>2
<1>3. r = Body(r)
  <2>1. r = [i \in 1..n + 1 |-> r[i]] /\ \A i \in 1..n + 1 : r[i] = Goes(step, n, r, i)
    BY DEF Walk
  <2>2. \A i \in 1..n + 1 : r[i] = At(r, i)
    BY <1>2, <2>1
  <2> HIDE DEF At, step
  <2> QED
    BY <2>1, <2>2
<1>4. R = Body(R)
  BY Zenon, <1>3
<1> HIDE DEF R
<1>5. \A i \in 1..n + 1 : R[i] = Goes(step, n, R, i)
  <2>1. \A i \in 1..n + 1 : Body(R)[i] = At(R, i)
    BY Zenon
  <2> HIDE DEF Body, At
  <2> QED
    BY Zenon, <1>2, <1>4, <2>1
<1>6. Steps(step, n, Unit(width)) /\ n \in Nat /\ Walk(step, n, Unit(width), r, 1)
  BY WideSteps
<1>7. 1 \in 1..n + 1
  BY <1>6
<1> DEFINE T == Unit(width)
<1> HIDE DEF step, n, At, Body, T
<1>8. \A i \in 1..n + 1 : R[i] = r[i]
  <2>1. Steps(step, n, T) /\ Walk(step, n, T, r, 1)
    BY Zenon, <1>6 DEF T
  <2> QED
    BY SMTT(30), <1>5, <1>6, <2>1, WalkOnly
<1> QED
  BY Zenon, <1>1, <1>7, <1>8

LEMMA NarrowWalk ==
    ASSUME NEW width \in {2, 4}, NEW text \in Seq(Unit(width)), NEW r,
           Walk(NarrowStep(text, width), Len(text), Byte, r, 1)
    PROVE  WStringToString(text, width) = r[1].text
<1> DEFINE n == Len(text)
           step == NarrowStep(text, width)
           At(f, i) == IF i > n THEN [ok |-> TRUE, text |-> <<>>]
                       ELSE LET d == WideCodePoint(text, i, width) IN
                            IF d.ok THEN Ahead(AppendUtf8(d.code_point), f[i + d.units]) ELSE Failed
           Body(f) == [i \in 1..n + 1 |-> At(f, i)]
           R == CHOOSE f : f = Body(f)
<1>1. WStringToString(text, width) = R[1].text
  BY DEF WStringToString
<1>2. ASSUME NEW f, NEW i \in 1..n + 1 PROVE At(f, i) = Goes(step, n, f, i)
  <2>1. CASE i > n
    BY <2>1 DEF Goes, Done
  <2>2. CASE ~(i > n)
    <3>1. i \in 1..Len(text)
      BY <2>2
    <3> DEFINE d == WideCodePoint(text, i, width)
    <3>2. step[i] = [ok |-> d.ok, text |-> IF d.ok THEN AppendUtf8(d.code_point) ELSE <<>>, next |-> i + d.units]
      BY <3>1 DEF NarrowStep
    <3>3. At(f, i) = IF d.ok THEN Ahead(AppendUtf8(d.code_point), f[i + d.units]) ELSE Failed
      BY <2>2
    <3>4. Goes(step, n, f, i) = IF step[i].ok THEN Ahead(step[i].text, f[step[i].next]) ELSE Failed
      BY <2>2 DEF Goes
    <3> HIDE DEF d, step, At
    <3> QED
      BY <3>2, <3>3, <3>4
  <2> QED
    BY <2>1, <2>2
<1>3. r = Body(r)
  <2>1. r = [i \in 1..n + 1 |-> r[i]] /\ \A i \in 1..n + 1 : r[i] = Goes(step, n, r, i)
    BY DEF Walk
  <2>2. \A i \in 1..n + 1 : r[i] = At(r, i)
    BY <1>2, <2>1
  <2> HIDE DEF At, step
  <2> QED
    BY <2>1, <2>2
<1>4. R = Body(R)
  BY Zenon, <1>3
<1> HIDE DEF R
<1>5. \A i \in 1..n + 1 : R[i] = Goes(step, n, R, i)
  <2>1. \A i \in 1..n + 1 : Body(R)[i] = At(R, i)
    BY Zenon
  <2> HIDE DEF Body, At
  <2> QED
    BY Zenon, <1>2, <1>4, <2>1
<1>6. Steps(step, n, Byte) /\ n \in Nat /\ Walk(step, n, Byte, r, 1)
  BY NarrowSteps
<1>7. 1 \in 1..n + 1
  BY <1>6
<1> DEFINE T == Byte
<1> HIDE DEF step, n, At, Body, T
<1>8. \A i \in 1..n + 1 : R[i] = r[i]
  <2>1. Steps(step, n, T) /\ Walk(step, n, T, r, 1)
    BY Zenon, <1>6 DEF T
  <2> QED
    BY SMTT(30), <1>5, <1>6, <2>1, WalkOnly
<1> QED
  BY Zenon, <1>1, <1>7, <1>8

-----------------------------------------------------------------------------
(* Two conversions that undo each other                                    *)

(* The sequence s is in x from i on.                                       *)
Has(x, i, s) ==
    /\ i + Len(s) - 1 <= Len(x)
    /\ \A k \in 1..Len(s) : x[i + k - 1] = s[k]

Rest(x, i) == SubSeq(x, i, Len(x))

LEMMA RestIs ==
    ASSUME NEW S, NEW x \in Seq(S), NEW i \in 1..Len(x) + 1
    PROVE  /\ Rest(x, i) \in Seq(S) /\ Len(Rest(x, i)) = Len(x) - i + 1
           /\ \A k \in 1..Len(x) - i + 1 : Rest(x, i)[k] = x[i + k - 1]
BY DEF Rest

LEMMA SeqEqual ==
    ASSUME NEW S, NEW a \in Seq(S), NEW b \in Seq(S), Len(a) = Len(b),
           \A k \in 1..Len(a) : a[k] = b[k]
    PROVE  a = b
OBVIOUS

(* The rest of x from i on is s, and t.                                    *)
Splits(x, i, s, t) ==
    /\ i \in 1..Len(x) /\ Has(x, i, s)
    /\ i + Len(s) \in 1..Len(x) + 1 /\ t = Rest(x, i + Len(s))

LEMMA RestSplit ==
    ASSUME NEW S, NEW x \in Seq(S), NEW i \in 1..Len(x) + 1,
           NEW s \in Seq(S), s # <<>>, NEW t \in Seq(S), s \o t = Rest(x, i)
    PROVE  Splits(x, i, s, t)
<1> DEFINE m == Len(s)
           n == Len(t)
           l == Len(x)
           u == s \o t
           j == i + m
<1>1. m \in Nat /\ n \in Nat /\ l \in Nat /\ m # 0 /\ i \in Nat /\ 1 <= i /\ i <= l + 1
  OBVIOUS
<1>2. /\ Len(u) = m + n
      /\ \A k \in 1..m : u[k] = s[k]
      /\ \A k \in 1..n : u[m + k] = t[k]
  BY Joins
<1>3. Len(u) = l - i + 1 /\ \A k \in 1..l - i + 1 : u[k] = x[i + k - 1]
  BY RestIs
<1> HIDE DEF u
<1>4. m + n = l - i + 1
  BY <1>2, <1>3
<1>5. Has(x, i, s)
  <2>1. i + m - 1 <= l
    BY <1>1, <1>4
  <2>2. \A k \in 1..m : k \in 1..l - i + 1
    BY <1>1, <1>4
  <2> QED
    BY <1>2, <1>3, <2>1, <2>2 DEF Has
<1>6. i \in 1..l /\ j \in 1..l + 1 /\ l - j + 1 = n
  BY <1>1, <1>4
<1>7. t = Rest(x, j)
  <2>1. /\ Rest(x, j) \in Seq(S) /\ Len(Rest(x, j)) = n
        /\ \A k \in 1..n : Rest(x, j)[k] = x[j + k - 1]
    <3> HIDE DEF j
    <3> QED
      BY <1>6, RestIs
  <2>2. \A k \in 1..n : m + k \in 1..l - i + 1 /\ i + (m + k) - 1 = j + k - 1
    BY <1>1, <1>4
  <2>3. \A k \in 1..n : t[k] = x[j + k - 1]
    BY <1>2, <1>3, <2>2
  <2> HIDE DEF j
  <2>4. \A k \in 1..n : t[k] = Rest(x, j)[k]
    BY <2>1, <2>3
  <2> QED
    BY <2>1, <2>4, SeqEqual
<1> QED
  BY <1>5, <1>6, <1>7 DEF Splits

LEMMA RestJoin ==
    ASSUME NEW S, NEW x \in Seq(S), NEW i \in 1..Len(x) + 1, NEW s \in Seq(S), Has(x, i, s)
    PROVE  i + Len(s) \in 1..Len(x) + 1 /\ s \o Rest(x, i + Len(s)) = Rest(x, i)
<1> DEFINE m == Len(s)
           l == Len(x)
           j == i + m
           t == Rest(x, j)
           u == s \o t
<1>1. m \in Nat /\ l \in Nat /\ i \in Nat /\ 1 <= i /\ i <= l + 1
  OBVIOUS
<1>2. i + m - 1 <= l /\ \A k \in 1..m : x[i + k - 1] = s[k]
  BY DEF Has
<1>3. j \in 1..l + 1
  BY <1>1, <1>2
<1>4. t \in Seq(S) /\ Len(t) = l - j + 1 /\ \A k \in 1..l - j + 1 : t[k] = x[j + k - 1]
  <2> HIDE DEF j
  <2> QED
    BY <1>3, RestIs
<1>5. u \in Seq(S) /\ Len(u) = m + Len(t) /\ (\A k \in 1..m : u[k] = s[k])
      /\ \A k \in 1..Len(t) : u[m + k] = t[k]
  <2> HIDE DEF t
  <2> QED
    BY <1>4, Joins
<1>6. /\ Rest(x, i) \in Seq(S) /\ Len(Rest(x, i)) = l - i + 1
      /\ \A k \in 1..l - i + 1 : Rest(x, i)[k] = x[i + k - 1]
  BY RestIs
<1> HIDE DEF u, t
<1>7. Len(u) = l - i + 1
  BY <1>1, <1>4, <1>5
<1>8. ASSUME NEW k \in 1..l - i + 1 PROVE u[k] = x[i + k - 1]
  <2>1. CASE k <= m
    <3>1. k \in 1..m
      BY <2>1
    <3> QED
      BY <1>2, <1>5, <3>1
  <2>2. CASE ~(k <= m)
    <3> DEFINE h == k - m
    <3>1. h \in 1..l - j + 1 /\ k = m + h /\ j + h - 1 = i + k - 1
      BY <1>1, <2>2
    <3> HIDE DEF h, j
    <3> QED
      BY <1>4, <1>5, <3>1
  <2> QED
    BY <2>1, <2>2
<1>9. u = Rest(x, i)
  BY <1>5, <1>6, <1>7, <1>8, SeqEqual
<1> QED
  BY <1>3, <1>9 DEF u, t

LEMMA RestEnd ==
    ASSUME NEW S, NEW x \in Seq(S), NEW i \in 1..Len(x) + 1
    PROVE  Rest(x, i) = <<>> <=> i = Len(x) + 1
<1> DEFINE n == Len(x)
<1>1. n \in Nat /\ i \in 1..n + 1
  OBVIOUS
<1>2. Rest(x, i) \in Seq(S) /\ Len(Rest(x, i)) = n - i + 1
  BY RestIs
<1> HIDE DEF n
<1>3. n - i + 1 = 0 <=> i = n + 1
  BY <1>1
<1>4. Rest(x, i) = <<>> <=> Len(Rest(x, i)) = 0
  BY <1>2
<1> QED
  BY <1>2, <1>3, <1>4 DEF n

LEMMA AheadOk ==
    ASSUME NEW S, NEW s, s \in Seq(S), NEW r, r \in Result(S)
    PROVE  /\ Ahead(s, r).ok => r.ok /\ Ahead(s, r).text = s \o r.text
           /\ r.ok => Ahead(s, r).ok /\ Ahead(s, r).text = s \o r.text
<1>1. Ahead(s, r).ok = r.ok /\ (r.ok => Ahead(s, r).text = s \o r.text)
  BY ZenonT(60), AheadType
<1> QED
  BY <1>1

(* A step of a walk whose result is the rest of y, and one that makes the  *)
(* rest of x.                                                              *)
LEMMA StepsOn ==
    ASSUME NEW T, NEW y \in Seq(T), NEW p \in 1..Len(y) + 1,
           NEW s \in Seq(T), s # <<>>, NEW rest \in Result(T),
           NEW u, u = Ahead(s, rest), u.ok, u.text = Rest(y, p)
    PROVE  /\ rest.ok /\ p \in 1..Len(y) /\ Has(y, p, s)
           /\ p + Len(s) \in 1..Len(y) + 1 /\ rest.text = Rest(y, p + Len(s))
<1>1. rest.ok /\ s \o rest.text = Rest(y, p)
  BY SMTT(30), AheadOk
<1>2. rest.text \in Seq(T)
  BY DEF Result
<1> QED
  <2> DEFINE t == rest.text
  <2>1. t \in Seq(T) /\ s \o t = Rest(y, p)
    BY <1>1, <1>2
  <2> HIDE DEF t
  <2>2. Splits(y, p, s, t)
    BY Zenon, <2>1, RestSplit
  <2> QED
    BY Zenon, <1>1, <2>2 DEF Splits, t

Leads(u, s, r) == u.ok /\ u.text = s \o r.text

LEMMA AheadLeads ==
    ASSUME NEW S, NEW s \in Seq(S), NEW r \in Result(S), r.ok
    PROVE  Leads(Ahead(s, r), s, r)
<1> DEFINE t == s \o r.text
<1> HIDE DEF t
<1>1. Ahead(s, r) = [ok |-> TRUE, text |-> t]
  BY Zenon DEF Ahead, t
<1>2. Ahead(s, r).ok /\ Ahead(s, r).text = t
  BY <1>1
<1> QED
  BY Zenon, <1>2 DEF Leads, t

LEMMA StepsBack ==
    ASSUME NEW S, NEW x \in Seq(S), NEW i \in 1..Len(x) + 1, NEW s \in Seq(S), Has(x, i, s),
           NEW rest \in Result(S), rest.ok, rest.text = Rest(x, i + Len(s)),
           NEW u, u = Ahead(s, rest)
    PROVE  u.ok /\ u.text = Rest(x, i)
<1>0. Leads(u, s, rest)
  BY Zenon, AheadLeads
<1>1. u.ok /\ u.text = s \o Rest(x, i + Len(s))
  BY Zenon, <1>0 DEF Leads
<1>2. s \o Rest(x, i + Len(s)) = Rest(x, i)
  BY Zenon, RestJoin
<1> QED
  BY Zenon, <1>1, <1>2

(* Two conversions, each of whose steps reads what a step of the other has *)
(* written, undo each other.                                               *)
(* A step a at i over x, and the step b at p which leads back from it.     *)
LeadsBack(a, i, x, b, p) ==
    /\ b.ok /\ b.next = p + Len(a.text)
    /\ Has(x, i, b.text) /\ a.next = i + Len(b.text)

(* Every step of a over x is led back from by the step of b where its text *)
(* is in y.                                                                *)
Reflects(a, x, b, y) ==
    /\ \A i \in 1..Len(x) : a[i].ok => a[i].text # <<>>
    /\ \A i \in 1..Len(x), p \in 1..Len(y) :
          a[i].ok /\ Has(y, p, a[i].text) => LeadsBack(a[i], i, x, b[p], p)

Reached(r, x, q, y) ==
    \A i \in 1..Len(x) + 1, p \in 1..Len(y) + 1 :
        r[i].ok /\ r[i].text = Rest(y, p) => q[p].ok /\ q[p].text = Rest(x, i)

LEMMA Mirror ==
    ASSUME NEW S, NEW T, NEW x \in Seq(S), NEW y \in Seq(T),
           NEW a, Steps(a, Len(x), T), NEW b, Steps(b, Len(y), S),
           Reflects(a, x, b, y), NEW r, Walk(a, Len(x), T, r, 1), NEW q, Walk(b, Len(y), S, q, 1)
    PROVE  Reached(r, x, q, y)
<1> DEFINE n == Len(x)
           m == Len(y)
           Good(i) == \A p \in 1..m + 1 :
                         r[i].ok /\ r[i].text = Rest(y, p) => q[p].ok /\ q[p].text = Rest(x, i)
           Bad == {i \in 1..n + 1 : ~Good(i)}
<1>0. /\ \A j \in 1..n : a[j].ok => a[j].text # <<>>
      /\ \A j \in 1..n, p \in 1..m : a[j].ok /\ Has(y, p, a[j].text) =>
            /\ b[p].ok /\ b[p].next = p + Len(a[j].text)
            /\ Has(x, j, b[p].text) /\ a[j].next = j + Len(b[p].text)
  BY DEF Reflects, LeadsBack
<1>1. SUFFICES ASSUME Bad # {} PROVE FALSE
  BY DEF Reached
<1>2. PICK i \in Bad : \A j \in Bad : j <= i
  <2>1. Bad \subseteq 1..n + 1 /\ n + 1 \in Nat
    OBVIOUS
  <2> HIDE DEF Bad
  <2> QED
    BY <1>1, <2>1, Latest
<1>3. i \in 1..n + 1 /\ \A j \in i + 1..n + 1 : Good(j)
  <2>1. \A j \in i + 1..n + 1 : j \in 1..n + 1 /\ ~(j <= i)
    OBVIOUS
  <2> HIDE DEF Good
  <2> QED
    BY <1>2, <2>1
<1>4. PICK p \in 1..m + 1 : r[i].ok /\ r[i].text = Rest(y, p) /\ ~(q[p].ok /\ q[p].text = Rest(x, i))
  BY <1>2
<1> HIDE DEF Bad
<1>5. r[i] = Goes(a, n, r, i) /\ q[p] = Goes(b, m, q, p)
  BY <1>3 DEF Walk
<1>6. n \in Nat /\ m \in Nat
  OBVIOUS
<1>7. CASE i = n + 1
  <2>1. r[i] = Done
    BY <1>5, <1>6, <1>7 DEF Goes
  <2>2. Rest(y, p) = <<>>
    BY <1>4, <2>1 DEF Done
  <2>3. p = m + 1
    BY <2>2, RestEnd
  <2>4. p > m
    BY <1>6, <2>3
  <2>5. q[p] = Done
    BY <1>5, <2>4 DEF Goes
  <2>7. Rest(x, i) = <<>>
    BY <1>3, <1>7, RestEnd
  <2> QED
    BY <1>4, <2>5, <2>7 DEF Done
<1>8. CASE i # n + 1
  <2>1. i \in 1..n /\ ~(i > n)
    BY <1>3, <1>6, <1>8
  <2>2. a[i].ok
    BY <1>4, <1>5, <2>1 DEF Goes, Failed
  <2> DEFINE s == a[i].text
             j == a[i].next
  <2>3. s \in Seq(T) /\ s # <<>> /\ j \in i + 1..n + 1
    BY <1>0, <2>1, <2>2 DEF Steps
  <2>4. r[i] = Ahead(s, r[j])
    BY <1>5, <2>1, <2>2 DEF Goes
  <2>5. r[j] \in Result(T)
    <3>1. j \in 1..n + 1
      BY <2>1, <2>3
    <3> QED
      BY <3>1 DEF Walk
  <2> DEFINE k == p + Len(s)
             u == r[i]
             rest == r[j]
  <2> HIDE DEF s, j
  <2>6. u = Ahead(s, rest) /\ u.ok /\ u.text = Rest(y, p) /\ rest \in Result(T)
    BY <1>4, <2>4, <2>5
  <2> HIDE DEF u, rest
  <2>7. /\ rest.ok /\ p \in 1..m /\ Has(y, p, s) /\ k \in 1..m + 1 /\ rest.text = Rest(y, k)
    BY SMTT(30), <2>3, <2>6, StepsOn
  <2>8. /\ r[j].ok /\ p \in 1..m /\ Has(y, p, s) /\ k \in 1..m + 1 /\ r[j].text = Rest(y, k)
    BY <2>7 DEF rest
  <2> HIDE DEF k
  <2>9. Good(j)
    BY <1>3, <2>3
  <2>10. q[k].ok /\ q[k].text = Rest(x, j)
    BY <2>8, <2>9
  <2> DEFINE v == b[p].text
  <2>11. b[p].ok /\ b[p].next = k /\ Has(x, i, v) /\ j = i + Len(v)
    <3>1. a[i].ok /\ Has(y, p, a[i].text)
      BY <2>2, <2>8 DEF s
    <3> QED
      BY <1>0, <2>1, <2>8, <3>1 DEF s, k, j
  <2>12. v \in Seq(S)
    BY <2>8 DEF Steps
  <2>13. q[p] = Ahead(v, q[k])
    <3>1. ~(p > m)
      BY <1>6, <2>8
    <3> QED
      BY <1>5, <2>11, <3>1 DEF Goes
  <2>14. q[k] \in Result(S)
    BY <2>8 DEF Walk
  <2> DEFINE w == q[p]
             back == q[k]
  <2>15. /\ v \in Seq(S) /\ Has(x, i, v) /\ back \in Result(S) /\ back.ok
         /\ back.text = Rest(x, i + Len(v)) /\ w = Ahead(v, back)
    BY <2>10, <2>11, <2>12, <2>13, <2>14
  <2> HIDE DEF v, w, back
  <2>16. w.ok /\ w.text = Rest(x, i)
    BY SMTT(30), <1>3, <2>15, StepsBack
  <2> QED
    BY <1>4, <2>16 DEF w
<1> QED
  BY <1>7, <1>8

LEMMA RestOfAll ==
    ASSUME NEW S, NEW x \in Seq(S)
    PROVE  Rest(x, 1) = x /\ 1 \in 1..Len(x) + 1
BY DEF Rest

LEMMA Mirrored ==
    ASSUME NEW S, NEW T, NEW x \in Seq(S), NEW y \in Seq(T),
           NEW a, Steps(a, Len(x), T), NEW b, Steps(b, Len(y), S), Reflects(a, x, b, y),
           NEW r, Walk(a, Len(x), T, r, 1), NEW q, Walk(b, Len(y), S, q, 1),
           r[1].ok, r[1].text = y
    PROVE  q[1].ok /\ q[1].text = x
<1>1. Reached(r, x, q, y)
  BY Zenon, Mirror
<1>2. Rest(y, 1) = y /\ 1 \in 1..Len(y) + 1 /\ Rest(x, 1) = x /\ 1 \in 1..Len(x) + 1
  BY RestOfAll
<1> QED
  BY Zenon, <1>1, <1>2 DEF Reached

-----------------------------------------------------------------------------
(* Tables 3-6 and 3-7 of the Unicode standard                              *)

(* Table 3-7 by the number of bytes.                                       *)
IsOne(a)   == a \in 0..127

IsTwo(a, b) == a \in 194..223 /\ b \in 128..191

IsThree(a, b, d) ==
    /\ a \in 224..239 /\ b \in 128..191 /\ d \in 128..191
    /\ (a = 224 => b >= 160) /\ (a = 237 => b <= 159)

IsFour(a, b, d, h) ==
    /\ a \in 240..244 /\ b \in 128..191 /\ d \in 128..191 /\ h \in 128..191
    /\ (a = 240 => b >= 144) /\ (a = 244 => b <= 143)

Fits(row, s) == Len(row) = Len(s) /\ \A i \in DOMAIN s : s[i] \in row[i]

(* The rows of the table.                                                  *)
Row1  == <<0..127>>
Row2  == <<194..223, Trailing>>

Row3a == <<{224}, 160..191, Trailing>>

Row3b == <<225..236, Trailing, Trailing>>

Row3c == <<{237}, 128..159, Trailing>>

Row3d == <<238..239, Trailing, Trailing>>

Row4a == <<{240}, 144..191, Trailing, Trailing>>

Row4b == <<241..243, Trailing, Trailing, Trailing>>

Row4c == <<{244}, 128..143, Trailing, Trailing>>

LEMMA Rows ==
    ASSUME NEW s
    PROVE  IsCharacter(s) <=>
               \/ Fits(Row1, s)
               \/ Fits(Row2, s)
               \/ Fits(Row3a, s)
               \/ Fits(Row3b, s)
               \/ Fits(Row3c, s)
               \/ Fits(Row3d, s)
               \/ Fits(Row4a, s)
               \/ Fits(Row4b, s)
               \/ Fits(Row4c, s)
<1>1. IsCharacter(s) <=> \E row \in WellFormedSequences : Fits(row, s)
  BY Zenon DEF IsCharacter, Fits
<1>2. WellFormedSequences = {Row1, Row2, Row3a, Row3b, Row3c, Row3d, Row4a, Row4b, Row4c}
  BY Zenon DEF WellFormedSequences, Row1, Row2, Row3a, Row3b, Row3c, Row3d, Row4a, Row4b, Row4c
<1> QED
  BY SMTT(30), <1>1, <1>2

LEMMA Fits1 ==
    ASSUME NEW row, Len(row) = 1, NEW a, NEW s, s = <<a>>
    PROVE  Fits(row, s) <=> a \in row[1]
<1>1. Len(s) = 1 /\ DOMAIN s = 1..1 /\ s[1] = a
  OBVIOUS
<1>2. \A i \in 1..1 : i = 1
  OBVIOUS
<1> QED
  BY <1>1, <1>2 DEF Fits

LEMMA Fits2 ==
    ASSUME NEW row, Len(row) = 2, NEW a, NEW b, NEW s, s = <<a, b>>
    PROVE  Fits(row, s) <=> a \in row[1] /\ b \in row[2]
<1>1. Len(s) = 2 /\ DOMAIN s = 1..2 /\ s[1] = a /\ s[2] = b
  OBVIOUS
<1>2. \A i \in 1..2 : i = 1 \/ i = 2
  OBVIOUS
<1> QED
  BY <1>1, <1>2 DEF Fits

LEMMA Fits3 ==
    ASSUME NEW row, Len(row) = 3, NEW a, NEW b, NEW d, NEW s, s = <<a, b, d>>
    PROVE  Fits(row, s) <=> a \in row[1] /\ b \in row[2] /\ d \in row[3]
<1>1. Len(s) = 3 /\ DOMAIN s = 1..3 /\ s[1] = a /\ s[2] = b /\ s[3] = d
  OBVIOUS
<1>2. \A i \in 1..3 : i = 1 \/ i = 2 \/ i = 3
  OBVIOUS
<1> QED
  BY <1>1, <1>2 DEF Fits

LEMMA Fits4 ==
    ASSUME NEW row, Len(row) = 4, NEW a, NEW b, NEW d, NEW h, NEW s, s = <<a, b, d, h>>
    PROVE  Fits(row, s) <=> a \in row[1] /\ b \in row[2] /\ d \in row[3] /\ h \in row[4]
<1>1. Len(s) = 4 /\ DOMAIN s = 1..4 /\ s[1] = a /\ s[2] = b /\ s[3] = d /\ s[4] = h
  OBVIOUS
<1>2. \A i \in 1..4 : i = 1 \/ i = 2 \/ i = 3 \/ i = 4
  OBVIOUS
<1> QED
  BY <1>1, <1>2 DEF Fits

(* Sequences of other lengths.                                             *)
LEMMA FitsNot ==
    ASSUME NEW s, NEW row, Len(row) # Len(s)
    PROVE  ~Fits(row, s)
BY DEF Fits

LEMMA RowLengths ==
    /\ Len(Row1) = 1 /\ Len(Row2) = 2
    /\ Len(Row3a) = 3 /\ Len(Row3b) = 3 /\ Len(Row3c) = 3 /\ Len(Row3d) = 3
    /\ Len(Row4a) = 4 /\ Len(Row4b) = 4 /\ Len(Row4c) = 4
BY DEF Row1, Row2, Row3a, Row3b, Row3c, Row3d, Row4a, Row4b, Row4c

LEMMA RowColumns ==
    /\ Row1[1] = 0..127
    /\ Row2[1] = 194..223 /\ Row2[2] = Trailing
    /\ Row3a[1] = {224} /\ Row3a[2] = 160..191 /\ Row3a[3] = Trailing
    /\ Row3b[1] = 225..236 /\ Row3b[2] = Trailing /\ Row3b[3] = Trailing
    /\ Row3c[1] = {237} /\ Row3c[2] = 128..159 /\ Row3c[3] = Trailing
    /\ Row3d[1] = 238..239 /\ Row3d[2] = Trailing /\ Row3d[3] = Trailing
    /\ Row4a[1] = {240} /\ Row4a[2] = 144..191 /\ Row4a[3] = Trailing /\ Row4a[4] = Trailing
    /\ Row4b[1] = 241..243 /\ Row4b[2] = Trailing /\ Row4b[3] = Trailing /\ Row4b[4] = Trailing
    /\ Row4c[1] = {244} /\ Row4c[2] = 128..143 /\ Row4c[3] = Trailing /\ Row4c[4] = Trailing
BY DEF Row1, Row2, Row3a, Row3b, Row3c, Row3d, Row4a, Row4b, Row4c

LEMMA RowsByLength ==
    ASSUME NEW s
    PROVE  /\ Len(s) = 1 => (IsCharacter(s) <=> Fits(Row1, s))
           /\ Len(s) = 2 => (IsCharacter(s) <=> Fits(Row2, s))
           /\ Len(s) = 3 => (IsCharacter(s) <=>
                \/ Fits(Row3a, s)
                \/ Fits(Row3b, s)
                \/ Fits(Row3c, s)
                \/ Fits(Row3d, s))
           /\ Len(s) = 4 => (IsCharacter(s) <=>
                \/ Fits(Row4a, s)
                \/ Fits(Row4b, s)
                \/ Fits(Row4c, s))
<1>1. Len(s) # 1 => ~Fits(Row1, s)
  BY Zenon, FitsNot, RowLengths
<1>2. Len(s) # 2 => ~Fits(Row2, s)
  BY Zenon, FitsNot, RowLengths
<1>3. Len(s) # 3 => ~Fits(Row3a, s) /\ ~Fits(Row3b, s) /\ ~Fits(Row3c, s) /\ ~Fits(Row3d, s)
  BY Zenon, FitsNot, RowLengths
<1>4. Len(s) # 4 => ~Fits(Row4a, s) /\ ~Fits(Row4b, s) /\ ~Fits(Row4c, s)
  BY Zenon, FitsNot, RowLengths
<1> QED
  BY SMTT(30), <1>1, <1>2, <1>3, <1>4, Rows

LEMMA CharacterOfOne ==
    ASSUME NEW a \in Byte, NEW s, s = <<a>>
    PROVE  IsCharacter(s) <=> IsOne(a)
<1>1. Len(s) = 1
  OBVIOUS
<1>2. /\ Fits(Row1, s) <=> a \in Row1[1]
  BY Zenon, Fits1, RowLengths
<1>3. IsCharacter(s) <=> Fits(Row1, s)
  BY Zenon, <1>1, RowsByLength
<1>4. IsCharacter(s) <=>
         a \in 0..127
  BY SMTT(30), <1>2, <1>3, RowColumns
<1> QED
  BY SMTT(30), <1>4 DEF IsOne, Trailing, Byte

LEMMA CharacterOfTwo ==
    ASSUME NEW a \in Byte, NEW b \in Byte, NEW s, s = <<a, b>>
    PROVE  IsCharacter(s) <=> IsTwo(a, b)
<1>1. Len(s) = 2
  OBVIOUS
<1>2. /\ Fits(Row2, s) <=> a \in Row2[1] /\ b \in Row2[2]
  BY Zenon, Fits2, RowLengths
<1>3. IsCharacter(s) <=> Fits(Row2, s)
  BY Zenon, <1>1, RowsByLength
<1>4. IsCharacter(s) <=>
         a \in 194..223 /\ b \in Trailing
  BY SMTT(30), <1>2, <1>3, RowColumns
<1> QED
  BY SMTT(30), <1>4 DEF IsTwo, Trailing, Byte

LEMMA CharacterOfThree ==
    ASSUME NEW a \in Byte, NEW b \in Byte, NEW d \in Byte, NEW s, s = <<a, b, d>>
    PROVE  IsCharacter(s) <=> IsThree(a, b, d)
<1>1. Len(s) = 3
  OBVIOUS
<1>2. /\ Fits(Row3a, s) <=> a \in Row3a[1] /\ b \in Row3a[2] /\ d \in Row3a[3]
      /\ Fits(Row3b, s) <=> a \in Row3b[1] /\ b \in Row3b[2] /\ d \in Row3b[3]
      /\ Fits(Row3c, s) <=> a \in Row3c[1] /\ b \in Row3c[2] /\ d \in Row3c[3]
      /\ Fits(Row3d, s) <=> a \in Row3d[1] /\ b \in Row3d[2] /\ d \in Row3d[3]
  BY Zenon, Fits3, RowLengths
<1>3. IsCharacter(s) <=> Fits(Row3a, s) \/ Fits(Row3b, s) \/ Fits(Row3c, s) \/ Fits(Row3d, s)
  BY Zenon, <1>1, RowsByLength
<1>4. IsCharacter(s) <=>
         \/ a \in {224} /\ b \in 160..191 /\ d \in Trailing
         \/ a \in 225..236 /\ b \in Trailing /\ d \in Trailing
         \/ a \in {237} /\ b \in 128..159 /\ d \in Trailing
         \/ a \in 238..239 /\ b \in Trailing /\ d \in Trailing
  BY SMTT(30), <1>2, <1>3, RowColumns
<1> QED
  BY SMTT(30), <1>4 DEF IsThree, Trailing, Byte

LEMMA CharacterOfFour ==
    ASSUME NEW a \in Byte, NEW b \in Byte, NEW d \in Byte, NEW h \in Byte, NEW s, s = <<a, b, d, h>>
    PROVE  IsCharacter(s) <=> IsFour(a, b, d, h)
<1>1. Len(s) = 4
  OBVIOUS
<1>2. /\ Fits(Row4a, s) <=> a \in Row4a[1] /\ b \in Row4a[2] /\ d \in Row4a[3] /\ h \in Row4a[4]
      /\ Fits(Row4b, s) <=> a \in Row4b[1] /\ b \in Row4b[2] /\ d \in Row4b[3] /\ h \in Row4b[4]
      /\ Fits(Row4c, s) <=> a \in Row4c[1] /\ b \in Row4c[2] /\ d \in Row4c[3] /\ h \in Row4c[4]
  BY Zenon, Fits4, RowLengths
<1>3. IsCharacter(s) <=> Fits(Row4a, s) \/ Fits(Row4b, s) \/ Fits(Row4c, s)
  BY Zenon, <1>1, RowsByLength
<1>4. IsCharacter(s) <=>
         \/ a \in {240} /\ b \in 144..191 /\ d \in Trailing /\ h \in Trailing
         \/ a \in 241..243 /\ b \in Trailing /\ d \in Trailing /\ h \in Trailing
         \/ a \in {244} /\ b \in 128..143 /\ d \in Trailing /\ h \in Trailing
  BY SMTT(30), <1>2, <1>3, RowColumns
<1> QED
  BY SMTT(30), <1>4 DEF IsFour, Trailing, Byte

(* c is a code point of at least that value.                               *)
Fit(c, least) == /\ least <= c /\ c <= MAX_UNICODE_CODE_POINT
                 /\ ~IsHighSurrogate(c) /\ ~IsLowSurrogate(c)

LEMMA FitIs ==
    ASSUME NEW c \in Nat, NEW least \in Nat
    PROVE  Fit(c, least) <=> /\ least <= c /\ c <= 1114111
                             /\ ~(55296 <= c /\ c <= 57343)
<1>1. c <= MAX_UNICODE_CODE_POINT <=> c <= 1114111
  BY SMTT(30) DEF MAX_UNICODE_CODE_POINT
<1>2. (~IsHighSurrogate(c) /\ ~IsLowSurrogate(c)) <=> ~(55296 <= c /\ c <= 57343)
  BY SMTT(30), SurrogateIs
<1>3. Fit(c, least) <=> least <= c /\ c <= MAX_UNICODE_CODE_POINT /\ (~IsHighSurrogate(c) /\ ~IsLowSurrogate(c))
  BY Zenon DEF Fit
<1> QED
  BY SMTT(30), <1>1, <1>2, <1>3

Shifts(c, p, b) == c = p * 64 + (b - 128) /\ c \in Nat

LEMMA ShiftedIs ==
    ASSUME NEW p, p \in Nat, NEW b, b \in 128..191, NEW c, c = Shifted(p, b)
    PROVE  Shifts(c, p, b)
<1>1. b % 64 = b - 128
  BY SMTT(30)
<1> QED
  BY SMTT(30), <1>1 DEF Shifted, Shifts

(* Table 3-6.                                                              *)
Value2(a, b)       == (a - 192) * 64 + (b - 128)
Value3(a, b, d)    == (a - 224) * 4096 + (b - 128) * 64 + (d - 128)

Value4(a, b, d, h) == (a - 240) * 262144 + (b - 128) * 4096 + (d - 128) * 64 + (h - 128)

LEMMA ScalarValueIs ==
    ASSUME NEW s
    PROVE  /\ Len(s) = 1 => ScalarValue(s) = s[1]
           /\ Len(s) = 2 => ScalarValue(s) = Value2(s[1], s[2])
           /\ Len(s) = 3 => ScalarValue(s) = Value3(s[1], s[2], s[3])
           /\ Len(s) = 4 => ScalarValue(s) = Value4(s[1], s[2], s[3], s[4])
BY SMTT(30) DEF ScalarValue, Value2, Value3, Value4

LEMMA ValueOfTwo ==
    ASSUME NEW a \in 194..223, NEW b \in 128..191, NEW c, c = Shifted(a - 192, b)
    PROVE  c = Value2(a, b) /\ Fit(c, 128)
<1> DEFINE p == a - 192
<1>1. p \in Nat /\ c = Shifted(p, b)
  BY SMTT(30)
<1> HIDE DEF p
<1>s. Shifts(c, p, b)
  BY Zenon, <1>1, ShiftedIs
<1>2. c = (a - 192) * 64 + (b - 128) /\ c \in Nat
  BY SMTT(30), <1>1, <1>s DEF Shifts, p
<1>3. 128 <= c /\ c <= 2047
  BY SMTT(30), <1>2
<1> QED
  BY SMTT(30), <1>2, <1>3, FitIs DEF Value2

(* The code points of three and of four bytes.                             *)
ThreeMake(a, b, d, c) ==
    /\ c = Value3(a, b, d)
    /\ Fit(c, 2048) <=> IsThree(a, b, d)

FourMake(a, b, d, h, c) ==
    /\ c = Value4(a, b, d, h)
    /\ Fit(c, 65536) <=> IsFour(a, b, d, h)

LEMMA ValueOfThree ==
    ASSUME NEW a \in 224..239, NEW b \in 128..191, NEW d \in 128..191,
           NEW c, c = Shifted(Shifted(a - 224, b), d)
    PROVE  ThreeMake(a, b, d, c)
<1> DEFINE p == a - 224
           e == Shifted(p, b)
           q == b - 128
           r == d - 128
<1>1. p \in 0..15 /\ q \in 0..63 /\ r \in 0..63
  BY SMTT(30)
<1>a. p \in Nat /\ e = Shifted(p, b) /\ c = Shifted(e, d)
  BY SMTT(30), <1>1
<1> HIDE DEF p, q, r, e
<1>2. Shifts(e, p, b)
  BY Zenon, <1>a, ShiftedIs
<1>3. Shifts(c, e, d)
  <2>1. e \in Nat
    BY Zenon, <1>2 DEF Shifts
  <2> QED
    BY Zenon, <1>a, <2>1, ShiftedIs
<1>b. e = p * 64 + q /\ c = e * 64 + r /\ c \in Nat
  BY <1>2, <1>3 DEF Shifts, q, r
<1>4. IsThree(a, b, d) <=> (p = 0 => q >= 32) /\ (p = 13 => q <= 31)
  BY SMTT(30) DEF IsThree, p, q
<1>5. c = p * 4096 + q * 64 + r
  BY SMTT(30), <1>1, <1>b
<1>6. Fit(c, 2048) <=> 2048 <= c /\ ~(55296 <= c /\ c <= 57343)
  <2>1. c <= 1114111
    BY SMTT(30), <1>1, <1>5
  <2> QED
    BY SMTT(30), <1>b, <2>1, FitIs
<1>7. 2048 <= c <=> (p = 0 => q >= 32)
  BY SMTT(30), <1>1, <1>5
<1>8. ~(55296 <= c /\ c <= 57343) <=> (p = 13 => q <= 31)
  BY SMTT(30), <1>1, <1>5
<1> QED
  BY <1>4, <1>5, <1>6, <1>7, <1>8 DEF p, q, r, ThreeMake, Value3

LEMMA ValueOfFour ==
    ASSUME NEW a \in 240..244, NEW b \in 128..191, NEW d \in 128..191, NEW h \in 128..191,
           NEW c, c = Shifted(Shifted(Shifted(a - 240, b), d), h)
    PROVE  FourMake(a, b, d, h, c)
<1> DEFINE p == a - 240
           e == Shifted(p, b)
           g == Shifted(e, d)
           q == b - 128
           r == d - 128
           t == h - 128
<1>1. p \in 0..4 /\ q \in 0..63 /\ r \in 0..63 /\ t \in 0..63
  BY SMTT(30)
<1>a. p \in Nat /\ e = Shifted(p, b) /\ g = Shifted(e, d) /\ c = Shifted(g, h)
  BY SMTT(30), <1>1
<1> HIDE DEF p, q, r, t, e, g
<1>2. Shifts(e, p, b)
  BY Zenon, <1>a, ShiftedIs
<1>3. Shifts(g, e, d)
  <2>1. e \in Nat
    BY Zenon, <1>2 DEF Shifts
  <2> QED
    BY Zenon, <1>a, <2>1, ShiftedIs
<1>s. Shifts(c, g, h)
  <2>1. g \in Nat
    BY Zenon, <1>3 DEF Shifts
  <2> QED
    BY Zenon, <1>a, <2>1, ShiftedIs
<1>b. e = p * 64 + q /\ g = e * 64 + r /\ c = g * 64 + t /\ c \in Nat
  BY <1>2, <1>3, <1>s DEF Shifts, q, r, t
<1>4. IsFour(a, b, d, h) <=> (p = 0 => q >= 16) /\ (p = 4 => q <= 15)
  BY SMTT(30) DEF IsFour, p, q
<1>5. c = p * 262144 + q * 4096 + r * 64 + t
  BY SMTT(30), <1>1, <1>b
<1>6. Fit(c, 65536) <=> 65536 <= c /\ c <= 1114111
  BY SMTT(30), <1>b, FitIs
<1>7. 65536 <= c <=> (p = 0 => q >= 16)
  BY SMTT(30), <1>1, <1>5
<1>8. c <= 1114111 <=> (p = 4 => q <= 15)
  BY SMTT(30), <1>1, <1>5
<1> QED
  BY <1>4, <1>5, <1>6, <1>7, <1>8 DEF p, q, r, t, FourMake, Value4

LEMMA TrailingIs ==
    ASSUME NEW b \in Byte
    PROVE  b \div 64 = 2 <=> b \in 128..191
<1>1. b = 64 * (b \div 64) + (b % 64) /\ b % 64 \in 0..63 /\ b \div 64 \in Nat
  BY SMTT(30) DEF Byte
<1>2. \A q \in Nat, r \in 0..63 : b = 64 * q + r => (q = 2 <=> b \in 128..191)
  BY SMTT(30) DEF Byte
<1> QED
  BY SMTT(30), <1>1, <1>2

LEMMA DecodesAtIs ==
    ASSUME NEW text, NEW i, NEW f, f = First(text[i])
    PROVE  DecodesAt(text, i) <=>
               /\ f.follow < 4 /\ i + f.follow <= Len(text)
               /\ \A k \in 1..f.follow : text[i + k] \div 64 = 2
               /\ Fit(CodePointAt(text, i), f.least)
BY Zenon DEF DecodesAt, Fit

LEMMA FirstFollows ==
    ASSUME NEW a, a \in Byte, NEW f, f = First(a)
    PROVE  /\ f.follow = 0 <=> a \in 0..127
           /\ f.follow = 1 <=> a \in 194..223
           /\ f.follow = 2 <=> a \in 224..239
           /\ f.follow = 3 <=> a \in 240..244
           /\ f.follow = 0 => f.bits = a /\ f.least = 0
           /\ f.follow = 1 => f.bits = a - 192 /\ f.least = 128
           /\ f.follow = 2 => f.bits = a - 224 /\ f.least = 2048
           /\ f.follow = 3 => f.bits = a - 240 /\ f.least = 65536
<1>1. CASE a <= 127 /\ f = [bits |-> a, least |-> 0, follow |-> 0]
  BY SMTT(30), <1>1 DEF Byte
<1>2. CASE a \in 194..223 /\ f = [bits |-> a - 192, least |-> 128, follow |-> 1]
  BY SMTT(30), <1>2 DEF Byte
<1>3. CASE a \in 224..239 /\ f = [bits |-> a - 224, least |-> 2048, follow |-> 2]
  BY SMTT(30), <1>3 DEF Byte
<1>4. CASE a \in 240..244 /\ f = [bits |-> a - 240, least |-> 65536, follow |-> 3]
  BY SMTT(30), <1>4 DEF Byte
<1>5. CASE a \in 128..193 \cup 245..255 /\ f.follow = 4
  BY SMTT(30), <1>5 DEF Byte
<1> QED
  BY SMTT(30), <1>1, <1>2, <1>3, <1>4, <1>5, FirstIs

LEMMA CodePointIs ==
    ASSUME NEW text, NEW i, NEW f, f = First(text[i])
    PROVE  /\ f.follow = 0 => CodePointAt(text, i) = f.bits
           /\ f.follow = 1 => CodePointAt(text, i) = Shifted(f.bits, text[i + 1])
           /\ f.follow = 2 => CodePointAt(text, i) = Shifted(Shifted(f.bits, text[i + 1]), text[i + 2])
           /\ f.follow = 3 => CodePointAt(text, i) =
                  Shifted(Shifted(Shifted(f.bits, text[i + 1]), text[i + 2]), text[i + 3])
BY DEF CodePointAt

LEMMA CharacterAtOne ==
    ASSUME NEW text \in Seq(Byte), NEW i \in 1..Len(text), i + 1 - 1 <= Len(text),
           NEW s, s = SubSeq(text, i, i + 1 - 1)
    PROVE  /\ IsCharacter(s) <=> DecodesAt(text, i) /\ First(text[i]).follow = 0
           /\ IsCharacter(s) => ScalarValue(s) = CodePointAt(text, i)
<1> DEFINE a == text[i]
           f == First(a)
           c == CodePointAt(text, i)
<1>1. /\ i \in 1..Len(text) /\ a \in Byte
  BY SMTT(30)
<1>2. s \in Seq(Byte) /\ Len(s) = 1 /\ s[1] = a
  <2>1. s \in Seq(Byte) /\ Len(s) = 1 /\ \A k \in 1..1 : s[k] = text[i + k - 1]
    BY SMTT(90)
  <2>2. i + 1 - 1 = i /\ 1 \in 1..1
    BY <1>1
  <2> QED
    BY <2>1, <2>2
<1>a. f = First(text[i]) /\ c = CodePointAt(text, i) /\ a = text[i]
  OBVIOUS
<1> HIDE DEF a, f, c
<1>3. s = <<a>>
  <2> DEFINE u == <<a>>
  <2>1. u \in Seq(Byte) /\ Len(u) = 1 /\ u[1] = a
    BY <1>1
  <2>2. \A k \in 1..1 : k = 1
    OBVIOUS
  <2> HIDE DEF u
  <2>3. \A k \in 1..Len(s) : s[k] = u[k]
    BY <1>2, <2>1, <2>2
  <2>4. s = u
    BY <1>2, <2>1, <2>3, SeqEqual
  <2> QED
    BY <2>4 DEF u
<1>4. IsCharacter(s) <=> IsOne(a)
  BY Zenon, <1>1, <1>3, CharacterOfOne
<1>5. f.follow = 0 => a \in 0..127 /\ f.least = 0 /\ c = a
  <2>1. f.follow = 0 => a \in 0..127 /\ f.least = 0 /\ f.bits = a
    BY SMTT(30), <1>1, <1>a, FirstFollows
  <2>2. f.follow = 0 => c = f.bits
    BY ZenonT(60), <1>a, CodePointIs
  <2> QED
    BY SMTT(30), <2>1, <2>2
<1>6. a \in 0..127 => f.follow = 0
  BY SMTT(30), <1>1, <1>a, FirstFollows
<1>7. DecodesAt(text, i) /\ f.follow = 0 <=> f.follow = 0 /\ Fit(c, f.least)
  <2>1. f.follow = 0 => f.follow < 4 /\ i + f.follow <= Len(text) /\ \A k \in 1..f.follow : text[i + k] \div 64 = 2
    BY SMTT(30)
  <2>2. DecodesAt(text, i) <=> /\ f.follow < 4 /\ i + f.follow <= Len(text)
                               /\ \A k \in 1..f.follow : text[i + k] \div 64 = 2
                               /\ Fit(c, f.least)
    BY Zenon, <1>a, DecodesAtIs
  <2> QED
    BY <2>1, <2>2
<1>8. a \in 0..127 => Fit(a, 0)
  BY SMTT(30), FitIs
<1>9. IsCharacter(s) <=> DecodesAt(text, i) /\ f.follow = 0
  BY <1>4, <1>5, <1>6, <1>7, <1>8 DEF IsOne
<1>10. IsCharacter(s) => ScalarValue(s) = c
  <2>1. ScalarValue(s) = a
    BY Zenon, <1>2, ScalarValueIs
  <2> QED
    BY Zenon, <1>4, <1>5, <1>6, <2>1 DEF IsOne
<1> QED
  BY <1>9, <1>10, <1>a

LEMMA CharacterAtTwo ==
    ASSUME NEW text \in Seq(Byte), NEW i \in 1..Len(text), i + 2 - 1 <= Len(text),
           NEW s, s = SubSeq(text, i, i + 2 - 1)
    PROVE  /\ IsCharacter(s) <=> DecodesAt(text, i) /\ First(text[i]).follow = 1
           /\ IsCharacter(s) => ScalarValue(s) = CodePointAt(text, i)
<1> DEFINE a == text[i]
           b == text[i + 1]
           f == First(a)
           c == CodePointAt(text, i)
<1>1. /\ i \in 1..Len(text) /\ a \in Byte
      /\ i + 1 \in 1..Len(text) /\ b \in Byte
  BY SMTT(30)
<1>2. s \in Seq(Byte) /\ Len(s) = 2 /\ s[1] = a /\ s[2] = b
  <2>1. s \in Seq(Byte) /\ Len(s) = 2 /\ \A k \in 1..2 : s[k] = text[i + k - 1]
    BY SMTT(30)
  <2>2. i + 1 - 1 = i /\ i + 2 - 1 = i + 1 /\ 1 \in 1..2 /\ 2 \in 1..2
    BY <1>1
  <2> QED
    BY <2>1, <2>2
<1>a. f = First(text[i]) /\ c = CodePointAt(text, i) /\ a = text[i] /\ b = text[i + 1]
  OBVIOUS
<1> HIDE DEF a, b, f, c
<1>3. s = <<a, b>>
  <2> DEFINE u == <<a, b>>
  <2>1. u \in Seq(Byte) /\ Len(u) = 2 /\ u[1] = a /\ u[2] = b
    BY <1>1
  <2>2. \A k \in 1..2 : k = 1 \/ k = 2
    OBVIOUS
  <2> HIDE DEF u
  <2>3. \A k \in 1..Len(s) : s[k] = u[k]
    BY <1>2, <2>1, <2>2
  <2>4. s = u
    BY <1>2, <2>1, <2>3, SeqEqual
  <2> QED
    BY <2>4 DEF u
<1>4. IsCharacter(s) <=> IsTwo(a, b)
  BY Zenon, <1>1, <1>3, CharacterOfTwo
<1>5. f.follow = 1 => a \in 194..223 /\ f.least = 128 /\ c = Shifted(a - 192, b)
  <2>1. f.follow = 1 => a \in 194..223 /\ f.least = 128 /\ f.bits = a - 192
    BY SMTT(30), <1>1, <1>a, FirstFollows
  <2>2. f.follow = 1 => c = Shifted(f.bits, b)
    BY Zenon, <1>a, CodePointIs
  <2> QED
    BY SMTT(30), <2>1, <2>2
<1>6. a \in 194..223 => f.follow = 1
  BY SMTT(30), <1>1, <1>a, FirstFollows
<1>7. DecodesAt(text, i) /\ f.follow = 1 <=> f.follow = 1 /\ b \in 128..191 /\ Fit(c, f.least)
  <2>1. f.follow = 1 => f.follow < 4 /\ i + f.follow <= Len(text)
    BY SMTT(30), <1>1
  <2>2. \A k \in 1..1 : k = 1
    BY SMTT(30)
  <2>3. f.follow = 1 => ((\A k \in 1..f.follow : text[i + k] \div 64 = 2) <=> b \in 128..191)
    <3>1. 1 \in 1..1
      BY SMTT(30)
    <3>2. (\A k \in 1..1 : text[i + k] \div 64 = 2) <=> b \div 64 = 2
      BY SMTT(30), <2>2, <3>1, <1>a
    <3>3. (b \div 64 = 2 <=> b \in 128..191)
      BY SMTT(30), <1>1, TrailingIs
    <3> QED
      BY Zenon, <3>2, <3>3
  <2>4. DecodesAt(text, i) <=> /\ f.follow < 4 /\ i + f.follow <= Len(text)
                               /\ \A k \in 1..f.follow : text[i + k] \div 64 = 2
                               /\ Fit(c, f.least)
    BY Zenon, <1>a, DecodesAtIs
  <2> QED
    BY <2>1, <2>3, <2>4
<1>8. a \in 194..223 /\ b \in 128..191 /\ c = Shifted(a - 192, b) => c = Value2(a, b) /\ Fit(c, 128)
  BY ZenonT(60), ValueOfTwo
<1>9. IsCharacter(s) <=> DecodesAt(text, i) /\ f.follow = 1
  BY Zenon, <1>4, <1>5, <1>6, <1>7, <1>8 DEF IsTwo
<1>10. IsCharacter(s) => ScalarValue(s) = c
  <2>1. ScalarValue(s) = Value2(a, b)
    BY Zenon, <1>2, ScalarValueIs
  <2>2. IsCharacter(s) => a \in 194..223 /\ b \in 128..191
    BY Zenon, <1>4 DEF IsTwo
  <2> QED
    BY SMTT(30), <1>5, <1>6, <1>8, <2>1, <2>2
<1> QED
  BY <1>9, <1>10, <1>a

LEMMA CharacterAtThree ==
    ASSUME NEW text \in Seq(Byte), NEW i \in 1..Len(text), i + 3 - 1 <= Len(text),
           NEW s, s = SubSeq(text, i, i + 3 - 1)
    PROVE  /\ IsCharacter(s) <=> DecodesAt(text, i) /\ First(text[i]).follow = 2
           /\ IsCharacter(s) => ScalarValue(s) = CodePointAt(text, i)
<1> DEFINE a == text[i]
           b == text[i + 1]
           d == text[i + 2]
           f == First(a)
           c == CodePointAt(text, i)
<1>1. /\ i \in 1..Len(text) /\ a \in Byte
      /\ i + 1 \in 1..Len(text) /\ b \in Byte
      /\ i + 2 \in 1..Len(text) /\ d \in Byte
  BY SMTT(30)
<1>2. s \in Seq(Byte) /\ Len(s) = 3 /\ s[1] = a /\ s[2] = b /\ s[3] = d
  <2>1. s \in Seq(Byte) /\ Len(s) = 3 /\ \A k \in 1..3 : s[k] = text[i + k - 1]
    BY SMTT(30)
  <2>2. i + 1 - 1 = i /\ i + 2 - 1 = i + 1 /\ i + 3 - 1 = i + 2 /\ 1 \in 1..3 /\ 2 \in 1..3 /\ 3 \in 1..3
    BY <1>1
  <2> QED
    BY <2>1, <2>2
<1>a. f = First(text[i]) /\ c = CodePointAt(text, i) /\ a = text[i] /\ b = text[i + 1] /\ d = text[i + 2]
  OBVIOUS
<1> HIDE DEF a, b, d, f, c
<1>3. s = <<a, b, d>>
  <2> DEFINE u == <<a, b, d>>
  <2>1. u \in Seq(Byte) /\ Len(u) = 3 /\ u[1] = a /\ u[2] = b /\ u[3] = d
    BY <1>1
  <2>2. \A k \in 1..3 : k = 1 \/ k = 2 \/ k = 3
    OBVIOUS
  <2> HIDE DEF u
  <2>3. \A k \in 1..Len(s) : s[k] = u[k]
    BY <1>2, <2>1, <2>2
  <2>4. s = u
    BY <1>2, <2>1, <2>3, SeqEqual
  <2> QED
    BY <2>4 DEF u
<1>4. IsCharacter(s) <=> IsThree(a, b, d)
  BY Zenon, <1>1, <1>3, CharacterOfThree
<1>5. f.follow = 2 => a \in 224..239 /\ f.least = 2048 /\ c = Shifted(Shifted(a - 224, b), d)
  <2>1. f.follow = 2 => a \in 224..239 /\ f.least = 2048 /\ f.bits = a - 224
    BY SMTT(30), <1>1, <1>a, FirstFollows
  <2>2. f.follow = 2 => c = Shifted(Shifted(f.bits, b), d)
    BY Zenon, <1>a, CodePointIs
  <2> QED
    BY SMTT(30), <2>1, <2>2
<1>6. a \in 224..239 => f.follow = 2
  BY SMTT(30), <1>1, <1>a, FirstFollows
<1>7. DecodesAt(text, i) /\ f.follow = 2 <=> f.follow = 2 /\ b \in 128..191 /\ d \in 128..191 /\ Fit(c, f.least)
  <2>1. f.follow = 2 => f.follow < 4 /\ i + f.follow <= Len(text)
    BY SMTT(30), <1>1
  <2>2. \A k \in 1..2 : k = 1 \/ k = 2
    BY SMTT(30)
  <2>3. f.follow = 2 => ((\A k \in 1..f.follow : text[i + k] \div 64 = 2) <=> b \in 128..191 /\ d \in 128..191)
    <3>1. 1 \in 1..2 /\ 2 \in 1..2
      BY SMTT(30)
    <3>2. (\A k \in 1..2 : text[i + k] \div 64 = 2) <=> b \div 64 = 2 /\ d \div 64 = 2
      BY SMTT(30), <2>2, <3>1, <1>a
    <3>3. (b \div 64 = 2 <=> b \in 128..191) /\ (d \div 64 = 2 <=> d \in 128..191)
      BY SMTT(30), <1>1, TrailingIs
    <3> QED
      BY Zenon, <3>2, <3>3
  <2>4. DecodesAt(text, i) <=> /\ f.follow < 4 /\ i + f.follow <= Len(text)
                               /\ \A k \in 1..f.follow : text[i + k] \div 64 = 2
                               /\ Fit(c, f.least)
    BY Zenon, <1>a, DecodesAtIs
  <2> QED
    BY <2>1, <2>3, <2>4
<1>8. ASSUME a \in 224..239, b \in 128..191, d \in 128..191, c = Shifted(Shifted(a - 224, b), d)
      PROVE  c = Value3(a, b, d) /\ (Fit(c, 2048) <=> IsThree(a, b, d))
  <2>1. ThreeMake(a, b, d, c)
    BY ZenonT(60), <1>8, ValueOfThree
  <2> QED
    BY SMTT(30), <2>1 DEF ThreeMake
<1>9. IsCharacter(s) <=> DecodesAt(text, i) /\ f.follow = 2
  <2>1. IsThree(a, b, d) => a \in 224..239 /\ b \in 128..191 /\ d \in 128..191
    BY Zenon DEF IsThree
  <2> QED
    BY SMTT(30), <1>4, <1>5, <1>6, <1>7, <1>8, <2>1
<1>10. IsCharacter(s) => ScalarValue(s) = c
  <2>1. ScalarValue(s) = Value3(a, b, d)
    BY Zenon, <1>2, ScalarValueIs
  <2>2. IsCharacter(s) => a \in 224..239 /\ b \in 128..191 /\ d \in 128..191
    BY Zenon, <1>4 DEF IsThree
  <2> QED
    BY SMTT(30), <1>5, <1>6, <1>8, <2>1, <2>2
<1> QED
  BY <1>9, <1>10, <1>a

LEMMA CharacterAtFour ==
    ASSUME NEW text \in Seq(Byte), NEW i \in 1..Len(text), i + 4 - 1 <= Len(text),
           NEW s, s = SubSeq(text, i, i + 4 - 1)
    PROVE  /\ IsCharacter(s) <=> DecodesAt(text, i) /\ First(text[i]).follow = 3
           /\ IsCharacter(s) => ScalarValue(s) = CodePointAt(text, i)
<1> DEFINE a == text[i]
           b == text[i + 1]
           d == text[i + 2]
           h == text[i + 3]
           f == First(a)
           c == CodePointAt(text, i)
<1>1. /\ i \in 1..Len(text) /\ a \in Byte
      /\ i + 1 \in 1..Len(text) /\ b \in Byte
      /\ i + 2 \in 1..Len(text) /\ d \in Byte
      /\ i + 3 \in 1..Len(text) /\ h \in Byte
  BY SMTT(30)
<1>2. s \in Seq(Byte) /\ Len(s) = 4 /\ s[1] = a /\ s[2] = b /\ s[3] = d /\ s[4] = h
  <2>1. s \in Seq(Byte) /\ Len(s) = 4 /\ \A k \in 1..4 : s[k] = text[i + k - 1]
    BY SMTT(30)
  <2>2. i + 1 - 1 = i /\ i + 2 - 1 = i + 1 /\ i + 3 - 1 = i + 2 /\ i + 4 - 1 = i + 3 /\ 1 \in 1..4 /\ 2 \in 1..4 /\ 3 \in 1..4 /\ 4 \in 1..4
    BY <1>1
  <2> QED
    BY <2>1, <2>2
<1>a. f = First(text[i]) /\ c = CodePointAt(text, i) /\ a = text[i] /\ b = text[i + 1] /\ d = text[i + 2] /\ h = text[i + 3]
  OBVIOUS
<1> HIDE DEF a, b, d, h, f, c
<1>3. s = <<a, b, d, h>>
  <2> DEFINE u == <<a, b, d, h>>
  <2>1. u \in Seq(Byte) /\ Len(u) = 4 /\ u[1] = a /\ u[2] = b /\ u[3] = d /\ u[4] = h
    BY <1>1
  <2>2. \A k \in 1..4 : k = 1 \/ k = 2 \/ k = 3 \/ k = 4
    OBVIOUS
  <2> HIDE DEF u
  <2>3. \A k \in 1..Len(s) : s[k] = u[k]
    BY <1>2, <2>1, <2>2
  <2>4. s = u
    BY <1>2, <2>1, <2>3, SeqEqual
  <2> QED
    BY <2>4 DEF u
<1>4. IsCharacter(s) <=> IsFour(a, b, d, h)
  BY Zenon, <1>1, <1>3, CharacterOfFour
<1>5. f.follow = 3 => a \in 240..244 /\ f.least = 65536 /\ c = Shifted(Shifted(Shifted(a - 240, b), d), h)
  <2>1. f.follow = 3 => a \in 240..244 /\ f.least = 65536 /\ f.bits = a - 240
    BY SMTT(30), <1>1, <1>a, FirstFollows
  <2>2. f.follow = 3 => c = Shifted(Shifted(Shifted(f.bits, b), d), h)
    BY ZenonT(60), <1>a, CodePointIs
  <2> QED
    BY SMTT(30), <2>1, <2>2
<1>6. a \in 240..244 => f.follow = 3
  BY SMTT(30), <1>1, <1>a, FirstFollows
<1>7. DecodesAt(text, i) /\ f.follow = 3 <=> f.follow = 3 /\ b \in 128..191 /\ d \in 128..191 /\ h \in 128..191 /\ Fit(c, f.least)
  <2>1. f.follow = 3 => f.follow < 4 /\ i + f.follow <= Len(text)
    BY SMTT(30), <1>1
  <2>2. \A k \in 1..3 : k = 1 \/ k = 2 \/ k = 3
    BY SMTT(30)
  <2>3. f.follow = 3 => ((\A k \in 1..f.follow : text[i + k] \div 64 = 2) <=> b \in 128..191 /\ d \in 128..191 /\ h \in 128..191)
    <3>1. 1 \in 1..3 /\ 2 \in 1..3 /\ 3 \in 1..3
      BY SMTT(30)
    <3>2. (\A k \in 1..3 : text[i + k] \div 64 = 2) <=> b \div 64 = 2 /\ d \div 64 = 2 /\ h \div 64 = 2
      BY SMTT(30), <2>2, <3>1, <1>a
    <3>3. (b \div 64 = 2 <=> b \in 128..191) /\ (d \div 64 = 2 <=> d \in 128..191) /\ (h \div 64 = 2 <=> h \in 128..191)
      BY SMTT(30), <1>1, TrailingIs
    <3> QED
      BY ZenonT(60), <3>2, <3>3
  <2>4. DecodesAt(text, i) <=> /\ f.follow < 4 /\ i + f.follow <= Len(text)
                               /\ \A k \in 1..f.follow : text[i + k] \div 64 = 2
                               /\ Fit(c, f.least)
    BY Zenon, <1>a, DecodesAtIs
  <2> QED
    BY <2>1, <2>3, <2>4
<1>8. ASSUME a \in 240..244, b \in 128..191, d \in 128..191, h \in 128..191, c = Shifted(Shifted(Shifted(a - 240, b), d), h)
      PROVE  c = Value4(a, b, d, h) /\ (Fit(c, 65536) <=> IsFour(a, b, d, h))
  <2>1. FourMake(a, b, d, h, c)
    BY ZenonT(60), <1>8, ValueOfFour
  <2> QED
    BY SMTT(30), <2>1 DEF FourMake
<1>9. IsCharacter(s) <=> DecodesAt(text, i) /\ f.follow = 3
  <2>1. IsFour(a, b, d, h) => a \in 240..244 /\ b \in 128..191 /\ d \in 128..191 /\ h \in 128..191
    BY Zenon DEF IsFour
  <2> QED
    BY SMTT(30), <1>4, <1>5, <1>6, <1>7, <1>8, <2>1
<1>10. IsCharacter(s) => ScalarValue(s) = c
  <2>1. ScalarValue(s) = Value4(a, b, d, h)
    BY Zenon, <1>2, ScalarValueIs
  <2>2. IsCharacter(s) => a \in 240..244 /\ b \in 128..191 /\ d \in 128..191 /\ h \in 128..191
    BY ZenonT(60), <1>4 DEF IsFour
  <2> QED
    BY SMTT(30), <1>5, <1>6, <1>8, <2>1, <2>2
<1> QED
  BY <1>9, <1>10, <1>a

-----------------------------------------------------------------------------
(* The readings of a text by the standard are what the decoder makes of it *)

LEMMA CharacterAt ==
    ASSUME NEW text \in Seq(Byte), NEW i \in 1..Len(text), NEW k \in i..Len(text), k < i + 4
    PROVE  /\ IsCharacter(SubSeq(text, i, k)) <=> DecodesAt(text, i) /\ First(text[i]).follow = k - i
           /\ IsCharacter(SubSeq(text, i, k)) => ScalarValue(SubSeq(text, i, k)) = CodePointAt(text, i)
<1> DEFINE s == SubSeq(text, i, k)
           Holds1(l) == /\ IsCharacter(s) <=> DecodesAt(text, i) /\ First(text[i]).follow = l
                        /\ IsCharacter(s) => ScalarValue(s) = CodePointAt(text, i)
<1>1. k = i \/ k = i + 1 \/ k = i + 2 \/ k = i + 3
  OBVIOUS
<1>2. /\ i + 1 - 1 = i /\ i + 2 - 1 = i + 1 /\ i + 3 - 1 = i + 2 /\ i + 4 - 1 = i + 3
      /\ i - i = 0 /\ i + 1 - i = 1 /\ i + 2 - i = 2 /\ i + 3 - i = 3
  OBVIOUS
<1>3. k <= Len(text) /\ s = SubSeq(text, i, k)
  OBVIOUS
<1> HIDE DEF s
<1>4. CASE k = i
  <2>1. i + 1 - 1 <= Len(text) /\ s = SubSeq(text, i, i + 1 - 1) /\ k - i = 0
    BY <1>2, <1>3, <1>4
  <2>2. Holds1(0)
    BY Zenon, <2>1, CharacterAtOne
  <2> QED
    BY <2>1, <2>2 DEF s
<1>5. CASE k = i + 1
  <2>1. i + 2 - 1 <= Len(text) /\ s = SubSeq(text, i, i + 2 - 1) /\ k - i = 1
    BY <1>2, <1>3, <1>5
  <2>2. Holds1(1)
    BY Zenon, <2>1, CharacterAtTwo
  <2> QED
    BY <2>1, <2>2 DEF s
<1>6. CASE k = i + 2
  <2>1. i + 3 - 1 <= Len(text) /\ s = SubSeq(text, i, i + 3 - 1) /\ k - i = 2
    BY <1>2, <1>3, <1>6
  <2>2. Holds1(2)
    BY Zenon, <2>1, CharacterAtThree
  <2> QED
    BY <2>1, <2>2 DEF s
<1>7. CASE k = i + 3
  <2>1. i + 4 - 1 <= Len(text) /\ s = SubSeq(text, i, i + 4 - 1) /\ k - i = 3
    BY <1>2, <1>3, <1>7
  <2>2. Holds1(3)
    BY Zenon, <2>1, CharacterAtFour
  <2> QED
    BY <2>1, <2>2 DEF s
<1> QED
  BY <1>1, <1>4, <1>5, <1>6, <1>7

(* Where the first character of the text from i on can end.                *)
Ends(text, i) == {k \in i..Len(text) : k < i + 4 /\ IsCharacter(SubSeq(text, i, k))}

LEMMA EndsAre ==
    ASSUME NEW text \in Seq(Byte), NEW i \in 1..Len(text), NEW d, d = DecodeUtf8CodePoint(text, i)
    PROVE  /\ d.ok => /\ Ends(text, i) = {d.next - 1}
                      /\ ScalarValue(SubSeq(text, i, d.next - 1)) = d.code_point
           /\ ~d.ok => Ends(text, i) = {}
<1> DEFINE follow == First(text[i]).follow
<1>1. /\ d.ok <=> DecodesAt(text, i)
      /\ d.ok => d.code_point = CodePointAt(text, i)
  BY Decodes
<1>2. \A k \in i..Len(text) : k < i + 4 =>
         /\ IsCharacter(SubSeq(text, i, k)) <=> DecodesAt(text, i) /\ follow = k - i
         /\ IsCharacter(SubSeq(text, i, k)) => ScalarValue(SubSeq(text, i, k)) = CodePointAt(text, i)
  BY Zenon, CharacterAt
<1>3. CASE ~d.ok
  BY <1>1, <1>2, <1>3 DEF Ends
<1>4. CASE d.ok
  <2>1. d.next = i + follow + 1 /\ follow < 4 /\ i + follow <= Len(text)
    BY <1>1, <1>4 DEF DecodeUtf8CodePoint, DecodesAt
  <2>2. follow \in 0..3
    <3>1. follow = 0 \/ follow = 1 \/ follow = 2 \/ follow = 3 \/ follow = 4
      BY SMTT(30) DEF First
    <3> HIDE DEF follow
    <3> QED
      BY <2>1, <3>1
  <2> HIDE DEF follow
  <2> DEFINE e == i + follow
  <2>3. /\ e \in i..Len(text) /\ e < i + 4 /\ follow = e - i /\ d.next - 1 = e
        /\ \A k \in i..Len(text) : follow = k - i => k = e
    BY <2>1, <2>2
  <2> HIDE DEF e
  <2>4. IsCharacter(SubSeq(text, i, e)) /\ ScalarValue(SubSeq(text, i, e)) = d.code_point
    BY <1>1, <1>2, <1>4, <2>3
  <2>5. Ends(text, i) = {e}
    BY <1>2, <2>3, <2>4 DEF Ends
  <2> QED
    BY <1>4, <2>3, <2>4, <2>5
<1> QED
  BY <1>3, <1>4

Readable(r) == IF r.ok THEN {r.text} ELSE {}

LEMMA ReadableAhead ==
    ASSUME NEW s, NEW r
    PROVE  Readable(Ahead(s, r)) = {s \o rest : rest \in Readable(r)}
<1>1. CASE r.ok
  <2> DEFINE t == s \o r.text
  <2>1. Ahead(s, r) = [ok |-> TRUE, text |-> t]
    BY <1>1 DEF Ahead
  <2>2. {s \o rest : rest \in Readable(r)} = {t}
    BY <1>1 DEF Readable
  <2> HIDE DEF t
  <2>3. Readable(Ahead(s, r)) = {t}
    BY <2>1 DEF Readable
  <2> QED
    BY <2>2, <2>3
<1>2. CASE ~r.ok
  <2>1. Ahead(s, r) = [ok |-> FALSE, text |-> <<>>]
    BY <1>2 DEF Ahead, Failed
  <2>2. Readable(Ahead(s, r)) = {}
    BY <2>1 DEF Readable
  <2> QED
    BY <1>2, <2>2 DEF Readable
<1> QED
  BY <1>1, <1>2

(* The standard's readings of a text are what the program's decoder makes  *)
(* of it: the one, or none.                                                *)
LEMMA ReadingIs ==
    ASSUME NEW text \in Seq(Byte), NEW r, Walk(ReadStep(text), Len(text), Scalar, r, 1)
    PROVE  Readings(text) = Readable(r[1])
<1> DEFINE n == Len(text)
           step == ReadStep(text)
           From(f, i) == UNION {{<<ScalarValue(SubSeq(text, i, j))>> \o rest : rest \in f[j + 1]} :
                                   j \in {k \in i..Len(text) : k < i + 4 /\ IsCharacter(SubSeq(text, i, k))}}
           At(f, i) == IF i > n THEN {<<>>} ELSE From(f, i)
           Body(f) == [i \in 1..n + 1 |-> At(f, i)]
           R == CHOOSE f : f = Body(f)
           E == [i \in 1..n + 1 |-> Readable(r[i])]
<1>1. Readings(text) = R[1]
  BY DEF Readings
<1>2. ASSUME NEW f, NEW i \in 1..n
      PROVE  From(f, i) = IF step[i].ok THEN {step[i].text \o rest : rest \in f[step[i].next]} ELSE {}
  <2> DEFINE d == DecodeUtf8CodePoint(text, i)
             c == d.code_point
  <2>1. step[i] = [ok |-> d.ok, text |-> IF d.ok THEN <<c>> ELSE <<>>, next |-> d.next]
    BY <1>2 DEF ReadStep
  <2>2. From(f, i) = UNION {{<<ScalarValue(SubSeq(text, i, j))>> \o rest : rest \in f[j + 1]} : j \in Ends(text, i)}
    BY Zenon DEF Ends
  <2>3. /\ d.ok => Ends(text, i) = {d.next - 1} /\ ScalarValue(SubSeq(text, i, d.next - 1)) = c
        /\ ~d.ok => Ends(text, i) = {}
    BY EndsAre
  <2>4. d.next \in Nat
    BY Decodes
  <2> HIDE DEF d, step, From
  <2>5. CASE d.ok
    <3> DEFINE e == d.next - 1
    <3>1. e + 1 = d.next
      BY <2>4
    <3>2. Ends(text, i) = {e} /\ ScalarValue(SubSeq(text, i, e)) = c
      BY <2>3, <2>5
    <3> HIDE DEF e
    <3>3. From(f, i) = {<<ScalarValue(SubSeq(text, i, e))>> \o rest : rest \in f[e + 1]}
      BY <2>2, <3>2
    <3>4. From(f, i) = {<<c>> \o rest : rest \in f[d.next]}
      BY <3>1, <3>2, <3>3
    <3>5. step[i].ok /\ step[i].text = <<c>> /\ step[i].next = d.next
      BY <2>1, <2>5
    <3> QED
      BY <3>4, <3>5
  <2>6. CASE ~d.ok
    <3>1. From(f, i) = {}
      BY <2>2, <2>3, <2>6
    <3>2. ~step[i].ok
      BY <2>1, <2>6
    <3> QED
      BY <3>1, <3>2
  <2> QED
    BY <2>5, <2>6
<1>3. Steps(step, n, Scalar) /\ n \in Nat /\ Walk(step, n, Scalar, r, 1)
  BY ReadSteps
<1> HIDE DEF From, step
<1>4. ASSUME NEW i \in 1..n + 1 PROVE E[i] = At(E, i)
  <2>1. r[i] = Goes(step, n, r, i) /\ E[i] = Readable(r[i])
    BY <1>3 DEF Walk
  <2>2. CASE i > n
    BY <2>1, <2>2 DEF Goes, Done, Readable
  <2>3. CASE ~(i > n)
    <3>1. i \in 1..n
      BY <1>3, <2>3
    <3>2. CASE step[i].ok
      <4> DEFINE s == step[i].text
                 j == step[i].next
      <4>1. s \in Seq(Scalar) /\ j \in 1..n + 1
        BY <1>3, <3>1, <3>2 DEF Steps
      <4>2. r[j] \in Result(Scalar) /\ E[j] = Readable(r[j])
        BY <1>3, <4>1 DEF Walk
      <4>3. r[i] = Ahead(s, r[j])
        BY <2>1, <2>3, <3>2 DEF Goes
      <4>4. At(E, i) = {s \o rest : rest \in E[j]}
        BY <1>2, <2>3, <3>1, <3>2
      <4> HIDE DEF s, j, E, At
      <4>5. Readable(Ahead(s, r[j])) = {s \o rest : rest \in Readable(r[j])}
        BY ReadableAhead
      <4> DEFINE own == At(E, i)
      <4>6. own = {s \o rest : rest \in Readable(r[j])}
        BY <4>2, <4>4
      <4> HIDE DEF own
      <4>7. own = Readable(r[i])
        BY Zenon, <4>3, <4>5, <4>6
      <4> QED
        BY <2>1, <4>7 DEF own
    <3>3. CASE ~step[i].ok
      <4>1. r[i] = Failed
        BY <2>1, <2>3, <3>3 DEF Goes
      <4>2. At(E, i) = {}
        BY <1>2, <2>3, <3>1, <3>3
      <4>3. Readable(Failed) = {}
        BY DEF Readable, Failed
      <4> HIDE DEF E, At
      <4> QED
        BY <2>1, <4>1, <4>2, <4>3
    <3> QED
      BY <3>2, <3>3
  <2> QED
    BY <2>2, <2>3
<1>5. E = Body(E)
  <2>1. E = [i \in 1..n + 1 |-> E[i]]
    OBVIOUS
  <2> HIDE DEF E, At
  <2> QED
    BY <1>4, <2>1
<1>6. R = Body(R)
  BY Zenon, <1>5
<1> HIDE DEF R
<1>7. \A i \in 1..n + 1 : R[i] = At(R, i)
  <2>1. \A i \in 1..n + 1 : Body(R)[i] = At(R, i)
    BY Zenon
  <2> HIDE DEF Body, At
  <2> QED
    BY Zenon, <1>6, <2>1
<1> HIDE DEF Body
<1>8. \A i \in 1..n + 1 : R[i] = E[i]
  <2> DEFINE Bad == {i \in 1..n + 1 : R[i] # E[i]}
  <2>1. SUFFICES ASSUME Bad # {} PROVE FALSE
    BY DEF Bad
  <2>2. PICK i \in Bad : \A j \in Bad : j <= i
    <3>1. Bad \subseteq 1..n + 1 /\ n + 1 \in Nat
      BY <1>3
    <3> HIDE DEF Bad
    <3> QED
      BY <2>1, <3>1, Latest
  <2>3. i \in 1..n + 1 /\ R[i] # E[i]
    BY <2>2
  <2>4. \A j \in i + 1..n + 1 : R[j] = E[j]
    <3>1. \A j \in i + 1..n + 1 : j \in 1..n + 1 /\ ~(j <= i)
      BY <1>3, <2>3
    <3> QED
      BY <2>2, <3>1
  <2>5. R[i] = At(R, i) /\ E[i] = At(E, i)
    BY <1>4, <1>7, <2>3
  <2> HIDE DEF E
  <2>6. At(R, i) = At(E, i)
    <3>1. CASE i > n
      BY <3>1
    <3>2. CASE ~(i > n)
      <4>1. i \in 1..n
        BY <1>3, <2>3, <3>2
      <4>2. step[i].ok => R[step[i].next] = E[step[i].next]
        BY <1>3, <2>4, <4>1 DEF Steps
      <4>3. From(R, i) = From(E, i)
        BY <1>2, <4>1, <4>2
      <4> QED
        BY <3>2, <4>3
    <3> QED
      BY <3>1, <3>2
  <2> QED
    BY <2>3, <2>5, <2>6
<1> QED
  <2>1. 1 \in 1..n + 1
    BY <1>3
  <2> QED
    BY <1>1, <1>8, <2>1

-----------------------------------------------------------------------------
(* The wide string of a reading                                            *)

(* How FlattenSeq goes: g[i] are the first i sequences, one after another. *)
Flat(seqs, g, S) ==
    /\ g \in [1..Len(seqs) -> Seq(S)]
    /\ \A i \in 1..Len(seqs) : g[i] = IF i = 1 THEN seqs[i] ELSE g[i - 1] \o seqs[i]

IsFlat(seqs, x, S) ==
    IF Len(seqs) = 0 THEN x = <<>> ELSE \E g : Flat(seqs, g, S) /\ x = g[Len(seqs)]

LEMMA FlatIs ==
    ASSUME NEW S, NEW seqs \in Seq(Seq(S)), NEW x, IsFlat(seqs, x, S)
    PROVE  FlattenSeq(seqs) = x
<1> DEFINE n == Len(seqs)
<1>1. CASE n = 0
  BY <1>1 DEF IsFlat, FlattenSeq
<1>2. CASE n # 0
  <2> DEFINE At(f, i) == IF i = 1 THEN seqs[i] ELSE f[i - 1] \o seqs[i]
             Body(f) == [i \in 1..n |-> At(f, i)]
             R == CHOOSE f : f = Body(f)
  <2>1. FlattenSeq(seqs) = R[n]
    BY <1>2 DEF FlattenSeq
  <2>2. PICK g : Flat(seqs, g, S) /\ x = g[n]
    BY <1>2 DEF IsFlat
  <2>3. g = Body(g)
    <3>1. g = [i \in 1..n |-> g[i]] /\ \A i \in 1..n : g[i] = At(g, i)
      BY <2>2 DEF Flat
    <3> HIDE DEF At
    <3> QED
      BY <3>1
  <2>4. R = Body(R)
    BY Zenon, <2>3
  <2> HIDE DEF R
  <2>5. \A i \in 1..n : R[i] = At(R, i)
    <3>1. \A i \in 1..n : Body(R)[i] = At(R, i)
      BY Zenon
    <3> HIDE DEF Body, At
    <3> QED
      BY Zenon, <2>4, <3>1
  <2>6. n \in Nat /\ n \in 1..n
    BY <1>2
  <2> HIDE DEF n, Body
  <2>7. \A i \in 1..n : R[i] = g[i]
    <3> DEFINE Bad == {i \in 1..n : R[i] # g[i]}
    <3>1. SUFFICES ASSUME Bad # {} PROVE FALSE
      BY DEF Bad
    <3>2. PICK i \in Bad : \A j \in Bad : i <= j
      <4>1. Bad \subseteq Nat
        OBVIOUS
      <4> HIDE DEF Bad
      <4> QED
        BY <3>1, <4>1, Least
    <3>0. \A j \in 1..n : g[j] = At(g, j)
      BY <2>2 DEF Flat, n
    <3>3. i \in 1..n /\ R[i] # g[i] /\ R[i] = At(R, i) /\ g[i] = At(g, i)
      <4>1. i \in 1..n /\ R[i] # g[i]
        BY <3>2
      <4> HIDE DEF At
      <4> QED
        BY <2>5, <3>0, <4>1
    <3>4. CASE i = 1
      BY <3>3, <3>4
    <3>5. CASE i # 1
      <4>1. i - 1 \in 1..n /\ ~(i <= i - 1)
        <5>1. i \in 1..n
          BY <3>3
        <5> QED
          BY <2>6, <3>5, <5>1
      <4>2. R[i - 1] = g[i - 1]
        BY <3>2, <4>1
      <4> QED
        BY <3>3, <3>5, <4>2
    <3> QED
      BY <3>4, <3>5
  <2> QED
    BY <2>1, <2>2, <2>6, <2>7
<1> QED
  BY <1>1, <1>2

LEMMA Associates ==
    ASSUME NEW S, NEW a \in Seq(S), NEW b \in Seq(S), NEW c \in Seq(S)
    PROVE  a \o (b \o c) = (a \o b) \o c
<1> DEFINE l == Len(a)
           m == Len(b)
           n == Len(c)
           u == b \o c
           v == a \o b
           x == a \o u
           y == v \o c
<1>1. l \in Nat /\ m \in Nat /\ n \in Nat
  OBVIOUS
<1>2. /\ u \in Seq(S) /\ Len(u) = m + n /\ (\A k \in 1..m : u[k] = b[k]) /\ (\A k \in 1..n : u[m + k] = c[k])
      /\ v \in Seq(S) /\ Len(v) = l + m /\ (\A k \in 1..l : v[k] = a[k]) /\ (\A k \in 1..m : v[l + k] = b[k])
  BY Joins
<1> HIDE DEF u, v
<1>3. /\ x \in Seq(S) /\ Len(x) = l + (m + n)
      /\ (\A k \in 1..l : x[k] = a[k]) /\ (\A k \in 1..m + n : x[l + k] = u[k])
  <2>1. u \in Seq(S)
    BY <1>2
  <2>2. /\ x \in Seq(S) /\ Len(x) = l + Len(u)
        /\ (\A k \in 1..l : x[k] = a[k]) /\ (\A k \in 1..Len(u) : x[l + k] = u[k])
    BY SMTT(30), <2>1, Joins
  <2> QED
    BY <1>2, <2>2
<1>4. /\ y \in Seq(S) /\ Len(y) = (l + m) + n
      /\ (\A k \in 1..l + m : y[k] = v[k]) /\ (\A k \in 1..n : y[(l + m) + k] = c[k])
  <2>1. v \in Seq(S)
    BY <1>2
  <2>2. /\ y \in Seq(S) /\ Len(y) = Len(v) + n
        /\ (\A k \in 1..Len(v) : y[k] = v[k]) /\ (\A k \in 1..n : y[Len(v) + k] = c[k])
    BY SMTT(30), <2>1, Joins
  <2> QED
    BY <1>2, <2>2
<1> HIDE DEF x, y, l, m, n
<1>5. Len(x) = Len(y)
  BY <1>1, <1>3, <1>4
<1>6. ASSUME NEW k \in 1..Len(x) PROVE x[k] = y[k]
  <2>1. k \in Nat /\ 1 <= k /\ k <= l + (m + n)
    BY <1>1, <1>3
  <2>2. CASE k <= l
    <3>1. k \in 1..l /\ k \in 1..l + m
      BY <1>1, <2>1, <2>2
    <3> QED
      BY <1>2, <1>3, <1>4, <3>1
  <2>3. CASE l < k /\ k <= l + m
    <3> DEFINE j == k - l
    <3>1. j \in 1..m /\ j \in 1..m + n /\ k = l + j /\ k \in 1..l + m
      BY <1>1, <2>1, <2>3
    <3> HIDE DEF j
    <3> QED
      BY <1>2, <1>3, <1>4, <3>1
  <2>4. CASE l + m < k
    <3> DEFINE j == k - (l + m)
    <3>1. j \in 1..n /\ k = (l + m) + j /\ m + j \in 1..m + n /\ k = l + (m + j)
      BY <1>1, <2>1, <2>4
    <3> HIDE DEF j
    <3> QED
      BY SMTT(60), <1>2, <1>3, <1>4, <3>1
  <2> QED
    BY <1>1, <2>1, <2>2, <2>3, <2>4
<1>7. x = y
  BY <1>3, <1>4, <1>5, <1>6, SeqEqual
<1> QED
  BY <1>7 DEF x, y, u, v

LEMMA FlatCons ==
    ASSUME NEW S, NEW seqs \in Seq(Seq(S)), NEW x \in Seq(S), IsFlat(seqs, x, S), NEW e \in Seq(S),
           NEW all \in Seq(Seq(S)), all = <<e>> \o seqs
    PROVE  IsFlat(all, e \o x, S)
<1> DEFINE n == Len(seqs)
<1>1. n \in Nat /\ Len(all) = n + 1 /\ all[1] = e /\ \A i \in 1..n : all[i + 1] = seqs[i]
  OBVIOUS
<1>2. CASE n = 0
  <2> DEFINE h == [i \in 1..1 |-> e]
  <2>1. x = <<>> /\ e \o x = e
    BY <1>2 DEF IsFlat
  <2>2. \A i \in 1..1 : i = 1 /\ h[i] = e
    OBVIOUS
  <2>3. h \in [1..1 -> Seq(S)]
    OBVIOUS
  <2> HIDE DEF h
  <2>4. Flat(all, h, S) /\ h[1] = e
    BY <1>1, <1>2, <2>2, <2>3 DEF Flat
  <2> QED
    BY <1>1, <1>2, <2>1, <2>4 DEF IsFlat
<1>3. CASE n # 0
  <2>1. PICK g : Flat(seqs, g, S) /\ x = g[n]
    BY <1>3 DEF IsFlat
  <2> DEFINE h == [i \in 1..n + 1 |-> IF i = 1 THEN e ELSE e \o g[i - 1]]
  <2>2. h[1] = e /\ \A i \in 1..n + 1 : i # 1 => h[i] = e \o g[i - 1]
    <3>1. 1 \in 1..n + 1
      BY <1>1
    <3> QED
      BY Zenon, <3>1
  <2>3. \A i \in 1..n : g[i] \in Seq(S) /\ seqs[i] \in Seq(S)
    <3>1. g \in [1..n -> Seq(S)]
      BY <2>1 DEF Flat
    <3>2. \A i \in 1..n : g[i] \in Seq(S)
      BY <3>1
    <3>3. \A i \in 1..n : seqs[i] \in Seq(S)
      OBVIOUS
    <3> QED
      BY <3>2, <3>3
  <2>4. \A i \in 1..n + 1 : i # 1 => i - 1 \in 1..n /\ i - 1 + 1 = i
    BY <1>1
  <2>g. \A i \in 1..n : g[i] = IF i = 1 THEN seqs[i] ELSE g[i - 1] \o seqs[i]
    BY Zenon, <2>1 DEF Flat
  <2>5. h \in [1..n + 1 -> Seq(S)]
    <3>1. \A t \in Seq(S) : e \o t \in Seq(S)
      OBVIOUS
    <3>2. \A i \in 1..n + 1 : i # 1 => e \o g[i - 1] \in Seq(S)
      BY Zenon, <2>3, <2>4, <3>1
    <3> QED
      BY <3>2
  <2> HIDE DEF h
  <2>6. ASSUME NEW i \in 1..n + 1 PROVE h[i] = IF i = 1 THEN all[i] ELSE h[i - 1] \o all[i]
    <3>1. CASE i = 1
      BY <1>1, <2>2, <3>1
    <3>2. CASE i # 1
      <4> DEFINE j == i - 1
      <4>a. j \in 1..n /\ j + 1 = i
        BY Zenon, <2>4, <3>2
      <4>b. all[i] = seqs[j]
        BY Zenon, <1>1, <4>a
      <4>c. h[i] = e \o g[j]
        BY Zenon, <2>2, <3>2
      <4>d. j \in 1..n + 1
        BY <1>1, <4>a
      <4>1. j \in 1..n /\ i = j + 1 /\ all[i] = seqs[j] /\ h[i] = e \o g[j] /\ j \in 1..n + 1
        BY Zenon, <4>a, <4>b, <4>c, <4>d
      <4> HIDE DEF j
      <4>2. CASE j = 1
        <5>1. g[j] = seqs[j] /\ h[j] = e
          BY <2>1, <2>2, <4>1, <4>2 DEF Flat
        <5> QED
          BY <3>2, <4>1, <5>1 DEF j
      <4>3. CASE j # 1
        <5>1. g[j] = g[j - 1] \o seqs[j] /\ h[j] = e \o g[j - 1] /\ j - 1 \in 1..n
          <6>1. g[j] = g[j - 1] \o seqs[j]
            BY <2>g, <4>1, <4>3
          <6>2. h[j] = e \o g[j - 1] /\ j - 1 \in 1..n
            BY <2>2, <2>4, <4>1, <4>3
          <6> QED
            BY <6>1, <6>2
        <5>2. e \o (g[j - 1] \o seqs[j]) = (e \o g[j - 1]) \o seqs[j]
          <6>1. g[j - 1] \in Seq(S) /\ seqs[j] \in Seq(S)
            BY <2>3, <4>1, <5>1
          <6> DEFINE p == g[j - 1]
                     q == seqs[j]
          <6>2. p \in Seq(S) /\ q \in Seq(S) /\ e \in Seq(S)
            BY <6>1
          <6> HIDE DEF p, q
          <6>3. e \o (p \o q) = (e \o p) \o q
            BY SMTT(30), <6>2, Associates
          <6> QED
            BY <6>3 DEF p, q
        <5>3. h[i] = h[j] \o all[i]
          BY Zenon, <4>1, <5>1, <5>2
        <5> QED
          BY <3>2, <5>3 DEF j
      <4> QED
        BY <4>2, <4>3
    <3> QED
      BY <3>1, <3>2
  <2>7. Flat(all, h, S)
    BY Zenon, <1>1, <2>5, <2>6 DEF Flat
  <2>8. h[n + 1] = e \o x
    <3>1. n + 1 \in 1..n + 1 /\ n + 1 # 1 /\ (n + 1) - 1 = n
      BY <1>1, <1>3
    <3> QED
      BY <2>1, <2>2, <3>1
  <2>9. n + 1 # 0 /\ Len(all) = n + 1
    BY <1>1
  <2>10. Flat(all, h, S) /\ e \o x = h[Len(all)] /\ Len(all) # 0
    BY Zenon, <2>7, <2>8, <2>9
  <2> QED
    BY Zenon, <2>10 DEF IsFlat
<1> QED
  BY <1>2, <1>3

LEMMA EncodedIs ==
    ASSUME NEW c \in Nat, NEW width
    PROVE  Encoded(c, width) = Units(c, width)
BY SMTT(30) DEF Encoded, Units

Encodings(values, width) == [i \in DOMAIN values |-> Encoded(values[i], width)]

LEMMA EncodingsOf ==
    ASSUME NEW width \in {2, 4}, NEW values \in Seq(Scalar)
    PROVE  /\ Encodings(values, width) \in Seq(Seq(Unit(width)))
           /\ Len(Encodings(values, width)) = Len(values)
           /\ \A i \in 1..Len(values) : Encodings(values, width)[i] = Encoded(values[i], width)
<1>1. \A c \in Scalar : Encoded(c, width) \in Seq(Unit(width))
  <2>1. \A c \in Scalar : c \in Nat
    BY ScalarIs
  <2> QED
    BY <2>1, EncodedIs, UnitsOf
<1>2. DOMAIN values = 1..Len(values) /\ Len(values) \in Nat /\ \A i \in 1..Len(values) : values[i] \in Scalar
  OBVIOUS
<1> QED
  BY <1>1, <1>2 DEF Encodings

LEMMA EncodingsCons ==
    ASSUME NEW width \in {2, 4}, NEW values \in Seq(Scalar), NEW c \in Scalar
    PROVE  Encodings(<<c>> \o values, width) = <<Encoded(c, width)>> \o Encodings(values, width)
<1> DEFINE all == <<c>> \o values
           n == Len(values)
           a == Encodings(all, width)
           b == Encodings(values, width)
           e == Encoded(c, width)
           u == <<e>> \o b
<1>1. n \in Nat /\ all \in Seq(Scalar) /\ Len(all) = n + 1 /\ all[1] = c /\ \A i \in 1..n : all[i + 1] = values[i]
  OBVIOUS
<1> HIDE DEF all
<1>2. /\ a \in Seq(Seq(Unit(width))) /\ Len(a) = n + 1
      /\ \A i \in 1..n + 1 : a[i] = Encoded(all[i], width)
  BY <1>1, EncodingsOf
<1>3. /\ b \in Seq(Seq(Unit(width))) /\ Len(b) = n
      /\ \A i \in 1..n : b[i] = Encoded(values[i], width)
  BY EncodingsOf
<1>4. 1 \in 1..n + 1 /\ \A i \in 1..n : i + 1 \in 1..n + 1
  BY <1>1
<1>5. e = a[1] /\ e \in Seq(Unit(width))
  BY <1>1, <1>2, <1>4
<1> HIDE DEF a, b, e
<1>6. u \in Seq(Seq(Unit(width))) /\ Len(u) = n + 1 /\ u[1] = e /\ \A i \in 1..n : u[i + 1] = b[i]
  BY <1>3, <1>5
<1> HIDE DEF u
<1>7. \A i \in 1..n + 1 : a[i] = u[i]
  <2>1. \A i \in 1..n + 1 : i = 1 \/ \E j \in 1..n : i = j + 1
    <3>1. \A i \in 1..n + 1 : i # 1 => i - 1 \in 1..n /\ i = (i - 1) + 1
      BY <1>1
    <3> QED
      BY <3>1
  <2>2. \A j \in 1..n : a[j + 1] = u[j + 1]
    BY <1>1, <1>2, <1>3, <1>4, <1>6
  <2> QED
    BY <1>5, <1>6, <2>1, <2>2
<1>8. a = u
  BY <1>2, <1>6, <1>7, SeqEqual
<1> QED
  BY <1>8 DEF a, u, b, e, all

LEMMA WalkFails ==
    ASSUME NEW n \in Nat, NEW S, NEW step, Steps(step, n, S), NEW r, Walk(step, n, S, r, 1),
           NEW i \in 1..n + 1
    PROVE  r[i].ok \/ r[i].text = <<>>
<1>1. r[i] = Goes(step, n, r, i)
  BY DEF Walk
<1>2. CASE i > n
  BY <1>1, <1>2 DEF Goes, Done
<1>3. CASE ~(i > n) /\ step[i].ok
  <2> DEFINE s == step[i].text
             rest == r[step[i].next]
  <2>1. r[i] = Ahead(s, rest)
    BY <1>1, <1>3 DEF Goes
  <2>2. Ahead(s, rest).ok \/ Ahead(s, rest).text = <<>>
    BY DEF Ahead, Failed
  <2> QED
    BY <2>1, <2>2
<1>4. CASE ~(i > n) /\ ~step[i].ok
  BY <1>1, <1>4 DEF Goes, Failed
<1> QED
  BY <1>2, <1>3, <1>4

LEMMA BothRead ==
    ASSUME NEW text \in Seq(Byte), NEW width \in {2, 4}, NEW i \in 1..Len(text)
    PROVE  LET w == WideStep(text, width)[i]
               v == ReadStep(text)[i]
               c == DecodeUtf8CodePoint(text, i).code_point
           IN  /\ w.ok = v.ok /\ w.next = v.next
               /\ w.ok => /\ c \in Scalar /\ Holds(text, i, c)
                          /\ w.next = i + Len(AppendUtf8(c))
                          /\ w.text = Units(c, width) /\ v.text = <<c>>
<1> DEFINE d == DecodeUtf8CodePoint(text, i)
           c == d.code_point
           w == WideStep(text, width)[i]
           v == ReadStep(text)[i]
<1>1. w = [ok |-> d.ok, text |-> IF d.ok THEN Units(c, width) ELSE <<>>, next |-> d.next]
  BY DEF WideStep
<1>2. v = [ok |-> d.ok, text |-> IF d.ok THEN <<c>> ELSE <<>>, next |-> d.next]
  BY DEF ReadStep
<1>3. d.ok => c \in Scalar /\ Holds(text, i, c) /\ d.next = i + Len(AppendUtf8(c))
  BY Decodes
<1> HIDE DEF d, w, v
<1> DEFINE own == Units(c, width)
<1> HIDE DEF own
<1>4. w.ok = d.ok /\ v.ok = d.ok /\ w.next = d.next /\ v.next = d.next
  BY <1>1, <1>2
<1>5. d.ok => w.text = own /\ v.text = <<c>>
  BY <1>1, <1>2 DEF own
<1> QED
  BY <1>3, <1>4, <1>5 DEF own, d, w, v

(* The wide text of one code point more.                                   *)
LEMMA FlatUnits ==
    ASSUME NEW width \in {2, 4}, NEW c \in Scalar, NEW y \in Seq(Scalar),
           NEW x \in Seq(Unit(width)), IsFlat(Encodings(y, width), x, Unit(width))
    PROVE  IsFlat(Encodings(<<c>> \o y, width), Units(c, width) \o x, Unit(width))
<1> DEFINE all == Encodings(<<c>> \o y, width)
           seqs == Encodings(y, width)
           e == Units(c, width)
           S == Unit(width)
<1>1. e \in Seq(S)
  BY UnitsOf
<1>2. Encoded(c, width) = e
  <2>1. c \in Nat
    BY ScalarIs
  <2> QED
    BY <2>1, EncodedIs
<1>3. all = <<Encoded(c, width)>> \o seqs
  BY Zenon, EncodingsCons
<1>4. <<c>> \o y \in Seq(Scalar)
  OBVIOUS
<1>5. all \in Seq(Seq(S)) /\ seqs \in Seq(Seq(S))
  BY Zenon, <1>4, EncodingsOf
<1>6. all = <<e>> \o seqs
  BY Zenon, <1>2, <1>3
<1>7. IsFlat(seqs, x, S) /\ x \in Seq(S)
  OBVIOUS
<1> HIDE DEF all, seqs, e, S
<1> SUFFICES IsFlat(all, e \o x, S)
  BY Zenon DEF all, e, S
<1> QED
  BY Zenon, <1>1, <1>5, <1>6, <1>7, FlatCons

(* The wide text is that of the code points which are read.                *)
LEMMA SameWide ==
    ASSUME NEW text \in Seq(Byte), NEW width \in {2, 4},
           NEW v, Walk(ReadStep(text), Len(text), Scalar, v, 1),
           NEW r, Walk(WideStep(text, width), Len(text), Unit(width), r, 1)
    PROVE  \A i \in 1..Len(text) + 1 :
               /\ r[i].ok <=> v[i].ok
               /\ v[i].ok => IsFlat(Encodings(v[i].text, width), r[i].text, Unit(width))
<1> DEFINE n == Len(text)
           a == WideStep(text, width)
           b == ReadStep(text)
           Good(i) == /\ r[i].ok <=> v[i].ok
                      /\ v[i].ok => IsFlat(Encodings(v[i].text, width), r[i].text, Unit(width))
           Bad == {i \in 1..n + 1 : ~Good(i)}
<1>1. SUFFICES ASSUME Bad # {} PROVE FALSE
  OBVIOUS
<1>2. PICK i \in Bad : \A j \in Bad : j <= i
  <2>1. Bad \subseteq 1..n + 1 /\ n + 1 \in Nat
    OBVIOUS
  <2> HIDE DEF Bad
  <2> QED
    BY <1>1, <2>1, Latest
<1>3. i \in 1..n + 1 /\ ~Good(i) /\ \A j \in i + 1..n + 1 : Good(j)
  <2>1. \A j \in i + 1..n + 1 : j \in 1..n + 1 /\ ~(j <= i)
    OBVIOUS
  <2> HIDE DEF Good
  <2> QED
    BY <1>2, <2>1
<1> HIDE DEF Bad
<1>4. r[i] = Goes(a, n, r, i) /\ v[i] = Goes(b, n, v, i) /\ n \in Nat
  BY <1>3 DEF Walk
<1>5. CASE i > n
  <2>1. r[i] = Done /\ v[i] = Done
    BY <1>4, <1>5 DEF Goes
  <2>2. r[i].ok /\ v[i].ok /\ r[i].text = <<>> /\ v[i].text = <<>>
    BY <2>1 DEF Done
  <2>3. IsFlat(Encodings(<<>>, width), <<>>, Unit(width))
    <3>1. <<>> \in Seq(Scalar) /\ Len(<<>>) = 0
      OBVIOUS
    <3>2. Len(Encodings(<<>>, width)) = 0
      BY <3>1, EncodingsOf
    <3> QED
      BY <3>2 DEF IsFlat
  <2> QED
    BY <1>3, <2>2, <2>3
<1>6. CASE ~(i > n)
  <2> DEFINE c == DecodeUtf8CodePoint(text, i).code_point
             j == a[i].next
             x == r[j].text
             y == v[j].text
  <2>1. i \in 1..n
    BY <1>3, <1>4, <1>6
  <2>2. /\ a[i].ok = b[i].ok /\ a[i].next = b[i].next
        /\ a[i].ok => c \in Scalar /\ a[i].text = Units(c, width) /\ b[i].text = <<c>>
    BY <2>1, BothRead
  <2>3. Steps(a, n, Unit(width))
    BY WideSteps
  <2> HIDE DEF a, b, c
  <2>4. CASE ~a[i].ok
    <3>1. r[i] = Failed /\ v[i] = Failed
      BY <1>4, <1>6, <2>2, <2>4 DEF Goes
    <3> QED
      BY <1>3, <3>1 DEF Failed
  <2>5. CASE a[i].ok
    <3>1. r[i] = Ahead(Units(c, width), r[j]) /\ v[i] = Ahead(<<c>>, v[j])
      BY <1>4, <1>6, <2>2, <2>5 DEF Goes
    <3>2. j \in i + 1..n + 1 /\ j \in 1..n + 1
      BY <2>1, <2>3, <2>5 DEF Steps
    <3>3. r[j] \in Result(Unit(width)) /\ v[j] \in Result(Scalar)
      BY <3>2 DEF Walk
    <3>4. Good(j)
      BY <1>3, <3>2
    <3>5. Units(c, width) \in Seq(Unit(width)) /\ <<c>> \in Seq(Scalar) /\ c \in Scalar
      BY <2>2, <2>5, UnitsOf
    <3> HIDE DEF j
    <3>6. CASE ~v[j].ok
      <4>1. r[i] = Failed /\ v[i] = Failed
        <5>1. ~r[j].ok /\ ~v[j].ok
          BY <3>4, <3>6
        <5>2. \A s, u : ~u.ok => Ahead(s, u) = Failed
          BY Zenon DEF Ahead
        <5> QED
          BY Zenon, <3>1, <5>1, <5>2
      <4> QED
        BY <1>3, <4>1 DEF Failed
    <3>7. CASE v[j].ok
      <4>1. /\ r[i].ok /\ r[i].text = Units(c, width) \o x
            /\ v[i].ok /\ v[i].text = <<c>> \o y
        BY SMTT(60), <3>1, <3>4, <3>7 DEF Ahead
      <4>2. x \in Seq(Unit(width)) /\ y \in Seq(Scalar) /\ IsFlat(Encodings(y, width), x, Unit(width))
        BY <3>3, <3>4, <3>7 DEF Result
      <4> HIDE DEF x, y
      <4>3. IsFlat(Encodings(<<c>> \o y, width), Units(c, width) \o x, Unit(width))
        BY Zenon, <3>5, <4>2, FlatUnits
      <4> QED
        BY <1>3, <4>1, <4>3
    <3> QED
      BY <3>6, <3>7
  <2> QED
    BY <2>4, <2>5
<1> QED
  BY <1>5, <1>6

-----------------------------------------------------------------------------
(* StringToWString, on every text                                          *)

LEMMA WritesOneCode ==
    ASSUME NEW width \in {2, 4}, NEW wide \in Seq(Nat), NEW p \in 1..Len(wide), NEW c \in Scalar,
           HoldsUnits(wide, p, c, width)
    PROVE  NarrowStep(wide, width)[p] =
               [ok |-> TRUE, text |-> AppendUtf8(c), next |-> p + Len(Units(c, width))]
<1> DEFINE d == WideCodePoint(wide, p, width)
           own == AppendUtf8(c)
           n == Len(Units(c, width))
<1>1. d = [ok |-> TRUE, units |-> n, code_point |-> c]
  BY Zenon, ReadsUnitsAgain
<1>2. NarrowStep(wide, width)[p] =
          [ok |-> d.ok, text |-> IF d.ok THEN AppendUtf8(d.code_point) ELSE <<>>, next |-> p + d.units]
  BY DEF NarrowStep
<1> HIDE DEF d, n
<1>3. d.ok /\ d.code_point = c /\ d.units = n
  BY <1>1
<1>4. NarrowStep(wide, width)[p] = [ok |-> TRUE, text |-> AppendUtf8(c), next |-> p + n]
  BY Zenon, <1>2, <1>3
<1> QED
  BY Zenon, <1>4 DEF n

LEMMA WideLeadsBack ==
    ASSUME NEW text \in Seq(Byte), NEW width \in {2, 4}, NEW wide \in Seq(Unit(width)),
           NEW i \in 1..Len(text), NEW p \in 1..Len(wide),
           NEW a, a = WideStep(text, width)[i], a.ok, Has(wide, p, a.text),
           NEW b, b = NarrowStep(wide, width)[p]
    PROVE  LeadsBack(a, i, text, b, p)
<1> DEFINE c == DecodeUtf8CodePoint(text, i).code_point
           bytes == AppendUtf8(c)
           units == Units(c, width)
<1>1. c \in Scalar /\ Holds(text, i, c) /\ a.next = i + Len(bytes) /\ a.text = units
  BY Zenon, BothRead
<1> HIDE DEF c
<1>2. Has(text, i, bytes)
  BY Zenon, <1>1 DEF Has, Holds
<1>3. HoldsUnits(wide, p, c, width)
  BY Zenon, <1>1 DEF Has, HoldsUnits
<1>4. wide \in Seq(Nat)
  <2>1. Unit(width) \subseteq Nat
    BY DEF Unit
  <2> QED
    BY <2>1
<1>5. b = [ok |-> TRUE, text |-> bytes, next |-> p + Len(units)]
  BY Zenon, <1>1, <1>3, <1>4, WritesOneCode
<1> HIDE DEF bytes, units
<1>6. b.ok /\ b.text = bytes /\ b.next = p + Len(units)
  BY <1>5
<1> QED
  BY Zenon, <1>1, <1>2, <1>6 DEF LeadsBack

LEMMA WideReflects ==
    ASSUME NEW text \in Seq(Byte), NEW width \in {2, 4}, NEW wide \in Seq(Unit(width))
    PROVE  Reflects(WideStep(text, width), text, NarrowStep(wide, width), wide)
<1>1. ASSUME NEW i \in 1..Len(text), NEW a, a = WideStep(text, width)[i], a.ok
      PROVE  a.text # <<>>
  <2> DEFINE c == DecodeUtf8CodePoint(text, i).code_point
             units == Units(c, width)
             l == Len(units)
  <2>1. c \in Scalar /\ a.text = units
    BY Zenon, <1>1, BothRead
  <2>2. l \in 1..2
    BY Zenon, <2>1, UnitsOf
  <2> HIDE DEF l
  <2>3. l # 0 /\ Len(<<>>) = 0
    BY <2>2
  <2> QED
    BY Zenon, <2>1, <2>3 DEF l
<1>2. ASSUME NEW i \in 1..Len(text), NEW p \in 1..Len(wide),
             NEW a, a = WideStep(text, width)[i], a.ok, Has(wide, p, a.text)
      PROVE  LeadsBack(a, i, text, NarrowStep(wide, width)[p], p)
  BY Zenon, <1>2, WideLeadsBack
<1> QED
  BY Zenon, <1>1, <1>2 DEF Reflects

LEMMA ComesBack ==
    ASSUME NEW text \in Seq(Byte), NEW width \in {2, 4},
           NEW r, Walk(WideStep(text, width), Len(text), Unit(width), r, 1), r[1].ok,
           NEW wide, wide = r[1].text
    PROVE  WStringToString(wide, width) = text
<1> DEFINE a == WideStep(text, width)
           b == NarrowStep(wide, width)
           T == Unit(width)
<1>1. wide \in Seq(T)
  <2>1. Len(text) \in Nat
    OBVIOUS
  <2>2. 1 \in 1..Len(text) + 1
    BY <2>1
  <2>3. r[1] \in Result(T)
    BY <2>2 DEF Walk
  <2> QED
    BY <2>3 DEF Result
<1>2. Steps(a, Len(text), T) /\ Steps(b, Len(wide), Byte)
  BY Zenon, <1>1, WideSteps, NarrowSteps
<1>3. Len(wide) \in Nat
  BY <1>1
<1>4. PICK q : Walk(b, Len(wide), Byte, q, 1)
  BY Zenon, <1>2, <1>3, WalkExists
<1>5. Reflects(a, text, b, wide)
  BY Zenon, <1>1, WideReflects
<1>6. Walk(a, Len(text), T, r, 1) /\ r[1].ok /\ r[1].text = wide
  OBVIOUS
<1>7. WStringToString(wide, width) = q[1].text
  BY Zenon, <1>1, <1>4, NarrowWalk
<1> HIDE DEF a, b, T
<1>8. q[1].text = text
  BY SMTT(30), <1>1, <1>2, <1>4, <1>5, <1>6, Mirrored
<1> QED
  BY Zenon, <1>7, <1>8

(* StringToWString and the Unicode standard agree on every text: what is   *)
(* well-formed gives the wide string of its scalar values and comes back   *)
(* from it through WStringToString, all else gives nothing.                *)
THEOREM WideAgrees ==
    ASSUME NEW text \in Seq(Byte), NEW width \in {2, 4}
    PROVE  LET wide == StringToWString(text, width)
               said == Readings(text)
           IN  IF said = {} THEN wide = <<>>
               ELSE /\ \A values \in said : wide = Wide(values, width)
                    /\ WStringToString(wide, width) = text
<1> DEFINE n == Len(text)
           wide == StringToWString(text, width)
           said == Readings(text)
           T == Unit(width)
<1>1. n \in Nat
  OBVIOUS
<1>2. PICK r : Walk(WideStep(text, width), n, T, r, 1)
  BY Zenon, <1>1, WideSteps, WalkExists
<1>3. PICK v : Walk(ReadStep(text), n, Scalar, v, 1)
  BY Zenon, <1>1, ReadSteps, WalkExists
<1>4. wide = r[1].text /\ said = Readable(v[1])
  BY Zenon, <1>2, <1>3, WideWalk, ReadingIs
<1>5. 1 \in 1..n + 1
  BY <1>1
<1>6. /\ r[1].ok <=> v[1].ok
      /\ v[1].ok => IsFlat(Encodings(v[1].text, width), r[1].text, T)
  BY Zenon, <1>2, <1>3, <1>5, SameWide
<1>7. v[1] \in Result(Scalar)
  BY <1>3, <1>5 DEF Walk
<1>8. CASE ~v[1].ok
  <2>1. Steps(WideStep(text, width), n, T)
    BY Zenon, WideSteps
  <2>2. r[1].ok \/ r[1].text = <<>>
    BY SMTT(30), <1>1, <1>2, <1>5, <2>1, WalkFails
  <2>3. said = {} /\ wide = <<>>
    BY Zenon, <1>4, <1>6, <1>8, <2>2 DEF Readable
  <2> HIDE DEF said, wide
  <2>4. QED
    BY Zenon, <2>3 DEF said, wide
<1>9. CASE v[1].ok
  <2>1. said = {v[1].text}
    BY Zenon, <1>4, <1>9 DEF Readable
  <2>2. WStringToString(r[1].text, width) = text
    BY Zenon, <1>2, <1>6, <1>9, ComesBack
  <2>3. v[1].text \in Seq(Scalar)
    BY <1>7 DEF Result
  <2>4. Encodings(v[1].text, width) \in Seq(Seq(T))
    BY Zenon, <2>3, EncodingsOf
  <2>5. FlattenSeq(Encodings(v[1].text, width)) = r[1].text
    BY Zenon, <1>6, <1>9, <2>4, FlatIs
  <2>6. Wide(v[1].text, width) = wide
    BY Zenon, <1>4, <2>5 DEF Wide, Encodings
  <2>7. WStringToString(wide, width) = text
    BY Zenon, <1>4, <2>2
  <2> HIDE DEF said, wide
  <2>8. said # {} /\ \A values \in said : wide = Wide(values, width)
    BY Zenon, <2>1, <2>6
  <2> QED
    BY Zenon, <2>7, <2>8 DEF said, wide
<1> QED
  BY Zenon, <1>8, <1>9

-----------------------------------------------------------------------------
(* WStringToString, on every wide string                                   *)

(* From i on, with H and L the places of the high and low surrogates and M *)
(* those of what is not too large: every surrogate is half of a pair.      *)
Formed(n, two, H, L, M, i) ==
    \A k \in i..n :
        /\ k \in M
        /\ k \in H => two /\ k < n /\ k + 1 \in L
        /\ k \in L => two /\ k > i /\ k - 1 \in H

LEMMA FormedPair ==
    ASSUME NEW n \in Nat, NEW two \in BOOLEAN, NEW H, NEW L, NEW M,
           \A k \in H : k \notin L, NEW i \in 1..n,
           two, i \in H, i < n, i + 1 \in L, i \in M, i + 1 \in M
    PROVE  Formed(n, two, H, L, M, i) <=> Formed(n, two, H, L, M, i + 2)
BY DEF Formed

LEMMA FormedSingle ==
    ASSUME NEW n \in Nat, NEW two \in BOOLEAN, NEW H, NEW L, NEW M,
           NEW i \in 1..n, i \notin H, i \notin L, i \in M
    PROVE  Formed(n, two, H, L, M, i) <=> Formed(n, two, H, L, M, i + 1)
BY DEF Formed

LEMMA FormedNot ==
    ASSUME NEW n \in Nat, NEW two \in BOOLEAN, NEW H, NEW L, NEW M, NEW i \in 1..n,
           ~(two /\ i \in H /\ i < n /\ i + 1 \in L), ~(i \notin H /\ i \notin L /\ i \in M)
    PROVE  ~Formed(n, two, H, L, M, i)
BY DEF Formed

Highs(text) == {k \in 1..Len(text) : IsHighSurrogate(text[k])}
Lows(text)  == {k \in 1..Len(text) : IsLowSurrogate(text[k])}

Inside(text) == {k \in 1..Len(text) : text[k] <= MAX_UNICODE_CODE_POINT}

FormedFrom(text, width, i) == Formed(Len(text), width = 2, Highs(text), Lows(text), Inside(text), i)

LEMMA WellFormedIs ==
    ASSUME NEW width, NEW text \in Seq(Nat)
    PROVE  WideWellFormed(text, width) <=> FormedFrom(text, width, 1)
<1> DEFINE Small(v) == v \in 0..LastCodePoint
           High(v) == v \in 55296..56319
           Low(v) == v \in 56320..57343
           n == Len(text)
           H == Highs(text)
           L == Lows(text)
           M == Inside(text)
<1>1. \A i \in 1..n : Small(text[i]) <=> i \in M
  <2>1. LastCodePoint = MAX_UNICODE_CODE_POINT /\ LastCodePoint \in Nat
    BY SMTT(30) DEF LastCodePoint, MAX_UNICODE_CODE_POINT
  <2> QED
    BY <2>1 DEF Inside
<1>2. \A i \in 1..n : High(text[i]) <=> i \in H
  BY SMTT(30) DEF Highs, IsHighSurrogate
<1>3. \A i \in 1..n : Low(text[i]) <=> i \in L
  BY SMTT(30) DEF Lows, IsLowSurrogate
<1>4. \A i : (i \in H \/ i \in L) => i \in 1..n
  BY DEF Highs, Lows
<1>5. WideWellFormed(text, width) <=>
        \A i \in DOMAIN text :
          /\ Small(text[i])
          /\ High(text[i]) => width = 2 /\ i < n /\ Low(text[i + 1])
          /\ Low(text[i]) => width = 2 /\ i > 1 /\ High(text[i - 1])
  BY SMTT(30) DEF WideWellFormed
<1>7. n \in Nat /\ DOMAIN text = 1..n
  OBVIOUS
<1>9. \A i \in 1..n : (i < n => i + 1 \in 1..n) /\ (i > 1 => i - 1 \in 1..n)
  BY <1>7
<1> HIDE DEF Small, High, Low, n, H, L, M
<1> DEFINE P(i) == /\ Small(text[i])
                   /\ High(text[i]) => width = 2 /\ i < n /\ Low(text[i + 1])
                   /\ Low(text[i]) => width = 2 /\ i > 1 /\ High(text[i - 1])
           Q(i) == /\ i \in M
                   /\ i \in H => width = 2 /\ i < n /\ i + 1 \in L
                   /\ i \in L => width = 2 /\ i > 1 /\ i - 1 \in H
<1>8. WideWellFormed(text, width) <=> \A i \in 1..n : Q(i)
  <2>1. ASSUME NEW i \in 1..n PROVE P(i) <=> Q(i)
    <3>1. (Small(text[i]) <=> i \in M) /\ (High(text[i]) <=> i \in H) /\ (Low(text[i]) <=> i \in L)
      BY Zenon, <1>1, <1>2, <1>3
    <3>2. i < n => (Low(text[i + 1]) <=> i + 1 \in L)
      BY Zenon, <1>3, <1>9
    <3>3. i > 1 => (High(text[i - 1]) <=> i - 1 \in H)
      BY Zenon, <1>2, <1>9
    <3> QED
      BY Zenon, <3>1, <3>2, <3>3
  <2>2. WideWellFormed(text, width) <=> \A i \in 1..n : P(i)
    BY Zenon, <1>5, <1>7
  <2> HIDE DEF P, Q
  <2> QED
    BY Zenon, <2>1, <2>2
<1> QED
  BY <1>8 DEF FormedFrom, Formed, n, H, L, M

LEMMA NarrowOkIs ==
    ASSUME NEW width \in {2, 4}, NEW text \in Seq(Unit(width)),
           NEW r, Walk(NarrowStep(text, width), Len(text), Byte, r, 1),
           NEW i \in 1..Len(text), NEW d, d = WideCodePoint(text, i, width)
    PROVE  /\ ~d.ok => ~r[i].ok
           /\ d.ok => r[i].ok = r[i + d.units].ok
<1> DEFINE a == NarrowStep(text, width)
           n == Len(text)
<1>1. a[i].ok = d.ok /\ a[i].next = i + d.units
  <2>1. a[i] = [ok |-> d.ok, text |-> IF d.ok THEN AppendUtf8(d.code_point) ELSE <<>>, next |-> i + d.units]
    BY DEF NarrowStep
  <2> HIDE DEF a
  <2> QED
    BY <2>1
<1>2. r[i] = Goes(a, n, r, i) /\ ~(i > n)
  BY DEF Walk
<1> HIDE DEF a, n
<1>3. r[i] = IF a[i].ok THEN Ahead(a[i].text, r[a[i].next]) ELSE Failed
  BY Zenon, <1>2 DEF Goes
<1>4. CASE ~d.ok
  <2>1. r[i] = Failed
    BY Zenon, <1>1, <1>3, <1>4
  <2>2. ~Failed.ok
    BY DEF Failed
  <2> QED
    BY Zenon, <1>4, <2>1, <2>2
<1>5. CASE d.ok
  <2>1. r[i] = Ahead(a[i].text, r[i + d.units])
    BY Zenon, <1>1, <1>3, <1>5
  <2>2. r[i + d.units].ok \in BOOLEAN
    <3>1. i + d.units \in 1..Len(text) + 1
      <4>1. i + d.units \in i + 1..Len(text) + 1
        BY Zenon, <1>5, WideReads
      <4> QED
        BY <4>1
    <3>2. r[i + d.units] \in Result(Byte)
      BY <3>1 DEF Walk
    <3> QED
      BY <3>2 DEF Result
  <2> DEFINE s == a[i].text
             u == r[i + d.units]
  <2> HIDE DEF s, u
  <2>3. r[i] = Ahead(s, u) /\ u.ok \in BOOLEAN
    BY Zenon, <2>1, <2>2 DEF s, u
  <2>4. Ahead(s, u).ok = u.ok
    BY <2>3 DEF Ahead, Failed
  <2> QED
    BY Zenon, <1>5, <2>3, <2>4 DEF u
<1> QED
  BY Zenon, <1>4, <1>5

(* What WStringToString does not convert is what has a lone surrogate, or  *)
(* a unit which is too large.                                              *)
LEMMA NarrowOkWhenFormed ==
    ASSUME NEW width \in {2, 4}, NEW text \in Seq(Unit(width)),
           NEW r, Walk(NarrowStep(text, width), Len(text), Byte, r, 1)
    PROVE  r[1].ok <=> WideWellFormed(text, width)
<1> DEFINE n == Len(text)
           H == Highs(text)
           L == Lows(text)
           M == Inside(text)
           two == width = 2
           F(i) == Formed(n, two, H, L, M, i)
           Good(i) == r[i].ok <=> F(i)
           Bad == {i \in 1..n + 1 : ~Good(i)}
<1>1. n \in Nat /\ two \in BOOLEAN
  OBVIOUS
<1>2. text \in Seq(Nat)
  <2>1. Unit(width) \subseteq Nat
    BY DEF Unit
  <2> QED
    BY <2>1
<1>3. WideWellFormed(text, width) <=> F(1)
  BY Zenon, <1>2, WellFormedIs DEF FormedFrom
<1>4. ASSUME Bad # {} PROVE FALSE
  <2>1. PICK i \in Bad : \A j \in Bad : j <= i
    <3>1. Bad \subseteq 1..n + 1 /\ n + 1 \in Nat
      BY <1>1
    <3> HIDE DEF Bad
    <3> QED
      BY <1>4, <3>1, Latest
  <2>2. i \in 1..n + 1 /\ ~Good(i) /\ \A j \in i + 1..n + 1 : Good(j)
    <3>1. \A j \in i + 1..n + 1 : j \in 1..n + 1 /\ ~(j <= i)
      BY <1>1
    <3> HIDE DEF Good
    <3> QED
      BY <2>1, <3>1
  <2> HIDE DEF Bad
  <2>3. CASE i = n + 1
    <3>1. r[i] = Goes(NarrowStep(text, width), n, r, i)
      BY <2>2 DEF Walk
    <3>2. r[i].ok
      <4>1. i > n
        BY <1>1, <2>3
      <4>2. r[i] = Done
        BY Zenon, <3>1, <4>1 DEF Goes
      <4> QED
        BY <4>2 DEF Done
    <3>3. F(i)
      BY <1>1, <2>3 DEF Formed
    <3> QED
      BY Zenon, <2>2, <3>2, <3>3
  <2>4. CASE i # n + 1
    <3>1. i \in 1..n
      BY <1>1, <2>2, <2>4
    <3> DEFINE d == WideCodePoint(text, i, width)
    <3>2. (~d.ok => ~r[i].ok) /\ (d.ok => r[i].ok = r[i + d.units].ok)
      BY SMTT(30), <3>1, NarrowOkIs
    <3>3. text[i] \in Nat
      BY <1>2, <3>1
    <3>4. /\ Pair(text, i) <=> i \in H /\ i < n /\ i + 1 \in L
          /\ Single(text, i) <=> i \notin H /\ i \notin L /\ i \in M
      BY <1>1, <3>1 DEF Pair, Single, Highs, Lows, Inside
    <3>5. \A k \in H : k \notin L
      <4>1. \A k \in 1..n : text[k] \in Nat
        BY <1>2
      <4>2. \A v \in Nat : ~(IsHighSurrogate(v) /\ IsLowSurrogate(v))
        BY SMTT(30), SurrogateIs
      <4> QED
        BY <4>1, <4>2 DEF Highs, Lows
    <3> HIDE DEF F
    <3>6. CASE two /\ Pair(text, i)
      <4>1. d.ok /\ d.units = 2
        BY <3>6 DEF WideCodePoint
      <4>2. i \in M /\ i + 1 \in M
        <5>1. i + 1 \in 1..n /\ text[i + 1] \in Nat
          BY <1>1, <1>2, <3>1, <3>4, <3>6
        <5>2. \A v \in Nat : IsHighSurrogate(v) \/ IsLowSurrogate(v) => v <= MAX_UNICODE_CODE_POINT
          BY SMTT(30), SurrogateIs DEF MAX_UNICODE_CODE_POINT
        <5> QED
          BY <3>1, <3>3, <3>6, <5>1, <5>2 DEF Pair, Inside
      <4> HIDE DEF H, L, M, d
      <4>3. F(i) <=> F(i + 2)
        BY Zenon, <1>1, <3>1, <3>4, <3>5, <3>6, <4>2, FormedPair DEF F
      <4>4. i + 2 \in i + 1..n + 1
        BY <1>1, <3>1, <3>4, <3>6
      <4>5. r[i + 2].ok <=> F(i + 2)
        BY Zenon, <2>2, <4>4
      <4> QED
        BY Zenon, <2>2, <3>2, <4>1, <4>3, <4>5
    <3>7. CASE ~(two /\ Pair(text, i)) /\ Single(text, i)
      <4>1. d.ok /\ d.units = 1
        BY <3>7 DEF WideCodePoint
      <4> HIDE DEF H, L, M, d
      <4>2. F(i) <=> F(i + 1)
        BY Zenon, <1>1, <3>1, <3>4, <3>7, FormedSingle DEF F
      <4>3. i + 1 \in i + 1..n + 1
        BY <1>1, <3>1
      <4>4. r[i + 1].ok <=> F(i + 1)
        BY Zenon, <2>2, <4>3
      <4> QED
        BY Zenon, <2>2, <3>2, <4>1, <4>2, <4>4
    <3>8. CASE ~(two /\ Pair(text, i)) /\ ~Single(text, i)
      <4>1. ~d.ok
        BY <3>8 DEF WideCodePoint
      <4> HIDE DEF H, L, M, d
      <4>2. ~F(i)
        BY Zenon, <1>1, <3>1, <3>4, <3>8, FormedNot DEF F
      <4> QED
        BY Zenon, <2>2, <3>2, <4>1, <4>2
    <3> QED
      BY Zenon, <3>6, <3>7, <3>8
  <2> QED
    BY Zenon, <2>3, <2>4
<1>5. Good(1)
  <2>1. 1 \in 1..n + 1
    BY <1>1
  <2> HIDE DEF Good
  <2> QED
    BY <1>4, <2>1
<1> QED
  BY Zenon, <1>3, <1>5

LEMMA NarrowLeadsBack ==
    ASSUME NEW width \in {2, 4}, NEW units \in Seq(Unit(width)), NEW text \in Seq(Byte),
           NEW i \in 1..Len(units), NEW p \in 1..Len(text),
           NEW a, a = NarrowStep(units, width)[i], a.ok, Has(text, p, a.text),
           NEW b, b = WideStep(text, width)[p]
    PROVE  a.text # <<>> /\ LeadsBack(a, i, units, b, p)
<1> DEFINE d == WideCodePoint(units, i, width)
           c == d.code_point
           own == AppendUtf8(c)
           wide == Units(c, width)
<1>1. a = [ok |-> d.ok, text |-> IF d.ok THEN own ELSE <<>>, next |-> i + d.units]
  BY DEF NarrowStep
<1>2. a.ok = d.ok /\ a.next = i + d.units /\ a.text = IF d.ok THEN own ELSE <<>>
  <2> DEFINE s == IF d.ok THEN own ELSE <<>>
             m == i + d.units
             o == d.ok
  <2>1. a = [ok |-> o, text |-> s, next |-> m]
    BY <1>1
  <2> HIDE DEF s, m, o
  <2>2. a.ok = o
    BY <2>1
  <2>3. a.text = s
    BY <2>1
  <2>4. a.next = m
    BY <2>1
  <2> QED
    BY <2>2, <2>3, <2>4 DEF s, m, o
<1>3. d.ok
  BY Zenon, <1>2
<1>4. c \in Scalar /\ HoldsUnits(units, i, c, width) /\ d.units = Len(wide)
  BY Zenon, <1>3, WideReads
<1>5. Holds(text, p, c)
  BY Zenon, <1>2, <1>3 DEF Has, Holds
<1>6. DecodeUtf8CodePoint(text, p) = [ok |-> TRUE, code_point |-> c, next |-> p + Len(own)]
  BY Zenon, <1>4, <1>5, ReadsWhatItWrites
<1> DEFINE e == DecodeUtf8CodePoint(text, p)
<1>7. b = [ok |-> e.ok, text |-> IF e.ok THEN Units(e.code_point, width) ELSE <<>>, next |-> e.next]
  BY DEF WideStep
<1>8. Has(units, i, wide)
  BY Zenon, <1>4 DEF Has, HoldsUnits
<1>9. own # <<>>
  <2> DEFINE l == Len(own)
  <2>1. l \in 1..4
    BY Zenon, <1>4, BytesOf
  <2> HIDE DEF l
  <2>2. l # 0 /\ Len(<<>>) = 0
    BY <2>1
  <2> QED
    BY Zenon, <2>2 DEF l
<1> HIDE DEF c, own, e, d
<1>10. e.ok /\ e.code_point = c /\ e.next = p + Len(own)
  BY <1>6 DEF e
<1> HIDE DEF wide
<1>11. b = [ok |-> TRUE, text |-> wide, next |-> p + Len(own)]
  BY Zenon, <1>7, <1>10 DEF wide
<1>12. b.ok /\ b.text = wide /\ b.next = p + Len(own)
  BY <1>11
<1> QED
  BY Zenon, <1>2, <1>3, <1>4, <1>8, <1>9, <1>12 DEF LeadsBack

LEMMA NarrowReflects ==
    ASSUME NEW width \in {2, 4}, NEW units \in Seq(Unit(width)), NEW text \in Seq(Byte)
    PROVE  Reflects(NarrowStep(units, width), units, WideStep(text, width), text)
<1>1. ASSUME NEW i \in 1..Len(units), NEW a, a = NarrowStep(units, width)[i], a.ok
      PROVE  a.text # <<>>
  <2> DEFINE d == WideCodePoint(units, i, width)
             c == d.code_point
             own == AppendUtf8(c)
             l == Len(own)
  <2>1. a = [ok |-> d.ok, text |-> IF d.ok THEN own ELSE <<>>, next |-> i + d.units]
    BY <1>1 DEF NarrowStep
  <2>2. a.ok = d.ok /\ a.text = IF d.ok THEN own ELSE <<>>
    <3> DEFINE s == IF d.ok THEN own ELSE <<>>
               m == i + d.units
               o == d.ok
    <3>1. a = [ok |-> o, text |-> s, next |-> m]
      BY <2>1
    <3> HIDE DEF s, m, o
    <3>2. a.ok = o
      BY <3>1
    <3>3. a.text = s
      BY <3>1
    <3> QED
      BY <3>2, <3>3 DEF s, m, o
  <2>3. c \in Scalar
    BY Zenon, <1>1, <2>2, WideReads
  <2>4. l \in 1..4
    BY Zenon, <2>3, BytesOf
  <2> HIDE DEF l
  <2>5. l # 0 /\ Len(<<>>) = 0
    BY <2>4
  <2> QED
    BY Zenon, <1>1, <2>2, <2>5 DEF l
<1>2. ASSUME NEW i \in 1..Len(units), NEW p \in 1..Len(text),
             NEW a, a = NarrowStep(units, width)[i], a.ok, Has(text, p, a.text)
      PROVE  LeadsBack(a, i, units, WideStep(text, width)[p], p)
  BY Zenon, <1>2, NarrowLeadsBack
<1> QED
  BY Zenon, <1>1, <1>2 DEF Reflects

LEMMA LenInNat == \A S : \A s \in Seq(S) : Len(s) \in Nat
OBVIOUS

LEMMA FirstResult ==
    ASSUME NEW n \in Nat, NEW S, NEW step, NEW r, Walk(step, n, S, r, 1)
    PROVE  r[1].ok \in BOOLEAN /\ r[1].text \in Seq(S)
<1>1. 1 \in 1..n + 1
  OBVIOUS
<1>2. r[1] \in Result(S)
  BY <1>1 DEF Walk
<1> QED
  BY <1>2 DEF Result

(* What the conversions return.                                            *)
LEMMA WideType ==
    ASSUME NEW text \in Seq(Byte), NEW width \in {2, 4}
    PROVE  StringToWString(text, width) \in Seq(Unit(width))
<1>1. PICK r : Walk(WideStep(text, width), Len(text), Unit(width), r, 1)
  BY Zenon, WideSteps, WalkExists, LenInNat
<1>2. StringToWString(text, width) = r[1].text
  BY Zenon, <1>1, WideWalk
<1>3. r[1].text \in Seq(Unit(width))
  BY Zenon, <1>1, FirstResult, LenInNat
<1> QED
  BY Zenon, <1>2, <1>3

LEMMA NarrowType ==
    ASSUME NEW width \in {2, 4}, NEW units \in Seq(Unit(width))
    PROVE  WStringToString(units, width) \in Seq(Byte)
<1>1. PICK r : Walk(NarrowStep(units, width), Len(units), Byte, r, 1)
  BY Zenon, NarrowSteps, WalkExists, LenInNat
<1>2. WStringToString(units, width) = r[1].text
  BY Zenon, <1>1, NarrowWalk
<1>3. r[1].text \in Seq(Byte)
  BY Zenon, <1>1, FirstResult, LenInNat
<1> QED
  BY Zenon, <1>2, <1>3

LEMMA LeadsToItself ==
    ASSUME NEW width \in {2, 4}, NEW units \in Seq(Unit(width)),
           NEW r, Walk(NarrowStep(units, width), Len(units), Byte, r, 1), r[1].ok,
           NEW text, text = r[1].text
    PROVE  StringToWString(text, width) = units
<1> DEFINE a == NarrowStep(units, width)
           b == WideStep(text, width)
           T == Unit(width)
<1>1. text \in Seq(Byte)
  BY Zenon, FirstResult, LenInNat
<1>2. Steps(a, Len(units), Byte) /\ Steps(b, Len(text), T)
  BY Zenon, <1>1, WideSteps, NarrowSteps
<1>3. Len(text) \in Nat
  BY <1>1
<1>4. PICK q : Walk(b, Len(text), T, q, 1)
  BY Zenon, <1>2, <1>3, WalkExists
<1>5. Reflects(a, units, b, text)
  BY Zenon, <1>1, NarrowReflects
<1>6. Walk(a, Len(units), Byte, r, 1) /\ r[1].ok /\ r[1].text = text /\ units \in Seq(T)
  OBVIOUS
<1>7. StringToWString(text, width) = q[1].text
  BY Zenon, <1>1, <1>4, WideWalk
<1> HIDE DEF a, b, T
<1>8. q[1].text = units
  BY SMTT(30), <1>1, <1>2, <1>4, <1>5, <1>6, Mirrored
<1> QED
  BY Zenon, <1>7, <1>8

(* WStringToString converts just the wide texts in which every surrogate   *)
(* is half of a pair and nothing is too large, into a text from which      *)
(* StringToWString makes the same wide text; from all others, nothing.     *)
THEOREM NarrowAgrees ==
    ASSUME NEW width \in {2, 4}, NEW units \in Seq(Unit(width))
    PROVE  LET text == WStringToString(units, width)
           IN  IF WideWellFormed(units, width) THEN StringToWString(text, width) = units
               ELSE text = <<>>
<1> DEFINE text == WStringToString(units, width)
<1>1. PICK r : Walk(NarrowStep(units, width), Len(units), Byte, r, 1)
  BY Zenon, NarrowSteps, WalkExists, LenInNat
<1>2. text = r[1].text
  BY Zenon, <1>1, NarrowWalk
<1>3. r[1].ok <=> WideWellFormed(units, width)
  BY Zenon, <1>1, NarrowOkWhenFormed
<1>4. CASE r[1].ok
  <2>1. StringToWString(text, width) = units
    BY Zenon, <1>1, <1>2, <1>4, LeadsToItself
  <2> QED
    BY Zenon, <1>3, <1>4, <2>1
<1>5. CASE ~r[1].ok
  <2>1. Steps(NarrowStep(units, width), Len(units), Byte)
    BY Zenon, NarrowSteps
  <2>2. Len(units) \in Nat
    OBVIOUS
  <2>3. 1 \in 1..Len(units) + 1
    BY <2>2
  <2>4. r[1].ok \/ r[1].text = <<>>
    BY SMTT(30), <1>1, <2>1, <2>2, <2>3, WalkFails
  <2> QED
    BY Zenon, <1>2, <1>3, <1>5, <2>4
<1> QED
  BY Zenon, <1>4, <1>5

-----------------------------------------------------------------------------
(* C strings: up to the first NUL                                          *)

(* Where the C string in a text ends: at the first NUL, or at the end.     *)
Ending(text, n) ==
    /\ n \in 0..Len(text)
    /\ \A k \in 1..n : text[k] # 0
    /\ n = Len(text) \/ text[n + 1] = 0

LEMMA CStringIs ==
    ASSUME NEW S, NEW text \in Seq(S)
    PROVE  \E n : Ending(text, n) /\ CString(text) = SubSeq(text, 1, n)
<1> DEFINE l == Len(text)
           I == {i \in 1..l : text[i] = 0}
           first == IF I # {} THEN Min(I) ELSE 0
<1>1. CString(text) = IF first = 0 THEN text ELSE SubSeq(text, 1, first - 1)
  BY Zenon DEF CString, SelectInSeq
<1>2. l \in Nat
  OBVIOUS
<1>3. CASE I = {}
  <2>1. CString(text) = text
    BY <1>1, <1>3
  <2>2. text = SubSeq(text, 1, l)
    BY <1>2
  <2>3. Ending(text, l)
    BY <1>2, <1>3 DEF Ending
  <2> QED
    BY Zenon, <2>1, <2>2, <2>3
<1>4. CASE I # {}
  <2>1. I \subseteq Nat
    BY <1>2
  <2>2. PICK n \in I : \A m \in I : n <= m
    BY Zenon, <1>4, <2>1, Least
  <2>3. Min(I) \in I /\ \A m \in I : Min(I) <= m
    BY Zenon, <2>2 DEF Min
  <2> DEFINE k == Min(I)
  <2>4. first = k
    BY Zenon, <1>4
  <2>5. k \in I /\ \A m \in I : k <= m
    BY <2>3
  <2> HIDE DEF first, k
  <2>6. k \in 1..l /\ text[k] = 0 /\ \A m \in 1..k - 1 : text[m] # 0
    BY <1>2, <2>5
  <2>7. CString(text) = SubSeq(text, 1, k - 1)
    BY <1>1, <2>4, <2>6
  <2>8. Ending(text, k - 1)
    BY <1>2, <2>6 DEF Ending
  <2> QED
    BY Zenon, <2>7, <2>8
<1> QED
  BY Zenon, <1>3, <1>4

LEMMA EndingOnly ==
    ASSUME NEW text, Len(text) \in Nat, NEW m, Ending(text, m), NEW n, Ending(text, n)
    PROVE  m = n
<1>1. m \in Nat /\ n \in Nat /\ m <= Len(text) /\ n <= Len(text)
  BY DEF Ending
<1>2. ~(m < n)
  <2> SUFFICES ASSUME m < n PROVE FALSE
    OBVIOUS
  <2>1. text[m + 1] = 0
    BY <1>1 DEF Ending
  <2>2. m + 1 \in 1..n
    BY <1>1
  <2> QED
    BY <2>1, <2>2 DEF Ending
<1>3. ~(n < m)
  <2> SUFFICES ASSUME n < m PROVE FALSE
    OBVIOUS
  <2>1. text[n + 1] = 0
    BY <1>1 DEF Ending
  <2>2. n + 1 \in 1..m
    BY <1>1
  <2> QED
    BY <2>1, <2>2 DEF Ending
<1> QED
  BY <1>1, <1>2, <1>3

LEMMA CStringEnds ==
    ASSUME NEW S, NEW text \in Seq(S), NEW n, Ending(text, n)
    PROVE  CString(text) = SubSeq(text, 1, n)
<1>1. PICK m : Ending(text, m) /\ CString(text) = SubSeq(text, 1, m)
  BY Zenon, CStringIs
<1>2. m = n
  <2>1. Len(text) \in Nat
    OBVIOUS
  <2> QED
    BY Zenon, <1>1, <2>1, EndingOnly
<1> QED
  BY Zenon, <1>1, <1>2

LEMMA CStringType ==
    ASSUME NEW S, NEW T, NEW text \in Seq(S), \A v \in S : v # 0 => v \in T
    PROVE  CString(text) \in Seq(T) /\ Len(CString(text)) <= Len(text)
<1>1. PICK n : Ending(text, n) /\ CString(text) = SubSeq(text, 1, n)
  BY Zenon, CStringIs
<1>2. n \in 0..Len(text) /\ \A k \in 1..n : text[k] \in T
  BY <1>1 DEF Ending
<1> DEFINE s == SubSeq(text, 1, n)
<1>3. s \in Seq(T) /\ Len(s) = n
  BY <1>2
<1> HIDE DEF s
<1>4. CString(text) = s
  BY <1>1 DEF s
<1> QED
  BY <1>2, <1>3, <1>4

LEMMA CStringSame ==
    ASSUME NEW S, NEW text \in Seq(S), 0 \notin S
    PROVE  CString(text) = text
<1>1. Ending(text, Len(text))
  BY DEF Ending
<1>2. CString(text) = SubSeq(text, 1, Len(text))
  BY Zenon, <1>1, CStringEnds
<1> QED
  BY <1>2

-----------------------------------------------------------------------------
(* Names as wide strings                                                   *)

LEMMA NothingIsNothing ==
    ASSUME NEW width \in {2, 4}, NEW none \in Seq(Unit(width)), 1 > Len(none)
    PROVE  WStringToString(none, width) = <<>>
<1> DEFINE n == Len(none)
<1>1. PICK r : Walk(NarrowStep(none, width), n, Byte, r, 1)
  BY Zenon, NarrowSteps, WalkExists, LenInNat
<1>2. r[1] = Goes(NarrowStep(none, width), n, r, 1) /\ 1 > n
  BY <1>1 DEF Walk
<1>3. r[1] = Done
  BY Zenon, <1>2 DEF Goes
<1>4. r[1].text = <<>>
  BY <1>3 DEF Done
<1>5. WStringToString(none, width) = r[1].text
  BY Zenon, <1>1, NarrowWalk
<1> QED
  BY Zenon, <1>4, <1>5

(* Just what can be read has a wide string.                                *)
LEMMA WideWhenRead ==
    ASSUME NEW text \in Seq(Byte), text # <<>>, NEW width \in {2, 4}
    PROVE  StringToWString(text, width) = <<>> <=> Readings(text) = {}
<1> DEFINE wide == StringToWString(text, width)
           said == Readings(text)
<1>1. IF said = {} THEN wide = <<>> ELSE WStringToString(wide, width) = text
  BY Zenon, WideAgrees
<1>2. wide \in Seq(Unit(width))
  BY Zenon, WideType
<1> HIDE DEF wide, said
<1>3. wide = <<>> => 1 > Len(wide)
  OBVIOUS
<1>4. wide = <<>> => WStringToString(wide, width) = <<>>
  BY Zenon, <1>2, <1>3, NothingIsNothing
<1>5. wide = <<>> <=> said = {}
  BY Zenon, <1>1, <1>4
<1> QED
  BY Zenon, <1>5 DEF wide, said

(* A wide string that is well-formed is that of the text made of it, and   *)
(* there is such a text, unless it is empty; of all others none is made.   *)
LEMMA ReadsAs ==
    ASSUME NEW units \in Seq(Unit(2)), NEW text, text = WStringToString(units, 2)
    PROVE  \/ \E values \in Readings(text) : Wide(values, 2) = units
           \/ text = <<>> /\ (units = <<>> \/ ~WideWellFormed(units, 2))
<1>1. text \in Seq(Byte)
  BY Zenon, NarrowType
<1>2. IF WideWellFormed(units, 2) THEN StringToWString(text, 2) = units ELSE text = <<>>
  BY Zenon, NarrowAgrees
<1>3. CASE ~WideWellFormed(units, 2)
  BY Zenon, <1>2, <1>3
<1>4. CASE WideWellFormed(units, 2) /\ Readings(text) # {}
  <2>1. PICK values \in Readings(text) : TRUE
    BY Zenon, <1>4
  <2>2. Wide(values, 2) = StringToWString(text, 2)
    BY Zenon, <1>1, <1>4, WideAgrees
  <2> QED
    BY Zenon, <1>2, <1>4, <2>1, <2>2
<1>5. CASE WideWellFormed(units, 2) /\ Readings(text) = {}
  <2>1. units = <<>>
    BY Zenon, <1>1, <1>2, <1>5, WideAgrees
  <2>2. 1 > Len(units)
    BY <2>1
  <2>3. text = <<>>
    BY Zenon, <2>2, NothingIsNothing
  <2> QED
    BY Zenon, <2>1, <2>3
<1> QED
  BY Zenon, <1>3, <1>4, <1>5

LEMMA OfNothing == StringToWString(<<>>, 2) = <<>>
<1>1. WideWellFormed(<<>>, 2)
  BY DEF WideWellFormed
<1>2. <<>> \in Seq(Unit(2)) /\ 1 > Len(<<>>)
  OBVIOUS
<1>3. WStringToString(<<>>, 2) = <<>>
  BY Zenon, <1>2, NothingIsNothing
<1> QED
  BY Zenon, <1>1, <1>2, <1>3, NarrowAgrees

-----------------------------------------------------------------------------
(* ThreadName: types                                                       *)

(* What a thread can be called for the system, bytes or wide units.        *)
Called(platform) == IF platform = "linux" THEN Seq(Byte) ELSE Seq(Unit(2))

GhostsOK ==
    /\ asked \in [Threads -> Called(world.platform)]
    /\ source \in [Threads -> Called(world.platform) \cup {GivenHere}]
    /\ unanswered \in [Threads -> BOOLEAN]
    /\ viewed \in [Threads -> Seq(0..255)]
    /\ renamed \in [Threads -> BOOLEAN]
    /\ record = [t \in Threads |-> record[t]]

Types == TypeOK /\ GhostsOK

LEMMA WorldIs ==
    ASSUME world \in Worlds
    PROVE  /\ \A name \in world.names : name \in Seq(Byte) /\ name # <<>>
           /\ \A name \in world.foreign : name \in Native(world.platform)
           /\ Main \in Threads /\ Main \in world.threads /\ world.threads \subseteq Threads
           /\ world.calls \in Nat
BY ThreadNameAssumption DEF Byte

LEMMA UnitIs ==
    ASSUME NEW v
    PROVE  v \in 1..LastUnit <=> v \in Unit(2) /\ v # 0
<1>1. LastUnit \in Nat /\ \A u \in Nat : u <= LastUnit <=> u <= 65535
  BY SMTT(30) DEF LastUnit
<1>2. v \in 1..LastUnit <=> v \in Nat /\ v # 0 /\ v <= LastUnit
  BY SMTT(30), <1>1
<1>3. v \in Unit(2) <=> v \in Nat /\ v <= 65535
  BY SMTT(30) DEF Unit
<1> QED
  BY SMTT(30), <1>1, <1>2, <1>3

LEMMA WideNative ==
    ASSUME NEW s \in Seq(1..LastUnit)
    PROVE  /\ s \in Seq(Unit(2)) /\ s \in Seq(Unit(4))
           /\ \A k \in 1..Len(s) : s[k] # 0
<1> DEFINE S == 1..LastUnit
<1>1. \A v \in S : v \in Unit(2) /\ v # 0
  BY Zenon, UnitIs
<1>2. Unit(2) \subseteq Unit(4)
  BY SMTT(30) DEF Unit
<1>3. s \in Seq(S)
  OBVIOUS
<1> HIDE DEF S
<1> DEFINE U == Unit(2)
           V == Unit(4)
<1>4. \A v \in S : v \in U /\ v \in V /\ v # 0
  BY Zenon, <1>1, <1>2
<1> HIDE DEF U, V
<1>5. s \in Seq(U) /\ s \in Seq(V) /\ \A k \in 1..Len(s) : s[k] # 0
  BY <1>3, <1>4
<1> QED
  BY <1>5 DEF U, V

(* What the system keeps of a name.                                        *)
First15(text) == SubSeq(text, 1, IF Len(text) < 15 THEN Len(text) ELSE 15)

LEMMA First15Is ==
    ASSUME NEW S, NEW text \in Seq(S)
    PROVE  First15(text) \in Seq(S) /\ Len(First15(text)) <= 15 /\ Len(First15(text)) \in Nat
BY DEF First15

LEMMA ByteIs ==
    (\A v \in Byte : v # 0 => v \in 1..255) /\ 1..255 \subseteq Byte /\ 0 \notin 1..255
BY DEF Byte

LEMMA SeqIn ==
    ASSUME NEW S, NEW T, S \subseteq T, NEW s \in Seq(S)
    PROVE  s \in Seq(T)
OBVIOUS

LEMMA BytesGiven ==
    ASSUME NEW name \in Seq(Byte)
    PROVE  CString(First15(name)) \in Seq(1..255) /\ Len(CString(First15(name))) <= 15
<1> DEFINE f == First15(name)
           c == CString(f)
<1>1. f \in Seq(Byte) /\ Len(f) <= 15 /\ Len(f) \in Nat
  BY Zenon, First15Is
<1>2. c \in Seq(1..255) /\ Len(c) <= Len(f)
  BY ZenonT(60), <1>1, ByteIs, CStringType
<1> HIDE DEF c, f
<1>3. Len(c) <= 15
  BY <1>1, <1>2
<1> QED
  BY Zenon, <1>2, <1>3 DEF c, f

LEMMA UnitsGiven ==
    ASSUME NEW name \in Seq(Byte)
    PROVE  CString(StringToWString(name, 2)) \in Seq(1..LastUnit)
<1> DEFINE wide == StringToWString(name, 2)
<1>1. wide \in Seq(Unit(2))
  BY Zenon, WideType
<1>2. \A v \in Unit(2) : v # 0 => v \in 1..LastUnit
  BY Zenon, UnitIs
<1> QED
  BY Zenon, <1>1, <1>2, CStringType

LEMMA NativeIs ==
    ASSUME NEW s
    PROVE  /\ Linux => (s \in Native(world.platform) <=> s \in Seq(1..255) /\ Len(s) <= 15)
           /\ ~Linux => (s \in Native(world.platform) <=> s \in Seq(1..LastUnit))
BY Zenon DEF Linux, Native

LEMMA GivenType ==
    ASSUME TypeOK, NEW t \in Threads, NEW name \in Seq(Byte)
    PROVE  Given(t, name) \in Native(world.platform)
<1>1. native[t] \in Native(world.platform)
  BY DEF TypeOK
<1>2. CASE Linux
  <2>1. Given(t, name) = CString(First15(name))
    BY Zenon, <1>2 DEF Given, First15
  <2> QED
    BY Zenon, <1>2, <2>1, BytesGiven, NativeIs
<1>3. CASE ~Linux
  BY Zenon, <1>1, <1>3, UnitsGiven, NativeIs DEF Given
<1> QED
  BY Zenon, <1>2, <1>3

LEMMA NameType ==
    ASSUME NEW s, s \in Native(world.platform)
    PROVE  (IF Linux THEN s ELSE WStringToString(s, 2)) \in Seq(Byte)
<1>1. CASE Linux
  <2>1. s \in Seq(1..255)
    BY Zenon, <1>1, NativeIs
  <2>2. s \in Seq(Byte)
    BY ZenonT(60), <2>1, ByteIs, SeqIn
  <2> QED
    BY Zenon, <1>1, <2>2
<1>2. CASE ~Linux
  <2>1. s \in Seq(Unit(2))
    BY Zenon, <1>2, NativeIs, WideNative
  <2>2. WStringToString(s, 2) \in Seq(Byte)
    BY Zenon, <2>1, NarrowType
  <2> QED
    BY Zenon, <1>2, <2>2
<1> QED
  BY Zenon, <1>1, <1>2

LEMMA CalledIs ==
    ASSUME NEW s
    PROVE  /\ Linux => (s \in Called(world.platform) <=> s \in Seq(Byte))
           /\ ~Linux => (s \in Called(world.platform) <=> s \in Seq(Unit(2)))
BY Zenon DEF Linux, Called

LEMMA NativeCalled ==
    ASSUME NEW s, s \in Native(world.platform)
    PROVE  s \in Called(world.platform)
<1>1. CASE Linux
  <2>1. s \in Seq(1..255)
    BY Zenon, <1>1, NativeIs
  <2>2. s \in Seq(Byte)
    BY ZenonT(60), <2>1, ByteIs, SeqIn
  <2> QED
    BY Zenon, <1>1, <2>2, CalledIs
<1>2. CASE ~Linux
  <2>1. s \in Seq(Unit(2))
    BY Zenon, <1>2, NativeIs, WideNative
  <2> QED
    BY Zenon, <1>2, <2>1, CalledIs
<1> QED
  BY Zenon, <1>1, <1>2

LEMMA AskedType ==
    ASSUME TypeOK, GhostsOK, NEW t \in Threads, NEW name \in Seq(Byte), NEW last \in Asked(t, name)
    PROVE  last \in Called(world.platform)
<1>1. asked[t] \in Called(world.platform)
  BY DEF GhostsOK
<1>2. CASE Linux
  BY Zenon, <1>2, CalledIs DEF Asked
<1>3. CASE ~Linux /\ Readings(name) = {}
  BY Zenon, <1>1, <1>3 DEF Asked
<1>4. CASE ~Linux /\ Readings(name) # {}
  <2>1. PICK values \in Readings(name) : last = Wide(values, 2)
    BY Zenon, <1>4 DEF Asked
  <2>2. last = StringToWString(name, 2)
    BY Zenon, <1>4, <2>1, WideAgrees
  <2>3. last \in Seq(Unit(2))
    BY Zenon, <2>2, WideType
  <2> QED
    BY Zenon, <1>4, <2>3, CalledIs
<1> QED
  BY Zenon, <1>2, <1>3, <1>4

LEMMA AnswersType ==
    ASSUME TypeOK, NEW t \in Threads, NEW answer \in Answers(t)
    PROVE  answer.name \in Seq(Byte) /\ answer.failed \in BOOLEAN
<1> DEFINE name == NativeName(t)
           none == <<>>
           S == Seq(Byte)
<1>1. name \in S
  BY NameType DEF TypeOK, NativeName
<1>2. none \in S
  OBVIOUS
<1>3. \/ answer = [name |-> name, failed |-> FALSE]
      \/ answer = [name |-> none, failed |-> TRUE]
  BY Zenon DEF Answers
<1> HIDE DEF name, none, S
<1>4. \/ answer.name = name /\ answer.failed = FALSE
      \/ answer.name = none /\ answer.failed = TRUE
  BY <1>3
<1>5. answer.name \in S /\ answer.failed \in BOOLEAN
  BY Zenon, <1>1, <1>2, <1>4
<1> QED
  BY Zenon, <1>5 DEF S

LEMMA DefaultType == DEFAULT_THREAD_NAME \in Seq(Byte)
BY DEF DEFAULT_THREAD_NAME, Byte

LEMMA InitTypes == Init => Types
<1> SUFFICES ASSUME Init PROVE Types
  OBVIOUS
<1>1. world \in Worlds
  BY DEF Init
<1>2. PICK name \in IF world.platform = "linux" THEN world.foreign ELSE {<<>>} :
         native = [t \in Threads |-> IF t = Main THEN name ELSE <<>>]
  BY DEF Init
<1>3. name \in Native(world.platform) /\ <<>> \in Native(world.platform)
  <2>1. <<>> \in Seq(1..255) /\ Len(<<>>) <= 15 /\ <<>> \in Seq(1..LastUnit)
    OBVIOUS
  <2>2. <<>> \in Native(world.platform)
    BY Zenon, <2>1, NativeIs
  <2> QED
    BY Zenon, <1>1, <1>2, <2>2, WorldIs
<1>4. native \in [Threads -> Native(world.platform)]
  BY <1>2, <1>3
<1>5. native \in [Threads -> Called(world.platform)]
  <2>1. \A t \in Threads : native[t] \in Called(world.platform)
    BY Zenon, <1>4, NativeCalled
  <2> QED
    BY <1>4, <2>1
<1>7. alive \subseteq Threads /\ 0 \in 0..world.calls
  BY <1>1, WorldIs DEF Init
<1>8. TypeOK
  BY <1>1, <1>4, <1>7 DEF Init, TypeOK
<1>9. GhostsOK
  BY <1>5 DEF Init, GhostsOK
<1> QED
  BY <1>8, <1>9 DEF Types

LEMMA AssignTypes ==
    ASSUME Types, NEW t \in Threads, NEW name \in Seq(Byte), Assign(t, name)
    PROVE  /\ t_thread_name' \in [Threads -> Seq(0..255)]
           /\ stale' \in [Threads -> BOOLEAN]
           /\ renamed' \in [Threads -> BOOLEAN]
BY DEF Types, TypeOK, GhostsOK, Assign, Own, Byte

LEMMA NextTypes == Types /\ [Next]_vars => Types'
<1> SUFFICES ASSUME Types, [Next]_vars PROVE Types'
  OBVIOUS
<1>0. TypeOK /\ GhostsOK /\ world \in Worlds
  BY DEF Types, TypeOK
<1>w. /\ \A name \in world.names : name \in Seq(Byte) /\ name # <<>>
      /\ \A name \in world.foreign : name \in Native(world.platform)
      /\ world.threads \subseteq Threads /\ world.calls \in Nat
  BY Zenon, <1>0, WorldIs
<1>c. Count => calls' \in 0..world.calls
  BY <1>0, <1>w DEF TypeOK, Count
<1>b. Byte = 0..255
  BY DEF Byte
<1>1. ASSUME NEW t \in Threads, NEW name \in world.names, SetThreadName(t, name)
      PROVE  Types'
  <2>1. name \in Seq(Byte)
    BY Zenon, <1>w
  <2>2. Assign(t, name) /\ Count
    BY <1>1 DEF SetThreadName
  <2>3. /\ t_thread_name' \in [Threads -> Seq(0..255)] /\ stale' \in [Threads -> BOOLEAN]
        /\ renamed' \in [Threads -> BOOLEAN]
    BY Zenon, <2>1, <2>2, AssignTypes
  <2>4. Given(t, name) \in Native(world.platform)
    BY Zenon, <1>0, <2>1, GivenType
  <2>5. native' \in [Threads -> Native(world.platform)] /\ asked' \in [Threads -> Called(world.platform)]
    <3> DEFINE given == Given(t, name)
               N == Native(world.platform)
               S == Called(world.platform)
    <3>1. native' = native \/ native' = [native EXCEPT ![t] = given]
      BY <1>1 DEF SetThreadName
    <3>2. asked' = asked \/ \E last \in Asked(t, name) : asked' = [asked EXCEPT ![t] = last]
      BY Zenon, <1>1 DEF SetThreadName
    <3>3. \A last \in Asked(t, name) : last \in S
      BY Zenon, <1>0, <2>1, AskedType
    <3>4. native \in [Threads -> N] /\ asked \in [Threads -> S] /\ given \in N
      BY <1>0, <2>4 DEF TypeOK, GhostsOK
    <3> HIDE DEF given, N, S
    <3>5. native' \in [Threads -> N]
      BY <3>1, <3>4
    <3>6. asked' \in [Threads -> S]
      BY <3>2, <3>3, <3>4
    <3> QED
      BY <3>5, <3>6 DEF N, S
  <2>6. TypeOK'
    BY <1>0, <1>1, <1>c, <2>2, <2>3, <2>5 DEF SetThreadName, TypeOK
  <2>7. GhostsOK'
    BY <1>0, <1>1, <2>3, <2>5 DEF SetThreadName, GhostsOK
  <2> QED
    BY <2>6, <2>7 DEF Types
<1>2. ASSUME NEW t \in Threads, SetThreadNameEmpty(t)
      PROVE  Types'
  <2>1. PICK answer \in Answers(t) :
          /\ Assign(t, IF answer.name = <<>> THEN DEFAULT_THREAD_NAME ELSE answer.name)
          /\ unanswered' = [unanswered EXCEPT ![t] = answer.failed]
    BY <1>2 DEF SetThreadNameEmpty
  <2> DEFINE name == IF answer.name = <<>> THEN DEFAULT_THREAD_NAME ELSE answer.name
  <2>2. name \in Seq(Byte)
    BY Zenon, <1>0, AnswersType, DefaultType
  <2>3. /\ t_thread_name' \in [Threads -> Seq(0..255)] /\ stale' \in [Threads -> BOOLEAN]
        /\ renamed' \in [Threads -> BOOLEAN]
    BY Zenon, <2>1, <2>2, AssignTypes
  <2>4. TypeOK'
    BY <1>0, <1>2, <1>c, <2>3 DEF SetThreadNameEmpty, TypeOK
  <2>5. GhostsOK'
    <3> DEFINE S == Called(world.platform)
               V == Seq(0..255)
               last == asked[t]
               failed == answer.failed
    <3>1. /\ asked' = asked /\ viewed' = viewed /\ record' = record /\ world' = world
          /\ source' = [source EXCEPT ![t] = last]
          /\ unanswered' = [unanswered EXCEPT ![t] = failed]
      BY Zenon, <1>2, <2>1 DEF SetThreadNameEmpty
    <3>2. /\ asked \in [Threads -> S] /\ viewed \in [Threads -> V] /\ last \in S
          /\ source \in [Threads -> S \cup {GivenHere}]
          /\ unanswered \in [Threads -> BOOLEAN]
      BY Zenon, <1>0 DEF GhostsOK
    <3>f. failed \in BOOLEAN
      BY Zenon, <1>0, AnswersType
    <3> HIDE DEF S, V, last, failed
    <3>3. source' \in [Threads -> S \cup {GivenHere}]
      BY <3>1, <3>2
    <3>4. asked' \in [Threads -> S] /\ viewed' \in [Threads -> V]
      BY Zenon, <3>1, <3>2
    <3>5. record' = [u \in Threads |-> record'[u]]
      BY Zenon, <1>0, <3>1 DEF GhostsOK
    <3>6. unanswered' \in [Threads -> BOOLEAN]
      BY <3>1, <3>2, <3>f
    <3>7. S' = S
      BY Zenon, <3>1 DEF S
    <3> QED
      BY Zenon, <2>3, <3>3, <3>4, <3>5, <3>6, <3>7 DEF GhostsOK, S, V
  <2> QED
    BY <2>4, <2>5 DEF Types
<1>3. ASSUME NEW t \in Threads, NEW u \in Threads, Spawn(t, u)
      PROVE  Types'
  <2>1. <<>> \in Native(world.platform)
    <3>1. <<>> \in Seq(1..255) /\ Len(<<>>) <= 15 /\ <<>> \in Seq(1..LastUnit)
      OBVIOUS
    <3> QED
      BY Zenon, <3>1, NativeIs
  <2>2. <<>> \in Called(world.platform)
    BY Zenon, <2>1, NativeCalled
  <2>3. native' \in [Threads -> Native(world.platform)] /\ asked' \in [Threads -> Called(world.platform)]
    BY <1>0, <1>3, <2>1, <2>2 DEF Spawn, TypeOK, GhostsOK
  <2>4. TypeOK'
    BY <1>0, <1>3, <2>3 DEF Spawn, TypeOK
  <2>5. GhostsOK'
    BY <1>0, <1>3, <2>3 DEF Spawn, GhostsOK
  <2> QED
    BY <2>4, <2>5 DEF Types
<1>4. ASSUME NEW t \in Threads, NEW name \in world.foreign, NamedByOthers(t, name)
      PROVE  Types'
  <2>1. name \in Native(world.platform)
    BY Zenon, <1>w
  <2>2. name \in Called(world.platform)
    BY Zenon, <2>1, NativeCalled
  <2>3. native' \in [Threads -> Native(world.platform)]
    BY <1>0, <1>4, <2>1 DEF NamedByOthers, TypeOK
  <2>5. asked' \in [Threads -> Called(world.platform)]
    BY <1>0, <1>4, <2>2 DEF NamedByOthers, GhostsOK
  <2>6. TypeOK'
    BY <1>0, <1>4, <1>c, <2>3 DEF NamedByOthers, TypeOK
  <2>7. GhostsOK'
    BY <1>0, <1>4, <2>5 DEF NamedByOthers, GhostsOK
  <2> QED
    BY <2>6, <2>7 DEF Types
<1>5. ASSUME NEW t \in Threads, BeginStatement(t)
      PROVE  Types'
  <2>1. TypeOK'
    BY <1>0, <1>5 DEF BeginStatement, TypeOK
  <2>2. GhostsOK'
    BY <1>0, <1>5 DEF BeginStatement, TypeOK, GhostsOK, Own
  <2> QED
    BY <2>1, <2>2 DEF Types
<1>6. ASSUME NEW t \in Threads, Submit(t)
      PROVE  Types'
  <2>1. TypeOK'
    BY <1>0, <1>6 DEF Submit, TypeOK
  <2>2. record' = [u \in Threads |-> record'[u]]
    <3> DEFINE e == [text |-> IF stale[t] THEN Freed ELSE t_thread_name[Own(t)],
                     for  |-> viewed[t], renamed |-> renamed[t]]
    <3>1. record' = [record EXCEPT ![t] = e]
      BY <1>6 DEF Submit
    <3> HIDE DEF e
    <3>2. record = [u \in Threads |-> record[u]]
      BY <1>0 DEF GhostsOK
    <3> QED
      BY <3>1, <3>2
  <2>3. /\ asked' = asked /\ source' = source /\ unanswered' = unanswered /\ world' = world
        /\ viewed' = [viewed EXCEPT ![t] = <<>>] /\ renamed' = [renamed EXCEPT ![t] = FALSE]
    BY <1>6 DEF Submit
  <2>4. GhostsOK'
    BY <1>0, <2>2, <2>3 DEF GhostsOK
  <2> QED
    BY <2>1, <2>4 DEF Types
<1>8. ASSUME NEW t \in Threads, Initialise(t)
      PROVE  Types'
  <2>1. PICK answer \in Answers(t) :
          /\ t_thread_name' = [t_thread_name EXCEPT ![t] = answer.name]
          /\ unanswered' = [unanswered EXCEPT ![t] = answer.failed]
    BY <1>8 DEF Initialise, Own
  <2>2. answer.name \in Seq(0..255) /\ answer.failed \in BOOLEAN
    BY Zenon, <1>0, <1>b, AnswersType
  <2>3. TypeOK'
    BY <1>0, <1>8, <2>1, <2>2 DEF Initialise, TypeOK
  <2>4. GhostsOK'
    BY <1>0, <1>8, <2>1, <2>2 DEF Initialise, GhostsOK
  <2> QED
    BY <2>3, <2>4 DEF Types
<1>7. CASE UNCHANGED vars
  <2>1. TypeOK'
    BY <1>0, <1>7 DEF vars, TypeOK
  <2>2. GhostsOK'
    BY <1>0, <1>7 DEF vars, GhostsOK
  <2> QED
    BY <2>1, <2>2 DEF Types
<1> QED
  BY Zenon, <1>1, <1>2, <1>3, <1>4, <1>5, <1>6, <1>7, <1>8 DEF Next

-----------------------------------------------------------------------------
(* ThreadName: theorems                                                    *)

LEMMA AlwaysTypes == Spec => []Types
<1>1. Init => Types
  BY InitTypes
<1>2. Types /\ [Next]_vars => Types'
  BY NextTypes
<1> QED
  BY <1>1, <1>2, PTL DEF Spec

(* Every variable keeps its type: what the system has for a name is always *)
(* one that it can have, cut and ended as SetNativeThreadName leaves it.   *)
THEOREM TypeCorrect == Spec => []TypeOK
<1>1. Types => TypeOK
  BY DEF Types
<1> QED
  BY <1>1, AlwaysTypes, PTL

(* A view is no longer valid only in a statement that renames its thread;  *)
(* until then it shows the name there was when it was taken.               *)
Views ==
    \A t \in Threads :
        /\ pc[t] = "statement" => t \in copied
        /\ stale[t] => pc[t] = "statement" /\ renamed[t]
        /\ pc[t] = "statement" /\ ~stale[t] => viewed[t] = t_thread_name[t]

LEMMA NextViews == Types /\ Types' /\ NameIsOwn /\ Views /\ [Next]_vars => NameIsOwn' /\ Views'
<1> SUFFICES ASSUME Types, Types', NameIsOwn, Views, [Next]_vars PROVE NameIsOwn' /\ Views'
  OBVIOUS
<1>0. TypeOK /\ GhostsOK
  BY DEF Types
<1>1. ASSUME NEW t \in Threads, NEW name, Assign(t, name),
             UNCHANGED <<copied, pc, record, viewed>>
      PROVE  NameIsOwn' /\ Views'
  <2>1. NameIsOwn'
    BY <1>1 DEF NameIsOwn
  <2>2. /\ t_thread_name' = [t_thread_name EXCEPT ![t] = name]
        /\ stale' = [u \in Threads |-> stale[u] \/ (pc[u] = "statement" /\ u = t)]
        /\ renamed' = [renamed EXCEPT ![t] = @ \/ pc[t] = "statement"]
    BY <1>1 DEF Assign, Own
  <2>3. Views'
    BY <1>0, <1>1, <2>2 DEF Views, TypeOK, GhostsOK
  <2> QED
    BY <2>1, <2>3
<1>2. ASSUME NEW t \in Threads, NEW name \in world.names, SetThreadName(t, name)
      PROVE  NameIsOwn' /\ Views'
  <2>1. Assign(t, name) /\ UNCHANGED <<copied, pc, record, viewed>>
    BY <1>2 DEF SetThreadName
  <2> QED
    BY Zenon, <1>1, <2>1
<1>3. ASSUME NEW t \in Threads, SetThreadNameEmpty(t)
      PROVE  NameIsOwn' /\ Views'
  <2>1. PICK name : Assign(t, name)
    BY <1>3 DEF SetThreadNameEmpty
  <2>2. UNCHANGED <<copied, pc, record, viewed>>
    BY <1>3 DEF SetThreadNameEmpty
  <2> QED
    BY Zenon, <1>1, <2>1, <2>2
<1>4. ASSUME NEW t \in Threads, NEW u \in Threads, Spawn(t, u)
      PROVE  NameIsOwn' /\ Views'
  BY <1>4 DEF Spawn, NameIsOwn, Views
<1>9. ASSUME NEW t \in Threads, Initialise(t)
      PROVE  NameIsOwn' /\ Views'
  <2>1. PICK name : t_thread_name' = [t_thread_name EXCEPT ![t] = name]
    BY <1>9 DEF Initialise, Own
  <2>2. t \notin copied /\ copied' = copied \cup {t} /\ UNCHANGED <<pc, stale, record, viewed, renamed>>
    BY <1>9 DEF Initialise
  <2>3. NameIsOwn'
    BY <2>2 DEF NameIsOwn
  <2>4. Views'
    BY <1>0, <2>1, <2>2 DEF Views, TypeOK, GhostsOK
  <2> QED
    BY <2>3, <2>4
<1>5. ASSUME NEW t \in Threads, NEW name \in world.foreign, NamedByOthers(t, name)
      PROVE  NameIsOwn' /\ Views'
  BY <1>5 DEF NamedByOthers, NameIsOwn, Views
<1>6. ASSUME NEW t \in Threads, BeginStatement(t)
      PROVE  NameIsOwn' /\ Views'
  <2>1. NameIsOwn'
    BY <1>6 DEF BeginStatement, NameIsOwn
  <2>2. Views'
    BY <1>0, <1>6 DEF BeginStatement, Views, TypeOK, GhostsOK, Own
  <2> QED
    BY <2>1, <2>2
<1>7. ASSUME NEW t \in Threads, Submit(t)
      PROVE  NameIsOwn' /\ Views'
  <2>1. Views'
    BY <1>0, <1>7 DEF Submit, Views, TypeOK, GhostsOK
  <2> DEFINE e == [text |-> IF stale[t] THEN Freed ELSE t_thread_name[Own(t)],
                   for  |-> viewed[t], renamed |-> renamed[t]]
  <2>2. record' = [record EXCEPT ![t] = e] /\ record = [u \in Threads |-> record[u]]
    BY <1>0, <1>7 DEF Submit, GhostsOK
  <2>3. ~e.renamed => e.text = e.for
    <3>1. /\ pc[t] = "statement"
          /\ e.renamed = renamed[t] /\ e.for = viewed[t]
          /\ e.text = IF stale[t] THEN Freed ELSE t_thread_name[t]
      BY <1>7 DEF Submit, Own
    <3> HIDE DEF e
    <3>2. (stale[t] => renamed[t]) /\ (~stale[t] => viewed[t] = t_thread_name[t])
      BY <3>1 DEF Views
    <3> QED
      BY <3>1, <3>2
  <2> HIDE DEF e
  <2>4. \A u \in Threads : record'[u] = IF u = t THEN e ELSE record[u]
    BY <2>2
  <2>5. NameIsOwn'
    BY <2>3, <2>4 DEF NameIsOwn
  <2> QED
    BY <2>1, <2>5
<1>8. CASE UNCHANGED vars
  BY <1>8 DEF vars, NameIsOwn, Views
<1> QED
  BY Zenon, <1>2, <1>3, <1>4, <1>5, <1>6, <1>7, <1>8, <1>9 DEF Next

(* A record has the name which its thread had when the statement began,    *)
(* unless the statement itself renames the thread: the view taken by       *)
(* LogLine is not touched by what other threads do.                        *)
THEOREM OwnName == Spec => []NameIsOwn
<1>1. Init => NameIsOwn /\ Views
  BY DEF Init, NameIsOwn, Views
<1>2. Types /\ Types' /\ NameIsOwn /\ Views /\ [Next]_vars => NameIsOwn' /\ Views'
  BY NextViews
<1> HIDE DEF Views
<1> QED
  BY <1>1, <1>2, AlwaysTypes, PTL DEF Spec

(* On Windows every copy of a name, as a string of either kind of wchar_t, *)
(* is converted as the Unicode standard says.                              *)
THEOREM WideConverts == Spec => []WideConversionAgrees
<1>1. Types => WideConversionAgrees
  <2> SUFFICES ASSUME Types, ~Linux, NEW t \in copied, NEW width \in {2, 4}
               PROVE  LET text == t_thread_name[t]
                          wide == StringToWString(text, width)
                          said == Readings(text)
                      IN  IF said = {} THEN wide = <<>>
                          ELSE /\ \A values \in said : wide = Wide(values, width)
                               /\ WStringToString(wide, width) = text
    BY Zenon DEF WideConversionAgrees
  <2> DEFINE text == t_thread_name[t]
  <2>1. text \in Seq(Byte)
    BY DEF Types, TypeOK, Byte
  <2> HIDE DEF text
  <2>2. LET wide == StringToWString(text, width)
            said == Readings(text)
        IN  IF said = {} THEN wide = <<>>
            ELSE /\ \A values \in said : wide = Wide(values, width)
                 /\ WStringToString(wide, width) = text
    BY Zenon, <2>1, WideAgrees
  <2> QED
    BY Zenon, <2>2 DEF text
<1> QED
  BY <1>1, AlwaysTypes, PTL

(* And every name that the system has, as a wide string of either kind,    *)
(* leads to a text that leads back to it, or to none.                      *)
THEOREM NarrowConverts == Spec => []NarrowConversionAgrees
<1>1. Types => NarrowConversionAgrees
  <2> SUFFICES ASSUME Types, ~Linux, NEW t \in alive, NEW width \in {2, 4}
               PROVE  LET text == WStringToString(native[t], width)
                      IN  IF WideWellFormed(native[t], width)
                          THEN StringToWString(text, width) = native[t] ELSE text = <<>>
    BY Zenon DEF NarrowConversionAgrees
  <2> DEFINE units == native[t]
  <2>1. units \in Native(world.platform)
    BY DEF Types, TypeOK
  <2>2. units \in Seq(1..LastUnit)
    BY Zenon, <2>1, NativeIs
  <2>3. units \in Seq(Unit(2)) /\ units \in Seq(Unit(4))
    BY Zenon, <2>2, WideNative
  <2> HIDE DEF units
  <2>4. units \in Seq(Unit(width))
    BY Zenon, <2>3
  <2>5. LET text == WStringToString(units, width)
        IN  IF WideWellFormed(units, width) THEN StringToWString(text, width) = units
            ELSE text = <<>>
    BY Zenon, <2>4, NarrowAgrees
  <2> QED
    BY Zenon, <2>5 DEF units
<1> QED
  BY <1>1, AlwaysTypes, PTL

-----------------------------------------------------------------------------
(* ThreadName: what is kept of a name                                      *)

(* What the system keeps of what it is asked to call a thread, and how it   *)
(* reads.                                                                  *)
Kept(linux, last) == IF linux THEN CString(First15(last)) ELSE CString(last)

HasName(linux, s) == IF linux THEN s ELSE WStringToString(s, 2)

LEMMA KeptCases ==
    ASSUME NEW text \in Seq(Byte)
    PROVE  LET name == Kept(TRUE, text)
           IN  \/ name = CString(text)
               \/ Len(name) = 15 /\ IsStrictPrefix(name, CString(text))
<1> DEFINE name == Kept(TRUE, text)
           f == First15(text)
           l == IF Len(text) < 15 THEN Len(text) ELSE 15
           last == CString(text)
<1>1. PICK m : Ending(text, m) /\ last = SubSeq(text, 1, m)
  BY Zenon, CStringIs
<1>2. /\ m \in 0..Len(text) /\ Len(text) \in Nat
      /\ \A k \in 1..m : text[k] # 0
      /\ m = Len(text) \/ text[m + 1] = 0
  BY <1>1 DEF Ending
<1>3. l \in Nat /\ l <= 15 /\ l <= Len(text) /\ (l = 15 \/ l = Len(text))
  BY <1>2
<1>4. f = SubSeq(text, 1, l)
  BY DEF First15
<1> SUFFICES \/ name = last
             \/ Len(name) = 15 /\ IsStrictPrefix(name, last)
  OBVIOUS
<1>n. name = CString(f)
  BY Zenon DEF Kept
<1> HIDE DEF l, f, last, name
<1>5. f \in Seq(Byte) /\ Len(f) = l /\ \A k \in 1..l : f[k] = text[k]
  BY <1>2, <1>3, <1>4
<1>6. last \in Seq(Byte) /\ Len(last) = m /\ \A k \in 1..m : last[k] = text[k]
  BY <1>1, <1>2
<1>7. CASE m <= 15
  <2> DEFINE c == SubSeq(f, 1, m)
  <2>1. m \in 0..l
    BY <1>2, <1>3, <1>7
  <2>2. Ending(f, m)
    BY <1>2, <1>3, <1>5, <1>7, <2>1 DEF Ending
  <2>3. CString(f) = c
    BY Zenon, <1>5, <2>2, CStringEnds
  <2>4. c \in Seq(Byte) /\ Len(c) = m /\ \A k \in 1..m : c[k] = text[k]
    <3>1. c \in Seq(Byte) /\ Len(c) = m /\ \A k \in 1..m : c[k] = f[k]
      BY <1>5, <2>1
    <3>2. \A k \in 1..m : k \in 1..l
      BY <1>3, <2>1
    <3> HIDE DEF c
    <3> QED
      BY Zenon, <1>5, <3>1, <3>2
  <2> HIDE DEF c
  <2>5. Len(c) = Len(last) /\ \A k \in 1..Len(c) : c[k] = last[k]
    BY <1>6, <2>4
  <2>6. c = last
    BY Zenon, <1>6, <2>4, <2>5, SeqEqual
  <2>7. name = last
    BY Zenon, <1>n, <2>3, <2>6
  <2> QED
    BY Zenon, <2>7
<1>8. CASE m > 15
  <2>0. m \in Nat /\ 15 \in 0..15 /\ \A k \in 1..15 : k \in 1..m
    BY <1>2, <1>8
  <2>1. l = 15
    BY <1>2, <1>3, <1>8
  <2>a. \A k \in 1..15 : f[k] = text[k] /\ last[k] = text[k] /\ text[k] # 0
    BY Zenon, <1>2, <1>5, <1>6, <2>0, <2>1
  <2>2. Ending(f, 15)
    BY Zenon, <1>5, <2>0, <2>1, <2>a DEF Ending
  <2>3. CString(f) = SubSeq(f, 1, 15)
    BY Zenon, <1>5, <2>2, CStringEnds
  <2>4. SubSeq(f, 1, 15) = f
    BY <1>5, <2>1
  <2>5. name = f /\ Len(f) = 15
    BY Zenon, <1>n, <1>5, <2>1, <2>3, <2>4
  <2> DEFINE s == SubSeq(last, 1, 15)
  <2>6. s \in Seq(Byte) /\ Len(s) = 15 /\ \A k \in 1..15 : s[k] = last[k]
    BY <1>2, <1>6, <1>8
  <2> HIDE DEF s
  <2>7. Len(f) = Len(s) /\ \A k \in 1..Len(f) : f[k] = s[k]
    <3>1. \A k \in 1..15 : f[k] = s[k]
      BY Zenon, <2>6, <2>a
    <3> QED
      BY Zenon, <2>5, <2>6, <3>1
  <2>8. f = s
    BY Zenon, <1>5, <2>6, <2>7, SeqEqual
  <2>9. f # last /\ Len(f) <= Len(last)
    <3>1. Len(last) = m
      BY Zenon, <1>6
    <3>2. 15 # m /\ 15 <= m
      BY <1>8, <2>0
    <3> QED
      BY Zenon, <2>5, <3>1, <3>2
  <2>10. IsPrefix(f, last)
    BY Zenon, <2>4, <2>5, <2>8, <2>9 DEF IsPrefix, s
  <2>11. Len(name) = 15 /\ IsStrictPrefix(name, last)
    BY Zenon, <2>5, <2>9, <2>10 DEF IsStrictPrefix
  <2> QED
    BY Zenon, <2>11
<1>9. m \in Nat
  BY <1>2
<1>10. m <= 15 \/ m > 15
  BY <1>9
<1> QED
  BY Zenon, <1>7, <1>8, <1>10

LEMMA GivenKept ==
    ASSUME NEW t, NEW name \in Seq(Byte), name # <<>>, native[t] = Kept(Linux, asked[t]),
           NEW last \in Asked(t, name)
    PROVE  Given(t, name) = Kept(Linux, last)
<1> DEFINE wide == StringToWString(name, 2)
<1>1. wide = <<>> <=> Readings(name) = {}
  BY Zenon, WideWhenRead
<1>2. CASE Linux
  <2>1. Given(t, name) = CString(First15(name)) /\ last = name
    BY Zenon, <1>2 DEF Given, First15, Asked
  <2> QED
    BY Zenon, <1>2, <2>1 DEF Kept
<1>3. CASE ~Linux /\ Readings(name) = {}
  BY Zenon, <1>1, <1>3 DEF Given, Asked
<1>4. CASE ~Linux /\ Readings(name) # {}
  <2>1. PICK values \in Readings(name) : last = Wide(values, 2)
    BY Zenon, <1>4 DEF Asked
  <2>2. wide = last
    BY Zenon, <1>4, <2>1, WideAgrees
  <2>3. Given(t, name) = CString(wide)
    BY Zenon, <1>1, <1>4 DEF Given
  <2> QED
    BY Zenon, <1>4, <2>2, <2>3 DEF Kept
<1> QED
  BY Zenon, <1>2, <1>3, <1>4

LEMMA NativeKept ==
    ASSUME NEW s, s \in Native(world.platform)
    PROVE  Kept(Linux, s) = s
<1>1. CASE Linux
  <2>1. s \in Seq(1..255) /\ Len(s) <= 15
    BY Zenon, <1>1, NativeIs
  <2>2. First15(s) = s
    BY <2>1 DEF First15
  <2>3. CString(s) = s
    BY Zenon, <2>1, ByteIs, CStringSame
  <2> QED
    BY Zenon, <1>1, <2>2, <2>3 DEF Kept
<1>2. CASE ~Linux
  <2>1. s \in Seq(1..LastUnit)
    BY Zenon, <1>2, NativeIs
  <2>2. 0 \notin 1..LastUnit
    BY Zenon, UnitIs
  <2>3. CString(s) = s
    BY Zenon, <2>1, <2>2, CStringSame
  <2> QED
    BY Zenon, <1>2, <2>3 DEF Kept
<1> QED
  BY Zenon, <1>1, <1>2

LEMMA NothingKept == Kept(Linux, <<>>) = <<>>
<1>1. <<>> \in Seq(1..255) /\ Len(<<>>) <= 15 /\ <<>> \in Seq(1..LastUnit)
  OBVIOUS
<1> QED
  BY Zenon, <1>1, NativeIs, NativeKept

(* The copy is how that reads which the system keeps of what it was asked  *)
(* for, or it could not be had.                                            *)
Copies(linux, name, from, failed) ==
    \/ name = HasName(linux, Kept(linux, from))
    \/ /\ name \in {<<>>, DEFAULT_THREAD_NAME}
       /\ failed \/ HasName(linux, Kept(linux, from)) = <<>>

Copied(t) == source[t] # GivenHere => Copies(Linux, t_thread_name[t], source[t], unanswered[t])

Names ==
    /\ \A t \in alive : native[t] = Kept(Linux, asked[t])
    /\ \A t \in copied : Copied(t)

Restored(t) ==
    source[t] # GivenHere =>
        LET name == t_thread_name[t]
            last == CString(source[t])
        IN  \/ Linux /\ (name = last \/ (Len(name) = 15 /\ IsStrictPrefix(name, last)))
            \/ ~Linux /\ \E values \in Readings(name) : Wide(values, 2) = last
            \/ /\ name \in {<<>>, DEFAULT_THREAD_NAME}
               /\ last = <<>> \/ unanswered[t] \/ (~Linux /\ ~WideWellFormed(last, 2))

LEMMA NamesRestore == Types /\ Names => RestoresName
<1> SUFFICES ASSUME Types, Names, NEW t \in copied, source[t] # GivenHere
             PROVE  Restored(t)
  BY Zenon DEF RestoresName, Restored
<1> DEFINE name == t_thread_name[t]
           from == source[t]
           last == CString(from)
           failed == unanswered[t]
<1>1. from \in Called(world.platform)
  BY DEF Types, TypeOK, GhostsOK
<1>2. Copies(Linux, name, from, failed)
  BY Zenon DEF Names, Copied
<1> SUFFICES \/ Linux /\ (name = last \/ (Len(name) = 15 /\ IsStrictPrefix(name, last)))
             \/ ~Linux /\ \E values \in Readings(name) : Wide(values, 2) = last
             \/ /\ name \in {<<>>, DEFAULT_THREAD_NAME}
                /\ last = <<>> \/ failed \/ (~Linux /\ ~WideWellFormed(last, 2))
  BY Zenon DEF Restored
<1> HIDE DEF name, from, failed
<1>3. last = CString(from)
  OBVIOUS
<1> HIDE DEF last
<1>4. CASE ~Linux
  <2> DEFINE text == WStringToString(last, 2)
  <2>1. from \in Seq(Unit(2))
    BY Zenon, <1>1, <1>4, CalledIs
  <2>2. last \in Seq(Unit(2))
    BY Zenon, <1>3, <2>1, CStringType
  <2>3. HasName(Linux, Kept(Linux, from)) = text
    BY Zenon, <1>3, <1>4 DEF HasName, Kept
  <2>4. \/ \E values \in Readings(text) : Wide(values, 2) = last
        \/ text = <<>> /\ (last = <<>> \/ ~WideWellFormed(last, 2))
    BY Zenon, <2>2, ReadsAs
  <2>5. CASE name = text
    BY Zenon, <1>4, <2>4, <2>5
  <2>6. CASE name \in {<<>>, DEFAULT_THREAD_NAME} /\ failed
    BY Zenon, <2>6
  <2>7. CASE name \in {<<>>, DEFAULT_THREAD_NAME} /\ text = <<>>
    <3>1. last = <<>> \/ ~WideWellFormed(last, 2)
      <4> SUFFICES ASSUME WideWellFormed(last, 2) PROVE last = <<>>
        OBVIOUS
      <4>1. StringToWString(text, 2) = last
        BY Zenon, <2>2, NarrowAgrees
      <4> QED
        BY Zenon, <2>7, <4>1, OfNothing
    <3> QED
      BY Zenon, <1>4, <2>7, <3>1
  <2> HIDE DEF text
  <2> QED
    BY Zenon, <1>2, <2>3, <2>5, <2>6, <2>7 DEF Copies
<1>5. CASE Linux
  <2> DEFINE kept == Kept(TRUE, from)
  <2>1. HasName(Linux, Kept(Linux, from)) = kept
    BY Zenon, <1>5 DEF HasName, Kept
  <2>0. from \in Seq(Byte)
    BY Zenon, <1>1, <1>5, CalledIs
  <2>2. \/ kept = last
        \/ Len(kept) = 15 /\ IsStrictPrefix(kept, last)
    <3>1. \/ kept = CString(from)
          \/ Len(kept) = 15 /\ IsStrictPrefix(kept, CString(from))
      BY Zenon, <2>0, KeptCases
    <3> QED
      BY Zenon, <1>3, <3>1
  <2> HIDE DEF kept
  <2>3. CASE name = kept
    BY Zenon, <1>5, <2>2, <2>3
  <2>4. CASE name \in {<<>>, DEFAULT_THREAD_NAME} /\ (failed \/ kept = <<>>)
    <3>1. kept = <<>> => Len(kept) # 15
      OBVIOUS
    <3>2. kept = <<>> => last = <<>>
      BY Zenon, <2>2, <3>1
    <3> QED
      BY Zenon, <2>4, <3>2
  <2> QED
    BY Zenon, <1>2, <2>1, <2>3, <2>4 DEF Copies
<1> QED
  BY Zenon, <1>4, <1>5

LEMMA InitNames == Types /\ Init => Names
<1> SUFFICES ASSUME Types, Init, NEW t \in alive
             PROVE  native[t] = Kept(Linux, asked[t])
  BY Zenon DEF Names, Init
<1>1. native[t] \in Native(world.platform) /\ asked[t] = native[t]
  BY DEF Types, TypeOK, Init
<1> QED
  BY Zenon, <1>1, NativeKept

(* What the system answers is a copy of what it was asked for, and so is   *)
(* the default name when there is no answer.                               *)
LEMMA AnswersCopy ==
    ASSUME Names, NEW t \in alive, NEW answer \in Answers(t)
    PROVE  /\ Copies(Linux, answer.name, asked[t], answer.failed)
           /\ answer.name = <<>> => Copies(Linux, DEFAULT_THREAD_NAME, asked[t], answer.failed)
<1> DEFINE has == HasName(Linux, Kept(Linux, asked[t]))
<1>1. NativeName(t) = has
  BY Zenon DEF Names, NativeName, HasName
<1>2. \/ answer = [name |-> has, failed |-> FALSE]
      \/ answer = [name |-> <<>>, failed |-> TRUE]
  BY Zenon, <1>1 DEF Answers
<1> HIDE DEF has
<1>3. \/ answer.name = has
      \/ answer.name = <<>> /\ answer.failed
  BY <1>2
<1> QED
  BY Zenon, <1>3 DEF Copies, has

LEMMA NextNames == Types /\ Types' /\ Names /\ [Next]_vars => Names'
<1> SUFFICES ASSUME Types, Types', Names, [Next]_vars PROVE Names'
  OBVIOUS
<1>0. /\ TypeOK /\ GhostsOK /\ world \in Worlds /\ alive \subseteq Threads /\ copied \subseteq alive
      /\ copied' \subseteq alive'
  BY DEF Types, TypeOK
<1>w. /\ \A name \in world.names : name \in Seq(Byte) /\ name # <<>>
      /\ \A name \in world.foreign : name \in Native(world.platform)
  BY Zenon, <1>0, WorldIs
<1>d. /\ DOMAIN native = Threads /\ DOMAIN t_thread_name = Threads
      /\ DOMAIN asked = Threads /\ DOMAIN source = Threads /\ DOMAIN unanswered = Threads
  BY <1>0 DEF TypeOK, GhostsOK
<1>n. /\ \A u \in alive : native[u] = Kept(Linux, asked[u])
      /\ \A u \in copied : Copied(u)
  BY Zenon DEF Names
(* Only u's name and copy change, and as they may.                         *)
<1>g. ASSUME world' = world, NEW u \in Threads,
             alive' \subseteq alive \cup {u}, copied' \subseteq copied \cup {u},
             \A v \in Threads \ {u} :
                 /\ native'[v] = native[v] /\ asked'[v] = asked[v]
                 /\ t_thread_name'[v] = t_thread_name[v]
                 /\ source'[v] = source[v] /\ unanswered'[v] = unanswered[v],
             u \in alive' => native'[u] = Kept(Linux, asked'[u]),
             u \in copied' /\ source'[u] # GivenHere =>
                 Copies(Linux, t_thread_name'[u], source'[u], unanswered'[u])
      PROVE  Names'
  <2>1. Linux' = Linux
    BY <1>g DEF Linux
  <2>2. ASSUME NEW v \in alive' PROVE native'[v] = Kept(Linux, asked'[v])
    <3>1. v = u \/ (v \in alive /\ v \in Threads \ {u})
      BY Zenon, <1>0, <1>g
    <3> QED
      BY Zenon, <1>g, <1>n, <3>1
  <2>3. ASSUME NEW v \in copied', source'[v] # GivenHere
        PROVE  Copies(Linux, t_thread_name'[v], source'[v], unanswered'[v])
    <3>1. v = u \/ (v \in copied /\ v \in Threads \ {u})
      BY Zenon, <1>0, <1>g
    <3>2. CASE v = u
      BY Zenon, <1>g, <2>3, <3>2
    <3>3. CASE v \in copied /\ v \in Threads \ {u}
      BY Zenon, <1>g, <1>n, <2>3, <3>3 DEF Copied
    <3> QED
      BY Zenon, <3>1, <3>2, <3>3
  <2> QED
    BY <2>1, <2>2, <2>3 DEF Names, Copied, Copies, Kept, HasName
<1>1. ASSUME NEW t \in Threads, NEW name \in world.names, SetThreadName(t, name)
      PROVE  Names'
  <2> DEFINE given == Given(t, name)
  <2>1. name \in Seq(Byte) /\ name # <<>> /\ t \in copied /\ t \in alive
    BY Zenon, <1>0, <1>1, <1>w DEF SetThreadName, Assign
  <2>2. /\ world' = world /\ alive' = alive /\ copied' = copied /\ unanswered' = unanswered
        /\ source' = [source EXCEPT ![t] = GivenHere]
        /\ \A u \in Threads : u # t => t_thread_name'[u] = t_thread_name[u]
    BY <1>1, <1>d DEF SetThreadName, Assign, Own
  <2>3. \/ /\ native' = [native EXCEPT ![t] = given]
           /\ \E last \in Asked(t, name) : asked' = [asked EXCEPT ![t] = last]
        \/ native' = native /\ asked' = asked
    BY Zenon, <1>1 DEF SetThreadName
  <2>4. native[t] = Kept(Linux, asked[t])
    BY Zenon, <1>n, <2>1
  <2>5. \A last \in Asked(t, name) : given = Kept(Linux, last)
    BY Zenon, <2>1, <2>4, GivenKept
  <2> HIDE DEF given
  <2>6. native'[t] = Kept(Linux, asked'[t])
    <3>1. CASE native' = native /\ asked' = asked
      BY Zenon, <2>4, <3>1
    <3>2. ASSUME NEW last \in Asked(t, name), native' = [native EXCEPT ![t] = given],
                 asked' = [asked EXCEPT ![t] = last]
          PROVE  native'[t] = Kept(Linux, asked'[t])
      <4>1. native'[t] = given /\ asked'[t] = last
        BY Zenon, <1>d, <3>2
      <4> QED
        BY Zenon, <2>5, <4>1
    <3> QED
      BY Zenon, <2>3, <3>1, <3>2
  <2>7. \A u \in Threads \ {t} : /\ native'[u] = native[u] /\ asked'[u] = asked[u]
                                 /\ t_thread_name'[u] = t_thread_name[u]
                                 /\ source'[u] = source[u] /\ unanswered'[u] = unanswered[u]
    BY Zenon, <1>d, <2>2, <2>3
  <2>8. source'[t] = GivenHere
    BY <1>d, <2>2
  <2> QED
    BY Zenon, <1>g, <2>2, <2>6, <2>7, <2>8
<1>2. ASSUME NEW t \in Threads, SetThreadNameEmpty(t)
      PROVE  Names'
  <2>1. PICK answer \in Answers(t) :
          /\ Assign(t, IF answer.name = <<>> THEN DEFAULT_THREAD_NAME ELSE answer.name)
          /\ unanswered' = [unanswered EXCEPT ![t] = answer.failed]
    BY Zenon, <1>2 DEF SetThreadNameEmpty
  <2> DEFINE name == IF answer.name = <<>> THEN DEFAULT_THREAD_NAME ELSE answer.name
  <2>2. /\ world' = world /\ alive' = alive /\ copied' = copied /\ native' = native /\ asked' = asked
        /\ source' = [source EXCEPT ![t] = asked[t]]
    BY <1>2 DEF SetThreadNameEmpty
  <2>3. t \in alive
    BY <1>0, <2>1 DEF Assign
  <2>4. Copies(Linux, name, asked[t], answer.failed)
    BY Zenon, <2>1, <2>3, AnswersCopy
  <2>5. t_thread_name' = [t_thread_name EXCEPT ![t] = name]
    BY Zenon, <2>1 DEF Assign, Own
  <2> HIDE DEF name
  <2>6. t_thread_name'[t] = name /\ source'[t] = asked[t] /\ unanswered'[t] = answer.failed
    BY Zenon, <1>d, <2>1, <2>2, <2>5
  <2>7. \A u \in Threads \ {t} : /\ native'[u] = native[u] /\ asked'[u] = asked[u]
                                 /\ t_thread_name'[u] = t_thread_name[u]
                                 /\ source'[u] = source[u] /\ unanswered'[u] = unanswered[u]
    BY Zenon, <1>d, <2>1, <2>2, <2>5
  <2>8. native'[t] = Kept(Linux, asked'[t])
    BY Zenon, <1>n, <2>2, <2>3
  <2> QED
    BY Zenon, <1>g, <2>2, <2>4, <2>6, <2>7, <2>8
<1>3. ASSUME NEW t \in Threads, NEW u \in Threads, Spawn(t, u)
      PROVE  Names'
  <2> DEFINE nat == IF Linux THEN native[t] ELSE <<>>
             ask == IF Linux THEN asked[t] ELSE <<>>
  <2>1. /\ world' = world /\ alive' = alive \cup {u} /\ t \in alive /\ u \notin alive
        /\ native' = [native EXCEPT ![u] = nat] /\ asked' = [asked EXCEPT ![u] = ask]
        /\ t_thread_name' = t_thread_name /\ copied' = copied
        /\ source' = source /\ unanswered' = unanswered
    BY Zenon, <1>3 DEF Spawn
  <2>2. nat = Kept(Linux, ask)
    BY Zenon, <1>n, <2>1, NothingKept
  <2> HIDE DEF nat, ask
  <2>3. native'[u] = Kept(Linux, asked'[u])
    BY Zenon, <1>d, <2>1, <2>2
  <2>4. \A v \in Threads \ {u} : native'[v] = native[v] /\ asked'[v] = asked[v]
    BY Zenon, <1>d, <2>1
  <2>5. u \notin copied'
    BY <1>0, <2>1
  <2> QED
    BY Zenon, <1>g, <2>1, <2>3, <2>4, <2>5
<1>4. ASSUME NEW t \in Threads, NEW name \in world.foreign, NamedByOthers(t, name)
      PROVE  Names'
  <2>1. /\ world' = world /\ alive' = alive /\ copied' = copied
        /\ t_thread_name' = t_thread_name /\ source' = source /\ unanswered' = unanswered
        /\ native' = [native EXCEPT ![t] = name]
        /\ asked' = [asked EXCEPT ![t] = name]
    BY <1>4 DEF NamedByOthers
  <2>2. native'[t] = Kept(Linux, asked'[t])
    BY Zenon, <1>d, <1>w, <2>1, NativeKept
  <2>3. \A u \in Threads \ {t} : native'[u] = native[u] /\ asked'[u] = asked[u]
    BY Zenon, <1>d, <2>1
  <2>4. t \in copied' => Copied(t)
    BY Zenon, <1>n, <2>1
  <2> QED
    BY Zenon, <1>g, <2>1, <2>2, <2>3, <2>4 DEF Copied
<1>5. ASSUME NEW t \in Threads, Initialise(t)
      PROVE  Names'
  <2>1. PICK answer \in Answers(t) :
          /\ t_thread_name' = [t_thread_name EXCEPT ![t] = answer.name]
          /\ unanswered' = [unanswered EXCEPT ![t] = answer.failed]
    BY Zenon, <1>5 DEF Initialise, Own
  <2>2. /\ world' = world /\ alive' = alive /\ copied' = copied \cup {t} /\ t \in alive
        /\ native' = native /\ asked' = asked /\ source' = [source EXCEPT ![t] = asked[t]]
    BY <1>5 DEF Initialise
  <2>3. Copies(Linux, answer.name, asked[t], answer.failed)
    BY Zenon, <2>1, <2>2, AnswersCopy
  <2>4. t_thread_name'[t] = answer.name /\ source'[t] = asked[t] /\ unanswered'[t] = answer.failed
    BY Zenon, <1>d, <2>1, <2>2
  <2>5. \A u \in Threads \ {t} : /\ t_thread_name'[u] = t_thread_name[u]
                                 /\ source'[u] = source[u] /\ unanswered'[u] = unanswered[u]
    BY Zenon, <1>d, <2>1, <2>2
  <2>6. native'[t] = Kept(Linux, asked'[t])
    BY Zenon, <1>n, <2>2
  <2> QED
    BY Zenon, <1>g, <2>2, <2>3, <2>4, <2>5, <2>6
<1>6. ASSUME UNCHANGED <<world, alive, native, t_thread_name, copied, asked, source, unanswered>>
      PROVE  Names'
  BY <1>6, <1>n DEF Names, Copied, Copies, Kept, HasName, Linux
<1>7. ASSUME NEW t \in Threads, BeginStatement(t) \/ Submit(t)
      PROVE  Names'
  <2>1. UNCHANGED <<world, alive, native, t_thread_name, copied, asked, source, unanswered>>
    BY <1>7 DEF BeginStatement, Submit
  <2> QED
    BY Zenon, <1>6, <2>1
<1>8. CASE UNCHANGED vars
  <2>1. UNCHANGED <<world, alive, native, t_thread_name, copied, asked, source, unanswered>>
    BY <1>8 DEF vars
  <2> QED
    BY Zenon, <1>6, <2>1
<1> QED
  BY Zenon, <1>1, <1>2, <1>3, <1>4, <1>5, <1>7, <1>8 DEF Next

(* SetThreadName("") and the initialiser of a copy find what the thread    *)
(* was last to be called for the system, up to a NUL, or on Linux its      *)
(* first fifteen bytes: the system's name is always what is kept of that,  *)
(* and on Windows both conversions lead to the text it is the UTF-16 of.   *)
THEOREM RestoresTheName == Spec => []RestoresName
<1>1. Types /\ Init => Names
  BY InitNames
<1>2. Types /\ Types' /\ Names /\ [Next]_vars => Names'
  BY NextNames
<1>3. Types /\ Names => RestoresName
  BY NamesRestore
<1> HIDE DEF Names, Types
<1> QED
  BY <1>1, <1>2, <1>3, AlwaysTypes, PTL DEF Spec

=============================================================================
