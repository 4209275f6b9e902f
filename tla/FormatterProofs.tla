--------------------------- MODULE FormatterProofs ---------------------------
(***************************************************************************)
(* Proofs about the formatter: about Pattern, for patterns of any length   *)
(* over any alphabet, and at the end about the dates of DateTime, for any  *)
(* threads, formats and seconds.                                           *)
(***************************************************************************)
EXTENDS Pattern, DateTime, FiniteSetTheorems, FunctionTheorems, WellFoundedInduction, TLAPS

(* A new item is never put next to a literal: while parse() runs, the last *)
(* item is a directive.  format() runs only once parse() has accepted.     *)
ScanOK ==
    /\ code = Parsing /\ items # <<>> => items[Len(items)].item # "literal"
    /\ code # Accepted => at = 0
    /\ code = Accepted => index = Len(pattern) + 1 /\ ~HasNull(items)

Base == TypeOK /\ ScanOK /\ LiteralsMerged

-----------------------------------------------------------------------------

LEMMA AppendSeq ==
    ASSUME NEW S, NEW s \in Seq(S), NEW x \in S
    PROVE  /\ Append(s, x) \in Seq(S) /\ Len(Append(s, x)) = Len(s) + 1
           /\ Append(s, x)[Len(s) + 1] = x
           /\ \A k \in 1..Len(s) : Append(s, x)[k] = s[k]
OBVIOUS

LEMMA CutSeq ==
    ASSUME NEW S, NEW s \in Seq(S), NEW i \in Nat \ {0}, NEW j \in 0..Len(s)
    PROVE  SubSeq(s, i, j) \in Seq(S)
OBVIOUS

LEMMA NoElements == ASSUME NEW S, NEW s \in Seq(S), Len(s) = 0 PROVE s = <<>>
OBVIOUS

LEMMA LiteralType == ASSUME NEW text \in Seq(Alphabet) PROVE Literal(text) \in Item
BY DEF Literal, Item

LEMMA CreateType ==
    ASSUME NEW d, NEW f \in Seq(Alphabet)
    PROVE  /\ CreateFormatItem(d, f) \in Item
           /\ CreateFormatItem(d, f).item # "literal"
           /\ d \notin Directives => CreateFormatItem(d, f).item = "null"
<1>1. "literal" \notin Directives
  BY DEF Directives, Simple, Configured
<1> QED
  BY <1>1 DEF CreateFormatItem, Item

(* Putting a literal, or a literal and another item, at the end of a list  *)
(* that is merged and does not end in a literal keeps it merged.           *)
LEMMA MergedAppend ==
    ASSUME NEW list \in Seq(Item), NEW x \in Item, Merged(list),
           x.item = "literal" => x.text # <<>>,
           x.item = "literal" => (list = <<>> \/ list[Len(list)].item # "literal")
    PROVE  Merged(Append(list, x)) /\ (HasNull(list) => HasNull(Append(list, x)))
<1> DEFINE longer == Append(list, x)
<1>1. /\ Len(longer) = Len(list) + 1 /\ longer[Len(list) + 1] = x /\ Len(list) \in Nat
      /\ \A k \in 1..Len(list) : longer[k] = list[k]
  BY AppendSeq
<1> HIDE DEF longer
<1>2. \A k \in 1..Len(longer) : longer[k].item = "literal" => longer[k].text # <<>>
  BY <1>1 DEF Merged
<1>3. ASSUME NEW k \in 1..Len(longer) - 1, longer[k].item = "literal"
      PROVE  longer[k + 1].item # "literal"
  <2>1. CASE k = Len(list)
    BY <1>1, <1>3, <2>1
  <2>2. CASE k # Len(list)
    <3>1. k \in 1..Len(list) - 1 /\ longer[k] = list[k] /\ longer[k + 1] = list[k + 1]
      BY <1>1, <2>2
    <3> QED
      BY <1>3, <3>1 DEF Merged
  <2> QED
    BY <2>1, <2>2
<1>4. HasNull(list) => HasNull(longer)
  BY <1>1 DEF HasNull
<1> QED
  BY <1>2, <1>3, <1>4 DEF Merged, longer

LEMMA WithLiteralKeeps ==
    ASSUME NEW list \in Seq(Item), NEW text \in Seq(Alphabet), Merged(list),
           list = <<>> \/ list[Len(list)].item # "literal"
    PROVE  /\ WithLiteral(list, text) \in Seq(Item)
           /\ Merged(WithLiteral(list, text))
           /\ HasNull(list) => HasNull(WithLiteral(list, text))
<1>1. CASE text = <<>>
  BY <1>1 DEF WithLiteral
<1>2. CASE text # <<>>
  <2>1. Literal(text) \in Item /\ Literal(text).item = "literal" /\ Literal(text).text # <<>>
    BY <1>2, LiteralType DEF Literal
  <2> QED
    BY <1>2, <2>1, AppendSeq, MergedAppend DEF WithLiteral
<1> QED
  BY <1>1, <1>2

(* Push is what a directive does to the items.                             *)
Push(list, text, d, f) == Append(WithLiteral(list, text), CreateFormatItem(d, f))

LEMMA PushKeeps ==
    ASSUME NEW list \in Seq(Item), NEW text \in Seq(Alphabet), Merged(list),
           list = <<>> \/ list[Len(list)].item # "literal",
           NEW d, NEW f \in Seq(Alphabet)
    PROVE  LET longer == Push(list, text, d, f)
           IN  /\ longer \in Seq(Item)
               /\ Merged(longer)
               /\ longer[Len(longer)].item # "literal"
               /\ HasNull(list) \/ d \notin Directives => HasNull(longer)
<1> DEFINE half == WithLiteral(list, text)
           x == CreateFormatItem(d, f)
<1>1. half \in Seq(Item) /\ Merged(half) /\ (HasNull(list) => HasNull(half))
  BY WithLiteralKeeps
<1>2. x \in Item /\ x.item # "literal" /\ (d \notin Directives => x.item = "null")
  BY CreateType
<1> HIDE DEF half, x
<1>3. /\ Append(half, x) \in Seq(Item) /\ Len(Append(half, x)) = Len(half) + 1
      /\ Append(half, x)[Len(half) + 1] = x /\ Len(half) \in Nat
  BY <1>1, <1>2, AppendSeq
<1>4. Merged(Append(half, x)) /\ (HasNull(half) => HasNull(Append(half, x)))
  BY <1>1, <1>2, MergedAppend
<1>5. d \notin Directives => HasNull(Append(half, x))
  BY <1>2, <1>3 DEF HasNull
<1> QED
  BY <1>1, <1>2, <1>3, <1>4, <1>5 DEF Push, half, x

-----------------------------------------------------------------------------
(* The steps, by what they do to the items                                 *)

LEMMA BaseInit == Init => Base
<1> SUFFICES ASSUME Init PROVE Base
  OBVIOUS
<1>1. pattern \in Seq(Alphabet) /\ Len(pattern) \in Nat /\ 0 \in 0..MaxRecords
  BY PatternAssumption DEF Init
<1>2. /\ index \in 1..Len(pattern) + 1 /\ at \in 0..Len(items) + 1
      /\ literal \in Seq(Alphabet) /\ items \in Seq(Item) /\ output \in Seq(Item)
  BY <1>1 DEF Init
<1>3. records \in 0..MaxRecords /\ threw \in BOOLEAN
  BY <1>1 DEF Init
<1>4. TypeOK
  BY <1>1, <1>2, <1>3 DEF Init, TypeOK
<1> QED
  BY <1>4 DEF Init, Base, ScanOK, LiteralsMerged, Merged, Parsing, Accepted

(* A directive is pushed, and its token ends where the scan goes on.       *)
LEMMA DirectivePushes ==
    ASSUME TypeOK, Directive \/ ConfiguredDirective
    PROVE  \E f \in Seq(Alphabet), j \in index + 2..Len(pattern) + 1 :
               /\ f = SubSeq(pattern, index + 3, j - 2)
               /\ index + 1 \in 1..Len(pattern) /\ code = Parsing
               /\ IsDirective(index) /\ Token(index, j)
               /\ items' = Push(items, literal, pattern[index + 1], f)
               /\ literal' = <<>> /\ index' = j
               /\ UNCHANGED <<pattern, code, line>>
<1>0. pattern \in Seq(Alphabet) /\ Len(pattern) \in Nat /\ index \in 1..Len(pattern) + 1
  BY DEF TypeOK
<1>1. /\ index + 1 \in 1..Len(pattern) /\ code = Parsing
      /\ pattern[index] = Percent /\ pattern[index + 1] # Percent
  BY <1>0 DEF Directive, ConfiguredDirective, AtDirective, Reading
<1>2. CASE Directive
  <2>1. <<>> \in Seq(Alphabet) /\ index + 2 \in index + 2..Len(pattern) + 1
    BY <1>0, <1>1
  <2>2. Token(index, index + 2)
    BY <1>1, <1>2 DEF Directive, Token
  <2>3. SubSeq(pattern, index + 3, (index + 2) - 2) = <<>>
    <3> DEFINE f == SubSeq(pattern, index + 3, (index + 2) - 2)
    <3>1. f \in Seq(Alphabet) /\ Len(f) = 0
      <4>1. (index + 2) - 2 = index /\ index + 3 \in Nat \ {0} /\ index \in 0..Len(pattern)
        BY <1>0, <1>1
      <4>2. f \in Seq(Alphabet)
        BY <1>0, <4>1, CutSeq
      <4>3. Len(f) = 0
        BY <1>0, <4>1
      <4> QED
        BY <4>2, <4>3
    <3> HIDE DEF f
    <3>2. f = <<>>
      BY <3>1, NoElements
    <3> QED
      BY <3>2 DEF f
  <2> QED
    BY <1>1, <1>2, <2>1, <2>2, <2>3 DEF Directive, Push, IsDirective
<1>3. CASE ConfiguredDirective
  <2>1. PICK j \in index + 4..Len(pattern) :
           /\ ClosedAt(index + 3, j)
           /\ items' = Append(WithLiteral(items, literal),
                              CreateFormatItem(pattern[index + 1],
                                               SubSeq(pattern, index + 3, j - 1)))
           /\ index' = j + 1
    BY <1>3 DEF ConfiguredDirective
  <2>2. SubSeq(pattern, index + 3, j - 1) \in Seq(Alphabet)
    <3>1. index + 3 \in Nat \ {0} /\ j - 1 \in 0..Len(pattern)
      BY <1>0
    <3> QED
      BY <1>0, <3>1, CutSeq
  <2>3. /\ j + 1 \in index + 2..Len(pattern) + 1 /\ j + 1 > index + 4
        /\ (j + 1) - 1 = j /\ (j + 1) - 2 = j - 1
    BY <1>0
  <2>4. Token(index, j + 1)
    BY <1>1, <1>3, <2>1, <2>3 DEF ConfiguredDirective, Token
  <2> QED
    BY <1>1, <1>3, <2>1, <2>2, <2>3, <2>4 DEF ConfiguredDirective, Push, IsDirective
<1> QED
  BY <1>2, <1>3

(* A character or an escape is read, and becomes text.                     *)
LEMMA TextGrows ==
    ASSUME TypeOK, Char \/ Escape
    PROVE  \E j \in index + 1..Len(pattern) + 1 :
               /\ index \in 1..Len(pattern) /\ code = Parsing
               /\ ~IsDirective(index) /\ Token(index, j) /\ index' = j
               /\ literal' = Append(literal, pattern[index]) /\ literal' \in Seq(Alphabet)
               /\ UNCHANGED <<pattern, items, code, line>>
<1>0. /\ pattern \in Seq(Alphabet) /\ Len(pattern) \in Nat /\ index \in 1..Len(pattern) + 1
      /\ literal \in Seq(Alphabet) /\ \A i \in 1..Len(pattern) : pattern[i] \in Alphabet
  BY DEF TypeOK
<1>1. CASE Char
  <2>1. index \in 1..Len(pattern) /\ code = Parsing /\ index + 1 \in index + 1..Len(pattern) + 1
    BY <1>0, <1>1 DEF Char, Reading
  <2>2. literal' \in Seq(Alphabet)
    BY <1>0, <1>1, <2>1, AppendSeq DEF Char
  <2> QED
    BY <1>1, <2>1, <2>2 DEF Char, Token, IsDirective
<1>2. CASE Escape
  <2>1. /\ index \in 1..Len(pattern) /\ index + 1 \in 1..Len(pattern) /\ code = Parsing
        /\ index + 2 \in index + 1..Len(pattern) + 1 /\ index + 1 <= Len(pattern)
    BY <1>0, <1>2 DEF Escape, Reading
  <2>2. literal' \in Seq(Alphabet)
    BY <1>0, <1>2, <2>1, AppendSeq DEF Escape
  <2> QED
    BY <1>2, <2>1, <2>2 DEF Escape, Token, IsDirective
<1> QED
  BY <1>1, <1>2

LEMMA BaseStep == ASSUME Base, [Next]_vars PROVE Base'
<1> USE DEF Base, LiteralsMerged, line, scan
<1>0. /\ items \in Seq(Item) /\ literal \in Seq(Alphabet) /\ Merged(items)
      /\ <<>> \in Seq(Alphabet) /\ Len(items) \in Nat /\ Len(pattern) \in Nat
  BY DEF TypeOK
<1>p. code = Parsing => at = 0 /\ (items = <<>> \/ items[Len(items)].item # "literal")
  BY DEF ScanOK, Parsing, Accepted
<1>1. CASE Char \/ Escape
  <2>1. PICK j \in index + 1..Len(pattern) + 1 :
               /\ index \in 1..Len(pattern) /\ code = Parsing
               /\ literal' \in Seq(Alphabet) /\ index' = j
               /\ UNCHANGED <<pattern, items, code, line>>
    BY <1>1, TextGrows
  <2>2. TypeOK'
    BY <2>1 DEF TypeOK
  <2>3. ScanOK'
    BY <2>1 DEF ScanOK, Parsing, Accepted
  <2> QED
    BY <1>0, <2>1, <2>2, <2>3
<1>2. CASE Directive \/ ConfiguredDirective
  <2>1. PICK f \in Seq(Alphabet), j \in index + 2..Len(pattern) + 1 :
               /\ index + 1 \in 1..Len(pattern) /\ code = Parsing
               /\ items' = Push(items, literal, pattern[index + 1], f)
               /\ literal' = <<>> /\ index' = j
               /\ UNCHANGED <<pattern, code, line>>
    BY <1>2, DirectivePushes
  <2>2. items' \in Seq(Item) /\ Merged(items') /\ items'[Len(items')].item # "literal"
    BY <1>0, <1>p, <2>1, PushKeeps
  <2>3. at' = 0 /\ at' \in 0..Len(items') + 1 /\ j \in 1..Len(pattern) + 1
    BY <1>0, <1>p, <2>1, <2>2 DEF TypeOK
  <2>4. TypeOK'
    BY <1>0, <2>1, <2>2, <2>3 DEF TypeOK
  <2>5. ScanOK'
    BY <2>1, <2>2, <2>3 DEF ScanOK, Parsing, Accepted
  <2> QED
    BY <2>2, <2>4, <2>5
<1>3. CASE Ends
  <2>1. TypeOK'
    BY <1>3 DEF Ends, TypeOK
  <2>2. ScanOK'
    BY <1>3, <1>p DEF Ends, Reading, ScanOK, Parsing, Accepted, Incomplete
  <2> QED
    BY <1>0, <1>3, <2>1, <2>2 DEF Ends
<1>4. CASE BraceFails \/ End
  <2>1. /\ code = Parsing /\ items' = WithLiteral(items, literal) /\ literal' = <<>>
        /\ UNCHANGED <<pattern, index, line>>
    BY <1>4 DEF BraceFails, End, AtDirective, Reading
  <2>2. items' \in Seq(Item) /\ Merged(items')
    BY <1>0, <1>p, <2>1, WithLiteralKeeps
  <2>3. /\ code' \in {Accepted, BadBrace, NullItem}
        /\ code' = Accepted => index = Len(pattern) + 1 /\ ~HasNull(items')
    BY <1>4 DEF BraceFails, End, Accepted, BadBrace, NullItem
  <2>4. at' = 0 /\ at' \in 0..Len(items') + 1
    BY <1>p, <2>1, <2>2
  <2>5. TypeOK'
    BY <1>0, <2>1, <2>2, <2>3, <2>4 DEF TypeOK
  <2>6. ScanOK'
    BY <2>1, <2>3, <2>4 DEF ScanOK, Parsing, Accepted, BadBrace, NullItem
  <2> QED
    BY <2>2, <2>5, <2>6
<1>5. CASE StartFormat \/ Format \/ AppendThrows
  <2>1. code = Accepted /\ UNCHANGED scan
    BY <1>5 DEF StartFormat, Format, AppendThrows, ItemAppends, DateFails, FormatReturns,
                Formatting, ScanOK
  <2>2. at' \in 0..Len(items) + 1
    BY <1>0, <1>5 DEF StartFormat, Format, AppendThrows, ItemAppends, DateFails, FormatReturns,
                Formatting
  <2>3. output' \in Seq(Item)
    <3>1. CASE ItemAppends
      <4>1. items[at] \in Item
        BY <1>0, <3>1 DEF ItemAppends, Formatting
      <4> QED
        BY <3>1, <4>1, AppendSeq DEF ItemAppends, TypeOK
    <3>2. CASE StartFormat
      BY <3>2 DEF StartFormat
    <3>3. CASE AppendThrows \/ DateFails \/ FormatReturns
      BY <3>3 DEF AppendThrows, DateFails, FormatReturns, TypeOK
    <3> QED
      BY <1>5, <3>1, <3>2, <3>3 DEF Format
  <2>4. records' \in 0..MaxRecords /\ threw' \in BOOLEAN
    <3>1. CASE StartFormat
      <4>1. records \in 0..MaxRecords /\ MaxRecords \in Nat
        BY PatternAssumption DEF TypeOK
      <4>2. records < MaxRecords /\ records' = records + 1 /\ threw' = FALSE
        BY <3>1 DEF StartFormat
      <4>3. records' \in 0..MaxRecords
        BY <4>1, <4>2
      <4>4. threw' \in BOOLEAN
        BY <4>2
      <4> QED
        BY <4>3, <4>4
    <3>2. CASE AppendThrows
      BY <3>2 DEF AppendThrows, TypeOK
    <3>3. CASE Format
      BY <3>3 DEF Format, ItemAppends, DateFails, FormatReturns, TypeOK
    <3> QED
      BY <1>5, <3>1, <3>2, <3>3
  <2>5. TypeOK'
    BY <2>1, <2>2, <2>3, <2>4 DEF TypeOK
  <2>6. ScanOK'
    BY <2>1 DEF ScanOK
  <2> QED
    BY <1>0, <2>1, <2>5, <2>6
<1>6. CASE UNCHANGED vars
  <2>1. TypeOK' /\ ScanOK'
    BY <1>6 DEF vars, TypeOK, ScanOK
  <2> QED
    BY <1>0, <1>6, <2>1 DEF vars
<1> QED
  BY <1>1, <1>2, <1>3, <1>4, <1>5, <1>6 DEF Next, Parse, Over

LEMMA BaseHolds == Spec => []Base
BY BaseInit, BaseStep, PTL DEF Spec

(* The formatter always has its types.                                     *)
THEOREM TypeCorrect == Spec => []TypeOK
BY BaseHolds, PTL DEF Base

(* Text runs are whole and never empty, at every moment of the scan.       *)
THEOREM LiteralsAreMerged == Spec => []LiteralsMerged
BY BaseHolds, PTL DEF Base

-----------------------------------------------------------------------------
(* Ascending lists                                                         *)

(* e lists n numbers in ascending order.                                   *)
Ascending(e, n) == e \in [1..n -> Nat] /\ \A i, j \in 1..n : i < j => e[i] < e[j]

Listed(e, n) == {e[i] : i \in 1..n}

LEMMA Listing ==
    ASSUME NEW n \in Nat, NEW e, Ascending(e, n), NEW m \in 0..n
    PROVE  IsFiniteSet(Listed(e, m)) /\ Cardinality(Listed(e, m)) = m
<1> DEFINE f == [i \in 1..m |-> e[i]]
<1>1. m \in Nat /\ 1..m \subseteq 1..n
  OBVIOUS
<1>2. IsFiniteSet(1..m) /\ Cardinality(1..m) = m
  <2>1. IF 1 > m THEN m = 0 ELSE m - 1 + 1 = m
    BY <1>1
  <2> QED
    BY <1>1, <2>1, FS_Interval
<1>3. f \in [1..m -> Listed(e, m)]
  BY DEF Listed
<1>4. ASSUME NEW i \in 1..m, NEW j \in 1..m, f[i] = f[j] PROVE i = j
  <2>1. i \in 1..n /\ j \in 1..n /\ e[i] = e[j] /\ e[i] \in Nat
    BY <1>1, <1>4 DEF Ascending
  <2>2. ~(i < j) /\ ~(j < i)
    BY <2>1 DEF Ascending
  <2> QED
    BY <2>1, <2>2
<1>5. \A x \in Listed(e, m) : \E i \in 1..m : f[i] = x
  BY DEF Listed
<1>6. f \in Bijection(1..m, Listed(e, m))
  <2> HIDE DEF f
  <2> QED
    BY <1>3, <1>4, <1>5 DEF Bijection, Injection, Surjection, IsInjective
<1>7. ExistsBijection(1..m, Listed(e, m))
  BY <1>6 DEF ExistsBijection
<1> QED
  BY <1>2, <1>7, FS_Bijection

(* The number that has i - 1 before it is the i-th.                        *)
LEMMA Ranked ==
    ASSUME NEW n \in Nat, NEW e, Ascending(e, n), NEW i \in 1..n
    PROVE  (CHOOSE k \in Listed(e, n) :
               Cardinality({c \in Listed(e, n) : c < k}) = i - 1) = e[i]
<1>1. ASSUME NEW j \in 1..n
      PROVE  Cardinality({c \in Listed(e, n) : c < e[j]}) = j - 1
  <2>1. {c \in Listed(e, n) : c < e[j]} = Listed(e, j - 1)
    <3>1. ASSUME NEW k \in 1..n, e[k] < e[j] PROVE k \in 1..j - 1
      <4>1. ~(j < k) /\ j # k
        BY <3>1 DEF Ascending
      <4> QED
        BY <4>1
    <3>2. ASSUME NEW k \in 1..j - 1 PROVE k \in 1..n /\ e[k] < e[j]
      BY DEF Ascending
    <3> QED
      BY <3>1, <3>2 DEF Listed
  <2>2. j - 1 \in 0..n
    OBVIOUS
  <2> QED
    BY <2>1, <2>2, Listing
<1> DEFINE P(k) == Cardinality({c \in Listed(e, n) : c < k}) = i - 1
<1>2. e[i] \in Listed(e, n) /\ P(e[i])
  BY <1>1 DEF Listed
<1>3. ASSUME NEW k \in Listed(e, n), P(k) PROVE k = e[i]
  <2>1. PICK j \in 1..n : k = e[j]
    BY DEF Listed
  <2>2. j - 1 = i - 1
    BY <1>1, <1>3, <2>1
  <2> QED
    BY <2>1, <2>2
<1> HIDE DEF P
<1>4. (CHOOSE k \in Listed(e, n) : P(k)) = e[i]
  BY <1>2, <1>3
<1> QED
  BY <1>4 DEF P

-----------------------------------------------------------------------------
(* Only dates are missing from a line                                      *)

(* The line has the items that e lists, all of those before m but dates.   *)
Drawn(e, n, m) ==
    /\ Ascending(e, n)
    /\ \A i \in 1..n : e[i] \in 1..m
    /\ \A k \in 1..m : items[k].item \notin Configured => \E i \in 1..n : e[i] = k
    /\ output = [i \in 1..n |-> items[e[i]]]

DrawnTo(m) == \E n \in Nat : \E e : Drawn(e, n, m)

LineOK ==
    /\ code # Accepted => records = 0
    /\ at > 0 => DrawnTo(at - 1)
    /\ at = 0 /\ records > 0 /\ ~threw => DrawnTo(Len(items))

(* The item at which the line is, a date or not, is left out or appended.  *)
LEMMA DrawOn ==
    ASSUME TypeOK, UNCHANGED items, NEW m \in 1..Len(items), DrawnTo(m - 1),
           \/ output' = Append(output, items[m])
           \/ output' = output /\ items[m].item \in Configured
    PROVE  \E n \in Nat : \E e : Drawn(e, n, m)'
<1>0. m \in Nat /\ items \in Seq(Item) /\ output \in Seq(Item) /\ items[m] \in Item
  BY DEF TypeOK
<1>n. PICK n \in Nat : \E e : Drawn(e, n, m - 1)
  BY DEF DrawnTo
<1>1. PICK e : Drawn(e, n, m - 1)
  BY <1>n
<1>2. CASE output' = output /\ items[m].item \in Configured
  <2>1. \A i \in 1..n : e[i] \in 1..m
    BY <1>0, <1>1 DEF Drawn
  <2>2. \A k \in 1..m : items[k].item \notin Configured => \E i \in 1..n : e[i] = k
    <3>1. \A k \in 1..m : k = m \/ k \in 1..m - 1
      BY <1>0
    <3> QED
      BY <1>1, <1>2, <3>1 DEF Drawn
  <2>3. Drawn(e, n, m)'
    BY <1>1, <1>2, <2>1, <2>2 DEF Drawn
  <2> QED
    BY <2>3
<1>3. CASE output' = Append(output, items[m])
  <2> DEFINE d == [i \in 1..n + 1 |-> IF i = n + 1 THEN m ELSE e[i]]
  <2>0. /\ \A i \in 1..n : i # n + 1 /\ i \in 1..n + 1
        /\ \A i \in 1..n + 1 : i # n + 1 => i \in 1..n
        /\ n + 1 \in 1..n + 1
    OBVIOUS
  <2>1. (\A i \in 1..n : d[i] = e[i]) /\ d[n + 1] = m
    BY <2>0
  <2>2. \A i \in 1..n : e[i] \in Nat /\ e[i] < m /\ e[i] \in 1..m - 1
    BY <1>0, <1>1 DEF Drawn
  <2>3. d \in [1..n + 1 -> Nat]
    BY <1>0, <2>0, <2>2
  <2> HIDE DEF d
  <2>4. ASSUME NEW i \in 1..n + 1, NEW j \in 1..n + 1, i < j PROVE d[i] < d[j]
    <3>1. i \in 1..n
      BY <2>4
    <3>2. CASE j = n + 1
      BY <2>1, <2>2, <3>1, <3>2
    <3>3. CASE j # n + 1
      BY <1>1, <2>0, <2>1, <2>4, <3>1, <3>3 DEF Drawn, Ascending
    <3> QED
      BY <3>2, <3>3
  <2>5. \A i \in 1..n + 1 : d[i] \in 1..m
    BY <1>0, <2>0, <2>1, <2>2
  <2>6. ASSUME NEW k \in 1..m, items[k].item \notin Configured PROVE \E i \in 1..n + 1 : d[i] = k
    <3>1. CASE k = m
      BY <2>0, <2>1, <3>1
    <3>2. CASE k # m
      <4>1. k \in 1..m - 1
        BY <1>0, <3>2
      <4>2. PICK i \in 1..n : e[i] = k
        BY <1>1, <2>6, <4>1 DEF Drawn
      <4> QED
        BY <2>0, <2>1, <4>2
    <3> QED
      BY <3>1, <3>2
  <2>7. output' = [i \in 1..n + 1 |-> items[d[i]]]
    <3>1. output = [i \in 1..n |-> items[e[i]]] /\ Len(output) = n
      <4>1. output = [i \in 1..n |-> items[e[i]]]
        BY <1>1 DEF Drawn
      <4> QED
        BY <1>0, <4>1
    <3>2. \A i \in 1..n : output[i] = items[d[i]]
      BY <2>1, <3>1
    <3>3. /\ output' \in Seq(Item) /\ Len(output') = n + 1
          /\ output'[n + 1] = items[d[n + 1]]
          /\ \A i \in 1..n : output'[i] = output[i]
      BY <1>0, <1>3, <2>1, <3>1, AppendSeq
    <3>4. \A i \in 1..n + 1 : output'[i] = items[d[i]]
      BY <2>0, <3>2, <3>3
    <3> QED
      BY <3>3, <3>4
  <2>8. n + 1 \in Nat
    OBVIOUS
  <2>9. Drawn(d, n + 1, m)'
    BY <2>3, <2>4, <2>5, <2>6, <2>7 DEF Drawn, Ascending
  <2> QED
    BY <2>8, <2>9
<1> QED
  BY <1>2, <1>3

LEMMA LineStep == ASSUME Base, LineOK, [Next]_vars PROVE LineOK'
<1> USE DEF Base, scan, line
<1>0. at \in 0..Len(items) + 1 /\ Len(items) \in Nat /\ records \in Nat
  BY PatternAssumption DEF TypeOK
<1>1. CASE Parse
  <2>1. code = Parsing /\ UNCHANGED line
    BY <1>1 DEF Parse, Char, Ends, Escape, Directive, ConfiguredDirective, BraceFails, End,
                AtDirective, Reading
  <2>2. at = 0 /\ records = 0
    BY <2>1 DEF ScanOK, LineOK, Parsing, Accepted
  <2> QED
    BY <2>1, <2>2 DEF LineOK
<1>2. CASE StartFormat
  <2>1. at' = 1 /\ output' = <<>> /\ code' = Accepted
    BY <1>2 DEF StartFormat
  <2> DEFINE e == [i \in 1..0 |-> 0]
  <2>2. Drawn(e, 0, 0)'
    BY <2>1 DEF Drawn, Ascending
  <2>3. DrawnTo(at - 1)'
    <3>1. at' - 1 = 0
      BY <2>1
    <3> HIDE DEF e
    <3> QED
      BY <2>2, <3>1 DEF DrawnTo
  <2> QED
    BY <2>1, <2>3 DEF LineOK
<1>3. CASE ItemAppends \/ DateFails
  <2>1. /\ at \in 1..Len(items) /\ at' = at + 1 /\ UNCHANGED items /\ code = Accepted /\ code' = code
        /\ \/ output' = Append(output, items[at])
           \/ output' = output /\ items[at].item \in Configured
    BY <1>0, <1>3 DEF ItemAppends, DateFails, Formatting, ScanOK
  <2>2. DrawnTo(at - 1)
    BY <2>1 DEF LineOK
  <2>3. PICK m : m = at
    OBVIOUS
  <2>4n. PICK n \in Nat : \E e : Drawn(e, n, m)'
    <3>1. \E n \in Nat : \E e : Drawn(e, n, m)'
      BY <2>1, <2>2, <2>3, DrawOn
    <3> QED
      BY <3>1
  <2>4. PICK e : Drawn(e, n, m)'
    BY <2>4n
  <2>5. at' - 1 = m /\ at' # 0
    BY <1>0, <2>1, <2>3
  <2>6. DrawnTo(at - 1)'
    BY <2>4, <2>5 DEF DrawnTo
  <2> QED
    BY <2>1, <2>5, <2>6 DEF LineOK
<1>4. CASE AppendThrows
  BY <1>4 DEF AppendThrows, LineOK, Formatting, ScanOK
<1>5. CASE FormatReturns
  <2>1. at = Len(items) + 1 /\ at' = 0 /\ UNCHANGED <<items, output, code, records>>
    BY <1>5 DEF FormatReturns
  <2>2n. PICK n \in Nat : \E e : Drawn(e, n, Len(items))
    <3>1. at - 1 = Len(items) /\ at > 0
      BY <1>0, <2>1
    <3> QED
      BY <3>1 DEF LineOK, DrawnTo
  <2>2. PICK e : Drawn(e, n, Len(items))
    BY <2>2n
  <2>3. Drawn(e, n, Len(items))'
    BY <2>1, <2>2 DEF Drawn
  <2>4. DrawnTo(Len(items))'
    BY <2>3 DEF DrawnTo
  <2>5. code' # Accepted => records' = 0
    BY <2>1 DEF LineOK
  <2> QED
    BY <2>1, <2>4, <2>5 DEF LineOK
<1>6. CASE UNCHANGED vars
  BY <1>6 DEF vars, LineOK, DrawnTo, Drawn
<1> QED
  BY <1>1, <1>2, <1>3, <1>4, <1>5, <1>6 DEF Next, Format, Over
(* Exactly the dates that could not be converted are missing in a line     *)
(* that format() has finished, whatever else stands in the pattern.        *)
THEOREM OnlyDatesAreMissing == Spec => []OnlyDatesMissing
<1>1. Init => LineOK
  BY DEF Init, LineOK
<1>2. Base /\ LineOK => OnlyDatesMissing
  <2> SUFFICES ASSUME Base, LineOK, code = Accepted, at = 0, records > 0, ~threw
               PROVE  OnlyDatesMissing
    BY DEF OnlyDatesMissing
  <2>1n. PICK n \in Nat : \E e : Drawn(e, n, Len(items))
    BY DEF LineOK, DrawnTo
  <2>1. PICK e : Drawn(e, n, Len(items))
    BY <2>1n
  <2> DEFINE kept == Listed(e, n)
             nth(i) == CHOOSE k \in kept : Cardinality({c \in kept : c < k}) = i - 1
  <2>2. Ascending(e, n)
    BY <2>1 DEF Drawn
  <2>3. Cardinality(kept) = n
    <3>1. n \in 0..n
      OBVIOUS
    <3> QED
      BY <2>2, <3>1, Listing
  <2>4. \A i \in 1..n : nth(i) = e[i]
    BY <2>2, Ranked
  <2>5. kept \in SUBSET (1..Len(items))
    BY <2>1 DEF Drawn, Listed
  <2>6. \A k \in 1..Len(items) : items[k].item \notin Configured => k \in kept
    BY <2>1 DEF Drawn, Listed
  <2>7. output = [i \in 1..Cardinality(kept) |-> items[nth(i)]]
    <3> HIDE DEF nth, kept
    <3>1. output = [i \in 1..n |-> items[e[i]]]
      BY <2>1 DEF Drawn
    <3> QED
      BY <2>3, <2>4, <3>1
  <2> HIDE DEF kept
  <2> QED
    BY <2>5, <2>6, <2>7 DEF OnlyDatesMissing
<1>3. Spec => []LineOK
  BY <1>1, LineStep, BaseHolds, PTL DEF Spec
<1> QED
  BY <1>2, <1>3, BaseHolds, PTL

-----------------------------------------------------------------------------
(* What the items tell: Apart, one item at a time                          *)

LEMMA Least ==
  ASSUME NEW T, T \subseteq Nat, T # {}
  PROVE  \E n \in T : \A m \in T : n <= m
<1> DEFINE R == OpToRel(<, Nat)
<1>1. \A m, n \in Nat : m < n => <<m, n>> \in R
  BY DEF OpToRel
<1>2. IsWellFoundedOn(R, Nat)
  BY NatLessThanWellFounded
<1> HIDE DEF R
<1>3. PICK n \in T : \A m \in T : ~(<<m, n>> \in R)
  BY <1>2, WFMin
<1>4. \A m \in T : ~(m < n)
  BY <1>1, <1>3
<1> QED
  BY <1>4

(* What Apart makes of one item.                                           *)
Chars(text) == [c \in 1..Len(text) |-> Literal(<<text[c]>>)]
Pieces(x)   == IF x.item = "literal" THEN Chars(x.text) ELSE <<x>>

LEMMA CharsType ==
    ASSUME NEW text \in Seq(Alphabet)
    PROVE  Chars(text) \in Seq(Item) /\ Len(Chars(text)) = Len(text)
<1>1. Len(text) \in Nat
  OBVIOUS
<1>2. ASSUME NEW c \in 1..Len(text) PROVE Literal(<<text[c]>>) \in Item
  <2>1. <<text[c]>> \in Seq(Alphabet)
    OBVIOUS
  <2> QED
    BY <2>1, LiteralType
<1>3. Chars(text) \in [1..Len(text) -> Item]
  BY <1>2 DEF Chars
<1> QED
  BY <1>1, <1>3

(* A literal has text of the alphabet: only dates have a default.          *)
Spelled(list) == \A k \in 1..Len(list) : list[k].item = "literal" => list[k].text \in Seq(Alphabet)

LEMMA PiecesType ==
    ASSUME NEW x \in Item, x.item = "literal" => x.text \in Seq(Alphabet)
    PROVE  Pieces(x) \in Seq(Item)
BY CharsType DEF Pieces

LEMMA Joins ==
    ASSUME NEW S, NEW a \in Seq(S), NEW b \in Seq(S)
    PROVE  a \o b \in Seq(S)
OBVIOUS

(* f is Apart(list) as far as n.                                           *)
ApartTo(list, f, n) ==
    /\ f \in [0..n -> Seq(Item)]
    /\ f[0] = <<>>
    /\ \A i \in 1..n : f[i] = f[i - 1] \o Pieces(list[i])

LEMMA ApartExists ==
    ASSUME NEW list \in Seq(Item), Spelled(list)
    PROVE  \E f : ApartTo(list, f, Len(list))
<1>1. Len(list) \in Nat /\ \A i \in 1..Len(list) : Pieces(list[i]) \in Seq(Item)
  <2>1. ASSUME NEW i \in 1..Len(list) PROVE Pieces(list[i]) \in Seq(Item)
    <3>1. list[i] \in Item
      OBVIOUS
    <3> QED
      BY <3>1, PiecesType DEF Spelled
  <2> QED
    BY <2>1
<1> DEFINE Bad == {n \in 0..Len(list) : ~ \E f : ApartTo(list, f, n)}
<1>2. SUFFICES ASSUME Bad # {} PROVE FALSE
  <2>1. ASSUME Bad = {} PROVE \E f : ApartTo(list, f, Len(list))
    <3>1. Len(list) \in 0..Len(list) /\ Len(list) \notin Bad
      BY <1>1, <2>1
    <3> QED
      BY <3>1
  <2> QED
    BY <2>1
<1>3. PICK n \in Bad : \A m \in Bad : n <= m
  <2>1. Bad \subseteq Nat
    BY <1>1
  <2> HIDE DEF Bad
  <2> QED
    BY <1>2, <2>1, Least
<1>4. n # 0
  <2>1. ApartTo(list, [i \in 0..0 |-> <<>>], 0)
    BY DEF ApartTo
  <2> QED
    BY <2>1
<1>5. n \in 1..Len(list) /\ n - 1 \in 0..Len(list) /\ n - 1 \notin Bad
  <2>1. n \in 1..Len(list)
    BY <1>1, <1>4
  <2>2. ~(n <= n - 1)
    BY <2>1
  <2> HIDE DEF Bad
  <2> QED
    BY <1>1, <1>3, <2>1, <2>2
<1>6. PICK f : ApartTo(list, f, n - 1)
  BY <1>5
<1> DEFINE next == f[n - 1] \o Pieces(list[n])
           g == [i \in 0..n |-> IF i = n THEN next ELSE f[i]]
<1>7. next \in Seq(Item)
  <2>1. f[n - 1] \in Seq(Item) /\ Pieces(list[n]) \in Seq(Item)
    BY <1>1, <1>5, <1>6 DEF ApartTo
  <2> QED
    BY <2>1, Joins
<1>8. \A i \in 0..n - 1 : g[i] = f[i]
  BY <1>5
<1>9. g \in [0..n -> Seq(Item)] /\ g[0] = <<>> /\ g[n] = next
  <2>1. \A i \in 0..n : i # n => i \in 0..n - 1
    BY <1>5
  <2>2. \A i \in 0..n - 1 : f[i] \in Seq(Item)
    BY <1>6 DEF ApartTo
  <2>4. 0 \in 0..n /\ 0 # n /\ n \in 0..n /\ f[0] = <<>>
    BY <1>5, <1>6 DEF ApartTo
  <2> HIDE DEF next
  <2>3. g \in [0..n -> Seq(Item)]
    BY <1>7, <2>1, <2>2
  <2> QED
    BY <2>3, <2>4
<1>10. \A i \in 1..n : g[i] = g[i - 1] \o Pieces(list[i])
  <2> SUFFICES ASSUME NEW i \in 1..n PROVE g[i] = g[i - 1] \o Pieces(list[i])
    OBVIOUS
  <2>1. i - 1 \in 0..n - 1 /\ (i # n => i \in 1..n - 1)
    BY <1>5
  <2> HIDE DEF g
  <2>2. CASE i = n
    <3>1. g[i - 1] = f[n - 1]
      BY <1>8, <2>1, <2>2
    <3> QED
      BY <1>9, <2>2, <3>1
  <2>3. CASE i # n
    <3>1. g[i - 1] = f[i - 1] /\ g[i] = f[i]
      BY <1>5, <1>8, <2>1, <2>3
    <3>2. f[i] = f[i - 1] \o Pieces(list[i])
      BY <1>6, <2>1, <2>3 DEF ApartTo
    <3> QED
      BY <3>1, <3>2
  <2> QED
    BY <2>2, <2>3
<1>11. ApartTo(list, g, n)
  <2> HIDE DEF g
  <2> QED
    BY <1>9, <1>10 DEF ApartTo
<1> QED
  BY <1>3, <1>11

(* Two such functions agree where the items do.                            *)
LEMMA ApartAgree ==
    ASSUME NEW l, NEW l2, NEW f, NEW f2, NEW n \in Nat, NEW k \in Nat, NEW m \in 0..n, m <= k,
           ApartTo(l, f, n), ApartTo(l2, f2, k), \A i \in 1..m : l2[i] = l[i]
    PROVE  f2[m] = f[m]
<1> DEFINE Bad == {i \in 0..m : f2[i] # f[i]}
<1>1. SUFFICES ASSUME Bad # {} PROVE FALSE
  OBVIOUS
<1>2. PICK i \in Bad : \A j \in Bad : i <= j
  <2>1. Bad \subseteq Nat
    OBVIOUS
  <2> HIDE DEF Bad
  <2> QED
    BY <1>1, <2>1, Least
<1>3. i # 0
  BY <1>2 DEF ApartTo
<1>4. i \in 1..m /\ i \in 1..n /\ i \in 1..k /\ i - 1 \in 0..m /\ ~(i <= i - 1)
  BY <1>2, <1>3
<1>5. f2[i - 1] = f[i - 1]
  BY <1>2, <1>4
<1>6. f[i] = f[i - 1] \o Pieces(l[i]) /\ f2[i] = f2[i - 1] \o Pieces(l2[i])
  BY <1>4 DEF ApartTo
<1> QED
  BY <1>2, <1>4, <1>5, <1>6

LEMMA ApartIs ==
    ASSUME NEW list \in Seq(Item), Spelled(list)
    PROVE  \E f : ApartTo(list, f, Len(list)) /\ Apart(list) = f[Len(list)]
<1> DEFINE E(f, k) == IF k = 0 THEN <<>>
                      ELSE f[k - 1] \o
                           IF list[k].item = "literal"
                           THEN [c \in 1..Len(list[k].text) |-> Literal(<<list[k].text[c]>>)]
                           ELSE <<list[k]>>
<1>1. PICK f : ApartTo(list, f, Len(list))
  BY ApartExists
<1>2. f = [k \in 0..Len(list) |-> E(f, k)]
  <2>1. ASSUME NEW k \in 0..Len(list) PROVE f[k] = E(f, k)
    <3>1. k # 0 => k \in 1..Len(list)
      OBVIOUS
    <3> QED
      BY <1>1, <3>1 DEF ApartTo, Pieces, Chars
  <2> HIDE DEF E
  <2> QED
    BY <1>1, <2>1 DEF ApartTo
<1> DEFINE G == CHOOSE g : g = [k \in 0..Len(list) |-> E(g, k)]
<1>3. G = [k \in 0..Len(list) |-> E(G, k)]
  BY <1>2
<1>4. Apart(list) = G[Len(list)]
  BY DEF Apart
<1> HIDE DEF G
<1>5. \A i \in 0..Len(list) : G[i] = f[i]
  <2> DEFINE Bad == {n \in 0..Len(list) : G[n] # f[n]}
  <2>1. SUFFICES ASSUME Bad # {} PROVE FALSE
    OBVIOUS
  <2>2. PICK n \in Bad : \A m \in Bad : n <= m
    <3>1. Bad \subseteq Nat
      OBVIOUS
    <3> HIDE DEF Bad
    <3> QED
      BY <2>1, <3>1, Least
  <2>3. G[n] = E(G, n) /\ f[n] = E(f, n)
    <3> HIDE DEF E
    <3> QED
      BY <1>2, <1>3, <2>2
  <2>4. n # 0
    BY <2>2, <2>3
  <2>5. n - 1 \in 0..Len(list) /\ n - 1 \notin Bad
    BY <2>2, <2>4
  <2>6. G[n - 1] = f[n - 1]
    BY <2>5
  <2> QED
    BY <2>2, <2>3, <2>4, <2>6
<1>6. Len(list) \in 0..Len(list)
  OBVIOUS
<1> QED
  BY <1>1, <1>4, <1>5, <1>6

LEMMA ApartAppend ==
    ASSUME NEW list \in Seq(Item), Spelled(list), NEW x \in Item,
           x.item = "literal" => x.text \in Seq(Alphabet)
    PROVE  /\ Spelled(Append(list, x)) /\ Apart(list) \in Seq(Item)
           /\ Apart(Append(list, x)) = Apart(list) \o Pieces(x)
<1> DEFINE l2 == Append(list, x)
<1>1. /\ l2 \in Seq(Item) /\ Len(l2) = Len(list) + 1 /\ l2[Len(list) + 1] = x /\ Len(list) \in Nat
      /\ \A k \in 1..Len(list) : l2[k] = list[k]
  BY AppendSeq
<1> HIDE DEF l2
<1>2. Spelled(l2)
  <2>1. \A k \in 1..Len(l2) : k = Len(list) + 1 \/ k \in 1..Len(list)
    BY <1>1
  <2> QED
    BY <1>1, <2>1 DEF Spelled
<1>3. PICK f : ApartTo(list, f, Len(list)) /\ Apart(list) = f[Len(list)]
  BY ApartIs
<1>4. PICK g : ApartTo(l2, g, Len(l2)) /\ Apart(l2) = g[Len(l2)]
  BY <1>1, <1>2, ApartIs
<1>5. g[Len(list)] = f[Len(list)]
  <2> DEFINE m == Len(list)
  <2>1. m \in Nat /\ m \in 0..m /\ Len(l2) \in Nat /\ m <= Len(l2)
    BY <1>1
  <2>2. \A i \in 1..m : l2[i] = list[i]
    BY <1>1
  <2>3. ApartTo(list, f, m) /\ ApartTo(l2, g, Len(l2))
    BY <1>3, <1>4
  <2> HIDE DEF m
  <2>4. g[m] = f[m]
    BY <2>1, <2>2, <2>3, ApartAgree
  <2> QED
    BY <2>4 DEF m
<1>6. g[Len(list) + 1] = g[Len(list)] \o Pieces(x)
  <2>1. Len(list) + 1 \in 1..Len(l2) /\ (Len(list) + 1) - 1 = Len(list)
    BY <1>1
  <2> QED
    BY <1>1, <1>4, <2>1 DEF ApartTo
<1>7. Apart(list) \in Seq(Item)
  <2>1. Len(list) \in 0..Len(list)
    BY <1>1
  <2> QED
    BY <1>3, <2>1 DEF ApartTo
<1>8. Apart(l2) = Apart(list) \o Pieces(x)
  BY <1>1, <1>3, <1>4, <1>5, <1>6
<1> QED
  BY <1>2, <1>7, <1>8 DEF l2

LEMMA ApartNothing == Spelled(<<>>) /\ Apart(<<>>) = <<>>
<1>1. <<>> \in Seq(Item) /\ Len(<<>>) = 0 /\ Spelled(<<>>)
  BY DEF Spelled
<1>2. PICK f : ApartTo(<<>>, f, Len(<<>>)) /\ Apart(<<>>) = f[Len(<<>>)]
  BY <1>1, ApartIs
<1> QED
  BY <1>1, <1>2 DEF ApartTo

LEMMA CharsAppend ==
    ASSUME NEW text \in Seq(Alphabet), NEW c \in Alphabet
    PROVE  Chars(Append(text, c)) = Append(Chars(text), Literal(<<c>>))
<1> DEFINE t2 == Append(text, c)
           x == Literal(<<c>>)
           a == Chars(t2)
           b == Append(Chars(text), x)
<1>1. /\ t2 \in Seq(Alphabet) /\ Len(t2) = Len(text) + 1 /\ Len(text) \in Nat
      /\ t2[Len(text) + 1] = c /\ \A k \in 1..Len(text) : t2[k] = text[k]
  BY AppendSeq
<1>2. x \in Item
  <2>1. <<c>> \in Seq(Alphabet)
    OBVIOUS
  <2> QED
    BY <2>1, LiteralType
<1>3. Chars(text) \in Seq(Item) /\ Len(Chars(text)) = Len(text)
  BY CharsType
<1>4. a \in Seq(Item) /\ Len(a) = Len(text) + 1
  BY <1>1, CharsType
<1>5. /\ b \in Seq(Item) /\ Len(b) = Len(text) + 1 /\ b[Len(text) + 1] = x
      /\ \A k \in 1..Len(text) : b[k] = Chars(text)[k]
  <2> HIDE DEF x
  <2> QED
    BY <1>2, <1>3, AppendSeq
<1>6. \A k \in 1..Len(text) : a[k] = b[k]
  <2> SUFFICES ASSUME NEW k \in 1..Len(text) PROVE a[k] = b[k]
    OBVIOUS
  <2>1. k \in 1..Len(t2) /\ t2[k] = text[k]
    BY <1>1
  <2>2. a[k] = Literal(<<t2[k]>>)
    BY <2>1 DEF Chars
  <2>3. Chars(text)[k] = Literal(<<text[k]>>)
    BY DEF Chars
  <2> HIDE DEF a, b
  <2> QED
    BY <1>5, <2>1, <2>2, <2>3
<1>7. a[Len(text) + 1] = x
  <2>1. Len(text) + 1 \in 1..Len(t2)
    BY <1>1
  <2>2. a[Len(text) + 1] = Literal(<<t2[Len(text) + 1]>>)
    BY <2>1 DEF Chars
  <2> QED
    BY <1>1, <2>2
<1> HIDE DEF a, b, x, t2
<1>8. \A k \in 1..Len(text) + 1 : a[k] = b[k]
  <2>1. \A k \in 1..Len(text) + 1 : k = Len(text) + 1 \/ k \in 1..Len(text)
    BY <1>1
  <2> QED
    BY <1>5, <1>6, <1>7, <2>1
<1>9. a = b
  BY <1>4, <1>5, <1>8
<1> QED
  BY <1>9 DEF a, b, x, t2

LEMMA NoChars == Chars(<<>>) = <<>>
<1>1. <<>> \in Seq(Alphabet) /\ Len(<<>>) = 0
  OBVIOUS
<1>2. Chars(<<>>) \in Seq(Item) /\ Len(Chars(<<>>)) = 0
  BY <1>1, CharsType
<1> QED
  BY <1>2, NoElements

LEMMA JoinNothing == ASSUME NEW S, NEW s \in Seq(S) PROVE s \o <<>> = s
OBVIOUS

LEMMA JoinOne ==
    ASSUME NEW S, NEW s \in Seq(S), NEW u \in Seq(S), NEW x \in S
    PROVE  s \o Append(u, x) = Append(s \o u, x) /\ s \o <<x>> = Append(s, x)
OBVIOUS

(* addLiteral changes nothing in what is told, only where it is kept.      *)
LEMMA ApartLiteral ==
    ASSUME NEW list \in Seq(Item), Spelled(list), NEW text \in Seq(Alphabet)
    PROVE  /\ WithLiteral(list, text) \in Seq(Item) /\ Spelled(WithLiteral(list, text))
           /\ Apart(list) \in Seq(Item) /\ Apart(list) \o Chars(text) \in Seq(Item)
           /\ Apart(WithLiteral(list, text)) = Apart(list) \o Chars(text)
<1> DEFINE x == Literal(text)
<1>1. x \in Item /\ x.item = "literal" /\ x.text = text
  BY LiteralType DEF Literal
<1>2. Pieces(x) = Chars(text)
  BY <1>1 DEF Pieces
<1> HIDE DEF x
<1>3. /\ Spelled(Append(list, x)) /\ Apart(list) \in Seq(Item)
      /\ Apart(Append(list, x)) = Apart(list) \o Chars(text)
      /\ Append(list, x) \in Seq(Item)
  BY <1>1, <1>2, ApartAppend, AppendSeq
<1>4. Apart(list) \o Chars(text) \in Seq(Item)
  BY <1>3, CharsType, Joins
<1>5. CASE text = <<>>
  <2>1. WithLiteral(list, text) = list
    BY <1>5 DEF WithLiteral
  <2>2. Apart(list) \o Chars(text) = Apart(list)
    BY <1>3, <1>5, NoChars, JoinNothing
  <2> QED
    BY <1>4, <2>1, <2>2
<1>6. CASE text # <<>>
  <2>1. WithLiteral(list, text) = Append(list, x)
    BY <1>6 DEF WithLiteral, x
  <2> QED
    BY <1>3, <1>4, <2>1
<1> QED
  BY <1>3, <1>5, <1>6

LEMMA ApartPush ==
    ASSUME NEW list \in Seq(Item), Spelled(list), NEW text \in Seq(Alphabet),
           NEW d, NEW f \in Seq(Alphabet)
    PROVE  /\ Spelled(Push(list, text, d, f))
           /\ Apart(Push(list, text, d, f))
                = Append(Apart(list) \o Chars(text), CreateFormatItem(d, f))
<1> DEFINE half == WithLiteral(list, text)
           x == CreateFormatItem(d, f)
<1>1. half \in Seq(Item) /\ Spelled(half) /\ Apart(half) = Apart(list) \o Chars(text)
  BY ApartLiteral
<1>2. x \in Item /\ x.item # "literal"
  BY CreateType
<1> HIDE DEF half, x
<1>3. Pieces(x) = <<x>>
  BY <1>2 DEF Pieces
<1>4. /\ Spelled(Append(half, x)) /\ Apart(half) \in Seq(Item)
      /\ Apart(Append(half, x)) = Apart(half) \o <<x>>
  BY <1>1, <1>2, <1>3, ApartAppend
<1>5. Apart(half) \o <<x>> = Append(Apart(half), x)
  BY <1>2, <1>4, JoinOne
<1> QED
  BY <1>1, <1>4, <1>5 DEF Push, half, x

-----------------------------------------------------------------------------
(* The scan tells the tokens that it has read                              *)

(* What has been read so far, however it is kept.                          *)
Told == Apart(items) \o Chars(literal)

(* e lists the n tokens that are read, and where the next one begins; the  *)
(* items and the literal tell them, and a directive that nobody knows has  *)
(* left a null item.                                                       *)
Read(e, n) ==
    /\ Ascending(e, n + 1)
    /\ e[1] = 1 /\ e[n + 1] = index
    /\ \A i \in 1..n : Token(e[i], e[i + 1])
    /\ Told = [i \in 1..n |-> ItemOf(e[i], e[i + 1])]
    /\ \A i \in 1..n :
          IsDirective(e[i]) /\ pattern[e[i] + 1] \notin Directives => HasNull(items)

ToldOK ==
    /\ Spelled(items)
    /\ code = Accepted => literal = <<>>
    /\ \E n \in Nat : \E e : Read(e, n)

(* Every reading of the pattern has a token here.                          *)
Forced(i) == \A cuts : Splits(cuts, Len(pattern) + 1) => i \in cuts

Unreadable == \A cuts : ~Readable(cuts)

(* There is no other reading than the one of the scan, so a scan that is   *)
(* stuck, or has met a directive that nobody knows, is of a pattern that   *)
(* has none.                                                               *)
ForcedOK ==
    /\ Forced(index)
    /\ HasNull(items) => Unreadable
    /\ code \in {Incomplete, BadBrace, NullItem} => Unreadable

LEMMA ReadMore ==
    ASSUME TypeOK, pattern' = pattern, NEW n \in Nat, NEW e, Read(e, n),
           NEW j \in index + 1..Len(pattern) + 1, index' = j,
           Token(index, j), HasNull(items) => HasNull(items'),
           (IsDirective(index) /\ pattern[index + 1] \notin Directives) => HasNull(items'),
           Told \in Seq(Item), ItemOf(index, j) \in Item,
           Told' = Append(Told, ItemOf(index, j))
    PROVE  \E d : Read(d, n + 1)'
<1> DEFINE d == [i \in 1..n + 2 |-> IF i = n + 2 THEN j ELSE e[i]]
<1>1. index \in Nat /\ j \in Nat /\ index < j
  BY DEF TypeOK
<1>2. /\ e \in [1..n + 1 -> Nat] /\ \A i, k \in 1..n + 1 : i < k => e[i] < e[k]
      /\ e[1] = 1 /\ e[n + 1] = index
  BY DEF Read, Ascending
<1>3. /\ \A i \in 1..n + 2 : i = n + 2 \/ (i # n + 2 /\ i \in 1..n + 1)
      /\ \A i \in 1..n + 1 : i \in 1..n + 2 /\ i # n + 2 /\ (i = n + 1 \/ (i # n + 1 /\ i \in 1..n))
      /\ \A i \in 1..n : i \in 1..n + 1 /\ i + 1 \in 1..n + 1
      /\ 1 \in 1..n + 1 /\ n + 1 \in 1..n + 1 /\ n + 2 \in 1..n + 2 /\ n + 2 = (n + 1) + 1
  OBVIOUS
<1>4. d \in [1..n + 2 -> Nat] /\ d[n + 2] = j /\ \A i \in 1..n + 1 : d[i] = e[i]
  BY <1>1, <1>2, <1>3
<1> HIDE DEF d
<1>5. ASSUME NEW i \in 1..n + 2, NEW k \in 1..n + 2, i < k PROVE d[i] < d[k]
  <2>1. i \in 1..n + 1
    BY <1>5
  <2>2. CASE k = n + 2
    <3>1. e[i] <= index
      <4>1. i = n + 1 \/ i < n + 1
        BY <2>1
      <4>2. e[i] \in Nat
        BY <1>2, <2>1
      <4>3. CASE i = n + 1
        BY <1>1, <1>2, <4>3
      <4>4. CASE i < n + 1
        <5>1. e[i] < e[n + 1]
          BY <1>2, <1>3, <2>1, <4>4
        <5> QED
          BY <1>1, <1>2, <4>2, <5>1
      <4> QED
        BY <4>1, <4>3, <4>4
    <3>2. e[i] \in Nat
      BY <1>2, <2>1
    <3> QED
      BY <1>1, <1>4, <2>1, <2>2, <3>1, <3>2
  <2>3. CASE k # n + 2
    <3>1. k \in 1..n + 1
      BY <2>3
    <3> QED
      BY <1>2, <1>4, <1>5, <2>1, <3>1
  <2> QED
    BY <2>2, <2>3
<1>6. Ascending(d, n + 2)
  BY <1>4, <1>5 DEF Ascending
<1>7. d[1] = 1 /\ d[n + 2] = j
  BY <1>2, <1>3, <1>4
<1>8. ASSUME NEW i \in 1..n + 1
      PROVE  (i = n + 1 /\ d[i] = index /\ d[i + 1] = j)
             \/ (i \in 1..n /\ d[i] = e[i] /\ d[i + 1] = e[i + 1])
  <2>1. CASE i = n + 1
    BY <1>2, <1>3, <1>4, <2>1
  <2>2. CASE i # n + 1
    BY <1>3, <1>4, <2>2
  <2> QED
    BY <2>1, <2>2
<1>9. \A i \in 1..n + 1 : Token(d[i], d[i + 1])
  BY <1>8 DEF Read
<1>10. \A i \in 1..n + 1 :
          IsDirective(d[i]) /\ pattern[d[i] + 1] \notin Directives => HasNull(items')
  BY <1>8 DEF Read
<1>11. Told' = [i \in 1..n + 1 |-> ItemOf(d[i], d[i + 1])]
  <2> DEFINE x == ItemOf(index, j)
             t == Told
             t2 == Told'
  <2>1. t = [i \in 1..n |-> ItemOf(e[i], e[i + 1])] /\ t \in Seq(Item) /\ x \in Item /\ t2 = Append(t, x)
    BY DEF Read
  <2>2. \A i \in 1..n : t[i] = ItemOf(e[i], e[i + 1])
    BY <2>1
  <2>3. Len(t) = n
    BY <2>1
  <2> HIDE DEF t, t2
  <2>4. /\ t2 \in Seq(Item) /\ Len(t2) = n + 1 /\ t2[n + 1] = x
        /\ \A i \in 1..n : t2[i] = t[i]
    <3> HIDE DEF x
    <3> QED
      BY <2>1, <2>3, AppendSeq
  <2>5. \A i \in 1..n + 1 : t2[i] = ItemOf(d[i], d[i + 1])
    BY <1>8, <2>2, <2>4
  <2>6. t2 = [i \in 1..n + 1 |-> ItemOf(d[i], d[i + 1])]
    BY <2>4, <2>5
  <2> QED
    BY <2>6 DEF t2
<1>12. Read(d, n + 1)'
  <2>1. (n + 1) + 1 = n + 2
    OBVIOUS
  <2>2. \A i, k : Token(i, k)' = Token(i, k)
    BY DEF Token, ClosedAt, Braced
  <2>3. \A i, k : ItemOf(i, k)' = ItemOf(i, k)
    BY DEF ItemOf, IsDirective
  <2>4. \A i : IsDirective(i)' = IsDirective(i)
    BY DEF IsDirective
  <2>5. HasNull(items)' = HasNull(items')
    BY DEF HasNull
  <2> QED
    BY <1>6, <1>7, <1>9, <1>10, <1>11, <2>1, <2>2, <2>3, <2>4, <2>5 DEF Read
<1> QED
  BY <1>12

(* A step that only moves what is read from the literal to the items.      *)
LEMMA ReadStays ==
    ASSUME UNCHANGED <<pattern, index>>, NEW n \in Nat, NEW e, Read(e, n),
           HasNull(items) => HasNull(items'), Told' = Told
    PROVE  Read(e, n)'
<1>1. \A i, k : Token(i, k)' = Token(i, k)
  BY DEF Token, ClosedAt, Braced
<1>2. \A i, k : ItemOf(i, k)' = ItemOf(i, k)
  BY DEF ItemOf, IsDirective
<1>3. \A i : IsDirective(i)' = IsDirective(i)
  BY DEF IsDirective
<1>4. HasNull(items)' = HasNull(items')
  BY DEF HasNull
<1> QED
  BY <1>1, <1>2, <1>3, <1>4 DEF Read

LEMMA ToldInit == Init => ToldOK
<1> SUFFICES ASSUME Init PROVE ToldOK
  OBVIOUS
<1>1. index = 1 /\ items = <<>> /\ literal = <<>> /\ code = Parsing
  BY DEF Init
<1>2. Told = <<>>
  <2>1. <<>> \in Seq(Item)
    OBVIOUS
  <2> QED
    BY <1>1, <2>1, ApartNothing, NoChars, JoinNothing DEF Told
<1> DEFINE e == [i \in 1..1 |-> 1]
<1>3. e \in [1..1 -> Nat] /\ e[1] = 1 /\ \A i, j \in 1..1 : ~(i < j)
  OBVIOUS
<1> HIDE DEF e
<1>4. Read(e, 0)
  <2>1. 0 + 1 = 1 /\ 1..0 = {}
    OBVIOUS
  <2>2. Told = [i \in 1..0 |-> ItemOf(e[i], e[i + 1])]
    BY <1>2
  <2> QED
    BY <1>1, <1>3, <2>1, <2>2 DEF Read, Ascending
<1>5. \E n \in Nat : \E f : Read(f, n)
  BY <1>4
<1> QED
  BY <1>1, <1>5, ApartNothing DEF ToldOK, Parsing, Accepted

LEMMA ToldStep == ASSUME Base, ToldOK, [Next]_vars PROVE ToldOK'
<1> USE DEF Base, LiteralsMerged, line, scan
<1>0. items \in Seq(Item) /\ literal \in Seq(Alphabet) /\ Merged(items) /\ Spelled(items)
  BY DEF TypeOK, ToldOK
<1>p. code = Parsing => (items = <<>> \/ items[Len(items)].item # "literal")
  BY DEF ScanOK
<1>rn. PICK n \in Nat : \E e : Read(e, n)
  BY DEF ToldOK
<1>r. PICK e : Read(e, n)
  BY <1>rn
<1>s. HasNull(items)' = HasNull(items') /\ Spelled(items)' = Spelled(items')
  BY DEF HasNull, Spelled
<1>t. Told \in Seq(Item)
  BY <1>0, ApartLiteral DEF Told
<1>1. CASE Char \/ Escape
  <2>1. PICK j \in index + 1..Len(pattern) + 1 :
               /\ index \in 1..Len(pattern) /\ code = Parsing
               /\ ~IsDirective(index) /\ Token(index, j) /\ index' = j
               /\ literal' = Append(literal, pattern[index])
               /\ UNCHANGED <<pattern, items, code>>
    BY <1>1, TextGrows
  <2> DEFINE c == pattern[index]
             x == Literal(<<c>>)
  <2>2. c \in Alphabet /\ x \in Item /\ ItemOf(index, j) = x
    <3>1. c \in Alphabet
      BY <2>1 DEF TypeOK
    <3>2. <<c>> \in Seq(Alphabet)
      BY <3>1
    <3> QED
      BY <2>1, <3>1, <3>2, LiteralType DEF ItemOf
  <2>3. Told' = Append(Told, x)
    <3>1. Told' = Apart(items) \o Chars(Append(literal, c))
      BY <2>1 DEF Told
    <3>2. Chars(Append(literal, c)) = Append(Chars(literal), x)
      BY <1>0, <2>2, CharsAppend
    <3>3. Apart(items) \in Seq(Item) /\ Chars(literal) \in Seq(Item)
      <4>1. Apart(items) \in Seq(Item)
        BY <1>0, ApartLiteral
      <4> QED
        BY <1>0, <4>1, CharsType
    <3> HIDE DEF x, c
    <3>4. Apart(items) \o Append(Chars(literal), x) = Append(Apart(items) \o Chars(literal), x)
      BY <2>2, <3>3, JoinOne
    <3> QED
      BY <3>1, <3>2, <3>4 DEF Told
  <2> HIDE DEF x, c
  <2>4. \E d : Read(d, n + 1)'
    BY <1>r, <1>t, <2>1, <2>2, <2>3, ReadMore
  <2>5. PICK d : Read(d, n + 1)'
    BY <2>4
  <2>6. n + 1 \in Nat
    OBVIOUS
  <2>7. (\E m \in Nat : \E f : Read(f, m))'
    BY <2>5, <2>6
  <2>8. code' # Accepted
    BY <2>1 DEF Parsing, Accepted
  <2> QED
    BY <1>0, <1>s, <2>1, <2>7, <2>8 DEF ToldOK
<1>2. CASE Directive \/ ConfiguredDirective
  <2>1. PICK f \in Seq(Alphabet), j \in index + 2..Len(pattern) + 1 :
           /\ f = SubSeq(pattern, index + 3, j - 2)
           /\ code = Parsing /\ IsDirective(index) /\ Token(index, j) /\ index' = j
           /\ items' = Push(items, literal, pattern[index + 1], f) /\ literal' = <<>>
           /\ UNCHANGED <<pattern, code>>
    BY <1>2, DirectivePushes
  <2> DEFINE x == CreateFormatItem(pattern[index + 1], f)
  <2>2. x \in Item /\ ItemOf(index, j) = x
    BY <2>1, CreateType DEF ItemOf
  <2>3. Spelled(items') /\ Apart(items') = Append(Told, x)
    <3> DEFINE pushed == Push(items, literal, pattern[index + 1], f)
    <3>1. Spelled(pushed) /\ Apart(pushed) = Append(Apart(items) \o Chars(literal), x)
      BY <1>0, ApartPush
    <3>2. items' = pushed
      BY <2>1
    <3> HIDE DEF pushed, x
    <3> QED
      BY <3>1, <3>2 DEF Told
  <2> HIDE DEF x
  <2>4. Told' = Append(Told, x)
    <3>1. Append(Told, x) \in Seq(Item)
      BY <1>t, <2>2, AppendSeq
    <3>2. Told' = Apart(items') \o Chars(<<>>)
      BY <2>1 DEF Told
    <3> QED
      BY <2>3, <3>1, <3>2, NoChars, JoinNothing
  <2>5. HasNull(items) \/ pattern[index + 1] \notin Directives => HasNull(items')
    BY <1>0, <1>p, <2>1, PushKeeps
  <2>6. j \in index + 1..Len(pattern) + 1
    BY DEF TypeOK
  <2>7. \E d : Read(d, n + 1)'
    BY <1>r, <1>t, <2>1, <2>2, <2>4, <2>5, <2>6, ReadMore
  <2>8. PICK d : Read(d, n + 1)'
    BY <2>7
  <2>9. n + 1 \in Nat
    OBVIOUS
  <2>10. (\E m \in Nat : \E g : Read(g, m))'
    BY <2>8, <2>9
  <2> QED
    BY <1>s, <2>1, <2>3, <2>10 DEF ToldOK
<1>3. CASE BraceFails \/ End
  <2>1. /\ code = Parsing /\ items' = WithLiteral(items, literal) /\ literal' = <<>>
        /\ UNCHANGED <<pattern, index>>
    BY <1>3 DEF BraceFails, End, AtDirective, Reading
  <2>2. HasNull(items) => HasNull(items')
    BY <1>0, <1>p, <2>1, WithLiteralKeeps
  <2>3. Spelled(items') /\ Apart(items') = Told
    BY <1>0, <2>1, ApartLiteral DEF Told
  <2>4. Told' = Told
    <3>1. Told' = Apart(items') \o Chars(<<>>)
      BY <2>1 DEF Told
    <3> QED
      BY <1>t, <2>3, <3>1, NoChars, JoinNothing
  <2>5. Read(e, n)'
    BY <1>r, <2>1, <2>2, <2>4, ReadStays
  <2>6. (\E m \in Nat : \E g : Read(g, m))'
    BY <2>5
  <2> QED
    BY <1>s, <2>1, <2>3, <2>6 DEF ToldOK
<1>4. CASE Ends \/ StartFormat \/ Format \/ AppendThrows \/ UNCHANGED vars
  <2>1. UNCHANGED <<pattern, index, items, literal>> /\ (code' = code \/ code' = Incomplete)
    BY <1>4 DEF Ends, StartFormat, Format, AppendThrows, ItemAppends, DateFails, FormatReturns, vars
  <2>2. Told' = Told
    BY <2>1 DEF Told
  <2>3. Read(e, n)'
    BY <1>r, <2>1, <2>2, ReadStays
  <2>4. (\E m \in Nat : \E g : Read(g, m))'
    BY <2>3
  <2> QED
    BY <1>0, <1>s, <2>1, <2>4 DEF ToldOK, Incomplete, Accepted
<1> QED
  BY <1>1, <1>2, <1>3, <1>4 DEF Next, Parse, Over

-----------------------------------------------------------------------------
(* There is no other reading                                               *)

LEMMA TokenOnce ==
    ASSUME TypeOK, NEW i \in Nat, NEW j \in Nat, NEW k \in Nat, Token(i, j), Token(i, k)
    PROVE  j = k
<1>1. \A p, q \in Nat : ClosedAt(i + 3, p) /\ ClosedAt(i + 3, q) => ~(p < q)
  BY DEF TypeOK, ClosedAt
<1>2. CASE /\ pattern[i] = Percent /\ pattern[i + 1] # Percent /\ Braced(i)
  <2>1. /\ j > i + 4 /\ k > i + 4 /\ ClosedAt(i + 3, j - 1) /\ ClosedAt(i + 3, k - 1)
    BY <1>2 DEF Token
  <2>2. j - 1 \in Nat /\ k - 1 \in Nat
    BY <2>1
  <2>3. ~(j - 1 < k - 1) /\ ~(k - 1 < j - 1)
    BY <1>1, <2>1, <2>2
  <2> QED
    BY <2>3
<1>3. CASE ~(pattern[i] = Percent /\ pattern[i + 1] # Percent /\ Braced(i))
  BY <1>3 DEF Token
<1> QED
  BY <1>2, <1>3

LEMMA TokenForces ==
    ASSUME TypeOK, Forced(index), index \in 1..Len(pattern),
           NEW j \in Nat, Token(index, j)
    PROVE  Forced(j)
<1> SUFFICES ASSUME NEW cuts, Splits(cuts, Len(pattern) + 1) PROVE j \in cuts
  BY DEF Forced
<1>1. index \in cuts /\ index < Len(pattern) + 1 /\ index \in Nat
  BY DEF Forced, TypeOK
<1>2. PICK k \in cuts : Token(index, k)
  BY <1>1 DEF Splits
<1>3. k \in Nat
  BY <1>2 DEF Splits
<1>4. k = j
  BY <1>1, <1>2, <1>3, TokenOnce
<1> QED
  BY <1>2, <1>4

(* Where no token begins, or an unknown directive does, there is no        *)
(* reading.                                                                *)
LEMMA StuckUnreadable ==
    ASSUME TypeOK, Forced(index), index \in 1..Len(pattern), \A j \in Nat : ~Token(index, j)
    PROVE  Unreadable
<1> SUFFICES ASSUME NEW cuts, Splits(cuts, Len(pattern) + 1) PROVE FALSE
  BY DEF Unreadable, Readable
<1>1. index \in cuts /\ index < Len(pattern) + 1
  BY DEF Forced, TypeOK
<1>2. PICK k \in cuts : Token(index, k)
  BY <1>1 DEF Splits
<1>3. k \in Nat
  BY <1>2 DEF Splits
<1> QED
  BY <1>2, <1>3

LEMMA UnknownUnreadable ==
    ASSUME TypeOK, Forced(index), index \in 1..Len(pattern),
           IsDirective(index), pattern[index + 1] \notin Directives
    PROVE  Unreadable
<1> SUFFICES ASSUME NEW cuts, Splits(cuts, Len(pattern) + 1), Known(cuts, Len(pattern) + 1)
             PROVE  FALSE
  BY DEF Unreadable, Readable
<1>1. index \in cuts /\ index < Len(pattern) + 1
  BY DEF Forced, TypeOK
<1> QED
  BY <1>1 DEF Known

(* Only a directive that nobody knows makes a null item.                   *)
LEMMA NullOnlyLiteral ==
    ASSUME NEW list \in Seq(Item), NEW text \in Seq(Alphabet), HasNull(WithLiteral(list, text))
    PROVE  HasNull(list)
<1>1. CASE text = <<>>
  BY <1>1 DEF WithLiteral
<1>2. CASE text # <<>>
  <2> DEFINE x == Literal(text)
             l2 == Append(list, x)
  <2>1. x \in Item /\ x.item # "null"
    BY LiteralType DEF Literal
  <2> HIDE DEF x
  <2>2. /\ Len(l2) = Len(list) + 1 /\ l2[Len(list) + 1] = x /\ Len(list) \in Nat
        /\ \A k \in 1..Len(list) : l2[k] = list[k]
    BY <2>1, AppendSeq
  <2>3. HasNull(l2)
    BY <1>2 DEF WithLiteral, x
  <2> HIDE DEF l2
  <2>4. PICK k \in 1..Len(list) + 1 : l2[k].item = "null"
    BY <2>2, <2>3 DEF HasNull
  <2>5. k \in 1..Len(list)
    BY <2>1, <2>2, <2>4
  <2> QED
    BY <2>2, <2>4, <2>5 DEF HasNull
<1> QED
  BY <1>1, <1>2

LEMMA NullOnlyPush ==
    ASSUME NEW list \in Seq(Item), Spelled(list), NEW text \in Seq(Alphabet),
           NEW d \in Directives, NEW f \in Seq(Alphabet),
           HasNull(Push(list, text, d, f))
    PROVE  HasNull(list)
<1> DEFINE half == WithLiteral(list, text)
           x == CreateFormatItem(d, f)
           l2 == Append(half, x)
<1>1. half \in Seq(Item)
  BY ApartLiteral
<1>2. x \in Item /\ x.item # "null"
  <2>1. "null" \notin Directives
    BY DEF Directives, Simple, Configured
  <2>2. x.item # "null"
    BY <2>1 DEF CreateFormatItem
  <2> QED
    BY <2>2, CreateType
<1>h. HasNull(half) => HasNull(list)
  BY NullOnlyLiteral
<1> HIDE DEF half, x
<1>3. /\ Len(l2) = Len(half) + 1 /\ l2[Len(half) + 1] = x /\ Len(half) \in Nat
      /\ \A k \in 1..Len(half) : l2[k] = half[k]
  BY <1>1, <1>2, AppendSeq
<1>4. HasNull(l2)
  BY DEF Push, half, x
<1> HIDE DEF l2
<1>5. PICK k \in 1..Len(half) + 1 : l2[k].item = "null"
  BY <1>3, <1>4 DEF HasNull
<1>6. k \in 1..Len(half)
  BY <1>2, <1>3, <1>5
<1>7. HasNull(half)
  BY <1>3, <1>5, <1>6 DEF HasNull
<1> QED
  BY <1>7, <1>h

LEMMA ForcedInit == Init => ForcedOK
<1> SUFFICES ASSUME Init PROVE ForcedOK
  OBVIOUS
<1>1. Forced(index)
  BY DEF Init, Forced, Splits
<1>2. ~HasNull(items)
  BY DEF Init, HasNull
<1> QED
  BY <1>1, <1>2 DEF Init, ForcedOK, Parsing, Incomplete, BadBrace, NullItem

LEMMA SamePattern ==
    ASSUME pattern' = pattern
    PROVE  /\ Unreadable' = Unreadable
           /\ \A i : Forced(i)' = Forced(i)
<1>1. \A cuts, n : Splits(cuts, n)' = Splits(cuts, n)
  BY DEF Splits, Token, ClosedAt, Braced
<1>2. \A cuts, n : Known(cuts, n)' = Known(cuts, n)
  BY DEF Known, IsDirective
<1>3. \A cuts : Readable(cuts)' = Readable(cuts)
  BY <1>1, <1>2 DEF Readable
<1> QED
  BY <1>1, <1>3 DEF Unreadable, Forced

LEMMA ForcedStep == ASSUME Base, ToldOK, ForcedOK, [Next]_vars PROVE ForcedOK'
<1> USE DEF Base, line, scan
<1>0. items \in Seq(Item) /\ literal \in Seq(Alphabet) /\ Spelled(items)
  BY DEF TypeOK, ToldOK
<1>f. Forced(index) /\ (HasNull(items) => Unreadable)
      /\ (code \in {Incomplete, BadBrace, NullItem} => Unreadable)
  BY DEF ForcedOK
<1>s. pattern' = pattern
  BY DEF Next, Parse, Char, Ends, Escape, Directive, ConfiguredDirective, BraceFails, End,
         StartFormat, Format, AppendThrows, ItemAppends, DateFails, FormatReturns, Over, vars
<1>t. (Unreadable' <=> Unreadable) /\ HasNull(items)' = HasNull(items')
      /\ \A i : Forced(i)' <=> Forced(i)
  BY <1>s, SamePattern DEF HasNull
<1>u. Forced(index)' <=> Forced(index')
  BY <1>s DEF Forced, Splits, Token, ClosedAt, Braced
<1>c. SUFFICES /\ Forced(index')
               /\ HasNull(items') => Unreadable
               /\ code' \in {Incomplete, BadBrace, NullItem} => Unreadable
  BY <1>t, <1>u DEF ForcedOK
<1> DEFINE Bad == {Incomplete, BadBrace, NullItem}
<1>1. CASE Char \/ Escape
  <2>1. PICK j \in index + 1..Len(pattern) + 1 :
               /\ index \in 1..Len(pattern) /\ code = Parsing
               /\ Token(index, j) /\ index' = j
               /\ UNCHANGED <<items, code>>
    BY <1>1, TextGrows
  <2>2. j \in Nat
    BY <2>1 DEF TypeOK
  <2>3. Forced(j)
    BY <1>f, <2>1, <2>2, TokenForces
  <2> QED
    BY <1>f, <2>1, <2>3
<1>2. CASE Directive \/ ConfiguredDirective
  <2>1. PICK f \in Seq(Alphabet), j \in index + 2..Len(pattern) + 1 :
           /\ index + 1 \in 1..Len(pattern) /\ code = Parsing
           /\ IsDirective(index) /\ Token(index, j) /\ index' = j
           /\ items' = Push(items, literal, pattern[index + 1], f)
           /\ UNCHANGED code
    BY <1>2, DirectivePushes
  <2>2. j \in Nat /\ index \in 1..Len(pattern)
    BY <2>1 DEF TypeOK
  <2>3. Forced(j)
    BY <1>f, <2>1, <2>2, TokenForces
  <2>4. ASSUME HasNull(items') PROVE Unreadable
    <3>1. CASE pattern[index + 1] \in Directives
      <4>1. HasNull(items)
        BY <1>0, <2>1, <2>4, <3>1, NullOnlyPush
      <4> QED
        BY <1>f, <4>1
    <3>2. CASE pattern[index + 1] \notin Directives
      BY <1>f, <2>1, <2>2, <3>2, UnknownUnreadable
    <3> QED
      BY <3>1, <3>2
  <2> QED
    BY <1>f, <2>1, <2>3, <2>4
<1>3. CASE BraceFails \/ End
  <2>1. items' = WithLiteral(items, literal) /\ UNCHANGED index
    BY <1>3 DEF BraceFails, End
  <2>2. HasNull(items') => HasNull(items)
    BY <1>0, <2>1, NullOnlyLiteral
  <2>3. ASSUME code' \in Bad PROVE Unreadable
    <3>1. CASE BraceFails
      <4>1. index \in 1..Len(pattern) /\ Len(pattern) \in Nat
        BY <3>1 DEF BraceFails, AtDirective, Reading, TypeOK
      <4>2. ASSUME NEW j \in Nat PROVE ~Token(index, j)
        <5>1. ASSUME Token(index, j) PROVE FALSE
          <6>1. j > index + 4 /\ ClosedAt(index + 3, j - 1)
            BY <3>1, <5>1 DEF BraceFails, AtDirective, Token
          <6>2. j - 1 \in index + 4..Len(pattern)
            BY <4>1, <6>1 DEF ClosedAt
          <6> QED
            BY <3>1, <6>1, <6>2 DEF BraceFails
        <5> QED
          BY <5>1
      <4> QED
        BY <1>f, <4>1, <4>2, StuckUnreadable
    <3>2. CASE End
      <4>1. HasNull(items')
        BY <2>3, <3>2 DEF End, Accepted, Incomplete, BadBrace, NullItem
      <4> QED
        BY <1>f, <2>2, <4>1
    <3> QED
      BY <1>3, <3>1, <3>2
  <2> QED
    BY <1>f, <2>1, <2>2, <2>3
<1>4. CASE Ends
  <2>1. index \in 1..Len(pattern) /\ Len(pattern) \in Nat /\ index = Len(pattern)
        /\ pattern[index] = Percent
    BY <1>4 DEF Ends, Reading, TypeOK
  <2>2. ~(index + 1 <= Len(pattern))
    BY <2>1
  <2>3. \A j \in Nat : ~Token(index, j)
    BY <2>1, <2>2 DEF Token
  <2>4. Unreadable
    BY <1>f, <2>1, <2>3, StuckUnreadable
  <2>5. UNCHANGED <<index, items>>
    BY <1>4 DEF Ends
  <2> QED
    BY <1>f, <2>4, <2>5
<1>5. CASE StartFormat \/ Format \/ AppendThrows \/ UNCHANGED vars
  <2>1. UNCHANGED <<index, items, code>>
    BY <1>5 DEF StartFormat, Format, AppendThrows, ItemAppends, DateFails, FormatReturns, vars
  <2> QED
    BY <1>f, <2>1
<1> QED
  BY <1>1, <1>2, <1>3, <1>4, <1>5 DEF Next, Parse, Over

-----------------------------------------------------------------------------
(* A formatter has the items of the reading                                *)

LEMMA Climbs ==
    ASSUME NEW n \in Nat, NEW e, Ascending(e, n), NEW i \in 1..n, NEW j \in 1..n, i <= j
    PROVE  e[i] \in Nat /\ e[j] \in Nat /\ e[i] <= e[j]
<1>1. e[i] \in Nat /\ e[j] \in Nat /\ (i < j => e[i] < e[j])
  BY DEF Ascending
<1>2. i = j \/ i < j
  OBVIOUS
<1> QED
  BY <1>1, <1>2

(* The items of the positions that e lists.                                *)
LEMMA ListedItems ==
    ASSUME NEW n \in Nat, NEW e, Ascending(e, n + 1)
    PROVE  ItemsOf(Listed(e, n + 1)) = [i \in 1..n |-> ItemOf(e[i], e[i + 1])]
<1> DEFINE cuts == Listed(e, n + 1)
           start == [k \in 1..n + 1 |->
                        CHOOSE i \in cuts : Cardinality({c \in cuts : c < i}) = k - 1]
<1>1. n + 1 \in Nat /\ n + 1 \in 0..n + 1 /\ (n + 1) - 1 = n
  OBVIOUS
<1>2. Cardinality(cuts) = n + 1
  BY <1>1, Listing
<1>3. \A k \in 1..n + 1 : start[k] = e[k]
  BY <1>1, Ranked
<1>4. ItemsOf(cuts) = [k \in 1..n |-> ItemOf(start[k], start[k + 1])]
  <2> HIDE DEF cuts
  <2> QED
    BY <1>1, <1>2 DEF ItemsOf
<1> HIDE DEF start
<1>5. \A k \in 1..n : k \in 1..n + 1 /\ k + 1 \in 1..n + 1
  OBVIOUS
<1>6. \A k \in 1..n : ItemOf(start[k], start[k + 1]) = ItemOf(e[k], e[k + 1])
  BY <1>3, <1>5
<1> QED
  BY <1>4, <1>6

(* The tokens that have been read split the pattern.                       *)
LEMMA ReadSplits ==
    ASSUME TypeOK, NEW n \in Nat, NEW e, Read(e, n), ~HasNull(items), index = Len(pattern) + 1
    PROVE  Listed(e, n + 1) \in SUBSET (1..Len(pattern) + 1) /\ Readable(Listed(e, n + 1))
<1> DEFINE cuts == Listed(e, n + 1)
           end == Len(pattern) + 1
<1>1. /\ Ascending(e, n + 1) /\ e[1] = 1 /\ e[n + 1] = end /\ n + 1 \in Nat
      /\ 1 \in 1..n + 1 /\ n + 1 \in 1..n + 1
  BY DEF Read
<1>2. ASSUME NEW i \in 1..n + 1 PROVE e[i] \in 1..end
  <2>1. 1 <= i /\ i <= n + 1
    OBVIOUS
  <2>2. e[1] <= e[i] /\ e[i] <= e[n + 1] /\ e[i] \in Nat /\ e[n + 1] \in Nat
    BY <1>1, <2>1, Climbs
  <2> QED
    BY <1>1, <2>2
<1>3. cuts \subseteq 1..end /\ 1 \in cuts /\ end \in cuts
  BY <1>1, <1>2 DEF Listed
<1>4. ASSUME NEW c \in cuts, c < end
      PROVE  \E i \in 1..n : c = e[i]
  <2>1. PICK i \in 1..n + 1 : c = e[i]
    BY DEF Listed
  <2>2. i # n + 1
    BY <1>1, <1>3, <1>4, <2>1
  <2> QED
    BY <2>1, <2>2
<1>5. ASSUME NEW c \in cuts, c < end
      PROVE  \E d \in cuts : Token(c, d) /\ \A k \in cuts : k <= c \/ k >= d
  <2>1. PICK i \in 1..n : c = e[i]
    BY <1>4, <1>5
  <2>2. i \in 1..n + 1 /\ i + 1 \in 1..n + 1
    OBVIOUS
  <2>3. Token(c, e[i + 1]) /\ e[i + 1] \in cuts
    BY <2>1, <2>2 DEF Read, Listed
  <2>4. ASSUME NEW k \in cuts PROVE k <= c \/ k >= e[i + 1]
    <3>1. PICK m \in 1..n + 1 : k = e[m]
      BY DEF Listed
    <3>2. m <= i \/ i + 1 <= m
      OBVIOUS
    <3>3. m <= i => e[m] <= e[i]
      BY <1>1, <2>2, Climbs
    <3>4. i + 1 <= m => e[i + 1] <= e[m] /\ e[i + 1] \in Nat /\ e[m] \in Nat
      BY <1>1, <2>2, Climbs
    <3> QED
      BY <2>1, <3>1, <3>2, <3>3, <3>4
  <2> QED
    BY <2>3, <2>4
<1>6. ASSUME NEW c \in cuts, c < end, IsDirective(c) PROVE pattern[c + 1] \in Directives
  <2>1. PICK i \in 1..n : c = e[i]
    BY <1>4, <1>6
  <2> QED
    BY <1>6, <2>1 DEF Read
<1> HIDE DEF cuts, end
<1>7. Splits(cuts, end) /\ Known(cuts, end)
  BY <1>3, <1>5, <1>6 DEF Splits, Known
<1> QED
  BY <1>3, <1>7 DEF Readable, cuts, end

(* The constructor throws exactly on the patterns that have no reading,    *)
(* and the items of a formatter are those of a reading, in order.          *)
THEOREM ReadsEveryPattern == Spec => []ReadsPattern
<1>1. Base /\ ToldOK /\ ForcedOK => ReadsPattern
  <2> SUFFICES ASSUME Base, ToldOK, ForcedOK, code # Parsing PROVE ReadsPattern
    BY DEF ReadsPattern
  <2>0. TypeOK /\ ScanOK
    BY DEF Base
  <2>1. CASE code = Accepted
    <3>1n. PICK n \in Nat : \E e : Read(e, n)
      BY DEF ToldOK
    <3>1. PICK e : Read(e, n)
      BY <3>1n
    <3>2. index = Len(pattern) + 1 /\ ~HasNull(items) /\ literal = <<>> /\ Spelled(items)
      BY <2>0, <2>1 DEF ScanOK, ToldOK
    <3> DEFINE cuts == Listed(e, n + 1)
    <3>3. cuts \in SUBSET (1..Len(pattern) + 1) /\ Readable(cuts)
      BY <2>0, <3>1, <3>2, ReadSplits
    <3>4. ItemsOf(cuts) = Told
      BY <3>1, ListedItems DEF Read
    <3>5. Told = Apart(items)
      <4>1. items \in Seq(Item) /\ literal \in Seq(Alphabet)
        BY <2>0 DEF TypeOK
      <4>2. Apart(items) \in Seq(Item)
        BY <3>2, <4>1, ApartLiteral
      <4> QED
        BY <3>2, <4>2, NoChars, JoinNothing DEF Told
    <3> HIDE DEF cuts
    <3> QED
      BY <2>1, <3>3, <3>4, <3>5 DEF ReadsPattern
  <2>2. CASE code # Accepted
    <3>1. code \in {Incomplete, BadBrace, NullItem}
      BY <2>0, <2>2 DEF TypeOK
    <3>2. Unreadable
      BY <3>1 DEF ForcedOK
    <3> QED
      BY <2>2, <3>2 DEF ReadsPattern, Unreadable
  <2> QED
    BY <2>1, <2>2
<1>2. Init => ToldOK /\ ForcedOK
  BY ToldInit, ForcedInit
<1>3. Base /\ ToldOK /\ ForcedOK /\ [Next]_vars => ToldOK' /\ ForcedOK'
  BY ToldStep, ForcedStep
<1> QED
  <2> HIDE DEF Base, ToldOK, ForcedOK, ReadsPattern, Init, Next, vars
  <2> QED
    BY <1>1, <1>2, <1>3, BaseHolds, PTL DEF Spec


-----------------------------------------------------------------------------
(* Dates                                                                   *)

(* What the statics of a thread mean, wherever it is in format().          *)
CacheOK ==
    \A t \in Threads :
        /\ pc[t] = "store" => cached[t] = <<item[t], second[t]>>
        /\ pc[t] # "store" /\ cached[t] # Other => cached[t][2] = last_second[t]
        /\ pc[t] = "append" => last_second[t] = second[t]
        /\ pc[t] = "convert" => last_second[t] # second[t]

DatesOK == DateTypeOK /\ CacheOK /\ SecondIsOwn

LEMMA DatesAreDates ==
    /\ \A d \in Dates : d # Other /\ d[1] \in Formats /\ d[2] \in Seconds /\ d = <<d[1], d[2]>>
    /\ \A f \in Formats, s \in Seconds : <<f, s>> \in Dates /\ <<f, s>>[2] = s /\ <<f, s>> # Other
BY SMTT(30) DEF Dates, Other

LEMMA DateTypeStep == ASSUME DateTypeOK, [DateNext]_dateVars PROVE DateTypeOK'
<1> USE DateTimeAssumption, DatesAreDates DEF Goto, Own, DateTypeOK
<1>1. ASSUME NEW t \in Threads, FormatDate(t) \/ Compare(t) PROVE DateTypeOK'
  BY <1>1 DEF FormatDate, Compare
<1>2. ASSUME NEW t \in Threads, LocaltimeFails(t) \/ Strftime(t) \/ StrftimeFails(t) \/ Store(t)
      PROVE DateTypeOK'
  BY <1>2 DEF LocaltimeFails, Strftime, StrftimeFails, Store
<1>3. ASSUME NEW t \in Threads, AppendDate(t) PROVE DateTypeOK'
  <2>1. [text |-> cached[t], for |-> <<item[t], second[t]>>] \in [text : Dates \cup {Other}, for : Dates]
    OBVIOUS
  <2>2. appended' \in [Threads -> {Other} \cup [text : Dates \cup {Other}, for : Dates]]
    BY <1>3, <2>1 DEF AppendDate
  <2> QED
    BY <1>3, <2>2 DEF AppendDate
<1>4. CASE UNCHANGED dateVars
  BY <1>4 DEF dateVars
<1> QED
  BY <1>1, <1>2, <1>3, <1>4 DEF DateNext

LEMMA CacheStep == ASSUME DatesOK, DateTypeOK', [DateNext]_dateVars PROVE CacheOK'
<1> USE DateTimeAssumption DEF Goto, Own, DatesOK, DateTypeOK, CacheOK
<1>1. ASSUME NEW t \in Threads, FormatDate(t) PROVE CacheOK'
  BY <1>1 DEF FormatDate
<1>2. ASSUME NEW t \in Threads, Compare(t) PROVE CacheOK'
  BY <1>2 DEF Compare
<1>3. ASSUME NEW t \in Threads, LocaltimeFails(t) PROVE CacheOK'
  BY <1>3 DEF LocaltimeFails
<1>4. ASSUME NEW t \in Threads, Strftime(t) PROVE CacheOK'
  BY <1>4 DEF Strftime
<1>5. ASSUME NEW t \in Threads, StrftimeFails(t) PROVE CacheOK'
  BY <1>5 DEF StrftimeFails
<1>6. ASSUME NEW t \in Threads, Store(t) PROVE CacheOK'
  BY <1>6, DatesAreDates DEF Store
<1>7. ASSUME NEW t \in Threads, AppendDate(t) PROVE CacheOK'
  BY <1>7 DEF AppendDate
<1>8. CASE UNCHANGED dateVars
  BY <1>8 DEF dateVars
<1> QED
  BY <1>1, <1>2, <1>3, <1>4, <1>5, <1>6, <1>7, <1>8 DEF DateNext

LEMMA SecondStep == ASSUME DatesOK, [DateNext]_dateVars PROVE SecondIsOwn'
<1> USE DEF DatesOK
<1>1. ASSUME NEW t \in Threads, AppendDate(t) PROVE SecondIsOwn'
  <2>1. \A u \in Threads : u # t => appended'[u] = appended[u]
    BY <1>1 DEF AppendDate, DateTypeOK
  <2>2. appended'[t].text = cached[t] /\ appended'[t].for = <<item[t], second[t]>>
    BY <1>1 DEF AppendDate, DateTypeOK, Own
  <2>3. cached[t] # Other => cached[t][2] = second[t]
    BY <1>1 DEF AppendDate, CacheOK
  <2> QED
    BY <2>1, <2>2, <2>3 DEF SecondIsOwn
<1>2. CASE UNCHANGED appended
  BY <1>2 DEF SecondIsOwn
<1> QED
  BY <1>1, <1>2 DEF DateNext, FormatDate, Compare, LocaltimeFails, Strftime, StrftimeFails, Store, dateVars

LEMMA DatesInit == ASSUME DateInit PROVE DatesOK
<1>1. DateTypeOK
  <2>1. (CHOOSE s \in Seconds : TRUE) \in Seconds
    BY DateTimeAssumption
  <2>2. \A t \in Threads : (CHOOSE f \in Uses[t] : TRUE) \in Formats
    BY DateTimeAssumption
  <2>3. item \in [Threads -> Formats] /\ second \in [Threads -> Seconds]
    BY <2>1, <2>2 DEF DateInit
  <2> QED
    BY <2>3 DEF DateInit, DateTypeOK
<1>2. CacheOK /\ SecondIsOwn
  BY DEF DateInit, CacheOK, SecondIsOwn
<1> QED
  BY <1>1, <1>2 DEF DatesOK

LEMMA DatesStep == ASSUME DatesOK, [DateNext]_dateVars PROVE DatesOK'
<1>1. DateTypeOK'
  BY DateTypeStep DEF DatesOK
<1> QED
  BY <1>1, CacheStep, SecondStep DEF DatesOK

(* No record gets a date converted for another second, whatever formats    *)
(* and failures a program has.                                             *)
THEOREM SecondsAreOwn == DateSpec => []SecondIsOwn
<1>1. DatesOK => SecondIsOwn
  BY DEF DatesOK
<1> QED
  BY <1>1, DatesInit, DatesStep, PTL DEF DateSpec

-----------------------------------------------------------------------------
(* A thread with one format that always fits                               *)

(* What holds of such a thread: a second other than 0 has been converted   *)
(* in the one format there is, and so has what twenty bytes hold.          *)
FilledOK ==
    \A t \in Threads :
        OneFormat(t) =>
            /\ item[t] \in Uses[t]
            /\ last_second[t] # 0 => cached[t] # Other
            /\ cached[t] # Other => cached[t][1] \in Uses[t]

LEMMA UsesInit == ASSUME DateInit, NEW t \in Threads PROVE item[t] \in Uses[t]
<1>1. (CHOOSE f \in Uses[t] : TRUE) \in Uses[t]
  BY DateTimeAssumption
<1> QED
  BY <1>1 DEF DateInit

LEMMA FilledStep == ASSUME DatesOK, FilledOK, [DateNext]_dateVars PROVE FilledOK'
<1> SUFFICES ASSUME NEW u \in Threads, OneFormat(u)
             PROVE  /\ item'[u] \in Uses[u]
                    /\ last_second'[u] # 0 => cached'[u] # Other
                    /\ cached'[u] # Other => cached'[u][1] \in Uses[u]
  BY DEF FilledOK, OneFormat
<1> USE DEF DatesOK, DateTypeOK, Own, FilledOK
<1>1. ASSUME NEW t \in Threads, StrftimeFails(t) PROVE t # u
  BY <1>1 DEF StrftimeFails, OneFormat
<1>2. ASSUME NEW t \in Threads, StrftimeFails(t)
      PROVE item'[u] = item[u] /\ last_second'[u] = last_second[u] /\ cached'[u] = cached[u]
  BY <1>1, <1>2 DEF StrftimeFails
<1>3. ASSUME NEW t \in Threads, FormatDate(t)
      PROVE item'[u] \in Uses[u] /\ cached' = cached /\ last_second' = last_second
  BY <1>3 DEF FormatDate
<1>4. ASSUME NEW t \in Threads, Strftime(t)
      PROVE  /\ item' = item /\ last_second' = last_second
             /\ cached'[u] # cached[u] => cached'[u] = <<item[u], second[u]>>
  BY <1>4 DEF Strftime
<1>5. ASSUME NEW t \in Threads, Store(t)
      PROVE  /\ item' = item /\ cached' = cached
             /\ last_second'[u] # last_second[u] => pc[u] = "store"
  BY <1>5 DEF Store
<1>6. CASE UNCHANGED <<item, last_second, cached>>
  BY <1>6
<1>7. <<item[u], second[u]>> # Other /\ <<item[u], second[u]>>[1] = item[u]
  BY DatesAreDates DEF Dates
<1>8. pc[u] = "store" => cached[u] = <<item[u], second[u]>>
  BY DEF CacheOK
<1>a. CASE \E t \in Threads : StrftimeFails(t)
  BY <1>2, <1>a
<1>b. CASE \E t \in Threads : FormatDate(t)
  BY <1>3, <1>b
<1>c. CASE \E t \in Threads : Strftime(t)
  BY <1>4, <1>7, <1>c
<1>d. CASE \E t \in Threads : Store(t)
  BY <1>5, <1>7, <1>8, <1>d
<1> QED
  BY <1>6, <1>a, <1>b, <1>c, <1>d DEF DateNext, Compare, LocaltimeFails, AppendDate, dateVars

LEMMA DateStep ==
    ASSUME DatesOK, FilledOK, DateIsOwn, [DateNext]_dateVars
    PROVE  DateIsOwn'
<1> USE DEF DatesOK
<1>1. ASSUME NEW t \in Threads, AppendDate(t) PROVE DateIsOwn'
  <2>1. \A u \in Threads : u # t => appended'[u] = appended[u]
    BY <1>1 DEF AppendDate, DateTypeOK
  <2>2. appended'[t].text = cached[t] /\ appended'[t].for = <<item[t], second[t]>>
    BY <1>1 DEF AppendDate, DateTypeOK, Own
  <2>3. last_second[t] = second[t] /\ cached[t] \in Dates \cup {Other}
    BY <1>1 DEF AppendDate, CacheOK, DateTypeOK
  <2>4. ASSUME OneFormat(t), cached[t] # Other PROVE cached[t] = <<item[t], second[t]>>
    <3>1. cached[t] \in Dates /\ cached[t][2] = second[t]
      BY <1>1, <2>3, <2>4 DEF AppendDate, CacheOK
    <3>2. cached[t][1] = item[t]
      BY <2>4 DEF FilledOK, OneFormat
    <3>3. cached[t] = <<cached[t][1], cached[t][2]>>
      BY <3>1, DatesAreDates
    <3> QED
      BY <3>1, <3>2, <3>3
  <2>5. ASSUME OneFormat(t), cached[t] = Other PROVE second[t] = 0
    BY <2>3, <2>5 DEF FilledOK
  <2>6. appended'[t].for[2] = second[t]
    BY <2>2, DatesAreDates DEF Dates, DateTypeOK
  <2>7. OneFormat(t) => \/ appended'[t].text = appended'[t].for
                        \/ appended'[t].for[2] = 0 /\ appended'[t].text = Other
    BY <2>2, <2>4, <2>5, <2>6
  <2> QED
    BY <2>1, <2>7 DEF DateIsOwn, OneFormat
<1>2. CASE UNCHANGED appended
  BY <1>2 DEF DateIsOwn, OneFormat
<1> QED
  BY <1>1, <1>2 DEF DateNext, FormatDate, Compare, LocaltimeFails, Strftime, StrftimeFails, Store, dateVars

(* A thread with one format, whose dates fit, gives every record its own   *)
(* date, whatever other threads do (and but for the second 0).             *)
THEOREM DatesAreOwn == DateSpec => []DateIsOwn
<1>1. DateInit => DatesOK /\ FilledOK /\ DateIsOwn
  BY DatesInit, UsesInit DEF DateInit, FilledOK, DateIsOwn
<1>2. DatesOK /\ FilledOK /\ DateIsOwn /\ [DateNext]_dateVars => (DatesOK /\ FilledOK /\ DateIsOwn)'
  BY DatesStep, FilledStep, DateStep
<1> QED
  BY <1>1, <1>2, PTL DEF DateSpec

=============================================================================
