--------------------------- MODULE LogLineProofs ---------------------------
(***************************************************************************)
(* Proofs about LogLine for arrays of any size, any pieces and any depth.  *)
(***************************************************************************)
EXTENDS LogLine, TLAPS

(* What a buffer looks like between two operations.                        *)
BufferOK(b) ==
    IF b.overflow = <<>> THEN b.size <= Inline ELSE b.size > Inline /\ b.size = Len(b.overflow)

(* Nothing is lost from a line before its stream has gone bad.             *)
LineOK(line) ==
    /\ BufferOK(line.buffer)
    /\ Whole(View(line.buffer), line)
    /\ ~line.bad => ~line.lost

LinesOK ==
    /\ \A i \in 1..Len(open) : LineOK(open[i])
    /\ \A i \in 1..Len(submitted) : Whole(submitted[i].message, submitted[i])

LEMMA SeqParts ==
    ASSUME NEW S, NEW s \in Seq(S), NEW n \in 0..Len(s)
    PROVE  /\ SubSeq(s, 1, n) \in Seq(S) /\ Len(SubSeq(s, 1, n)) = n
           /\ \A i \in 1..n : SubSeq(s, 1, n)[i] = s[i]
OBVIOUS

LEMMA SameSeq ==
    ASSUME NEW S, NEW s \in Seq(S), NEW r \in Seq(S), Len(s) = Len(r),
           \A i \in 1..Len(s) : s[i] = r[i]
    PROVE  s = r
OBVIOUS

LEMMA Joined ==
    ASSUME NEW S, NEW s \in Seq(S), NEW r \in Seq(S)
    PROVE  /\ s \o r \in Seq(S) /\ Len(s \o r) = Len(s) + Len(r)
           /\ \A i \in 1..Len(s) : (s \o r)[i] = s[i]
           /\ \A i \in Len(s) + 1..Len(s) + Len(r) : (s \o r)[i] = r[i - Len(s)]
OBVIOUS

LEMMA AllOf == ASSUME NEW S, NEW s \in Seq(S) PROVE SubSeq(s, 1, Len(s)) = s
<1>1. Len(s) \in 0..Len(s)
  OBVIOUS
<1> QED
  BY <1>1, SeqParts, SameSeq

LEMMA ViewType ==
    ASSUME NEW b \in Buffer, BufferOK(b)
    PROVE  View(b) \in Seq(Byte) /\ Len(View(b)) = b.size
<1>1. b.inline \in Seq(Byte) /\ Len(b.inline) = Inline
  BY LogLineAssumption DEF Buffer
<1>2. CASE b.overflow = <<>>
  BY <1>1, <1>2, SeqParts DEF Buffer, BufferOK, View
<1>3. CASE b.overflow # <<>>
  BY <1>3, SeqParts DEF Buffer, BufferOK, View
<1> QED
  BY <1>2, <1>3

(* InlineBuffer::append: the view grows by exactly what was appended, in   *)
(* the array, on the way to the heap, and on the heap.                     *)
LEMMA AppendedView ==
    ASSUME NEW b \in Buffer, BufferOK(b), NEW data \in Seq(Byte)
    PROVE  /\ Appended(b, data) \in Buffer
           /\ BufferOK(Appended(b, data))
           /\ View(Appended(b, data)) = View(b) \o data
<1> USE LogLineAssumption
<1>0. /\ Len(data) \in Nat /\ b.size \in Nat /\ b.inline \in Seq(Byte)
      /\ DOMAIN b.inline = 1..Inline /\ Len(b.inline) = Inline /\ b.overflow \in Seq(Byte)
  BY DEF Buffer
<1>v. View(b) \in Seq(Byte) /\ Len(View(b)) = b.size
  BY ViewType
<1>j. /\ View(b) \o data \in Seq(Byte)
      /\ Len(View(b) \o data) = Len(View(b)) + Len(data)
      /\ \A i \in 1..Len(View(b)) : (View(b) \o data)[i] = View(b)[i]
      /\ \A i \in Len(View(b)) + 1..Len(View(b)) + Len(data) :
            (View(b) \o data)[i] = data[i - Len(View(b))]
  <2>1. View(b) \in Seq(Byte)
    BY <1>v
  <2> QED
    BY <2>1, Joined
<1>1. CASE data = <<>>
  BY <1>1, <1>v DEF Appended
<1>2. CASE data # <<>> /\ FitsInline(b, data)
  <2> DEFINE c == Copied(b, data)
  <2>1. Appended(b, data) = c
    BY <1>2 DEF Appended
  <2>2. b.overflow = <<>> /\ b.size + Len(data) <= Inline
    BY <1>2 DEF FitsInline
  <2>3. DOMAIN b.inline \cup (b.size + 1..b.size + Len(data)) = 1..Inline
    BY <1>0, <2>2
  <2>4. \A i \in 1..Inline : /\ i > b.size /\ i <= b.size + Len(data) => data[i - b.size] \in Byte
                             /\ b.inline[i] \in Byte
    BY <1>0
  <2>5. /\ c.inline \in [1..Inline -> Byte] /\ c.overflow = <<>> /\ c.size = b.size + Len(data)
        /\ \A i \in 1..Inline : c.inline[i] = IF i > b.size /\ i <= b.size + Len(data)
                                              THEN data[i - b.size] ELSE b.inline[i]
    BY <2>2, <2>3, <2>4 DEF Copied
  <2>6. c \in Buffer
    <3>1. c = [inline |-> c.inline, overflow |-> c.overflow, size |-> c.size]
      BY DEF Copied
    <3>2. c.overflow \in Seq(Byte) /\ c.size \in Nat
      BY <1>0, <2>2, <2>5
    <3> QED
      BY <2>5, <3>1, <3>2 DEF Buffer
  <2>7. BufferOK(c)
    BY <2>2, <2>5 DEF BufferOK
  <2>8. View(c) = View(b) \o data
    <3>1. View(c) \in Seq(Byte) /\ Len(View(c)) = b.size + Len(data)
      BY <2>5, <2>6, <2>7, ViewType
    <3>2. View(b) \o data \in Seq(Byte) /\ Len(View(b) \o data) = b.size + Len(data)
      BY <1>v, <1>j
    <3>3. ASSUME NEW i \in 1..b.size + Len(data) PROVE View(c)[i] = (View(b) \o data)[i]
      <4>1. View(c)[i] = c.inline[i]
        <5>1. c.inline \in Seq(Byte) /\ Len(c.inline) = Inline /\ c.size \in 0..Len(c.inline)
          BY <1>0, <2>2, <2>5
        <5> QED
          BY <1>0, <2>5, <5>1, <3>3, SeqParts DEF View
      <4>2. CASE i <= b.size
        <5>1. View(b)[i] = b.inline[i]
          BY <1>0, <2>2, <3>3, <4>2, SeqParts DEF View
        <5> QED
          BY <1>0, <1>v, <2>2, <2>5, <3>3, <4>1, <4>2, <5>1, Joined
      <4>3. CASE i > b.size
        <5>1. i \in 1..Inline /\ i \in b.size + 1..b.size + Len(data)
          BY <1>0, <2>2, <3>3, <4>3, LogLineAssumption
        <5>2. c.inline[i] = data[i - b.size]
          BY <1>0, <2>5, <5>1
        <5>3. (View(b) \o data)[i] = data[i - b.size]
          BY <1>v, <1>j, <5>1
        <5> QED
          BY <4>1, <5>2, <5>3
      <4>4. i \in Nat /\ b.size \in Nat
        BY <1>0, <3>3
      <4>5. i <= b.size \/ i > b.size
        BY <4>4
      <4> QED
        BY <4>2, <4>3, <4>5
    <3> QED
      BY <3>1, <3>2, <3>3, SameSeq
  <2> QED
    BY <2>1, <2>6, <2>7, <2>8
<1>3. CASE data # <<>> /\ ~FitsInline(b, data)
  <2> DEFINE c == Spilled(b, data)
  <2>1. Appended(b, data) = c
    BY <1>3 DEF Appended
  <2>2. (IF b.overflow = <<>> THEN SubSeq(b.inline, 1, b.size) ELSE b.overflow) = View(b)
    <3>1. CASE b.overflow = <<>>
      BY <3>1 DEF View
    <3>2. CASE b.overflow # <<>>
      BY <1>0, <3>2 DEF View, BufferOK
    <3> QED
      BY <3>1, <3>2
  <2>3. c = [inline |-> b.inline, overflow |-> View(b) \o data, size |-> Len(View(b) \o data)]
    BY <2>2 DEF Spilled
  <2>4. View(b) \o data \in Seq(Byte) /\ Len(View(b) \o data) = b.size + Len(data)
    BY <1>v, <1>j
  <2>5. b.size + Len(data) > Inline
    BY <1>0, <1>3 DEF FitsInline, BufferOK
  <2>6. c \in Buffer
    BY <1>0, <2>3, <2>4 DEF Buffer
  <2>7. BufferOK(c)
    BY <1>0, <2>3, <2>4, <2>5 DEF BufferOK
  <2>8. View(c) = View(b) \o data
    <3>1. c.overflow = View(b) \o data /\ c.size = Len(View(b) \o data) /\ c.overflow # <<>>
      BY <1>0, <2>3, <2>4, <2>5, LogLineAssumption
    <3> QED
      BY <2>4, <3>1, AllOf DEF View
  <2> QED
    BY <2>1, <2>6, <2>7, <2>8
<1> QED
  BY <1>1, <1>2, <1>3

-----------------------------------------------------------------------------
(* Lines                                                                   *)

LEMMA Cut ==
    ASSUME NEW S, NEW s \in Seq(S), NEW r \in Seq(S), NEW n \in 0..Len(s)
    PROVE  SubSeq(s \o r, 1, n) = SubSeq(s, 1, n)
<1>1. s \o r \in Seq(S) /\ n \in 0..Len(s \o r) /\ \A i \in 1..n : (s \o r)[i] = s[i]
  BY Joined
<1> QED
  BY <1>1, SeqParts, SameSeq

(* An insertion keeps a line whole, whatever it leaves behind.             *)
LEMMA InsertionOK ==
    ASSUME NEW line \in Lines, LineOK(line), NEW data \in Seq(Byte),
           NEW new \in Insertions(line, data)
    PROVE  new \in Lines /\ LineOK(new)
<1> USE DEF Lines
<1> DEFINE w == line.wanted \o data
<1>1. w \in Seq(Byte) /\ Len(w) = Len(line.wanted) + Len(data) /\ Len(data) \in Nat
      /\ Len(line.wanted) \in Nat
  BY Joined
<1>2. /\ new.form = line.form /\ new.wanted = w /\ new.edges = line.edges \cup {Len(w)}
      /\ \/ new.buffer = line.buffer /\ new.bad = TRUE /\ new.lost = TRUE
         \/ /\ new.buffer = Appended(line.buffer, data) /\ ~line.bad
            /\ new.bad = FALSE /\ new.lost = line.lost
      /\ new = [form |-> new.form, buffer |-> new.buffer, bad |-> new.bad,
                wanted |-> new.wanted, edges |-> new.edges, lost |-> new.lost]
  BY DEF Insertions
<1>3. /\ View(line.buffer) \in Seq(Byte)
      /\ Len(View(line.buffer)) <= Len(line.wanted)
      /\ View(line.buffer) = SubSeq(line.wanted, 1, Len(View(line.buffer)))
      /\ Len(View(line.buffer)) \in line.edges
  BY ViewType DEF LineOK, Whole
<1>e. line.edges \cup {Len(w)} \in SUBSET Nat
  BY <1>1
<1>4. CASE new.buffer = line.buffer /\ new.bad = TRUE /\ new.lost = TRUE
  <2>1. new \in Lines
    <3>1. new = [form |-> line.form, buffer |-> line.buffer, bad |-> TRUE,
                 wanted |-> w, edges |-> line.edges \cup {Len(w)}, lost |-> TRUE]
      BY <1>2, <1>4
    <3> QED
      BY <1>1, <1>e, <3>1
  <2>2. SubSeq(w, 1, Len(View(line.buffer))) = View(line.buffer)
    BY <1>1, <1>3, Cut
  <2>3. Whole(View(line.buffer), new)
    BY <1>1, <1>2, <1>3, <1>4, <2>2 DEF Whole
  <2> QED
    BY <1>4, <2>1, <2>3 DEF LineOK
<1>5. CASE /\ new.buffer = Appended(line.buffer, data) /\ ~line.bad
           /\ new.bad = FALSE /\ new.lost = line.lost
  <2>1. View(line.buffer) = line.wanted /\ ~line.lost
    BY <1>5 DEF LineOK, Whole
  <2>2. /\ Appended(line.buffer, data) \in Buffer /\ BufferOK(Appended(line.buffer, data))
        /\ View(Appended(line.buffer, data)) = w
    BY <2>1, AppendedView DEF LineOK
  <2>3. new \in Lines
    <3>1. new = [form |-> line.form, buffer |-> Appended(line.buffer, data), bad |-> FALSE,
                 wanted |-> w, edges |-> line.edges \cup {Len(w)}, lost |-> FALSE]
      BY <1>2, <1>5, <2>1
    <3> QED
      BY <1>1, <1>e, <2>2, <3>1
  <2>4. Whole(w, new)
    BY <1>1, <1>2, AllOf DEF Whole
  <2> QED
    BY <1>5, <2>1, <2>2, <2>3, <2>4 DEF LineOK
<1> QED
  BY <1>2, <1>4, <1>5

LEMMA NewLineOK == ASSUME NEW form \in {"stream", "printf"}
                   PROVE  NewLine(form) \in Lines /\ LineOK(NewLine(form))
<1> USE LogLineAssumption
<1>1. EmptyBuffer \in Buffer /\ BufferOK(EmptyBuffer)
  <2>1. <<>> \in Seq(Byte)
    OBVIOUS
  <2> QED
    BY <2>1 DEF EmptyBuffer, Buffer, BufferOK
<1>2. View(EmptyBuffer) = <<>>
  BY DEF View, EmptyBuffer
<1>3. <<>> \in Seq(Byte) /\ Len(<<>>) = 0 /\ SubSeq(<<>>, 1, 0) = <<>>
  OBVIOUS
<1> QED
  BY <1>1, <1>2, <1>3 DEF NewLine, Lines, LineOK, Whole

(* printf: the array or the vector, what is inserted is the text.          *)
LEMMA ExpandedText == ASSUME NEW text \in Seq(Byte) PROVE Expanded(text) = text
<1> USE LogLineAssumption
<1>1. ASSUME NEW size \in Nat, Len(text) < size
      PROVE  SubSeq(Vsnprintf(text, size), 1, Len(text)) = text
  <2>1. Len(text) \in Nat /\ \A i \in 1..Len(text) : text[i] \in Byte
    OBVIOUS
  <2>2. /\ Vsnprintf(text, size) \in Seq(Byte) /\ Len(Vsnprintf(text, size)) = size
        /\ \A i \in 1..Len(text) : Vsnprintf(text, size)[i] = text[i]
    BY <1>1, <2>1 DEF Vsnprintf
  <2>3. Len(text) \in 0..Len(Vsnprintf(text, size))
    BY <1>1, <2>1, <2>2
  <2> QED
    BY <2>1, <2>2, <2>3, SeqParts, SameSeq
<1>2. Len(text) + 1 \in Nat /\ Len(text) < Len(text) + 1 /\ Scratch \in Nat
  OBVIOUS
<1> QED
  BY <1>1, <1>2 DEF Expanded

-----------------------------------------------------------------------------
(* The invariant                                                           *)

Inv == TypeOK /\ LinesOK

Submittable(r) == r \in Submissions /\ Whole(r.message, r)

LEMMA SubmissionType ==
    ASSUME NEW m \in Seq(Byte), NEW w \in Seq(Byte), NEW e \in SUBSET Nat, NEW l \in BOOLEAN
    PROVE  [message |-> m, wanted |-> w, edges |-> e, lost |-> l] \in Submissions
BY DEF Submissions

LEMMA RecordedOK ==
    ASSUME NEW line \in Lines, LineOK(line)
    PROVE  Submittable(Recorded(line))
BY ViewType DEF Lines, LineOK, Whole, Recorded, Submittable, Submissions

(* A step that submits one record, or changes the innermost line.          *)
LEMMA SubmitOK ==
    ASSUME Inv, NEW r, Submittable(r), submitted' = Append(submitted, r),
           open' = open \/ (open # <<>> /\ open' = SubSeq(open, 1, Len(open) - 1))
    PROVE  Inv'
<1>1. /\ submitted' \in Seq(Submissions)
      /\ \A i \in 1..Len(submitted') : Whole(submitted'[i].message, submitted'[i])
  BY DEF Inv, TypeOK, LinesOK, Submittable
<1>2. open' \in Seq(Lines) /\ \A i \in 1..Len(open') : LineOK(open'[i])
  <2>1. CASE open' = open
    BY <2>1 DEF Inv, TypeOK, LinesOK
  <2>2. CASE open # <<>> /\ open' = SubSeq(open, 1, Len(open) - 1)
    <3>1. Len(open) - 1 \in 0..Len(open)
      BY <2>2 DEF Inv, TypeOK
    <3> QED
      BY <2>2, <3>1, SeqParts DEF Inv, TypeOK, LinesOK
  <2> QED
    BY <2>1, <2>2
<1> QED
  BY <1>1, <1>2 DEF Inv, TypeOK, LinesOK

LEMMA TopOK ==
    ASSUME Inv, open # <<>>
    PROVE  Top \in Lines /\ LineOK(Top) /\ Len(open) \in 1..Len(open)
BY DEF Inv, TypeOK, LinesOK, Top

LEMMA ReplaceOK ==
    ASSUME Inv, open # <<>>, NEW line \in Lines, LineOK(line),
           open' = [open EXCEPT ![Len(open)] = line], UNCHANGED submitted
    PROVE  Inv'
<1>1. open' \in Seq(Lines) /\ Len(open') = Len(open)
      /\ \A i \in 1..Len(open) : open'[i] = IF i = Len(open) THEN line ELSE open[i]
  BY DEF Inv, TypeOK
<1>2. \A i \in 1..Len(open') : LineOK(open'[i])
  BY <1>1 DEF Inv, LinesOK
<1> QED
  BY <1>1, <1>2 DEF Inv, TypeOK, LinesOK

LEMMA PrintfOK ==
    ASSUME Inv, NEW text \in Seq(Byte), Printf(text, text)
    PROVE  Inv'
<1>1. PICK line \in Insertions(NewLine("printf"), text) :
          Printed([form |-> line.form, buffer |-> line.buffer, bad |-> line.bad,
                   wanted |-> text, edges |-> {0, Len(text)}, lost |-> line.lost])
  BY DEF Printf
<1> DEFINE done == [form |-> line.form, buffer |-> line.buffer, bad |-> line.bad,
                    wanted |-> text, edges |-> {0, Len(text)}, lost |-> line.lost]
<1>2. line \in Lines /\ LineOK(line)
  BY NewLineOK, InsertionOK
<1>3. line.wanted = text /\ line.edges = {0, Len(text)}
  BY DEF Insertions, NewLine
<1>4. done \in Lines /\ LineOK(done)
  BY <1>2, <1>3 DEF Lines, LineOK, Whole
<1>5. submitted' = Append(submitted, Recorded(done)) /\ open' = open
  BY <1>1 DEF Printed
<1> QED
  BY <1>4, <1>5, RecordedOK, SubmitOK

LEMMA ThrownOK == ASSUME Inv, PrintfThrows PROVE Inv'
<1>1. PICK text \in Texts :
          Printed([form |-> "printf", buffer |-> EmptyBuffer, bad |-> FALSE,
                   wanted |-> text, edges |-> {0, Len(text)}, lost |-> TRUE])
  BY DEF PrintfThrows
<1> DEFINE done == [form |-> "printf", buffer |-> EmptyBuffer, bad |-> FALSE,
                    wanted |-> text, edges |-> {0, Len(text)}, lost |-> TRUE]
<1>2. View(EmptyBuffer) = <<>> /\ <<>> \in Seq(Byte) /\ Len(<<>>) = 0
  BY DEF View, EmptyBuffer
<1>3. text \in Seq(Byte) /\ Len(text) \in Nat /\ SubSeq(text, 1, 0) = <<>>
  BY LogLineAssumption
<1>4. Recorded(done) = [message |-> <<>>, wanted |-> text, edges |-> {0, Len(text)}, lost |-> TRUE]
  BY <1>2 DEF Recorded
<1>5. Submittable(Recorded(done))
  <2>1. {0, Len(text)} \in SUBSET Nat /\ 0 <= Len(text)
    BY <1>3
  <2>2. Whole(<<>>, Recorded(done))
    BY <1>2, <1>3, <1>4, <2>1 DEF Whole
  <2>3. Recorded(done).message = <<>>
    BY <1>4
  <2>4. Recorded(done) \in Submissions
    <3>1. [message |-> <<>>, wanted |-> text, edges |-> {0, Len(text)}, lost |-> TRUE] \in Submissions
      BY <1>2, <1>3, <2>1, SubmissionType
    <3> QED
      BY <1>4, <3>1
  <2> HIDE DEF done
  <2> QED
    BY <2>2, <2>3, <2>4 DEF Submittable
<1> QED
  BY <1>1, <1>5, SubmitOK DEF Printed

LEMMA Step == ASSUME Inv, [Next]_vars PROVE Inv'
<1>1. CASE OpenLine
  <2>1. open' = Append(open, NewLine("stream")) /\ UNCHANGED submitted
    BY <1>1 DEF OpenLine
  <2>2. open' \in Seq(Lines) /\ \A i \in 1..Len(open') : LineOK(open'[i])
    BY <2>1, NewLineOK DEF Inv, TypeOK, LinesOK
  <2> QED
    BY <2>1, <2>2 DEF Inv, TypeOK, LinesOK
<1>2. CASE Insert
  <2>0. PICK piece \in Pieces :
            \E line \in Insertions(Top, piece) : open' = [open EXCEPT ![Len(open)] = line]
    BY <1>2 DEF Insert
  <2>1. PICK line \in Insertions(Top, piece) : open' = [open EXCEPT ![Len(open)] = line]
    BY <2>0
  <2>2. line \in Lines /\ LineOK(line)
    BY <1>2, TopOK, InsertionOK, LogLineAssumption DEF Insert
  <2> QED
    BY <1>2, <2>1, <2>2, ReplaceOK DEF Insert
<1>3. CASE InsertNull
  <2> DEFINE line == [form |-> Top.form, buffer |-> Top.buffer, bad |-> TRUE,
                      wanted |-> Top.wanted, edges |-> Top.edges, lost |-> Top.lost]
  <2>1. line \in Lines /\ LineOK(line)
    BY <1>3, TopOK DEF InsertNull, Lines, LineOK, Whole
  <2> QED
    BY <1>3, <2>1, ReplaceOK DEF InsertNull
<1>4. CASE Close
  <2>1. Submittable(Recorded(Top))
    BY <1>4, TopOK, RecordedOK DEF Close
  <2> QED
    BY <1>4, <2>1, SubmitOK DEF Close
<1>5. CASE PrintfText
  <2>1. PICK text \in Texts : Printf(text, Expanded(text))
    BY <1>5 DEF PrintfText
  <2>2. text \in Seq(Byte)
    BY LogLineAssumption
  <2> QED
    BY <2>1, <2>2, ExpandedText, PrintfOK
<1>6. CASE PrintfNull \/ PrintfError
  BY <1>6, PrintfOK, LogLineAssumption DEF PrintfNull, PrintfError
<1>7. CASE PrintfThrows
  BY <1>7, ThrownOK
<1>8. CASE Stopped \/ UNCHANGED vars
  BY <1>8 DEF Stopped, vars, Inv, TypeOK, LinesOK
<1> QED
  BY <1>1, <1>2, <1>3, <1>4, <1>5, <1>6, <1>7, <1>8 DEF Next

LEMMA Invariance == Spec => []Inv
<1>1. Init => Inv
  BY DEF Init, Inv, TypeOK, LinesOK
<1> QED
  BY <1>1, Step, PTL DEF Spec

(* The types, and with them that no memcpy leaves the array.               *)
THEOREM TypeCorrect == Spec => []TypeOK
<1>1. Inv => TypeOK
  BY DEF Inv
<1> QED
  BY <1>1, Invariance, PTL

(* Every buffer and every submitted message holds what its own statement   *)
(* inserted, up to the piece that failed, for arrays and texts of any      *)
(* size and statements nested to any depth.                                *)
THEOREM MessagesAreWhole == Spec => []MessagesWhole
<1>1. Inv => MessagesWhole
  BY DEF Inv, LinesOK, LineOK, MessagesWhole
<1> QED
  BY <1>1, Invariance, PTL

(* The heap is for messages longer than the array.                         *)
THEOREM ShortStaysInline == Spec => []HeapOnlyWhenLong
<1>1. Inv => HeapOnlyWhenLong
  BY DEF Inv, LinesOK, LineOK, BufferOK, HeapOnlyWhenLong
<1> QED
  BY <1>1, Invariance, PTL

=============================================================================
