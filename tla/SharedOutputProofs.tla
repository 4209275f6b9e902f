------------------------- MODULE SharedOutputProofs -------------------------
(***************************************************************************)
(* Proofs about SharedOutput for any threads, appenders, calls, crashes    *)
(* and failures.                                                           *)
(***************************************************************************)
EXTENDS SharedOutput, SequenceTheorems, WellFoundedInduction, TLAPS

-----------------------------------------------------------------------------
(* Sequences                                                               *)

(* A set of numbers has a least one: what the inductions below go by.      *)
LEMMA Least ==
  ASSUME NEW T, T \subseteq Nat, T # {}
  PROVE  \E n \in T : \A m \in T : n <= m
<1> DEFINE R == OpToRel(<, Nat)
<1>1. \A m, n \in Nat : m < n => <<m, n>> \in R
  BY DEF OpToRel
<1>2. IsWellFoundedOn(R, Nat)
  BY NatLessThanWellFounded
<1> HIDE DEF R
<1>3. PICK n \in T : \A m \in T : ~(<<m, n>> \in R)
  BY <1>2, WFMin
<1>4. \A m \in T : ~(m < n)
  BY <1>1, <1>3
<1> QED
  BY <1>4

(* What holds of the empty sequence, and of one with its last element when *)
(* it holds without, holds of every sequence.                              *)
LEMMA ByAppending ==
    ASSUME NEW S, NEW T, <<>> \in T, \A p \in Seq(S), c \in S : p \in T => Append(p, c) \in T,
           NEW q \in Seq(S)
    PROVE  q \in T
<1> DEFINE Bad == {Len(p) : p \in {p \in Seq(S) : p \notin T}}
<1>1. SUFFICES ASSUME q \notin T PROVE FALSE
  OBVIOUS
<1>2. Bad \subseteq Nat /\ Len(q) \in Bad
  BY <1>1, LenProperties
<1>3. PICK n \in Bad : \A m \in Bad : n <= m
  <2> HIDE DEF Bad
  <2> QED
    BY <1>2, Least
<1>4. PICK p \in Seq(S) : p \notin T /\ Len(p) = n
  BY <1>3
<1>5. PICK r \in Seq(S), c \in S : p = Append(r, c)
  BY <1>4, SequenceEmptyOrAppend
<1>6. Len(p) = Len(r) + 1 /\ Len(r) \in Nat
  BY <1>5, AppendProperties, LenProperties
<1>7. Len(r) \notin Bad
  <2> HIDE DEF Bad
  <2> QED
    BY <1>3, <1>4, <1>6
<1>8. r \in T
  BY <1>7
<1> QED
  BY <1>4, <1>5, <1>8

LEMMA Cut ==
    ASSUME NEW S, NEW s \in Seq(S), NEW n \in 0..Len(s)
    PROVE  /\ SubSeq(s, 1, n) \in Seq(S) /\ SubSeq(s, n + 1, Len(s)) \in Seq(S)
           /\ s = SubSeq(s, 1, n) \o SubSeq(s, n + 1, Len(s))
           /\ Len(SubSeq(s, 1, n)) = n
<1>1. Len(s) \in Nat /\ 1 \in 1..Len(s) + 1 /\ n \in 1 - 1..Len(s) /\ Len(s) \in n..Len(s)
  BY LenProperties
<1>2. SubSeq(s, 1, n) \o SubSeq(s, n + 1, Len(s)) = SubSeq(s, 1, Len(s))
  BY <1>1, ConcatAdjacentSubSeq
<1>3. SubSeq(s, 1, Len(s)) = s
  BY SubSeqFull
<1>4. \A i \in 1..Len(s) : s[i] \in S
  BY ElementOfSeq
<1>5. SubSeq(s, 1, n) \in Seq(S) /\ Len(SubSeq(s, 1, n)) = n
  <2>1. \A i \in 1..n : s[i] \in S
    BY <1>1, <1>4
  <2> QED
    BY <1>1, <2>1, SubSeqProperties
<1>6. SubSeq(s, n + 1, Len(s)) \in Seq(S)
  <2>1. \A i \in n + 1..Len(s) : s[i] \in S
    BY <1>1, <1>4
  <2> QED
    BY <1>1, <2>1, SubSeqProperties
<1> QED
  BY <1>2, <1>3, <1>5, <1>6

LEMMA AppendBehind ==
    ASSUME NEW S, NEW s \in Seq(S), NEW t \in Seq(S), NEW c \in S
    PROVE  s \o Append(t, c) = Append(s \o t, c)
<1>1. <<c>> \in Seq(S) /\ s \o t \in Seq(S)
  BY ConcatProperties
<1>2. Append(t, c) = t \o <<c>> /\ Append(s \o t, c) = (s \o t) \o <<c>>
  BY <1>1, AppendIsConcat
<1> QED
  BY <1>1, <1>2, ConcatAssociative

(* Both laws of \o once more, with a name that hides the equation: an      *)
(* equation on \o sends the provers round in circles.                      *)
Associates(e, x, y) == (e \o x) \o y = e \o (x \o y)
AppendsBehind(q, x, c) == q \o Append(x, c) = Append(q \o x, c)

LEMMA Associate ==
    ASSUME NEW S, NEW e \in Seq(S), NEW x \in Seq(S), NEW y \in Seq(S)
    PROVE  Associates(e, x, y)
BY ConcatAssociative DEF Associates

LEMMA AppendBehindToo ==
    ASSUME NEW S, NEW q \in Seq(S), NEW x \in Seq(S), NEW c \in S
    PROVE  AppendsBehind(q, x, c)
BY AppendBehind DEF AppendsBehind

-----------------------------------------------------------------------------
(* What is in C of q                                                       *)

Kept(q, C, before, n) == IF q[n] \in C THEN Append(before, q[n]) ELSE before

(* f is what Within(q, C) goes by, as far as n.                            *)
WithinTo(q, C, f, n) ==
    /\ f \in [0..n -> Seq(C)]
    /\ f[0] = <<>>
    /\ \A i \in 1..n : f[i] = Kept(q, C, f[i - 1], i)

LEMMA WithinExists ==
    ASSUME NEW S, NEW C, NEW q \in Seq(S)
    PROVE  \E f : WithinTo(q, C, f, Len(q))
<1> DEFINE Bad == {n \in 0..Len(q) : ~ \E f : WithinTo(q, C, f, n)}
<1>1. Len(q) \in Nat
  BY LenProperties
<1>2. SUFFICES ASSUME Bad # {} PROVE FALSE
  <2>1. ASSUME Bad = {} PROVE \E f : WithinTo(q, C, f, Len(q))
    <3>1. Len(q) \in 0..Len(q) /\ Len(q) \notin Bad
      BY <1>1, <2>1
    <3> QED
      BY <3>1
  <2> QED
    BY <2>1
<1>3. PICK n \in Bad : \A m \in Bad : n <= m
  <2>1. Bad \subseteq Nat
    BY <1>1
  <2> HIDE DEF Bad
  <2> QED
    BY <1>2, <2>1, Least
<1>4. n # 0
  <2>1. WithinTo(q, C, [i \in 0..0 |-> <<>>], 0)
    BY DEF WithinTo
  <2> QED
    BY <2>1
<1>5. n \in 1..Len(q) /\ n - 1 \in 0..Len(q) /\ n - 1 \notin Bad
  <2>1. n \in 1..Len(q)
    BY <1>1, <1>4
  <2>2. ~(n <= n - 1)
    BY <2>1
  <2> HIDE DEF Bad
  <2> QED
    BY <1>1, <1>3, <2>1, <2>2
<1>6. PICK f : WithinTo(q, C, f, n - 1)
  BY <1>5
<1> DEFINE g == [i \in 0..n |-> IF i = n THEN Kept(q, C, f[n - 1], n) ELSE f[i]]
<1>7. Kept(q, C, f[n - 1], n) \in Seq(C)
  <2>1. f[n - 1] \in Seq(C)
    BY <1>5, <1>6 DEF WithinTo
  <2> QED
    BY <2>1, AppendProperties DEF Kept
<1>8. \A i \in 0..n - 1 : g[i] = f[i]
  BY <1>5
<1>9. g \in [0..n -> Seq(C)] /\ g[0] = <<>> /\ g[n] = Kept(q, C, f[n - 1], n)
  <2>1. \A i \in 0..n : i # n => i \in 0..n - 1
    BY <1>5
  <2>2. \A i \in 0..n - 1 : f[i] \in Seq(C)
    BY <1>6 DEF WithinTo
  <2>3. g \in [0..n -> Seq(C)]
    BY <1>7, <2>1, <2>2
  <2>4. 0 \in 0..n /\ 0 # n /\ n \in 0..n /\ f[0] = <<>>
    BY <1>5, <1>6 DEF WithinTo
  <2> QED
    BY <2>3, <2>4
<1>10. \A i \in 1..n : g[i] = Kept(q, C, g[i - 1], i)
  <2> SUFFICES ASSUME NEW i \in 1..n PROVE g[i] = Kept(q, C, g[i - 1], i)
    OBVIOUS
  <2>1. i - 1 \in 0..n - 1 /\ (i # n => i \in 1..n - 1)
    BY <1>5
  <2> HIDE DEF g
  <2>2. CASE i = n
    <3>1. g[i - 1] = f[n - 1]
      BY <1>8, <2>1, <2>2
    <3> QED
      BY <1>9, <2>2, <3>1
  <2>3. CASE i # n
    <3>1. g[i - 1] = f[i - 1] /\ g[i] = f[i]
      BY <1>5, <1>8, <2>1, <2>3
    <3>2. f[i] = Kept(q, C, f[i - 1], i)
      BY <1>6, <2>1, <2>3 DEF WithinTo
    <3> QED
      BY <3>1, <3>2
  <2> QED
    BY <2>2, <2>3
<1>11. WithinTo(q, C, g, n)
  <2> HIDE DEF g
  <2> QED
    BY <1>9, <1>10 DEF WithinTo
<1> QED
  BY <1>3, <1>11

SameTo(q, q2, n) == \A i \in 1..n : q2[i] = q[i]

(* Two such functions agree where the elements do.                         *)
LEMMA WithinAgrees ==
    ASSUME NEW C, NEW q, NEW q2, NEW f, NEW f2, NEW n \in Nat, NEW k \in Nat, n <= k,
           WithinTo(q, C, f, n), WithinTo(q2, C, f2, k), SameTo(q, q2, n)
    PROVE  f2[n] = f[n]
<1> DEFINE Bad == {i \in 0..n : f2[i] # f[i]}
<1>1. SUFFICES ASSUME Bad # {} PROVE FALSE
  OBVIOUS
<1>2. PICK i \in Bad : \A j \in Bad : i <= j
  <2>1. Bad \subseteq Nat
    OBVIOUS
  <2> HIDE DEF Bad
  <2> QED
    BY <1>1, <2>1, Least
<1>3. i # 0
  BY <1>2 DEF WithinTo
<1>4. i \in 1..n /\ i \in 1..k /\ i - 1 \in 0..n /\ ~(i <= i - 1)
  BY <1>2, <1>3
<1>5. f2[i - 1] = f[i - 1]
  BY <1>2, <1>4
<1>6. f[i] = Kept(q, C, f[i - 1], i) /\ f2[i] = Kept(q2, C, f2[i - 1], i)
  BY <1>4 DEF WithinTo
<1> QED
  BY <1>2, <1>4, <1>5, <1>6 DEF Kept, SameTo

LEMMA WithinIs ==
    ASSUME NEW S, NEW C, NEW q \in Seq(S)
    PROVE  \E f : WithinTo(q, C, f, Len(q)) /\ Within(q, C) = f[Len(q)]
<1> DEFINE E(f, i) == IF i = 0 THEN <<>>
                      ELSE IF q[i] \in C THEN Append(f[i - 1], q[i]) ELSE f[i - 1]
<1>0. Len(q) \in Nat
  BY LenProperties
<1>1. PICK f : WithinTo(q, C, f, Len(q))
  BY WithinExists
<1>2. f = [i \in 0..Len(q) |-> E(f, i)]
  <2>1. ASSUME NEW i \in 0..Len(q) PROVE f[i] = E(f, i)
    <3>1. i # 0 => i \in 1..Len(q)
      OBVIOUS
    <3> QED
      BY <1>1, <3>1 DEF WithinTo, Kept
  <2> QED
    BY <1>1, <2>1 DEF WithinTo
<1> DEFINE G == CHOOSE g : g = [i \in 0..Len(q) |-> E(g, i)]
<1>3. G = [i \in 0..Len(q) |-> E(G, i)]
  BY <1>2
<1>4. Within(q, C) = G[Len(q)]
  BY DEF Within
<1> HIDE DEF G
<1>5. G[0] = <<>> /\ f[0] = <<>> /\ \A i \in 1..Len(q) : G[i] = Kept(q, C, G[i - 1], i)
  <2>1. \A i \in 0..Len(q) : G[i] = E(G, i)
    BY <1>3
  <2> HIDE <1>3
  <2>2. G[0] = <<>>
    BY <1>0, <2>1
  <2>3. ASSUME NEW i \in 1..Len(q) PROVE G[i] = Kept(q, C, G[i - 1], i)
    <3>1. i \in 0..Len(q) /\ i # 0
      OBVIOUS
    <3> QED
      BY <2>1, <3>1 DEF Kept
  <2> QED
    BY <1>1, <2>2, <2>3 DEF WithinTo
<1>6. \A i \in 1..Len(q) : f[i] = Kept(q, C, f[i - 1], i)
  BY <1>1 DEF WithinTo
<1>7. G[Len(q)] = f[Len(q)]
  <2> DEFINE Bad == {n \in 0..Len(q) : G[n] # f[n]}
  <2>1. SUFFICES ASSUME Bad # {} PROVE FALSE
    BY <1>0
  <2>2. PICK n \in Bad : \A m \in Bad : n <= m
    <3>1. Bad \subseteq Nat
      OBVIOUS
    <3> HIDE DEF Bad
    <3> QED
      BY <2>1, <3>1, Least
  <2>3. n # 0
    BY <1>5, <2>2
  <2>4. n \in 1..Len(q) /\ n - 1 \in 0..Len(q) /\ ~(n <= n - 1)
    BY <1>0, <2>2, <2>3
  <2>5. G[n - 1] = f[n - 1]
    BY <2>2, <2>4
  <2> QED
    BY <1>5, <1>6, <2>2, <2>4, <2>5
<1> QED
  BY <1>1, <1>4, <1>7

LEMMA WithinEmpty == ASSUME NEW C PROVE Within(<<>>, C) = <<>>
<1>1. <<>> \in Seq(C) /\ Len(<<>>) = 0
  BY EmptySeq
<1>2. PICK f : WithinTo(<<>>, C, f, Len(<<>>)) /\ Within(<<>>, C) = f[Len(<<>>)]
  BY <1>1, WithinIs
<1> QED
  BY <1>1, <1>2 DEF WithinTo

LEMMA WithinType == ASSUME NEW S, NEW C, NEW q \in Seq(S) PROVE Within(q, C) \in Seq(C)
<1>1. PICK f : WithinTo(q, C, f, Len(q)) /\ Within(q, C) = f[Len(q)]
  BY WithinIs
<1>2. Len(q) \in 0..Len(q)
  BY LenProperties
<1> QED
  BY <1>1, <1>2 DEF WithinTo

LEMMA WithinAppend ==
    ASSUME NEW S, NEW C, NEW q \in Seq(S), NEW c \in S
    PROVE  Within(Append(q, c), C) = IF c \in C THEN Append(Within(q, C), c) ELSE Within(q, C)
<1> DEFINE n == Len(q)
           q2 == Append(q, c)
<1>1. /\ n \in Nat /\ q2 \in Seq(S) /\ Len(q2) = n + 1 /\ q2[n + 1] = c
      /\ \A i \in 1..n : q2[i] = q[i]
  BY AppendProperties, LenProperties
<1> HIDE DEF n, q2
<1>2. PICK f : WithinTo(q, C, f, n) /\ Within(q, C) = f[n]
  BY WithinIs DEF n
<1>3. PICK f2 : WithinTo(q2, C, f2, n + 1) /\ Within(q2, C) = f2[n + 1]
  BY <1>1, WithinIs
<1>4. f2[n] = f[n]
  <2>1. n + 1 \in Nat /\ n <= n + 1 /\ SameTo(q, q2, n)
    BY <1>1 DEF SameTo
  <2> QED
    BY <1>1, <1>2, <1>3, <2>1, WithinAgrees
<1>5. f2[n + 1] = Kept(q2, C, f2[n], n + 1)
  <2>1. n + 1 \in 1..n + 1 /\ (n + 1) - 1 = n
    BY <1>1
  <2> QED
    BY <1>3, <2>1 DEF WithinTo
<1> QED
  BY <1>1, <1>2, <1>3, <1>4, <1>5 DEF Kept, q2

LEMMA WithinConcat ==
    ASSUME NEW S, NEW C, NEW a \in Seq(S), NEW b \in Seq(S)
    PROVE  Within(a \o b, C) = Within(a, C) \o Within(b, C)
<1> DEFINE T == {p \in Seq(S) : Within(a \o p, C) = Within(a, C) \o Within(p, C)}
<1>1. Within(a, C) \in Seq(C)
  BY WithinType
<1>2. <<>> \in T
  <2>1. <<>> \in Seq(S) /\ a \o <<>> = a /\ Within(a, C) \o <<>> = Within(a, C)
    BY <1>1, ConcatEmptySeq, EmptySeq
  <2> QED
    BY <2>1, WithinEmpty
<1>3. ASSUME NEW p \in Seq(S), NEW c \in S, p \in T PROVE Append(p, c) \in T
  <2>1. Append(p, c) \in Seq(S) /\ a \o p \in Seq(S) /\ a \o Append(p, c) = Append(a \o p, c)
    BY AppendProperties, ConcatProperties, AppendBehind
  <2>2. /\ Within(Append(a \o p, c), C) = IF c \in C THEN Append(Within(a \o p, C), c) ELSE Within(a \o p, C)
        /\ Within(Append(p, c), C) = IF c \in C THEN Append(Within(p, C), c) ELSE Within(p, C)
    <3> DEFINE ap == a \o p
    <3>1. ap \in Seq(S)
      BY <2>1
    <3> HIDE DEF ap, T
    <3>2. /\ Within(Append(ap, c), C) = IF c \in C THEN Append(Within(ap, C), c) ELSE Within(ap, C)
          /\ Within(Append(p, c), C) = IF c \in C THEN Append(Within(p, C), c) ELSE Within(p, C)
      BY <3>1, WithinAppend
    <3> QED
      BY <3>2 DEF ap
  <2>3. Within(a \o p, C) = Within(a, C) \o Within(p, C)
    BY <1>3
  <2>4. c \in C => Within(a, C) \o Append(Within(p, C), c) = Append(Within(a, C) \o Within(p, C), c)
    BY <1>1, WithinType, AppendBehind
  <2>5. Within(a \o Append(p, c), C) = Within(a, C) \o Within(Append(p, c), C)
    BY <2>1, <2>2, <2>3, <2>4
  <2> QED
    BY <2>1, <2>5
<1> HIDE DEF T
<1>4. b \in T
  BY <1>2, <1>3, ByAppending
<1> QED
  BY <1>4 DEF T

(* Everything is in C, or nothing is.                                      *)
LEMMA WithinAll == ASSUME NEW C, NEW q \in Seq(C) PROVE Within(q, C) = q
<1> DEFINE T == {p \in Seq(C) : Within(p, C) = p}
<1>1. <<>> \in T
  BY EmptySeq, WithinEmpty
<1>2. ASSUME NEW p \in Seq(C), NEW c \in C, p \in T PROVE Append(p, c) \in T
  <2>1. Append(p, c) \in Seq(C) /\ Within(Append(p, c), C) = Append(Within(p, C), c)
    BY AppendProperties, WithinAppend
  <2> QED
    BY <1>2, <2>1
<1> HIDE DEF T
<1>3. q \in T
  BY <1>1, <1>2, ByAppending
<1> QED
  BY <1>3 DEF T

LEMMA WithinNone == ASSUME NEW S, NEW C, NEW q \in Seq(S), S \cap C = {} PROVE Within(q, C) = <<>>
<1> DEFINE T == {p \in Seq(S) : Within(p, C) = <<>>}
<1>1. <<>> \in T
  BY EmptySeq, WithinEmpty
<1>2. ASSUME NEW p \in Seq(S), NEW c \in S, p \in T PROVE Append(p, c) \in T
  <2>1. Append(p, c) \in Seq(S) /\ Within(Append(p, c), C) = Within(p, C)
    BY AppendProperties, WithinAppend
  <2> QED
    BY <1>2, <2>1
<1> HIDE DEF T
<1>3. q \in T
  BY <1>1, <1>2, ByAppending
<1> QED
  BY <1>3 DEF T

Has(q, c) == \E i \in 1..Len(q) : q[i] = c

(* What is within q is in q.                                               *)
LEMMA WithinHas ==
    ASSUME NEW S, NEW C, NEW q \in Seq(S), NEW c, Has(Within(q, C), c)
    PROVE  Has(q, c)
<1> DEFINE T == {p \in Seq(S) : Has(Within(p, C), c) => Has(p, c)}
<1>1. <<>> \in T
  BY EmptySeq, WithinEmpty DEF Has
<1>2. ASSUME NEW p \in Seq(S), NEW d \in S, p \in T PROVE Append(p, d) \in T
  <2>1. Append(p, d) \in Seq(S) /\ Within(p, C) \in Seq(C)
    BY AppendProperties, WithinType
  <2>2. Within(Append(p, d), C) = IF d \in C THEN Append(Within(p, C), d) ELSE Within(p, C)
    BY WithinAppend
  <2>3. Has(Append(p, d), c) <=> Has(p, c) \/ d = c
    BY AppendProperties, LenProperties DEF Has
  <2>4. d \in C /\ Has(Append(Within(p, C), d), c) => Has(Within(p, C), c) \/ d = c
    BY <2>1, AppendProperties, LenProperties DEF Has
  <2>5. Has(Within(p, C), c) => Has(p, c)
    BY <1>2
  <2> QED
    BY <2>1, <2>2, <2>3, <2>4, <2>5
<1> HIDE DEF T
<1>3. q \in T
  BY <1>1, <1>2, ByAppending
<1> QED
  BY <1>3 DEF T

-----------------------------------------------------------------------------
(* Types, stdio's lock, and which calls get where                          *)

(* stdio has the chunks of its own stream only, and who is in the middle   *)
(* of a record has the lock of the stream.                                 *)
FlowOK ==
    /\ \A s \in Streams : buffer[s] \in Seq(ChunksOf(s))
    /\ \A t \in Threads :
          /\ pc[t] # "idle" => call[t].nr >= 1
          /\ pc[t] = "rest" => lock[Via(t)] = t
          /\ pc[t] \in {"write", "rest"} => Appends(t)
          /\ pc[t] = "flush" => call[t].op # "append"
          /\ pc[t] = "fdatasync" => call[t].op = "sync" /\ kind = "file"

Base == TypeOK /\ FlowOK

LEMMA CallIs ==
    ASSUME TypeOK, NEW t \in Threads
    PROVE  /\ call[t].op \in {"append", "fatal", "flush", "sync"}
           /\ call[t].app \in Appenders /\ call[t].nr \in 0..MaxCalls
           /\ Via(t) \in Streams
<1>1. call[t] \in Calls
  BY DEF TypeOK
<1> QED
  BY <1>1 DEF Calls, Via, Stream, Streams

LEMMA RecordIs ==
    ASSUME TypeOK, NEW t \in Threads, call[t].nr >= 1
    PROVE  Record(t) \in Records /\ Record(t).via = Via(t) /\ Record(t).life = crashes
<1>1. call[t].nr \in 1..MaxCalls /\ Via(t) \in Streams /\ crashes \in 0..MaxCrashes
  BY CallIs, SharedOutputAssumption DEF TypeOK
<1> QED
  BY <1>1 DEF Record, Records

(* A write puts a chunk behind what stdio had, and what comes first of     *)
(* that goes to the system.                                                *)
LEMMA PutShape ==
    ASSUME Base, NEW t \in Threads, pc[t] # "idle", NEW part \in {1, 2}, Put(t, part)
    PROVE  \E x, y \in Seq(ChunksOf(Via(t))) :
              /\ x \o y = Append(buffer[Via(t)], [rec |-> Record(t), part |-> part])
              /\ output' = output \o x
              /\ buffer' = [buffer EXCEPT ![Via(t)] = y]
              /\ diskEnd' = diskEnd
              /\ [rec |-> Record(t), part |-> part] \in ChunksOf(Via(t))
<1> DEFINE s == Via(t)
           c == [rec |-> Record(t), part |-> part]
           full == Append(buffer[s], c)
<1>1. s \in Streams
  BY CallIs DEF Base
<1>2. c \in ChunksOf(s)
  <2>1. Record(t) \in Records /\ Record(t).via = s
    BY RecordIs DEF Base, FlowOK
  <2> QED
    BY <2>1 DEF Chunks, ChunksOf
<1>3. buffer[s] \in Seq(ChunksOf(s))
  BY <1>1 DEF Base, FlowOK
<1>4. PICK n \in {0, Len(full) - 1, Len(full)} :
         /\ output' = output \o SubSeq(full, 1, n)
         /\ buffer' = [buffer EXCEPT ![s] = SubSeq(full, n + 1, Len(full))]
         /\ UNCHANGED diskEnd
  BY DEF Put
<1> HIDE DEF s, c
<1>5. full \in Seq(ChunksOf(s)) /\ Len(full) = Len(buffer[s]) + 1 /\ Len(buffer[s]) \in Nat
  BY <1>2, <1>3, AppendProperties, LenProperties
<1> DEFINE f == full
<1> HIDE DEF full, f
<1>6. n \in 0..Len(full)
  BY <1>5
<1>7. /\ SubSeq(full, 1, n) \in Seq(ChunksOf(s)) /\ SubSeq(full, n + 1, Len(full)) \in Seq(ChunksOf(s))
      /\ full = SubSeq(full, 1, n) \o SubSeq(full, n + 1, Len(full))
  BY <1>5, <1>6, Cut
<1>8. \E x, y \in Seq(ChunksOf(s)) :
         /\ x \o y = full
         /\ output' = output \o x
         /\ buffer' = [buffer EXCEPT ![s] = y]
         /\ diskEnd' = diskEnd
         /\ c \in ChunksOf(s)
  BY <1>2, <1>4, <1>7
<1> QED
  BY <1>8 DEF full, s, c

LEMMA ChunksIn ==
    ASSUME NEW s, NEW q \in Seq(ChunksOf(s))
    PROVE  q \in Seq(Chunks)
<1>1. ChunksOf(s) \subseteq Chunks
  BY DEF ChunksOf
<1> QED
  BY <1>1, SeqMonotonic

LEMMA TypeInit == Init => Base
<1> SUFFICES ASSUME Init PROVE Base
  OBVIOUS
<1>1. 0 \in 0..MaxCalls /\ 0 \in 0..MaxCrashes
  BY SharedOutputAssumption
<1>2. <<>> \in Seq(Chunks) /\ Len(<<>>) = 0 /\ \A s : <<>> \in Seq(ChunksOf(s))
  BY EmptySeq
<1>3. (CHOOSE a \in Appenders : TRUE) \in Appenders
  BY SharedOutputAssumption
<1>4. call \in [Threads -> Calls]
  BY <1>1, <1>3 DEF Init, Calls
<1>5. TypeOK
  <2>1. diskEnd \in 0..Len(output) /\ output \in Seq(Chunks)
    BY <1>2 DEF Init
  <2>2. buffer \in [Streams -> Seq(Chunks)]
    BY <1>2 DEF Init
  <2> QED
    BY <1>1, <1>4, <2>1, <2>2 DEF Init, TypeOK
<1>6. FlowOK
  BY <1>2 DEF Init, FlowOK
<1> QED
  BY <1>5, <1>6 DEF Base

PCs == {"idle", "lock", "write", "rest", "flush", "fdatasync", "unlock"}

LEMMA TypeBegin == ASSUME Base, NEW t \in Threads, Begin(t) PROVE TypeOK'
<1>1. calls' \in 0..MaxCalls /\ calls' = calls + 1
  BY SharedOutputAssumption DEF Begin, Base, TypeOK
<1>2. call' \in [Threads -> Calls] /\ mark' \in [Threads -> SUBSET Records]
  <2>1. PICK c \in Calls : /\ call' = [call EXCEPT ![t] = c]
                           /\ mark' = [mark EXCEPT ![t] = {r \in returned : r.via = Stream(c.app)}]
    BY DEF Begin
  <2>2. {r \in returned : r.via = Stream(c.app)} \in SUBSET Records
    BY DEF Base, TypeOK
  <2> QED
    BY <2>1, <2>2 DEF Base, TypeOK
<1>3. pc' \in [Threads -> PCs]
  BY DEF Begin, Goto, Base, TypeOK, PCs
<1> QED
  BY <1>1, <1>2, <1>3 DEF Begin, data, Base, TypeOK, PCs

LEMMA TypeLock == ASSUME Base, NEW t \in Threads, Lock(t) PROVE TypeOK'
<1>1. mutex' \in [Appenders -> Threads \cup {None}]
  BY DEF Lock, Base, TypeOK
<1>2. pc' \in [Threads -> PCs]
  BY DEF Lock, Goto, Base, TypeOK, PCs
<1> QED
  BY <1>1, <1>2 DEF Lock, data, ghosts, Base, TypeOK, PCs

LEMMA TypePut ==
    ASSUME Base, NEW t \in Threads, pc[t] # "idle", NEW part \in {1, 2}, Put(t, part)
    PROVE  /\ output' \in Seq(Chunks) /\ buffer' \in [Streams -> Seq(Chunks)]
           /\ diskEnd' \in 0..Len(output')
           /\ \A s \in Streams : buffer'[s] \in Seq(ChunksOf(s))
<1>1. PICK x, y \in Seq(ChunksOf(Via(t))) :
         output' = output \o x /\ buffer' = [buffer EXCEPT ![Via(t)] = y] /\ diskEnd' = diskEnd
  BY PutShape
<1>2. x \in Seq(Chunks) /\ y \in Seq(Chunks)
  BY ChunksIn
<1>3. output \in Seq(Chunks) /\ buffer \in [Streams -> Seq(Chunks)] /\ diskEnd \in 0..Len(output)
  BY DEF Base, TypeOK
<1>4. output \o x \in Seq(Chunks) /\ Len(output \o x) = Len(output) + Len(x)
  BY <1>2, <1>3, ConcatProperties
<1>5. Len(output) \in Nat /\ Len(x) \in Nat
  BY <1>2, <1>3, LenProperties
<1>6. diskEnd' \in 0..Len(output')
  BY <1>1, <1>3, <1>4, <1>5
<1>7. \A s \in Streams : buffer'[s] \in Seq(ChunksOf(s))
  BY <1>1, <1>3 DEF Base, FlowOK
<1> QED
  BY <1>1, <1>2, <1>3, <1>4, <1>6, <1>7

LEMMA TypeWrite == ASSUME Base, NEW t \in Threads, Write(t) \/ WriteRest(t) PROVE TypeOK'
<1>1. PICK part \in {1, 2} : Put(t, part)
  BY DEF Write, WriteRest
<1>2. pc[t] # "idle"
  BY DEF Write, WriteRest
<1>3. output' \in Seq(Chunks) /\ buffer' \in [Streams -> Seq(Chunks)] /\ diskEnd' \in 0..Len(output')
  BY <1>1, <1>2, TypePut
<1>4. lock' \in [Streams -> Threads \cup {None}]
  BY DEF Write, WriteRest, Base, TypeOK
<1>5. pc' \in [Threads -> PCs]
  BY DEF Write, WriteRest, AfterWrite, Goto, Base, TypeOK, PCs
<1>6. UNCHANGED <<kind, mutex, call, calls, crashes, ghosts, failed>>
  BY DEF Write, WriteRest
<1> QED
  BY <1>3, <1>4, <1>5, <1>6 DEF ghosts, Base, TypeOK, PCs

LEMMA TypeFlush == ASSUME Base, NEW t \in Threads, Flush(t) PROVE TypeOK'
<1>1. Via(t) \in Streams /\ output \in Seq(Chunks) /\ buffer \in [Streams -> Seq(Chunks)]
  BY CallIs DEF Base, TypeOK
<1>2. output' \in Seq(Chunks) /\ Len(output') = Len(output) + Len(buffer[Via(t)])
  BY <1>1, ConcatProperties DEF Flush
<1>3. diskEnd' \in 0..Len(output')
  <2>1. Len(output) \in Nat /\ Len(buffer[Via(t)]) \in Nat
    BY <1>1, LenProperties
  <2> QED
    BY <1>2, <2>1 DEF Flush, Base, TypeOK
<1>4. buffer' \in [Streams -> Seq(Chunks)]
  BY <1>1, EmptySeq DEF Flush
<1>5. pc' \in [Threads -> PCs]
  BY DEF Flush, AfterFlush, Goto, Base, TypeOK, PCs
<1>6. UNCHANGED <<kind, mutex, lock, call, calls, crashes, ghosts, failed>>
  BY DEF Flush
<1> QED
  BY <1>2, <1>3, <1>4, <1>5, <1>6 DEF ghosts, Base, TypeOK, PCs

LEMMA TypeFdatasync == ASSUME Base, NEW t \in Threads, Fdatasync(t) PROVE TypeOK'
<1>1. diskEnd' \in 0..Len(output)
  BY LenProperties DEF Fdatasync, Base, TypeOK
<1>2. pc' \in [Threads -> PCs]
  BY DEF Fdatasync, Goto, Base, TypeOK, PCs
<1> QED
  BY <1>1, <1>2 DEF Fdatasync, ghosts, Base, TypeOK, PCs

LEMMA TypeUnlock == ASSUME Base, NEW t \in Threads, Unlock(t), call[t].nr >= 1 PROVE TypeOK'
<1>1. Record(t) \in Records /\ mark[t] \subseteq Records
  BY RecordIs DEF Base, TypeOK
<1>2. returned' \subseteq Records
  BY <1>1 DEF Unlock, Base, TypeOK
<1>3. flushedFor' \subseteq Records
  BY <1>1 DEF Unlock, Base, TypeOK
<1>4. syncedFor' \subseteq Records
  BY <1>1 DEF Unlock, Base, TypeOK
<1>5. pc' \in [Threads -> PCs] /\ mutex' \in [Appenders -> Threads \cup {None}]
  BY DEF Unlock, Goto, Base, TypeOK, PCs
<1> QED
  BY <1>2, <1>3, <1>4, <1>5 DEF Unlock, data, Base, TypeOK, PCs

LEMMA TypeFail == ASSUME Base, NEW t \in Threads, Fail(t) PROVE TypeOK'
<1>1. pc' \in [Threads -> PCs]
  BY DEF Fail, LockThrows, StdioFails, AfterWrite, AfterFlush, Goto, Base, TypeOK, PCs
<1>2. lock' \in [Streams -> Threads \cup {None}] /\ mutex' = mutex
  BY DEF Fail, LockThrows, StdioFails, Base, TypeOK
<1>3. failed' \in BOOLEAN
  BY DEF Fail, LockThrows, StdioFails, Base, TypeOK
<1> QED
  BY <1>1, <1>2, <1>3 DEF Fail, data, ghosts, Base, TypeOK, PCs

LEMMA TypeStop ==
    ASSUME Base, NEW n \in diskEnd..Len(output), Stop(n), flushedFor' \in {flushedFor, syncedFor}
    PROVE  TypeOK'
<1>1. output \in Seq(Chunks) /\ Len(output) \in Nat /\ diskEnd \in Nat /\ n \in 0..Len(output)
  BY LenProperties DEF Base, TypeOK
<1>2. output' \in Seq(Chunks) /\ Len(output') = n
  BY <1>1, Cut DEF Stop
<1>3. diskEnd' \in 0..Len(output')
  BY <1>1, <1>2 DEF Stop
<1>4. crashes' \in 0..MaxCrashes
  BY SharedOutputAssumption DEF Stop, Base, TypeOK
<1>5. buffer' \in [Streams -> Seq(Chunks)]
  BY EmptySeq DEF Stop
<1>6. /\ mutex' \in [Appenders -> Threads \cup {None}] /\ lock' \in [Streams -> Threads \cup {None}]
      /\ pc' \in [Threads -> PCs] /\ mark' \in [Threads -> SUBSET Records] /\ returned' \subseteq Records
  BY DEF Stop, PCs
<1> QED
  BY <1>2, <1>3, <1>4, <1>5, <1>6 DEF Stop, Base, TypeOK, PCs

(* Crash and PowerLoss are one: the output ends behind what is confirmed.  *)
LEMMA StopIs ==
    ASSUME Base, Crash \/ PowerLoss
    PROVE  \E n \in diskEnd..Len(output) :
              /\ Stop(n)
              /\ \/ flushedFor' = syncedFor
                 \/ flushedFor' = flushedFor /\ n = Len(output)
<1>1. Len(output) \in diskEnd..Len(output)
  BY LenProperties DEF Base, TypeOK
<1> QED
  BY <1>1 DEF Crash, PowerLoss

LEMMA TypeStep == ASSUME Base, [Next]_vars PROVE TypeOK'
<1>1. CASE UNCHANGED vars
  BY <1>1 DEF vars, Base, TypeOK
<1>2. ASSUME NEW t \in Threads, Work(t) PROVE TypeOK'
  <2>1. Unlock(t) => call[t].nr >= 1
    BY DEF Unlock, Base, FlowOK
  <2> QED
    BY <1>2, <2>1, TypeLock, TypeWrite, TypeFlush, TypeFdatasync, TypeUnlock DEF Work
<1>3. CASE Crash \/ PowerLoss
  BY <1>3, StopIs, TypeStop
<1> QED
  BY <1>1, <1>2, <1>3, TypeBegin, TypeFail DEF Next, Rest

(* Who holds stdio's lock of a stream is the only one that writes to it.   *)
LEMMA FlowCalls == ASSUME Base, NEW t \in Threads, Begin(t) PROVE FlowOK'
<1>1. /\ pc[t] = "idle" /\ pc' = [pc EXCEPT ![t] = "lock"] /\ UNCHANGED <<kind, lock, buffer>>
      /\ calls' = calls + 1
      /\ \E c \in Calls : c.nr = calls' /\ call' = [call EXCEPT ![t] = c]
  BY DEF Begin, Goto, data
<1>2. pc'[t] = "lock" /\ call'[t].nr >= 1
  BY <1>1 DEF Base, TypeOK
<1>3. \A u \in Threads \ {t} : pc'[u] = pc[u] /\ call'[u] = call[u]
  BY <1>1 DEF Base, TypeOK
<1> QED
  BY <1>1, <1>2, <1>3 DEF Base, FlowOK, Via, Stream, Appends

(* A step of t that keeps stdio's lock from nobody else, and leaves t with *)
(* a place where it may be.                                                *)
LEMMA FlowMove ==
    ASSUME Base, NEW t \in Threads, pc[t] # "idle", NEW where, Goto(t, where), UNCHANGED <<kind, call>>,
           \A s \in Streams : buffer'[s] \in Seq(ChunksOf(s)),
           \A u \in Threads \ {t} : pc[u] = "rest" => lock'[Via(u)] = u,
           where = "rest" => lock'[Via(t)] = t,
           where \in {"write", "rest"} => Appends(t),
           where = "flush" => call[t].op # "append",
           where = "fdatasync" => call[t].op = "sync" /\ kind = "file"
    PROVE  FlowOK'
<1>1. pc'[t] = where /\ \A u \in Threads \ {t} : pc'[u] = pc[u]
  BY DEF Goto, Base, TypeOK
<1>2. \A u \in Threads : Via(u)' = Via(u) /\ Appends(u)' = Appends(u)
  BY DEF Via, Stream, Appends
<1>3. \A s \in Streams : buffer'[s] \in Seq(ChunksOf(s))
  OBVIOUS
<1>4. ASSUME NEW u \in Threads
      PROVE  /\ pc'[u] # "idle" => call'[u].nr >= 1
             /\ pc'[u] = "rest" => lock'[Via(u)'] = u
             /\ pc'[u] \in {"write", "rest"} => Appends(u)'
             /\ pc'[u] = "flush" => call'[u].op # "append"
             /\ pc'[u] = "fdatasync" => call'[u].op = "sync" /\ kind' = "file"
  <2>1. CASE u = t
    BY <1>1, <1>2, <2>1 DEF Base, FlowOK
  <2>2. CASE u # t
    BY <1>1, <1>2, <2>2 DEF Base, FlowOK
  <2> QED
    BY <2>1, <2>2
<1> QED
  BY <1>3, <1>4 DEF FlowOK, ChunksOf, Chunks, Records, Streams

LEMMA FlowWork == ASSUME Base, NEW t \in Threads, Work(t) PROVE FlowOK'
<1>1. \A s \in Streams : buffer[s] \in Seq(ChunksOf(s))
  BY DEF Base, FlowOK
<1>2. \A u \in Threads : pc[u] = "rest" => lock[Via(u)] = u
  BY DEF Base, FlowOK
<1>3. Via(t) \in Streams /\ lock \in [Streams -> Threads \cup {None}] /\ \A u \in Threads : u # None
  BY CallIs, SharedOutputAssumption DEF Base, TypeOK
<1>4. call[t].op \in {"append", "fatal", "flush", "sync"}
  BY CallIs DEF Base
<1>5. CASE Lock(t)
  <2> DEFINE where == IF Appends(t) THEN "write" ELSE "flush"
  <2>1. pc[t] # "idle" /\ Goto(t, where) /\ UNCHANGED <<kind, call, lock, buffer>>
    BY <1>5 DEF Lock, data
  <2>2. /\ where \in {"write", "rest"} => Appends(t)
        /\ where = "flush" => call[t].op # "append"
        /\ where # "rest" /\ where # "fdatasync"
    BY DEF Appends
  <2> HIDE DEF where
  <2> QED
    BY <1>1, <1>2, <2>1, <2>2, FlowMove
<1>6. CASE Write(t)
  <2>1. /\ pc[t] = "write" /\ Goto(t, "rest") /\ UNCHANGED <<kind, call>> /\ Put(t, 1)
        /\ lock[Via(t)] = None /\ lock' = [lock EXCEPT ![Via(t)] = t]
    BY <1>6 DEF Write
  <2>2. \A s \in Streams : buffer'[s] \in Seq(ChunksOf(s))
    BY <2>1, TypePut
  <2>3. \A u \in Threads \ {t} : pc[u] = "rest" => lock'[Via(u)] = u
    BY <1>2, <1>3, <2>1, CallIs DEF Base
  <2>4. lock'[Via(t)] = t /\ Appends(t)
    BY <1>3, <2>1 DEF Base, FlowOK
  <2> QED
    BY <2>1, <2>2, <2>3, <2>4, FlowMove
<1>7. CASE WriteRest(t)
  <2> DEFINE where == AfterWrite(t)
  <2>1. /\ pc[t] = "rest" /\ Goto(t, where) /\ UNCHANGED <<kind, call>> /\ Put(t, 2)
        /\ lock' = [lock EXCEPT ![Via(t)] = None]
    BY <1>7 DEF WriteRest
  <2>2. \A s \in Streams : buffer'[s] \in Seq(ChunksOf(s))
    BY <2>1, TypePut
  <2>3. \A u \in Threads \ {t} : pc[u] = "rest" => lock'[Via(u)] = u
    BY <1>2, <1>3, <2>1, CallIs DEF Base
  <2>4. /\ where \notin {"write", "rest", "fdatasync"}
        /\ where = "flush" => call[t].op # "append"
    BY DEF AfterWrite
  <2> HIDE DEF where
  <2> QED
    BY <2>1, <2>2, <2>3, <2>4, FlowMove
<1>8. CASE Flush(t)
  <2> DEFINE where == AfterFlush(t)
  <2>1. /\ pc[t] = "flush" /\ Goto(t, where) /\ UNCHANGED <<kind, call, lock>>
        /\ buffer' = [buffer EXCEPT ![Via(t)] = <<>>]
    BY <1>8 DEF Flush
  <2>2. \A s \in Streams : buffer'[s] \in Seq(ChunksOf(s))
    BY <1>1, <2>1, EmptySeq DEF Base, TypeOK
  <2>3. /\ where \notin {"write", "rest", "flush"}
        /\ where = "fdatasync" => call[t].op = "sync" /\ kind = "file"
    BY DEF AfterFlush
  <2> HIDE DEF where
  <2> QED
    BY <1>2, <2>1, <2>2, <2>3, FlowMove
<1>9. CASE Fdatasync(t) \/ Unlock(t)
  <2>1. PICK where \in {"idle", "unlock"} : Goto(t, where)
    BY <1>9 DEF Fdatasync, Unlock
  <2>2. pc[t] # "idle" /\ UNCHANGED <<kind, call, lock, buffer>>
    BY <1>9 DEF Fdatasync, Unlock, data
  <2> QED
    BY <1>1, <1>2, <2>1, <2>2, FlowMove
<1> QED
  BY <1>5, <1>6, <1>7, <1>8, <1>9 DEF Work

LEMMA FlowFail == ASSUME Base, NEW t \in Threads, Fail(t) PROVE FlowOK'
<1>1. \A s \in Streams : buffer[s] \in Seq(ChunksOf(s))
  BY DEF Base, FlowOK
<1>2. \A u \in Threads : pc[u] = "rest" => lock[Via(u)] = u
  BY DEF Base, FlowOK
<1>3. pc[t] # "idle" /\ UNCHANGED <<kind, call, buffer>>
  BY DEF Fail, LockThrows, StdioFails, data
<1>4. CASE LockThrows(t)
  <2>1. Goto(t, "idle") /\ lock' = lock
    BY <1>4 DEF LockThrows
  <2> QED
    BY <1>1, <1>2, <1>3, <2>1, FlowMove
<1>5. CASE StdioFails(t)
  <2> DEFINE where == CASE pc[t] \in {"write", "rest"} -> AfterWrite(t)
                        [] pc[t] = "flush"             -> AfterFlush(t)
                        [] OTHER                       -> "unlock"
  <2>1. Goto(t, where) /\ lock' = [s \in Streams |-> IF lock[s] = t THEN None ELSE lock[s]]
    BY <1>5 DEF StdioFails
  <2>2. /\ where \notin {"write", "rest"}
        /\ where = "flush" => call[t].op # "append"
        /\ where = "fdatasync" => call[t].op = "sync" /\ kind = "file"
    BY DEF AfterWrite, AfterFlush
  <2>3. \A u \in Threads \ {t} : pc[u] = "rest" => lock'[Via(u)] = u
    BY <1>2, <2>1, CallIs DEF Base
  <2> HIDE DEF where
  <2> QED
    BY <1>1, <1>3, <2>1, <2>2, <2>3, FlowMove
<1> QED
  BY <1>4, <1>5 DEF Fail

LEMMA FlowStop == ASSUME NEW n, Stop(n) PROVE FlowOK'
<1>1. \A s \in Streams : buffer'[s] \in Seq(ChunksOf(s))
  BY EmptySeq DEF Stop
<1>2. \A t \in Threads : pc'[t] = "idle"
  BY DEF Stop
<1> QED
  BY <1>1, <1>2 DEF FlowOK, ChunksOf, Chunks, Records, Streams

LEMMA BaseStep == ASSUME Base, [Next]_vars PROVE Base'
<1> SUFFICES FlowOK'
  BY TypeStep DEF Base
<1>1. CASE UNCHANGED vars
  BY <1>1 DEF vars, Base, FlowOK, Via, Stream, Appends, ChunksOf, Chunks, Records, Streams
<1>2. CASE Crash \/ PowerLoss
  BY <1>2, FlowStop DEF Crash, PowerLoss
<1> QED
  BY <1>1, <1>2, FlowCalls, FlowWork, FlowFail DEF Next, Rest

LEMMA BaseAlways == Spec => []Base
<1>1. Base /\ [Next]_vars => Base'
  BY BaseStep
<1> QED
  BY <1>1, TypeInit, PTL DEF Spec

(* Whatever the appenders, the threads and the crashes, no chunk and no    *)
(* lock is other than it should be.                                        *)
THEOREM TypeCorrect == Spec => []TypeOK
<1>1. Base => TypeOK
  BY DEF Base
<1> QED
  BY <1>1, BaseAlways, PTL

-----------------------------------------------------------------------------
(* What a reader of a stream gets                                          *)

LEMMA ContentIs ==
    ASSUME Base, NEW s \in Streams
    PROVE  /\ Content(s) \in Seq(ChunksOf(s))
           /\ Within(output, ChunksOf(s)) \in Seq(ChunksOf(s)) /\ buffer[s] \in Seq(ChunksOf(s))
<1>1. Within(output, ChunksOf(s)) \in Seq(ChunksOf(s))
  BY WithinType DEF Base, TypeOK
<1>2. buffer[s] \in Seq(ChunksOf(s))
  BY DEF Base, FlowOK
<1> QED
  BY <1>1, <1>2, ConcatProperties DEF Content

ContentNow(s, out, buf) == Within(out, ChunksOf(s)) \o buf

LEMMA ContentNext == ASSUME NEW s PROVE Content(s)' = ContentNow(s, output', buffer'[s])
BY DEF Content, ContentNow, ChunksOf, Chunks, Records, Streams

LEMMA ContentSame ==
    ASSUME NEW s, output' = output, buffer'[s] = buffer[s]
    PROVE  Content(s)' = Content(s)
BY ContentNext DEF Content, ContentNow

(* What one stream gives to the system is nothing to the others.           *)
LEMMA OtherStream ==
    ASSUME Base, NEW s \in Streams, NEW via \in Streams \ {s}, NEW x \in Seq(ChunksOf(via)), NEW C,
           C \subseteq ChunksOf(s)
    PROVE  Within(output \o x, C) = Within(output, C)
<1>1. output \in Seq(Chunks) /\ x \in Seq(Chunks)
  BY ChunksIn DEF Base, TypeOK
<1>2. Within(output \o x, C) = Within(output, C) \o Within(x, C)
  BY <1>1, WithinConcat
<1>3. Within(x, C) = <<>>
  <2>1. ChunksOf(via) \cap C = {}
    BY DEF ChunksOf
  <2> QED
    BY <2>1, WithinNone
<1>4. Within(output, C) \in Seq(C)
  BY <1>1, WithinType
<1> QED
  BY <1>2, <1>3, <1>4, ConcatEmptySeq

Piece(t, part) == [rec |-> Record(t), part |-> part]

(* What goes to the system leaves the stream as it was.                    *)
LEMMA ContentPassed ==
    ASSUME NEW s, NEW q \in Seq(Chunks), NEW x \in Seq(ChunksOf(s)), NEW y \in Seq(ChunksOf(s))
    PROVE  Within(q \o x, ChunksOf(s)) \o y = Within(q, ChunksOf(s)) \o (x \o y)
<1>1. x \in Seq(Chunks)
  BY ChunksIn
<1>2. Within(q \o x, ChunksOf(s)) = Within(q, ChunksOf(s)) \o Within(x, ChunksOf(s))
  BY <1>1, WithinConcat, Zenon
<1>3. Within(x, ChunksOf(s)) = x
  BY WithinAll
<1>4. Within(q, ChunksOf(s)) \in Seq(ChunksOf(s))
  BY WithinType
<1>5. (Within(q, ChunksOf(s)) \o x) \o y = Within(q, ChunksOf(s)) \o (x \o y)
  BY <1>4, ConcatAssociative
<1> QED
  BY <1>2, <1>3, <1>5

(* However stdio cuts it, a write is the chunk behind the content of its   *)
(* stream, and nothing to any other stream.                                *)
LEMMA ContentPut ==
    ASSUME Base, NEW t \in Threads, pc[t] # "idle", NEW part \in {1, 2}, Put(t, part), NEW s \in Streams
    PROVE  /\ Content(s)' = IF s = Via(t) THEN Append(Content(s), Piece(t, part)) ELSE Content(s)
           /\ Piece(t, part) \in ChunksOf(Via(t))
<1>1. PICK x, y \in Seq(ChunksOf(Via(t))) :
         /\ x \o y = Append(buffer[Via(t)], Piece(t, part))
         /\ output' = output \o x
         /\ buffer' = [buffer EXCEPT ![Via(t)] = y]
         /\ Piece(t, part) \in ChunksOf(Via(t))
  BY PutShape DEF Piece
<1>2. output \in Seq(Chunks) /\ Via(t) \in Streams
  BY CallIs DEF Base, TypeOK
<1>3. buffer'[s] = IF s = Via(t) THEN y ELSE buffer[s]
  BY <1>1 DEF Base, TypeOK
<1>4. CASE s = Via(t)
  <2>1. x \in Seq(ChunksOf(s)) /\ y \in Seq(ChunksOf(s)) /\ Piece(t, part) \in ChunksOf(s)
    BY <1>1, <1>4
  <2>2. Content(s)' = Within(output \o x, ChunksOf(s)) \o y
    BY <1>1, <1>3, <1>4, ContentNext DEF ContentNow
  <2>3. Within(output \o x, ChunksOf(s)) \o y = Within(output, ChunksOf(s)) \o (x \o y)
    BY <1>2, <2>1, ContentPassed
  <2>4. Within(output, ChunksOf(s)) \in Seq(ChunksOf(s)) /\ buffer[s] \in Seq(ChunksOf(s))
    BY ContentIs
  <2>5. Within(output, ChunksOf(s)) \o Append(buffer[s], Piece(t, part))
          = Append(Within(output, ChunksOf(s)) \o buffer[s], Piece(t, part))
    <3>1. AppendsBehind(Within(output, ChunksOf(s)), buffer[s], Piece(t, part))
      BY <2>1, <2>4, AppendBehindToo
    <3> QED
      BY <3>1, Zenon DEF AppendsBehind
  <2> QED
    BY <1>1, <1>4, <2>2, <2>3, <2>5 DEF Content
<1>5. CASE s # Via(t)
  <2>1. Within(output \o x, ChunksOf(s)) = Within(output, ChunksOf(s))
    BY <1>2, <1>5, OtherStream
  <2>2. Content(s)' = Within(output', ChunksOf(s)) \o buffer[s]
    BY <1>3, <1>5, ContentNext DEF ContentNow
  <2>3. Content(s)' = Content(s)
    BY <1>1, <2>1, <2>2 DEF Content
  <2> QED
    BY <1>1, <1>5, <2>3
<1> QED
  BY <1>1, <1>4, <1>5

LEMMA ContentFlush ==
    ASSUME Base, NEW t \in Threads, Flush(t), NEW s \in Streams
    PROVE  Content(s)' = Content(s)
<1>1. /\ Via(t) \in Streams /\ output \in Seq(Chunks) /\ buffer[Via(t)] \in Seq(ChunksOf(Via(t)))
      /\ output' = output \o buffer[Via(t)]
  BY CallIs, ContentIs DEF Flush, Base, TypeOK
<1>2. buffer'[s] = IF s = Via(t) THEN <<>> ELSE buffer[s]
  BY DEF Flush, Base, TypeOK
<1>3. CASE s = Via(t)
  <2>1. buffer[s] \in Seq(ChunksOf(s)) /\ <<>> \in Seq(ChunksOf(s))
    BY <1>1, <1>3, EmptySeq
  <2>2. Content(s)' = Within(output \o buffer[s], ChunksOf(s)) \o <<>>
    BY <1>1, <1>2, <1>3, ContentNext DEF ContentNow
  <2>3. Within(output \o buffer[s], ChunksOf(s)) \o <<>> = Within(output, ChunksOf(s)) \o (buffer[s] \o <<>>)
    BY <1>1, <2>1, ContentPassed
  <2>4. buffer[s] \o <<>> = buffer[s]
    BY <2>1, ConcatEmptySeq
  <2> QED
    BY <2>2, <2>3, <2>4 DEF Content
<1>4. CASE s # Via(t)
  <2>1. Within(output \o buffer[Via(t)], ChunksOf(s)) = Within(output, ChunksOf(s))
    BY <1>1, <1>4, OtherStream
  <2> QED
    BY <1>1, <1>2, <1>4, <2>1, ContentNext DEF Content, ContentNow
<1> QED
  BY <1>3, <1>4

Begins(p, c, S) == \E x \in Seq(S) : c = p \o x

LEMMA BeginsOne ==
    ASSUME NEW S, NEW p \in Seq(S), NEW q \in Seq(S), NEW r \in Seq(S)
    PROVE  Begins(p, (p \o q) \o r, S)
<1>1. (p \o q) \o r = p \o (q \o r)
  <2>1. Associates(p, q, r)
    BY Associate
  <2> QED
    BY <2>1, Zenon DEF Associates
<1>2. q \o r \in Seq(S)
  BY ConcatProperties
<1> QED
  BY <1>1, <1>2 DEF Begins

(* An output that ends early is the beginning of what the streams had.     *)
LEMMA ContentStop ==
    ASSUME Base, NEW n \in diskEnd..Len(output), Stop(n), NEW s \in Streams
    PROVE  Content(s)' \in Seq(ChunksOf(s)) /\ Begins(Content(s)', Content(s), ChunksOf(s))
<1>1. output \in Seq(Chunks) /\ n \in 0..Len(output)
  BY DEF Base, TypeOK
<1>2. PICK a, b \in Seq(Chunks) : output = a \o b /\ output' = a
  <2>1. /\ SubSeq(output, 1, n) \in Seq(Chunks) /\ SubSeq(output, n + 1, Len(output)) \in Seq(Chunks)
        /\ output = SubSeq(output, 1, n) \o SubSeq(output, n + 1, Len(output))
    BY <1>1, Cut
  <2>2. output' = SubSeq(output, 1, n)
    BY DEF Stop
  <2> QED
    BY <2>1, <2>2
<1>3. buffer'[s] = <<>>
  BY DEF Stop
<1>4. PICK p, q \in Seq(ChunksOf(s)) : p = Within(a, ChunksOf(s)) /\ q = Within(b, ChunksOf(s))
  BY <1>2, WithinType
<1>5. Within(output, ChunksOf(s)) = p \o q
  BY <1>2, <1>4, WithinConcat
<1>6. Content(s)' = p
  <2>1. Content(s)' = p \o <<>>
    BY <1>2, <1>3, <1>4, ContentNext DEF ContentNow
  <2>2. p \o <<>> = p
    BY ConcatEmptySeq
  <2> QED
    BY <2>1, <2>2
<1>7. PICK r \in Seq(ChunksOf(s)) : Content(s) = (p \o q) \o r
  BY <1>5, ContentIs DEF Content
<1>8. Begins(p, (p \o q) \o r, ChunksOf(s))
  BY BeginsOne, Zenon
<1> QED
  BY <1>6, <1>7, <1>8, Zenon

-----------------------------------------------------------------------------
(* Whole records                                                           *)

(* A chunk of a record is beside the other chunk of it, or has lost it to  *)
(* a crash; the last one may be waiting for the thread that writes it.     *)
Beside(q) ==
    \A i \in 1..Len(q) :
        /\ q[i].part = 2 => i > 1 /\ q[i - 1] = [q[i] EXCEPT !.part = 1]
        /\ q[i].part # 2 /\ i < Len(q) =>
             q[i + 1] = [q[i] EXCEPT !.part = 2] \/ q[i].rec.life < q[i + 1].rec.life

Unfinished(q, s) ==
    Len(q) > 0 /\ q[Len(q)].part # 2 =>
        \/ q[Len(q)].rec.life < crashes
        \/ \E t \in Threads : pc[t] = "rest" /\ Via(t) = s /\ q[Len(q)].rec = Record(t)

Lasts(q, t) == Len(q) > 0 /\ q[Len(q)] = [rec |-> Record(t), part |-> 1]

Lives(q) == \A i \in 1..Len(q) : q[i].rec.life <= crashes

WholeOK ==
    ~failed => /\ \A s \in Streams : Beside(Content(s)) /\ Unfinished(Content(s), s) /\ Lives(Content(s))
               /\ \A t \in Threads : pc[t] = "rest" => Lasts(Content(Via(t)), t)

LEMMA WholeSays == ASSUME Base, WholeOK PROVE RecordsWhole
<1> SUFFICES ASSUME ~failed, NEW s \in Streams, NEW i \in DOMAIN Content(s)
             PROVE  LET q == Content(s) IN
                IF q[i].part = 2
                THEN i > 1 /\ q[i - 1] = [q[i] EXCEPT !.part = 1]
                ELSE IF i < Len(q)
                THEN q[i + 1] = [q[i] EXCEPT !.part = 2] \/ q[i].rec.life < q[i + 1].rec.life
                ELSE q[i].rec.life < crashes \/ \E t \in Threads : pc[t] = "rest" /\ q[i].rec = Record(t)
  BY DEF RecordsWhole
<1> DEFINE q == Content(s)
<1>1. q \in Seq(ChunksOf(s))
  BY ContentIs
<1>2. Beside(q) /\ Unfinished(q, s)
  BY DEF WholeOK
<1> HIDE DEF q
<1>3. i \in 1..Len(q) /\ Len(q) \in Nat
  BY <1>1, LenProperties DEF q
<1>4. q[i].part # 2 /\ ~(i < Len(q)) => q[i].rec.life < crashes \/ \E t \in Threads : pc[t] = "rest" /\ q[i].rec = Record(t)
  BY <1>2, <1>3 DEF Unfinished
<1> QED
  BY <1>2, <1>3, <1>4 DEF Beside, q

LEMMA BesideFirst ==
    ASSUME NEW s, NEW q \in Seq(ChunksOf(s)), NEW c \in ChunksOf(s), Beside(q), c.part = 1,
           Len(q) > 0 /\ q[Len(q)].part # 2 => q[Len(q)].rec.life < c.rec.life
    PROVE  Beside(Append(q, c))
<1> DEFINE p == Append(q, c)
<1>1. /\ Len(q) \in Nat /\ Len(p) = Len(q) + 1 /\ p[Len(q) + 1] = c
      /\ \A i \in 1..Len(q) : p[i] = q[i]
  BY AppendProperties, LenProperties
<1> HIDE DEF p
<1> SUFFICES ASSUME NEW i \in 1..Len(p)
             PROVE  /\ p[i].part = 2 => i > 1 /\ p[i - 1] = [p[i] EXCEPT !.part = 1]
                    /\ p[i].part # 2 /\ i < Len(p) =>
                         p[i + 1] = [p[i] EXCEPT !.part = 2] \/ p[i].rec.life < p[i + 1].rec.life
  BY DEF Beside, p
<1>2. CASE i < Len(q)
  <2>1. i \in 1..Len(q) /\ i + 1 \in 1..Len(q) /\ (i > 1 => i - 1 \in 1..Len(q))
    BY <1>1, <1>2
  <2> QED
    BY <1>1, <1>2, <2>1 DEF Beside
<1>3. CASE i = Len(q)
  <2>1. i \in 1..Len(q) /\ (i > 1 => i - 1 \in 1..Len(q)) /\ i + 1 = Len(q) + 1
    BY <1>1, <1>3
  <2>2. p[i] = q[i] /\ p[i + 1] = c /\ (i > 1 => p[i - 1] = q[i - 1])
    BY <1>1, <2>1
  <2>3. p[i].part # 2 => p[i].rec.life < p[i + 1].rec.life
    BY <1>3, <2>1, <2>2
  <2>4. p[i].part = 2 => i > 1 /\ p[i - 1] = [p[i] EXCEPT !.part = 1]
    BY <2>1, <2>2 DEF Beside
  <2> QED
    BY <2>3, <2>4
<1>4. CASE i = Len(q) + 1
  BY <1>1, <1>4
<1> QED
  BY <1>1, <1>2, <1>3, <1>4

LEMMA BesideSecond ==
    ASSUME NEW s, NEW q \in Seq(ChunksOf(s)), NEW c \in ChunksOf(s), Beside(q), c.part = 2,
           Len(q) > 0, q[Len(q)] = [rec |-> c.rec, part |-> 1]
    PROVE  Beside(Append(q, c))
<1> DEFINE p == Append(q, c)
<1>1. /\ Len(q) \in Nat /\ Len(p) = Len(q) + 1 /\ p[Len(q) + 1] = c
      /\ \A i \in 1..Len(q) : p[i] = q[i]
  BY AppendProperties, LenProperties
<1>2. c = [rec |-> c.rec, part |-> 2]
  BY DEF ChunksOf, Chunks
<1>3. [c EXCEPT !.part = 1] = q[Len(q)] /\ [q[Len(q)] EXCEPT !.part = 2] = c
  BY <1>2
<1>5. q[Len(q)].part = 1
  OBVIOUS
<1> HIDE DEF p
<1> SUFFICES ASSUME NEW i \in 1..Len(p)
             PROVE  /\ p[i].part = 2 => i > 1 /\ p[i - 1] = [p[i] EXCEPT !.part = 1]
                    /\ p[i].part # 2 /\ i < Len(p) =>
                         p[i + 1] = [p[i] EXCEPT !.part = 2] \/ p[i].rec.life < p[i + 1].rec.life
  BY DEF Beside, p
<1>6. CASE i < Len(q)
  <2>1. i \in 1..Len(q) /\ i + 1 \in 1..Len(q) /\ (i > 1 => i - 1 \in 1..Len(q))
    BY <1>1, <1>6
  <2> QED
    BY <1>1, <1>6, <2>1 DEF Beside
<1>7. CASE i = Len(q)
  <2>1. i \in 1..Len(q) /\ (i > 1 => i - 1 \in 1..Len(q)) /\ i + 1 = Len(q) + 1
    BY <1>1, <1>7
  <2>2. p[i] = q[Len(q)] /\ p[i + 1] = c
    BY <1>1, <1>7, <2>1
  <2> QED
    BY <1>3, <1>5, <2>2
<1>8. CASE i = Len(q) + 1
  <2>1. i > 1 /\ i - 1 = Len(q) /\ Len(q) \in 1..Len(q)
    BY <1>1, <1>8
  <2>2. p[i] = c /\ p[i - 1] = q[Len(q)] /\ i = Len(p)
    BY <1>1, <1>8, <2>1
  <2> QED
    BY <1>3, <2>1, <2>2
<1> QED
  BY <1>1, <1>6, <1>7, <1>8

(* Nobody begins or ends a record, and the streams stay as they are.       *)
LEMMA WholeQuiet ==
    ASSUME Base, WholeOK, failed' = failed, crashes' = crashes,
           \A s \in Streams : Content(s)' = Content(s),
           \A t \in Threads : pc'[t] = "rest" <=> pc[t] = "rest",
           \A t \in Threads : pc[t] = "rest" => call'[t] = call[t], kind' = kind
    PROVE  WholeOK'
<1> SUFFICES ASSUME ~failed'
             PROVE  /\ \A s \in Streams : /\ Beside(Content(s))' /\ Unfinished(Content(s), s)'
                                          /\ Lives(Content(s))'
                    /\ \A t \in Threads : pc'[t] = "rest" => Lasts(Content(Via(t)), t)'
  BY DEF WholeOK, Streams
<1>1. \A t \in Threads : pc[t] = "rest" => Via(t)' = Via(t) /\ Record(t)' = Record(t)
  BY DEF Via, Stream, Record
<1>2. ASSUME NEW s \in Streams
      PROVE  Beside(Content(s))' /\ Unfinished(Content(s), s)' /\ Lives(Content(s))'
  <2>1. Beside(Content(s)) /\ Unfinished(Content(s), s) /\ Lives(Content(s))
    BY DEF WholeOK
  <2>2. Content(s)' = Content(s)
    OBVIOUS
  <2> QED
    BY <1>1, <2>1, <2>2 DEF Beside, Unfinished, Lives
<1>3. ASSUME NEW t \in Threads, pc'[t] = "rest" PROVE Lasts(Content(Via(t)), t)'
  <2>1. pc[t] = "rest" /\ Lasts(Content(Via(t)), t) /\ Via(t) \in Streams
    BY <1>3, CallIs DEF WholeOK, Base
  <2>2. PICK s \in Streams : s = Via(t) /\ Via(t)' = s /\ Record(t)' = Record(t)
    BY <1>1, <2>1
  <2>3. Content(s)' = Content(s)
    OBVIOUS
  <2>4. Content(Via(t)') = Content(s)
    BY <2>2
  <2> QED
    BY <2>1, <2>2, <2>3 DEF Lasts, Content
<1> QED
  BY <1>2, <1>3

(* What a write of t is to the other streams, and to who writes to them.   *)
LEMMA WholeOthers ==
    ASSUME Base, WholeOK, ~failed, NEW t \in Threads, pc[t] # "idle", NEW part \in {1, 2}, Put(t, part),
           NEW where, Goto(t, where), UNCHANGED <<kind, call, crashes>>, NEW s \in Streams \ {Via(t)}
    PROVE  /\ Beside(Content(s)') /\ Unfinished(Content(s), s)' /\ Lives(Content(s))'
           /\ \A u \in Threads : Via(u) = s /\ pc'[u] = "rest" => Lasts(Content(Via(u)), u)'
<1>1. /\ Content(s)' = Content(s) /\ Beside(Content(s)) /\ Unfinished(Content(s), s) /\ Lives(Content(s))
      /\ Content(s) \in Seq(ChunksOf(s))
  BY ContentPut, ContentIs DEF WholeOK
<1>2. \A u \in Threads \ {t} : pc'[u] = pc[u]
  BY DEF Goto, Base, TypeOK
<1>3. \A u \in Threads : Via(u)' = Via(u) /\ Record(u)' = Record(u)
  BY DEF Via, Stream, Record
<1>4. Beside(Content(s)')
  BY <1>1
<1>5. Lives(Content(s))'
  BY <1>1 DEF Lives
<1>6. Unfinished(Content(s), s)'
  BY <1>1, <1>2, <1>3 DEF Unfinished
<1>7. ASSUME NEW u \in Threads, Via(u) = s, pc'[u] = "rest" PROVE Lasts(Content(Via(u)), u)'
  <2>1. u # t /\ pc[u] = "rest" /\ Lasts(Content(s), u)
    BY <1>2, <1>7 DEF WholeOK
  <2>2. Content(Via(u)') = Content(s)
    BY <1>3, <1>7
  <2> QED
    BY <1>1, <1>3, <1>7, <2>1, <2>2 DEF Lasts, Content
<1> QED
  BY <1>4, <1>5, <1>6, <1>7

LEMMA WholeWrite == ASSUME Base, WholeOK, NEW t \in Threads, Write(t) PROVE WholeOK'
<1> SUFFICES ASSUME ~failed'
             PROVE  /\ \A s \in Streams : /\ Beside(Content(s)') /\ Unfinished(Content(s), s)'
                                          /\ Lives(Content(s))'
                    /\ \A u \in Threads : pc'[u] = "rest" => Lasts(Content(Via(u)), u)'
  BY DEF WholeOK, Streams
<1>1. /\ pc[t] = "write" /\ lock[Via(t)] = None /\ Put(t, 1) /\ Goto(t, "rest")
      /\ UNCHANGED <<kind, call, crashes>> /\ ~failed
  BY DEF Write
<1>2. \A u \in Threads : Via(u)' = Via(u) /\ Record(u)' = Record(u)
  BY <1>1 DEF Via, Stream, Record
<1>3. \A s \in Streams \ {Via(t)} :
         /\ Beside(Content(s)') /\ Unfinished(Content(s), s)' /\ Lives(Content(s))'
         /\ \A u \in Threads : Via(u) = s /\ pc'[u] = "rest" => Lasts(Content(Via(u)), u)'
  BY <1>1, WholeOthers
<1>4. PICK s \in Streams : s = Via(t)
  BY CallIs DEF Base
<1>5. PICK c \in ChunksOf(s) : c = Piece(t, 1) /\ Content(s)' = Append(Content(s), c)
  BY <1>1, <1>4, ContentPut
<1>6. c.rec = Record(t) /\ c.part = 1 /\ c.rec.life = crashes
  BY <1>5 DEF Piece, Record
<1>7. \A u \in Threads : Via(u) = s => pc[u] # "rest"
  BY <1>1, <1>4, SharedOutputAssumption DEF Base, FlowOK
<1>8. PICK q \in Seq(ChunksOf(s)) : q = Content(s)
  BY ContentIs
<1>9. Beside(q) /\ Unfinished(q, s) /\ Lives(q)
  BY <1>1, <1>8 DEF WholeOK
<1>10. PICK p \in Seq(ChunksOf(s)) : p = Append(q, c)
  BY AppendProperties
<1>11. /\ Len(p) = Len(q) + 1 /\ p[Len(q) + 1] = c /\ (\A i \in 1..Len(q) : p[i] = q[i])
       /\ Len(q) \in Nat
  BY <1>10, AppendProperties, LenProperties
<1>12. Content(s)' = p
  BY <1>5, <1>8, <1>10
<1>13. Beside(p)
  <2>1. Len(q) > 0 /\ q[Len(q)].part # 2 => q[Len(q)].rec.life < c.rec.life
    BY <1>6, <1>7, <1>9 DEF Unfinished
  <2> QED
    BY <1>6, <1>9, <1>10, <2>1, BesideFirst
<1>14. pc'[t] = "rest" /\ Lasts(p, t)'
  BY <1>1, <1>2, <1>5, <1>11 DEF Lasts, Piece, Goto, Base, TypeOK
<1>15. Unfinished(p, s)'
  <2>1. p[Len(p)].rec = Record(t)'
    BY <1>2, <1>6, <1>11
  <2>2. Via(t)' = s
    BY <1>2, <1>4
  <2> QED
    BY <1>14, <2>1, <2>2 DEF Unfinished
<1>16. Lives(p)'
  <2>1. ASSUME NEW i \in 1..Len(p) PROVE p[i].rec.life <= crashes
    <3>1. i \in 1..Len(q) \/ i = Len(q) + 1
      BY <1>11
    <3>2. crashes \in Nat
      BY SharedOutputAssumption DEF Base, TypeOK
    <3> QED
      BY <1>6, <1>9, <1>11, <3>1, <3>2 DEF Lives
  <2> QED
    BY <1>1, <2>1 DEF Lives
<1>17. ASSUME NEW r \in Streams
       PROVE  Beside(Content(r)') /\ Unfinished(Content(r), r)' /\ Lives(Content(r))'
  <2>1. CASE r = s
    <3>1. Beside(Content(s)')
      BY <1>12, <1>13
    <3>2. Unfinished(Content(s), s)'
      BY <1>12, <1>15 DEF Unfinished
    <3>3. Lives(Content(s))'
      BY <1>12, <1>16 DEF Lives
    <3> QED
      BY <2>1, <3>1, <3>2, <3>3
  <2>2. CASE r # s
    BY <1>3, <1>4, <2>2
  <2> QED
    BY <2>1, <2>2
<1>18. ASSUME NEW u \in Threads, pc'[u] = "rest" PROVE Lasts(Content(Via(u)), u)'
  <2>1. CASE Via(u) = s
    <3>1. u = t
      BY <1>1, <1>7, <1>18, <2>1 DEF Goto, Base, TypeOK
    <3>2. Content(Via(u)') = Content(s)
      BY <1>2, <2>1
    <3> QED
      BY <1>12, <1>14, <3>1, <1>2, <2>1 DEF Lasts, Content
  <2>2. CASE Via(u) # s
    <3>1. Via(u) \in Streams
      BY CallIs DEF Base
    <3> QED
      BY <1>3, <1>4, <1>18, <2>2, <3>1
  <2> QED
    BY <2>1, <2>2
<1> QED
  BY <1>17, <1>18

LEMMA WholeWriteRest == ASSUME Base, WholeOK, NEW t \in Threads, WriteRest(t) PROVE WholeOK'
<1> SUFFICES ASSUME ~failed'
             PROVE  /\ \A s \in Streams : /\ Beside(Content(s)') /\ Unfinished(Content(s), s)'
                                          /\ Lives(Content(s))'
                    /\ \A u \in Threads : pc'[u] = "rest" => Lasts(Content(Via(u)), u)'
  BY DEF WholeOK, Streams
<1>1. /\ pc[t] = "rest" /\ lock[Via(t)] = t /\ Put(t, 2) /\ Goto(t, AfterWrite(t))
      /\ UNCHANGED <<kind, call, crashes>> /\ ~failed
  BY DEF WriteRest, Base, FlowOK
<1>2. \A u \in Threads : Via(u)' = Via(u) /\ Record(u)' = Record(u)
  BY <1>1 DEF Via, Stream, Record
<1>3. \A s \in Streams \ {Via(t)} :
         /\ Beside(Content(s)') /\ Unfinished(Content(s), s)' /\ Lives(Content(s))'
         /\ \A u \in Threads : Via(u) = s /\ pc'[u] = "rest" => Lasts(Content(Via(u)), u)'
  BY <1>1, WholeOthers
<1>4. PICK s \in Streams : s = Via(t)
  BY CallIs DEF Base
<1>5. PICK c \in ChunksOf(s) : c = Piece(t, 2) /\ Content(s)' = Append(Content(s), c)
  BY <1>1, <1>4, ContentPut
<1>6. c.rec = Record(t) /\ c.part = 2 /\ c.rec.life = crashes
  BY <1>5 DEF Piece, Record
<1>7. \A u \in Threads : Via(u) = s => pc'[u] # "rest"
  <2>1. ASSUME NEW u \in Threads, Via(u) = s, u # t PROVE pc'[u] # "rest"
    BY <1>1, <1>4, <2>1 DEF Goto, Base, FlowOK, TypeOK
  <2>2. pc'[t] # "rest"
    BY <1>1 DEF AfterWrite, Goto, Base, TypeOK
  <2> QED
    BY <2>1, <2>2
<1>8. PICK q \in Seq(ChunksOf(s)) : q = Content(s)
  BY ContentIs
<1>9. Beside(q) /\ Lives(q) /\ Lasts(q, t)
  BY <1>1, <1>4, <1>8 DEF WholeOK
<1>10. PICK p \in Seq(ChunksOf(s)) : p = Append(q, c)
  BY AppendProperties
<1>11. /\ Len(p) = Len(q) + 1 /\ p[Len(q) + 1] = c /\ (\A i \in 1..Len(q) : p[i] = q[i])
       /\ Len(q) \in Nat
  BY <1>10, AppendProperties, LenProperties
<1>12. Content(s)' = p
  BY <1>5, <1>8, <1>10
<1>13. Beside(p)
  <2>1. Len(q) > 0 /\ q[Len(q)] = [rec |-> c.rec, part |-> 1]
    BY <1>6, <1>9 DEF Lasts
  <2> QED
    BY <1>6, <1>9, <1>10, <2>1, BesideSecond
<1>15. Unfinished(p, s)'
  BY <1>6, <1>11 DEF Unfinished
<1>16. Lives(p)'
  <2>1. ASSUME NEW i \in 1..Len(p) PROVE p[i].rec.life <= crashes
    <3>1. i \in 1..Len(q) \/ i = Len(q) + 1
      BY <1>11
    <3>2. crashes \in Nat
      BY SharedOutputAssumption DEF Base, TypeOK
    <3> QED
      BY <1>6, <1>9, <1>11, <3>1, <3>2 DEF Lives
  <2> QED
    BY <1>1, <2>1 DEF Lives
<1>17. ASSUME NEW r \in Streams
       PROVE  Beside(Content(r)') /\ Unfinished(Content(r), r)' /\ Lives(Content(r))'
  <2>1. CASE r = s
    <3>1. Beside(Content(s)')
      BY <1>12, <1>13
    <3>2. Unfinished(Content(s), s)'
      BY <1>12, <1>15 DEF Unfinished
    <3>3. Lives(Content(s))'
      BY <1>12, <1>16 DEF Lives
    <3> QED
      BY <2>1, <3>1, <3>2, <3>3
  <2>2. CASE r # s
    BY <1>3, <1>4, <2>2
  <2> QED
    BY <2>1, <2>2
<1>18. ASSUME NEW u \in Threads, pc'[u] = "rest" PROVE Lasts(Content(Via(u)), u)'
  <2>1. Via(u) \in Streams /\ Via(u) # s
    BY <1>7, <1>18, CallIs DEF Base
  <2> QED
    BY <1>3, <1>4, <1>18, <2>1
<1> QED
  BY <1>17, <1>18

LEMMA BeginsMeans ==
    ASSUME NEW S, NEW p \in Seq(S), NEW c, Begins(p, c, S)
    PROVE  Len(p) \in Nat /\ Len(c) \in Nat /\ Len(p) <= Len(c) /\ \A i \in 1..Len(p) : c[i] = p[i]
<1>1. PICK x \in Seq(S) : c = p \o x
  BY DEF Begins
<1>2. Len(c) = Len(p) + Len(x) /\ \A i \in 1..Len(p) + Len(x) : c[i] = IF i <= Len(p) THEN p[i] ELSE x[i - Len(p)]
  BY <1>1, ConcatProperties
<1>3. Len(p) \in Nat /\ Len(x) \in Nat
  BY LenProperties
<1> QED
  BY <1>2, <1>3

(* Where the output ends, a new life begins.                               *)
LEMMA WholeStop ==
    ASSUME Base, WholeOK, NEW n \in diskEnd..Len(output), Stop(n)
    PROVE  WholeOK'
<1> SUFFICES ASSUME ~failed', NEW s \in Streams
             PROVE  Beside(Content(s)') /\ Unfinished(Content(s), s)' /\ Lives(Content(s))'
  BY DEF WholeOK, Streams, Stop
<1>1. ~failed /\ crashes' = crashes + 1 /\ crashes \in Nat
  BY SharedOutputAssumption DEF Stop, Base, TypeOK
<1>2. PICK p \in Seq(ChunksOf(s)) : p = Content(s)' /\ Begins(p, Content(s), ChunksOf(s))
  BY ContentStop
<1>3. PICK q \in Seq(ChunksOf(s)) : q = Content(s)
  BY ContentIs
<1>4. Len(p) \in Nat /\ Len(q) \in Nat /\ Len(p) <= Len(q) /\ \A i \in 1..Len(p) : q[i] = p[i]
  BY <1>2, <1>3, BeginsMeans
<1>5. Beside(q) /\ Lives(q)
  BY <1>1, <1>3 DEF WholeOK
<1>6. ASSUME NEW i \in 1..Len(p) PROVE p[i].rec.life \in Nat /\ p[i].rec.life <= crashes
  <2>1. p[i] \in ChunksOf(s)
    BY ElementOfSeq
  <2>2. p[i].rec.life \in 0..MaxCrashes
    BY <2>1 DEF ChunksOf, Chunks, Records
  <2> QED
    BY <1>4, <1>5, <2>2, SharedOutputAssumption DEF Lives
<1>7. Lives(Content(s))'
  BY <1>1, <1>2, <1>6 DEF Lives
<1>8. Unfinished(Content(s), s)'
  <2>1. Len(p) > 0 => p[Len(p)].rec.life < crashes'
    <3>1. Len(p) > 0 => Len(p) \in 1..Len(p)
      BY <1>4
    <3> QED
      BY <1>1, <1>6, <3>1
  <2> QED
    BY <1>2, <2>1 DEF Unfinished
<1>9. Beside(p)
  <2>1. ASSUME NEW i \in 1..Len(p)
        PROVE  /\ p[i].part = 2 => i > 1 /\ p[i - 1] = [p[i] EXCEPT !.part = 1]
               /\ p[i].part # 2 /\ i < Len(p) =>
                    p[i + 1] = [p[i] EXCEPT !.part = 2] \/ p[i].rec.life < p[i + 1].rec.life
    <3>1. i \in 1..Len(q) /\ (i > 1 => i - 1 \in 1..Len(p)) /\ (i < Len(p) => i < Len(q) /\ i + 1 \in 1..Len(p))
      BY <1>4
    <3> QED
      BY <1>4, <1>5, <3>1 DEF Beside
  <2> QED
    BY <2>1 DEF Beside
<1> QED
  BY <1>2, <1>7, <1>8, <1>9

LEMMA WholeStep == ASSUME Base, WholeOK, [Next]_vars PROVE WholeOK'
<1>1. CASE UNCHANGED vars
  <2>1. \A s \in Streams : Content(s)' = Content(s)
    BY <1>1, ContentSame DEF vars
  <2> QED
    BY <1>1, <2>1, WholeQuiet DEF vars
<1>2. ASSUME NEW t \in Threads, Begin(t) \/ Lock(t) \/ Fdatasync(t) \/ Unlock(t) PROVE WholeOK'
  <2>1. \A s \in Streams : Content(s)' = Content(s)
    BY <1>2, ContentSame DEF Begin, Lock, Fdatasync, Unlock, data
  <2>2. failed' = failed /\ crashes' = crashes /\ kind' = kind
    BY <1>2 DEF Begin, Lock, Fdatasync, Unlock
  <2>3. \A u \in Threads : pc'[u] = "rest" <=> pc[u] = "rest"
    BY <1>2 DEF Begin, Lock, Fdatasync, Unlock, Goto, Base, TypeOK
  <2>4. \A u \in Threads : pc[u] = "rest" => call'[u] = call[u]
    BY <1>2 DEF Begin, Lock, Fdatasync, Unlock, Base, TypeOK
  <2> QED
    BY <2>1, <2>2, <2>3, <2>4, WholeQuiet
<1>3. ASSUME NEW t \in Threads, Flush(t) PROVE WholeOK'
  <2>1. \A s \in Streams : Content(s)' = Content(s)
    BY <1>3, ContentFlush
  <2>2. failed' = failed /\ crashes' = crashes /\ kind' = kind /\ call' = call
    BY <1>3 DEF Flush
  <2>3. \A u \in Threads : pc'[u] = "rest" <=> pc[u] = "rest"
    BY <1>3 DEF Flush, AfterFlush, Goto, Base, TypeOK
  <2> QED
    BY <2>1, <2>2, <2>3, WholeQuiet
<1>4. ASSUME NEW t \in Threads, Fail(t) PROVE WholeOK'
  <2>1. CASE LockThrows(t)
    <3>1. \A s \in Streams : Content(s)' = Content(s)
      BY <1>4, ContentSame DEF Fail, data
    <3>2. failed' = failed /\ crashes' = crashes /\ kind' = kind /\ call' = call
      BY <1>4, <2>1 DEF Fail, LockThrows
    <3>3. \A u \in Threads : pc'[u] = "rest" <=> pc[u] = "rest"
      BY <2>1 DEF LockThrows, Goto, Base, TypeOK
    <3> QED
      BY <3>1, <3>2, <3>3, WholeQuiet
  <2>2. CASE StdioFails(t)
    BY <2>2 DEF StdioFails, WholeOK
  <2> QED
    BY <1>4, <2>1, <2>2 DEF Fail
<1>5. CASE Crash \/ PowerLoss
  BY <1>5, StopIs, WholeStop
<1> QED
  BY <1>1, <1>2, <1>3, <1>4, <1>5, WholeWrite, WholeWriteRest DEF Next, Work, Rest

LEMMA ContentInit == ASSUME Init, NEW s \in Streams PROVE Content(s) = <<>>
<1>1. output = <<>> /\ buffer[s] = <<>> /\ <<>> \in Seq(Chunks)
  BY EmptySeq DEF Init
<1>2. <<>> \o <<>> = <<>>
  BY <1>1, ConcatEmptySeq
<1> QED
  BY <1>1, <1>2, WithinEmpty DEF Content

LEMMA WholeInit == Init => WholeOK
<1> SUFFICES ASSUME Init PROVE WholeOK
  OBVIOUS
<1>1. Len(<<>>) = 0
  BY EmptySeq
<1>2. Beside(<<>>) /\ Lives(<<>>) /\ \A s \in Streams : Unfinished(<<>>, s)
  BY <1>1 DEF Beside, Lives, Unfinished
<1>3. \A t \in Threads : pc[t] # "rest"
  BY DEF Init
<1> QED
  BY <1>2, <1>3, ContentInit DEF WholeOK

(* Two appenders under two mutexes write whole records to one stream, and  *)
(* a reader can tell where a crash has cut one.                            *)
THEOREM RecordsStayWhole == Spec => []RecordsWhole
<1>1. Base /\ WholeOK /\ [Next]_vars => WholeOK'
  BY WholeStep
<1>2. Base /\ WholeOK => RecordsWhole
  BY WholeSays
<1> QED
  BY <1>1, <1>2, WholeInit, BaseAlways, PTL DEF Spec

-----------------------------------------------------------------------------
(* The promises                                                            *)

End(r) == [rec |-> r, part |-> 2]

(* The record is whole in its stream; it is among the first n chunks that  *)
(* the system has.                                                         *)
Given(r)       == Has(Content(r.via), End(r))
Out(out, r, n) == \E i \in 1..n : out[i] = End(r)

(* What makes the promises true by the time they are made: a call about to *)
(* return has seen to what it is about to promise, which is the business   *)
(* of its own stream.                                                      *)
Ready(t) ==
    /\ Appends(t) /\ pc[t] \in {"flush", "unlock"} => Given(Record(t))
    /\ call[t].op = "fatal" /\ pc[t] = "unlock" => Out(output, Record(t), Len(output))
    /\ ~Appends(t) /\ pc[t] # "idle" => \A r \in mark[t] : r \in returned /\ r.via = Via(t)
    /\ ~Appends(t) /\ pc[t] \in {"fdatasync", "unlock"} => \A r \in mark[t] : Out(output, r, Len(output))
    /\ call[t].op = "sync" /\ kind = "file" /\ pc[t] = "unlock" => \A r \in mark[t] : Out(output, r, diskEnd)

PromiseOK ==
    ~failed => /\ \A r \in flushedFor : Out(output, r, Len(output))
               /\ \A r \in syncedFor : Out(output, r, diskEnd)
               /\ \A r \in returned : Given(r)
               /\ \A t \in Threads : Ready(t)

LEMMA OutStays ==
    ASSUME NEW p, NEW q, NEW r, NEW n \in Nat, NEW m \in Nat, n <= m, Out(p, r, n),
           \A i \in 1..n : q[i] = p[i]
    PROVE  Out(q, r, m)
<1>1. PICK i \in 1..n : p[i] = End(r)
  BY DEF Out
<1>2. i \in 1..m /\ q[i] = p[i]
  BY <1>1
<1> QED
  BY <1>1, <1>2 DEF Out

(* Nothing is taken away: no chunk from the output or from a stream, no    *)
(* confirmation.                                                           *)
Grows ==
    /\ output' \in Seq(Chunks) /\ Len(output) <= Len(output') /\ diskEnd <= diskEnd'
    /\ \A i \in 1..Len(output) : output'[i] = output[i]
    /\ \A s \in Streams, c \in Chunks : Has(Content(s), c) => Has(Content(s)', c)
    /\ kind' = kind /\ crashes' = crashes

Same(u) == pc'[u] = pc[u] /\ call'[u] = call[u] /\ mark'[u] = mark[u]

LEMMA GrowsGiven ==
    ASSUME Grows, NEW r \in Records, Given(r)
    PROVE  Given(r)'
<1>1. End(r) \in Chunks /\ r.via \in Streams
  BY DEF End, Chunks, Records
<1> QED
  BY <1>1 DEF Grows, Given

LEMMA GrowsOut ==
    ASSUME Base, Base', Grows, NEW r
    PROVE  /\ Out(output, r, Len(output)) => Out(output', r, Len(output'))
           /\ Out(output, r, diskEnd) => Out(output', r, diskEnd')
<1>1. /\ Len(output) \in Nat /\ Len(output') \in Nat /\ diskEnd \in Nat /\ diskEnd' \in Nat
      /\ diskEnd <= Len(output)
  BY LenProperties DEF Base, TypeOK
<1>2. Len(output) <= Len(output') /\ diskEnd <= diskEnd' /\ \A i \in 1..Len(output) : output'[i] = output[i]
  BY DEF Grows
<1>3. \A i \in 1..diskEnd : output'[i] = output[i]
  BY <1>1, <1>2
<1> QED
  BY <1>1, <1>2, <1>3, OutStays

(* One thread moves, and has done what it promises.                        *)
LEMMA PromiseMove ==
    ASSUME Base, Base', PromiseOK, ~failed, Grows, NEW t \in Threads, Ready(t)',
           \A u \in Threads \ {t} : Same(u),
           \A r \in flushedFor' : r \in flushedFor \/ Out(output', r, Len(output')),
           \A r \in syncedFor' : r \in syncedFor \/ Out(output', r, diskEnd'),
           returned \subseteq returned',
           \A r \in returned' : r \in returned \/ Given(r)'
    PROVE  PromiseOK'
<1>1. \A r \in flushedFor' : Out(output', r, Len(output'))
  BY GrowsOut DEF PromiseOK
<1>2. \A r \in syncedFor' : Out(output', r, diskEnd')
  BY GrowsOut DEF PromiseOK
<1>3. \A r \in returned' : Given(r)'
  BY GrowsGiven DEF PromiseOK, Base, TypeOK
<1>4. ASSUME NEW u \in Threads \ {t} PROVE Ready(u)'
  <2>1. Same(u) /\ Ready(u) /\ kind' = kind /\ crashes' = crashes
    BY DEF PromiseOK, Grows
  <2>2. Appends(u)' = Appends(u) /\ Via(u)' = Via(u) /\ Record(u)' = Record(u)
    BY <2>1 DEF Same, Appends, Via, Stream, Record
  <2>3. pc'[u] # "idle" => Record(u) \in Records
    BY <2>1, RecordIs DEF Same, Base, FlowOK
  <2>4. Appends(u) /\ pc'[u] \in {"flush", "unlock"} => Given(Record(u))'
    <3> SUFFICES ASSUME Appends(u), pc'[u] \in {"flush", "unlock"} PROVE Given(Record(u))'
      OBVIOUS
    <3>1. PICK r \in Records : r = Record(u) /\ r = Record(u)' /\ Given(r)
      BY <2>1, <2>2, <2>3 DEF Ready, Same
    <3>2. Given(r)'
      BY <3>1, GrowsGiven
    <3> QED
      BY <3>1, <3>2 DEF Given, Content, End
  <2>5. call'[u].op = "fatal" /\ pc'[u] = "unlock" => Out(output', Record(u)', Len(output'))
    BY <2>1, <2>2, GrowsOut DEF Ready, Same
  <2>6. ~Appends(u)' /\ pc'[u] # "idle" => \A r \in mark'[u] : r \in returned' /\ r.via = Via(u)'
    BY <2>1, <2>2 DEF Ready, Same
  <2>7. ~Appends(u)' /\ pc'[u] \in {"fdatasync", "unlock"} => \A r \in mark'[u] : Out(output', r, Len(output'))
    BY <2>1, <2>2, GrowsOut DEF Ready, Same
  <2>8. call'[u].op = "sync" /\ kind' = "file" /\ pc'[u] = "unlock" => \A r \in mark'[u] : Out(output', r, diskEnd')
    BY <2>1, GrowsOut DEF Ready, Same
  <2> QED
    BY <2>2, <2>4, <2>5, <2>6, <2>7, <2>8 DEF Ready
<1> QED
  BY <1>1, <1>2, <1>3, <1>4 DEF PromiseOK, Out

LEMMA GrowsSame ==
    ASSUME Base, Base', UNCHANGED <<kind, buffer, output, crashes>>, diskEnd <= diskEnd'
    PROVE  Grows
<1>1. \A s : Content(s)' = Content(s)
  BY ContentSame
<1>2. Len(output) \in Nat /\ output' \in Seq(Chunks)
  BY LenProperties DEF Base, TypeOK
<1> QED
  BY <1>1, <1>2 DEF Grows

LEMMA BehindKeeps ==
    ASSUME NEW S, NEW p \in Seq(S), NEW x \in Seq(S)
    PROVE  Len(p) <= Len(p \o x) /\ \A i \in 1..Len(p) : (p \o x)[i] = p[i]
<1>1. Len(p \o x) = Len(p) + Len(x) /\ \A i \in 1..Len(p) + Len(x) : (p \o x)[i] = IF i <= Len(p) THEN p[i] ELSE x[i - Len(p)]
  BY ConcatProperties
<1>2. Len(p) \in Nat /\ Len(x) \in Nat
  BY LenProperties
<1> QED
  BY <1>1, <1>2

LEMMA GrowsPut ==
    ASSUME Base, Base', NEW t \in Threads, pc[t] # "idle", NEW part \in {1, 2}, Put(t, part),
           UNCHANGED <<kind, crashes>>
    PROVE  Grows
<1>1. PICK x \in Seq(Chunks) : output' = output \o x /\ diskEnd' = diskEnd
  BY PutShape, ChunksIn
<1>2. output \in Seq(Chunks) /\ output' \in Seq(Chunks) /\ diskEnd \in Nat
  BY DEF Base, TypeOK
<1>3. Len(output) <= Len(output') /\ \A i \in 1..Len(output) : output'[i] = output[i]
  BY <1>1, <1>2, BehindKeeps
<1>4. ASSUME NEW s \in Streams, NEW c \in Chunks, Has(Content(s), c) PROVE Has(Content(s)', c)
  <2>1. CASE s = Via(t)
    <3>1. Content(s)' = Append(Content(s), Piece(t, part)) /\ Content(s) \in Seq(ChunksOf(s))
          /\ Piece(t, part) \in ChunksOf(s)
      BY <2>1, ContentPut, ContentIs
    <3> QED
      BY <1>4, <3>1, AppendProperties, LenProperties DEF Has
  <2>2. CASE s # Via(t)
    BY <1>4, <2>2, ContentPut
  <2> QED
    BY <2>1, <2>2
<1>5. diskEnd <= diskEnd'
  BY <1>1, <1>2
<1> QED
  BY <1>2, <1>3, <1>4, <1>5 DEF Grows

LEMMA GrowsFlush == ASSUME Base, Base', NEW t \in Threads, Flush(t) PROVE Grows
<1>1. output \in Seq(Chunks) /\ output' \in Seq(Chunks) /\ diskEnd \in Nat /\ buffer[Via(t)] \in Seq(Chunks)
  BY CallIs DEF Base, TypeOK
<1>2. output' = output \o buffer[Via(t)] /\ diskEnd' = diskEnd /\ kind' = kind /\ crashes' = crashes
  BY DEF Flush
<1>3. Len(output) <= Len(output') /\ \A i \in 1..Len(output) : output'[i] = output[i]
  BY <1>1, <1>2, BehindKeeps
<1> QED
  BY <1>1, <1>2, <1>3, ContentFlush DEF Grows

(* After a flush all of the stream is with the system, and nothing of the  *)
(* others need be.                                                         *)
LEMMA FlushedOut ==
    ASSUME Base, Base', NEW t \in Threads, Flush(t), NEW r \in Records, r.via = Via(t), Given(r)
    PROVE  Out(output', r, Len(output'))
<1>1. PICK s \in Streams : s = Via(t) /\ s = r.via
  BY CallIs DEF Base
<1>2. output' \in Seq(Chunks) /\ buffer'[s] = <<>>
  BY <1>1 DEF Flush, Base, TypeOK
<1>3. Content(s)' = Within(output', ChunksOf(s))
  <2>1. Content(s)' = Within(output', ChunksOf(s)) \o <<>>
    BY <1>2, ContentNext DEF ContentNow
  <2>2. Within(output', ChunksOf(s)) \in Seq(ChunksOf(s))
    BY <1>2, WithinType
  <2>3. Within(output', ChunksOf(s)) \o <<>> = Within(output', ChunksOf(s))
    BY <2>2, ConcatEmptySeq
  <2> QED
    BY <2>1, <2>3
<1>4. Has(Within(output', ChunksOf(s)), End(r))
  BY <1>1, <1>3, ContentFlush DEF Given
<1>5. Has(output', End(r))
  BY <1>2, <1>4, WithinHas
<1> QED
  BY <1>5 DEF Has, Out

LEMMA PromiseBegin == ASSUME Base, Base', PromiseOK, NEW t \in Threads, Begin(t) PROVE PromiseOK'
<1> SUFFICES ASSUME ~failed PROVE PromiseOK'
  BY DEF Begin, PromiseOK
<1>1. UNCHANGED <<kind, buffer, output, diskEnd, crashes, returned, flushedFor, syncedFor>>
  BY DEF Begin, data
<1>2. Grows
  BY <1>1, GrowsSame DEF Base, TypeOK
<1>3. \A u \in Threads \ {t} : Same(u)
  BY DEF Begin, Goto, Same, Base, TypeOK
<1>4. Ready(t)'
  <2>1. pc'[t] = "lock"
    BY DEF Begin, Goto, Base, TypeOK
  <2>2. \A r \in mark'[t] : r \in returned' /\ r.via = Via(t)'
    <3>1. PICK c \in Calls : /\ call' = [call EXCEPT ![t] = c]
                             /\ mark' = [mark EXCEPT ![t] = {r \in returned : r.via = Stream(c.app)}]
      BY DEF Begin
    <3>2. call'[t] = c /\ mark'[t] = {r \in returned : r.via = Stream(c.app)}
      BY <3>1 DEF Base, TypeOK
    <3> QED
      BY <1>1, <3>2 DEF Via, Stream
  <2> QED
    BY <2>1, <2>2 DEF Ready
<1> QED
  BY <1>1, <1>2, <1>3, <1>4, PromiseMove

LEMMA PromiseLock == ASSUME Base, Base', PromiseOK, NEW t \in Threads, Lock(t) PROVE PromiseOK'
<1> SUFFICES ASSUME ~failed PROVE PromiseOK'
  BY DEF Lock, PromiseOK
<1>1. UNCHANGED <<kind, buffer, output, diskEnd, call, mark, crashes, returned, flushedFor, syncedFor>>
  BY DEF Lock, data, ghosts
<1>2. Grows
  BY <1>1, GrowsSame DEF Base, TypeOK
<1>3. \A u \in Threads \ {t} : Same(u)
  BY <1>1 DEF Lock, Goto, Same, Base, TypeOK
<1>4. Ready(t)'
  <2>1. pc'[t] = IF Appends(t) THEN "write" ELSE "flush"
    BY DEF Lock, Goto, Base, TypeOK
  <2>2. Ready(t) /\ pc[t] = "lock" /\ Via(t)' = Via(t) /\ Appends(t)' = Appends(t)
    BY <1>1 DEF PromiseOK, Lock, Via, Stream, Appends
  <2> QED
    BY <1>1, <2>1, <2>2 DEF Ready
<1> QED
  BY <1>1, <1>2, <1>3, <1>4, PromiseMove

LEMMA PromiseLockThrows ==
    ASSUME Base, Base', PromiseOK, NEW t \in Threads, Fail(t), LockThrows(t) PROVE PromiseOK'
<1> SUFFICES ASSUME ~failed PROVE PromiseOK'
  BY DEF LockThrows, PromiseOK
<1>1. UNCHANGED <<kind, buffer, output, diskEnd, call, mark, crashes, returned, flushedFor, syncedFor>>
  BY DEF Fail, data, ghosts
<1>2. Grows
  BY <1>1, GrowsSame DEF Base, TypeOK
<1>3. \A u \in Threads \ {t} : Same(u)
  BY <1>1 DEF LockThrows, Goto, Same, Base, TypeOK
<1>4. Ready(t)'
  <2>1. pc'[t] = "idle"
    BY DEF LockThrows, Goto, Base, TypeOK
  <2> QED
    BY <2>1 DEF Ready
<1> QED
  BY <1>1, <1>2, <1>3, <1>4, PromiseMove

LEMMA PromiseWrite == ASSUME Base, Base', PromiseOK, NEW t \in Threads, Write(t) PROVE PromiseOK'
<1> SUFFICES ASSUME ~failed PROVE PromiseOK'
  BY DEF Write, PromiseOK
<1>1. UNCHANGED <<kind, call, mark, crashes, returned, flushedFor, syncedFor>>
  BY DEF Write, ghosts
<1>2. Grows
  BY <1>1, GrowsPut DEF Write
<1>3. \A u \in Threads \ {t} : Same(u)
  BY <1>1 DEF Write, Goto, Same, Base, TypeOK
<1>4. Ready(t)'
  <2>1. pc'[t] = "rest"
    BY DEF Write, Goto, Base, TypeOK
  <2>2. Appends(t)'
    BY <2>1 DEF Base, FlowOK
  <2>3. call'[t].op # "sync"
    BY <2>2 DEF Appends
  <2> QED
    BY <2>1, <2>2, <2>3 DEF Ready
<1> QED
  BY <1>1, <1>2, <1>3, <1>4, PromiseMove

LEMMA PromiseWriteRest == ASSUME Base, Base', PromiseOK, NEW t \in Threads, WriteRest(t) PROVE PromiseOK'
<1> SUFFICES ASSUME ~failed PROVE PromiseOK'
  BY DEF WriteRest, PromiseOK
<1>1. UNCHANGED <<kind, call, mark, crashes, returned, flushedFor, syncedFor>>
  BY DEF WriteRest, ghosts
<1>2. Grows
  BY <1>1, GrowsPut DEF WriteRest
<1>3. \A u \in Threads \ {t} : Same(u)
  BY <1>1 DEF WriteRest, Goto, Same, Base, TypeOK
<1>4. Ready(t)'
  <2>1. pc'[t] = IF call[t].op = "fatal" THEN "flush" ELSE "unlock"
    BY DEF WriteRest, AfterWrite, Goto, Base, TypeOK
  <2>2. Appends(t) /\ Appends(t)' /\ call'[t].op # "sync" /\ pc[t] = "rest" /\ Put(t, 2)
    BY <1>1 DEF WriteRest, Base, FlowOK, Appends
  <2>3. PICK r \in Records : r = Record(t) /\ r = Record(t)' /\ r.via = Via(t)
    <3>1. Record(t)' = Record(t)
      BY <1>1 DEF Record, Via, Stream
    <3>2. Record(t) \in Records /\ Record(t).via = Via(t)
      BY <2>2, RecordIs DEF Base, FlowOK
    <3> QED
      BY <3>1, <3>2
  <2>4. Given(r)'
    <3>1. PICK s \in Streams : s = Via(t)
      BY CallIs DEF Base
    <3>2. Content(s)' = Append(Content(s), End(r)) /\ End(r) \in ChunksOf(s) /\ Content(s) \in Seq(ChunksOf(s))
      BY <2>2, <2>3, <3>1, ContentPut, ContentIs DEF Piece, End
    <3>3. Has(Content(s)', End(r))
      BY <3>2, AppendProperties, LenProperties DEF Has
    <3> QED
      BY <2>3, <3>1, <3>3 DEF Given
  <2>5. Given(Record(t))'
    BY <2>3, <2>4 DEF Given, Content, End
  <2>6. ~(call'[t].op = "fatal" /\ pc'[t] = "unlock")
    BY <1>1, <2>1
  <2> QED
    BY <2>2, <2>5, <2>6 DEF Ready
<1> QED
  BY <1>1, <1>2, <1>3, <1>4, PromiseMove

LEMMA PromiseFlush == ASSUME Base, Base', PromiseOK, NEW t \in Threads, Flush(t) PROVE PromiseOK'
<1> SUFFICES ASSUME ~failed PROVE PromiseOK'
  BY DEF Flush, PromiseOK
<1>1. UNCHANGED <<kind, call, mark, crashes, returned, flushedFor, syncedFor>>
  BY DEF Flush, ghosts
<1>2. Grows
  BY GrowsFlush
<1>3. \A u \in Threads \ {t} : Same(u)
  BY <1>1 DEF Flush, Goto, Same, Base, TypeOK
<1>4. Ready(t)'
  <2>1. pc[t] = "flush" /\ call[t].op # "append" /\ Ready(t)
    BY DEF Flush, PromiseOK, Base, FlowOK
  <2>2. Via(t)' = Via(t) /\ Appends(t)' = Appends(t) /\ Record(t)' = Record(t)
    BY <1>1 DEF Via, Stream, Appends, Record
  <2>3. pc'[t] = IF call[t].op = "sync" /\ kind = "file" THEN "fdatasync" ELSE "unlock"
    BY DEF Flush, AfterFlush, Goto, Base, TypeOK
  <2>4. CASE Appends(t)
    <3>1. PICK r \in Records : r = Record(t) /\ r = Record(t)' /\ r.via = Via(t) /\ Given(r)
      BY <2>1, <2>2, <2>4, RecordIs DEF Ready, Base, FlowOK
    <3>2. Given(r)' /\ Out(output', r, Len(output'))
      BY <1>2, <3>1, GrowsGiven, FlushedOut
    <3>3. Given(Record(t))'
      BY <3>1, <3>2 DEF Given, Content, End
    <3>4. call'[t].op # "sync" /\ Appends(t)'
      BY <1>1, <2>2, <2>4 DEF Appends
    <3> QED
      BY <2>2, <3>1, <3>2, <3>3, <3>4 DEF Ready
  <2>5. CASE ~Appends(t)
    <3>1. \A r \in mark[t] : r \in returned /\ r.via = Via(t)
      BY <2>1, <2>5 DEF Ready
    <3>2. \A r \in mark[t] : Out(output', r, Len(output'))
      BY <3>1, FlushedOut DEF PromiseOK, Base, TypeOK
    <3>3. ~(call'[t].op = "sync" /\ kind' = "file" /\ pc'[t] = "unlock") /\ call'[t].op # "fatal"
      BY <1>1, <2>3, <2>5 DEF Appends
    <3> QED
      BY <1>1, <2>2, <2>5, <3>1, <3>2, <3>3 DEF Ready
  <2> QED
    BY <2>4, <2>5
<1> QED
  BY <1>1, <1>2, <1>3, <1>4, PromiseMove

LEMMA PromiseFdatasync == ASSUME Base, Base', PromiseOK, NEW t \in Threads, Fdatasync(t) PROVE PromiseOK'
<1> SUFFICES ASSUME ~failed PROVE PromiseOK'
  BY DEF Fdatasync, PromiseOK
<1>1. UNCHANGED <<kind, buffer, output, call, mark, crashes, returned, flushedFor, syncedFor>>
  BY DEF Fdatasync, ghosts
<1>2. diskEnd' = Len(output) /\ pc[t] = "fdatasync" /\ pc'[t] = "unlock"
  BY DEF Fdatasync, Goto, Base, TypeOK
<1>3. Grows
  <2>1. diskEnd <= diskEnd'
    BY <1>2, LenProperties DEF Base, TypeOK
  <2> QED
    BY <1>1, <2>1, GrowsSame
<1>4. \A u \in Threads \ {t} : Same(u)
  BY <1>1 DEF Fdatasync, Goto, Same, Base, TypeOK
<1>5. Ready(t)'
  <2>1. call[t].op = "sync" /\ Ready(t)
    BY <1>2 DEF PromiseOK, Base, FlowOK
  <2>2. Via(t)' = Via(t) /\ ~Appends(t) /\ ~Appends(t)'
    BY <1>1, <2>1 DEF Via, Stream, Appends
  <2>3. \A r \in mark[t] : r \in returned /\ r.via = Via(t) /\ Out(output, r, Len(output))
    BY <1>2, <2>1, <2>2 DEF Ready
  <2> QED
    BY <1>1, <1>2, <2>1, <2>2, <2>3 DEF Ready
<1> QED
  BY <1>1, <1>3, <1>4, <1>5, PromiseMove

LEMMA PromiseUnlock == ASSUME Base, Base', PromiseOK, NEW t \in Threads, Unlock(t) PROVE PromiseOK'
<1> SUFFICES ASSUME ~failed PROVE PromiseOK'
  BY DEF Unlock, PromiseOK
<1>1. UNCHANGED <<kind, buffer, output, diskEnd, call, mark, crashes>>
  BY DEF Unlock, data
<1>2. Grows
  BY <1>1, GrowsSame DEF Base, TypeOK
<1>3. \A u \in Threads \ {t} : Same(u)
  BY <1>1 DEF Unlock, Goto, Same, Base, TypeOK
<1>4. pc[t] = "unlock" /\ pc'[t] = "idle" /\ Ready(t)
  BY DEF Unlock, Goto, PromiseOK, Base, TypeOK
<1>5. Ready(t)'
  BY <1>4 DEF Ready
<1>6. call[t].op \in {"append", "fatal", "flush", "sync"}
  BY CallIs DEF Base
<1>7. \A r \in flushedFor' : r \in flushedFor \/ Out(output', r, Len(output'))
  <2>1. CASE call[t].op = "append"
    BY <2>1 DEF Unlock
  <2>2. CASE call[t].op = "fatal"
    BY <1>1, <1>4, <2>2 DEF Unlock, Ready
  <2>3. CASE call[t].op \in {"flush", "sync"}
    <3>1. ~Appends(t) /\ flushedFor' = flushedFor \cup mark[t]
      BY <2>3 DEF Unlock, Appends
    <3> QED
      BY <1>1, <1>4, <3>1 DEF Ready
  <2> QED
    BY <1>6, <2>1, <2>2, <2>3
<1>8. \A r \in syncedFor' : r \in syncedFor \/ Out(output', r, diskEnd')
  BY <1>1, <1>4 DEF Unlock, Ready
<1>9. returned \subseteq returned' /\ \A r \in returned' : r \in returned \/ Given(r)'
  <2>1. CASE Appends(t)
    <3>1. PICK r \in Records : r = Record(t) /\ Given(r)
      BY <1>4, <2>1, RecordIs DEF Ready, Base, FlowOK
    <3>2. Given(r)'
      BY <1>2, <3>1, GrowsGiven
    <3> QED
      BY <2>1, <3>1, <3>2 DEF Unlock
  <2>2. CASE ~Appends(t)
    BY <2>2 DEF Unlock
  <2> QED
    BY <2>1, <2>2
<1> QED
  BY <1>2, <1>3, <1>5, <1>7, <1>8, <1>9, PromiseMove

LEMMA PromiseStop ==
    ASSUME Base, Base', PromiseOK, NEW n \in diskEnd..Len(output), Stop(n),
           flushedFor' = syncedFor \/ (flushedFor' = flushedFor /\ n = Len(output))
    PROVE  PromiseOK'
<1> SUFFICES ASSUME ~failed PROVE PromiseOK'
  BY DEF Stop, PromiseOK
<1>1. output \in Seq(Chunks) /\ Len(output) \in Nat /\ diskEnd \in Nat /\ n \in 0..Len(output) /\ diskEnd <= n
  BY LenProperties DEF Base, TypeOK
<1>2. Len(output') = n /\ \A i \in 1..n : output'[i] = output[i]
  <2>1. output' = SubSeq(output, 1, n)
    BY DEF Stop
  <2>2. \A i \in 1..n : output[i] \in Chunks
    BY <1>1, ElementOfSeq
  <2> QED
    BY <1>1, <2>1, <2>2, SubSeqProperties
<1>3. diskEnd' = diskEnd /\ syncedFor' = syncedFor /\ returned' = {} /\ \A t \in Threads : pc'[t] = "idle"
  BY DEF Stop
<1>4. \A r \in syncedFor : Out(output', r, diskEnd') /\ Out(output', r, Len(output'))
  <2>1. \A r \in syncedFor : Out(output, r, diskEnd)
    BY DEF PromiseOK
  <2>2. \A i \in 1..diskEnd : output'[i] = output[i]
    BY <1>1, <1>2
  <2> QED
    BY <1>1, <1>2, <1>3, <2>1, <2>2, OutStays
<1>5. \A r \in flushedFor' : Out(output', r, Len(output'))
  <2>1. CASE flushedFor' = syncedFor
    BY <1>4, <2>1
  <2>2. CASE flushedFor' = flushedFor /\ n = Len(output)
    <3>1. ASSUME NEW r \in flushedFor PROVE Out(output', r, n)
      <4>1. Out(output, r, n)
        BY <2>2, <3>1 DEF PromiseOK
      <4>2. n \in Nat /\ n <= n
        BY <1>1
      <4> QED
        BY <1>2, <4>1, <4>2, OutStays
    <3> QED
      BY <1>2, <2>2, <3>1
  <2> QED
    BY <2>1, <2>2
<1>6. \A t \in Threads : Ready(t)'
  BY <1>3 DEF Ready
<1>7. \A r \in syncedFor' : Out(output', r, diskEnd')
  BY <1>3, <1>4
<1>8. \A r \in returned' : Given(r)'
  BY <1>3
<1> QED
  BY <1>5, <1>6, <1>7, <1>8 DEF PromiseOK

LEMMA PromiseStep == ASSUME Base, Base', PromiseOK, [Next]_vars PROVE PromiseOK'
<1>1. CASE UNCHANGED vars
  <2>1. \A s : Content(s)' = Content(s)
    BY <1>1, ContentSame DEF vars
  <2>2. \A t : Appends(t)' = Appends(t) /\ Via(t)' = Via(t)
    BY <1>1 DEF vars, Appends, Via, Stream
  <2>3. ASSUME NEW t \in Threads, ~failed PROVE Ready(t)'
    <3>1. PICK r : r = Record(t) /\ r = Record(t)'
      BY <1>1, <2>2 DEF vars, Record
    <3>2. Given(r) => Given(Record(t))'
      BY <1>1, <3>1 DEF vars, Given, Content, End, ChunksOf, Chunks, Records, Streams
    <3> QED
      BY <1>1, <2>2, <2>3, <3>1, <3>2 DEF vars, PromiseOK, Ready
  <2>4. \A r : Given(r) => Given(r)'
    BY <2>1 DEF Given
  <2> QED
    BY <1>1, <2>3, <2>4 DEF vars, PromiseOK
<1>2. ASSUME NEW t \in Threads, Fail(t) PROVE PromiseOK'
  <2>1. CASE LockThrows(t)
    BY <1>2, <2>1, PromiseLockThrows
  <2>2. CASE StdioFails(t)
    BY <2>2 DEF StdioFails, PromiseOK
  <2> QED
    BY <1>2, <2>1, <2>2 DEF Fail
<1>3. CASE Crash \/ PowerLoss
  BY <1>3, StopIs, PromiseStop
<1> QED
  BY <1>1, <1>2, <1>3, PromiseBegin, PromiseLock, PromiseWrite, PromiseWriteRest, PromiseFlush,
     PromiseFdatasync, PromiseUnlock DEF Next, Work, Rest

LEMMA PromiseInit == Init => PromiseOK
BY DEF Init, PromiseOK, Ready

(* A flush or a sync of one appender answers for all of its stream, across *)
(* crashes and power losses, with any number of appenders on the output.   *)
THEOREM PromisesAreKept == Spec => []PromisesKept
<1>1. Base /\ Base' /\ PromiseOK /\ [Next]_vars => PromiseOK'
  BY PromiseStep
<1>2. PromiseOK => PromisesKept
  BY DEF PromiseOK, PromisesKept, Out, End
<1> QED
  BY <1>1, <1>2, PromiseInit, BaseAlways, PTL DEF Spec

-----------------------------------------------------------------------------
(* The log that a stream is                                                *)

EndsOf(s) == {c \in ChunksOf(s) : c.part = 2}

Recs(q) == [i \in 1..Len(q) |-> q[i].rec]

LinesOf(s) == {r \in Records : r.via = s}

(* What is ended of the output, of stdio's buffer and of the device.       *)
SinkIs(s, e, b, d) ==
    [lines |-> Recs(e \o b), flushed |-> Len(e), synced |-> Len(d)]

LEMMA SinkOfIs ==
    ASSUME Base, NEW s \in Streams
    PROVE  SinkOf(s) = SinkIs(s, Within(output, EndsOf(s)), Within(buffer[s], EndsOf(s)),
                                 Within(SubSeq(output, 1, diskEnd), EndsOf(s)))
<1>1. output \in Seq(Chunks) /\ buffer[s] \in Seq(Chunks)
  BY DEF Base, TypeOK
<1>2. Ends(s, output \o buffer[s]) = Within(output, EndsOf(s)) \o Within(buffer[s], EndsOf(s))
  BY <1>1, WithinConcat DEF Ends, EndsOf
<1>3. Ends(s, output) = Within(output, EndsOf(s))
  BY DEF Ends, EndsOf
<1>4. Ends(s, SubSeq(output, 1, diskEnd)) = Within(SubSeq(output, 1, diskEnd), EndsOf(s))
  BY DEF Ends, EndsOf
<1> QED
  BY <1>2, <1>3, <1>4 DEF SinkOf, SinkIs, Recs

LEMMA SinkOfNext ==
    ASSUME Base', NEW s \in Streams
    PROVE  SinkOf(s)' = SinkIs(s, Within(output', EndsOf(s)), Within(buffer'[s], EndsOf(s)),
                                  Within(SubSeq(output', 1, diskEnd'), EndsOf(s)))
<1>1. output' \in Seq(Chunks) /\ buffer'[s] \in Seq(Chunks)
  BY DEF Base, TypeOK
<1>2. Within(output' \o buffer'[s], EndsOf(s)) = Within(output', EndsOf(s)) \o Within(buffer'[s], EndsOf(s))
  BY <1>1, WithinConcat
<1>3. Ends(s, output \o buffer[s])' = Within(output' \o buffer'[s], EndsOf(s))
  BY DEF Ends, EndsOf, ChunksOf, Chunks, Records, Streams
<1>4. Ends(s, output)' = Within(output', EndsOf(s))
  BY DEF Ends, EndsOf, ChunksOf, Chunks, Records, Streams
<1>5. Ends(s, SubSeq(output, 1, diskEnd))' = Within(SubSeq(output', 1, diskEnd'), EndsOf(s))
  BY DEF Ends, EndsOf, ChunksOf, Chunks, Records, Streams
<1> QED
  BY <1>2, <1>3, <1>4, <1>5 DEF SinkOf, SinkIs, Recs

LEMMA RecsType ==
    ASSUME NEW s, NEW q \in Seq(EndsOf(s))
    PROVE  Recs(q) \in Seq(LinesOf(s)) /\ Len(Recs(q)) = Len(q)
<1>1. \A i \in 1..Len(q) : q[i].rec \in LinesOf(s)
  <2>1. ASSUME NEW i \in 1..Len(q) PROVE q[i].rec \in LinesOf(s)
    <3>1. q[i] \in EndsOf(s)
      BY ElementOfSeq
    <3> QED
      BY <3>1 DEF EndsOf, ChunksOf, Chunks, LinesOf
  <2> QED
    BY <2>1
<1>2. Len(q) \in Nat
  BY LenProperties
<1> QED
  BY <1>1, <1>2 DEF Recs

LEMMA RecsAppend ==
    ASSUME NEW s, NEW q \in Seq(EndsOf(s)), NEW c \in EndsOf(s)
    PROVE  Recs(Append(q, c)) = Append(Recs(q), c.rec)
<1>1. Append(q, c) \in Seq(EndsOf(s)) /\ Len(Append(q, c)) = Len(q) + 1 /\ Append(q, c)[Len(q) + 1] = c
      /\ \A i \in 1..Len(q) : Append(q, c)[i] = q[i]
  BY AppendProperties
<1>2. PICK a \in Seq(LinesOf(s)) : a = Recs(Append(q, c)) /\ Len(a) = Len(q) + 1
  BY <1>1, RecsType
<1>3. PICK b \in Seq(LinesOf(s)) : b = Recs(q) /\ Len(b) = Len(q)
  BY RecsType
<1>4. c.rec \in LinesOf(s)
  BY DEF EndsOf, ChunksOf, Chunks, LinesOf
<1>5. Len(q) \in Nat
  BY LenProperties
<1>6. a[Len(q) + 1] = c.rec /\ \A i \in 1..Len(q) : a[i] = q[i].rec /\ b[i] = q[i].rec
  <2>1. \A i \in 1..Len(q) + 1 : a[i] = Append(q, c)[i].rec
    BY <1>1, <1>2 DEF Recs
  <2>2. \A i \in 1..Len(q) : b[i] = q[i].rec
    BY <1>3 DEF Recs
  <2>3. Len(q) + 1 \in 1..Len(q) + 1 /\ \A i \in 1..Len(q) : i \in 1..Len(q) + 1
    BY <1>5
  <2> QED
    BY <1>1, <2>1, <2>2, <2>3
<1>7. PICK d \in Seq(LinesOf(s)) : d = Append(b, c.rec)
  BY <1>4, AppendProperties
<1>8. Len(d) = Len(q) + 1 /\ d[Len(q) + 1] = c.rec /\ \A i \in 1..Len(q) : d[i] = b[i]
  BY <1>3, <1>4, <1>7, AppendProperties
<1>9. \A i \in 1..Len(a) : a[i] = d[i]
  <2>1. ASSUME NEW i \in 1..Len(a) PROVE a[i] = d[i]
    <3>1. i \in 1..Len(q) \/ i = Len(q) + 1
      BY <1>2, <1>5
    <3> QED
      BY <1>6, <1>8, <3>1
  <2> QED
    BY <2>1
<1>10. a = d
  BY <1>2, <1>8, <1>9, SeqEqual
<1> QED
  BY <1>2, <1>3, <1>7, <1>10

LEMMA OneLonger ==
    ASSUME NEW S, NEW q \in Seq(S), NEW r \in S
    PROVE  Len(Append(q, r)) = Len(q) + 1
BY AppendProperties

LEMMA CutIs ==
    ASSUME NEW S, NEW s \in Seq(S), NEW n \in 0..Len(s)
    PROVE  /\ SubSeq(s, 1, n) \in Seq(S) /\ Len(SubSeq(s, 1, n)) = n
           /\ \A i \in 1..n : SubSeq(s, 1, n)[i] = s[i]
OBVIOUS

LEMMA RecsCut ==
    ASSUME NEW s, NEW p \in Seq(EndsOf(s)), NEW x \in Seq(EndsOf(s))
    PROVE  SubSeq(Recs(p \o x), 1, Len(p)) = Recs(p) /\ Len(p) \in 0..Len(Recs(p \o x))
<1>1. /\ p \o x \in Seq(EndsOf(s)) /\ Len(p \o x) = Len(p) + Len(x)
      /\ \A i \in 1..Len(p) + Len(x) : (p \o x)[i] = IF i <= Len(p) THEN p[i] ELSE x[i - Len(p)]
  BY ConcatProperties
<1>2. Len(p) \in Nat /\ Len(x) \in Nat
  BY LenProperties
<1>3. PICK a \in Seq(LinesOf(s)) : a = Recs(p \o x) /\ Len(a) = Len(p) + Len(x)
  BY <1>1, RecsType
<1>4. PICK b \in Seq(LinesOf(s)) : b = Recs(p) /\ Len(b) = Len(p)
  BY RecsType
<1>5. Len(p) \in 0..Len(a)
  BY <1>2, <1>3
<1>6. PICK d \in Seq(LinesOf(s)) : d = SubSeq(a, 1, Len(p)) /\ Len(d) = Len(p) /\ \A i \in 1..Len(p) : d[i] = a[i]
  <2>1. \A n \in 0..Len(a) : /\ SubSeq(a, 1, n) \in Seq(LinesOf(s)) /\ Len(SubSeq(a, 1, n)) = n
                            /\ \A i \in 1..n : SubSeq(a, 1, n)[i] = a[i]
    BY CutIs
  <2> QED
    BY <1>5, <2>1, Zenon
<1>7. \A i \in 1..Len(p) : a[i] = p[i].rec /\ b[i] = p[i].rec
  <2>1. \A i \in 1..Len(p) + Len(x) : a[i] = (p \o x)[i].rec
    BY <1>1, <1>3 DEF Recs
  <2>2. \A i \in 1..Len(p) : b[i] = p[i].rec
    BY <1>4 DEF Recs
  <2>3. \A i \in 1..Len(p) : i \in 1..Len(p) + Len(x) /\ i <= Len(p)
    BY <1>2
  <2> QED
    BY <1>1, <2>1, <2>2, <2>3
<1>8. d = b
  BY <1>4, <1>6, <1>7, SeqEqual
<1> QED
  BY <1>3, <1>4, <1>5, <1>6, <1>8

(* The sink of a stream, in its three parts.                               *)
LEMMA SinkShape ==
    ASSUME Base, NEW s \in Streams
    PROVE  \E e, b, d, x \in Seq(EndsOf(s)) :
              /\ e = Within(output, EndsOf(s)) /\ b = Within(buffer[s], EndsOf(s))
              /\ d = Within(SubSeq(output, 1, diskEnd), EndsOf(s)) /\ e = d \o x
              /\ SinkOf(s) = SinkIs(s, e, b, d)
<1>1. output \in Seq(Chunks) /\ buffer[s] \in Seq(Chunks) /\ diskEnd \in 0..Len(output)
  BY DEF Base, TypeOK
<1>2. PICK p, q \in Seq(Chunks) : p = SubSeq(output, 1, diskEnd) /\ output = p \o q
  <2>1. /\ SubSeq(output, 1, diskEnd) \in Seq(Chunks) /\ SubSeq(output, diskEnd + 1, Len(output)) \in Seq(Chunks)
        /\ output = SubSeq(output, 1, diskEnd) \o SubSeq(output, diskEnd + 1, Len(output))
    BY <1>1, Cut
  <2> QED
    BY <2>1
<1>3. Within(output, EndsOf(s)) = Within(p, EndsOf(s)) \o Within(q, EndsOf(s))
  BY <1>2, WithinConcat
<1>4. /\ Within(output, EndsOf(s)) \in Seq(EndsOf(s)) /\ Within(buffer[s], EndsOf(s)) \in Seq(EndsOf(s))
      /\ Within(p, EndsOf(s)) \in Seq(EndsOf(s)) /\ Within(q, EndsOf(s)) \in Seq(EndsOf(s))
  BY <1>1, WithinType
<1>5. SinkOf(s) = SinkIs(s, Within(output, EndsOf(s)), Within(buffer[s], EndsOf(s)), Within(p, EndsOf(s)))
  BY <1>2, SinkOfIs
<1> QED
  BY <1>2, <1>3, <1>4, <1>5

(* The steps of a log, on a sink whose parts are known.                    *)
SinkAs(s, l, f, y) == SinkOf(s) = [lines |-> l, flushed |-> f, synced |-> y]

LEMMA LogWrite ==
    ASSUME NEW s \in Streams, NEW l, NEW f, NEW y, SinkAs(s, l, f, y),
           NEW r \in LinesOf(s), NEW n \in f..Len(l) + 1,
           SinkOf(s)' = [lines |-> Append(l, r), flushed |-> n, synced |-> y]
    PROVE  Log(s)!Keep
<1>1. SinkOf(s).lines = l /\ SinkOf(s).flushed = f
  BY DEF SinkAs
<1>2. PICK a : a = Append(l, r)
  OBVIOUS
<1>3. SinkOf(s)' = Log(s)!Spilled(Log(s)!Wrote(SinkOf(s), r, FALSE), n)
  <2>1. Log(s)!Wrote(SinkOf(s), r, FALSE) = [lines |-> a, flushed |-> f, synced |-> y]
    BY <1>2 DEF SinkAs, Log!Wrote
  <2>2. [[lines |-> a, flushed |-> f, synced |-> y] EXCEPT !.flushed = n]
          = [lines |-> a, flushed |-> n, synced |-> y]
    OBVIOUS
  <2>3. SinkOf(s)' = [lines |-> a, flushed |-> n, synced |-> y]
    BY <1>2
  <2> QED
    BY <2>1, <2>2, <2>3 DEF Log!Spilled
<1>4. n \in SinkOf(s).flushed..Len(SinkOf(s).lines) + 1
  BY <1>1
<1>5. Log(s)!Write
  BY <1>3, <1>4 DEF Log!Write, LinesOf
<1> QED
  BY <1>5 DEF Log!Keep

LEMMA LogSpill ==
    ASSUME NEW s \in Streams, NEW l, NEW f, NEW y, SinkAs(s, l, f, y), NEW n \in f..Len(l),
           SinkOf(s)' = [lines |-> l, flushed |-> n, synced |-> y]
    PROVE  Log(s)!Keep
<1>1. Log(s)!Spilled(SinkOf(s), n) = [lines |-> l, flushed |-> n, synced |-> y]
  BY DEF SinkAs, Log!Spilled
<1>2. n \in SinkOf(s).flushed..Len(SinkOf(s).lines)
  BY DEF SinkAs
<1>3. Log(s)!Spill
  BY <1>1, <1>2 DEF Log!Spill
<1> QED
  BY <1>3 DEF Log!Keep

LEMMA LogFlush ==
    ASSUME NEW s \in Streams, NEW l, NEW f, NEW y, SinkAs(s, l, f, y),
           SinkOf(s)' = [lines |-> l, flushed |-> Len(l), synced |-> y]
    PROVE  Log(s)!Keep
<1>1. Log(s)!Flushed(SinkOf(s)) = [lines |-> l, flushed |-> Len(l), synced |-> y]
  BY DEF SinkAs, Log!Flushed
<1>2. Log(s)!Flush
  BY <1>1 DEF Log!Flush
<1> QED
  BY <1>2 DEF Log!Keep

LEMMA LogWriteBack ==
    ASSUME NEW s \in Streams, NEW l, NEW f, NEW y, SinkAs(s, l, f, y), NEW n \in y..f,
           SinkOf(s)' = [lines |-> l, flushed |-> f, synced |-> n]
    PROVE  Log(s)!Keep
<1>1. [SinkOf(s) EXCEPT !.synced = n] = [lines |-> l, flushed |-> f, synced |-> n]
  BY DEF SinkAs
<1>2. n \in SinkOf(s).synced..SinkOf(s).flushed
  BY DEF SinkAs
<1>3. Log(s)!WriteBack
  BY <1>1, <1>2 DEF Log!WriteBack
<1> QED
  BY <1>3 DEF Log!Keep

LEMMA LogCrash ==
    ASSUME NEW s \in Streams, NEW l, NEW f, NEW y \in Nat, SinkAs(s, l, f, y), NEW n \in y..Len(l),
           SinkOf(s)' = [lines |-> SubSeq(l, 1, n), flushed |-> n, synced |-> y]
    PROVE  Log(s)!Crash
<1>1. SinkOf(s).lines = l /\ SinkOf(s).synced = y
  BY DEF SinkAs
<1>2. (IF SinkOf(s).synced < n THEN SinkOf(s).synced ELSE n) = y
  BY <1>1
<1>3. Log(s)!Survivors(SinkOf(s), n) = [lines |-> SubSeq(l, 1, n), flushed |-> n, synced |-> y]
  BY <1>1, <1>2 DEF Log!Survivors
<1>4. n \in SinkOf(s).synced..Len(SinkOf(s).lines)
  BY <1>1
<1> QED
  BY <1>3, <1>4 DEF Log!Crash

LEMMA PrefixStays ==
    ASSUME NEW S, NEW p \in Seq(S), NEW x \in Seq(S), NEW k \in 0..Len(p)
    PROVE  SubSeq(p \o x, 1, k) = SubSeq(p, 1, k)
<1>1. PICK q \in Seq(S) : q = p \o x /\ Len(p) <= Len(q) /\ \A i \in 1..Len(p) : q[i] = p[i]
  <2>1. p \o x \in Seq(S)
    BY ConcatProperties, Zenon
  <2>2. Len(p) <= Len(p \o x) /\ \A i \in 1..Len(p) : (p \o x)[i] = p[i]
    BY BehindKeeps
  <2> QED
    BY <2>1, <2>2, Zenon
<1>2. k \in 0..Len(q) /\ \A i \in 1..k : i \in 1..Len(p)
  <2>1. Len(p) \in Nat /\ Len(q) \in Nat
    BY LenProperties, Zenon
  <2>2. Len(p) <= Len(q)
    BY <1>1
  <2> HIDE <1>1
  <2> QED
    BY <2>1, <2>2
<1>3. PICK a \in Seq(S) : a = SubSeq(q, 1, k) /\ Len(a) = k /\ \A i \in 1..k : a[i] = q[i]
  <2> HIDE <1>1
  <2>1. \A n \in 0..Len(q) : /\ SubSeq(q, 1, n) \in Seq(S) /\ Len(SubSeq(q, 1, n)) = n
                            /\ \A i \in 1..n : SubSeq(q, 1, n)[i] = q[i]
    BY CutIs
  <2> QED
    BY <1>2, <2>1, Zenon
<1>4. PICK b \in Seq(S) : b = SubSeq(p, 1, k) /\ Len(b) = k /\ \A i \in 1..k : b[i] = p[i]
  <2>1. /\ SubSeq(p, 1, k) \in Seq(S) /\ Len(SubSeq(p, 1, k)) = k
        /\ \A i \in 1..k : SubSeq(p, 1, k)[i] = p[i]
    BY CutIs
  <2> QED
    BY <2>1
<1>5. \A i \in 1..k : a[i] = b[i]
  BY <1>1, <1>2, <1>3, <1>4
<1>6. a = b
  BY <1>3, <1>4, <1>5, SeqEqual
<1> QED
  BY <1>1, <1>3, <1>4, <1>6

LEMMA DeviceSame ==
    ASSUME Base, NEW x \in Seq(Chunks)
    PROVE  SubSeq(output \o x, 1, diskEnd) = SubSeq(output, 1, diskEnd)
<1>1. output \in Seq(Chunks) /\ diskEnd \in 0..Len(output)
  BY DEF Base, TypeOK
<1> QED
  BY <1>1, PrefixStays

(* A step that gives the output x, and leaves stdio with y.                *)
LEMMA SinkBehind ==
    ASSUME Base, Base', NEW s \in Streams, NEW x \in Seq(Chunks), NEW y,
           output' = output \o x, buffer'[s] = y, diskEnd' = diskEnd
    PROVE  SinkOf(s)' = SinkIs(s, Within(output, EndsOf(s)) \o Within(x, EndsOf(s)), Within(y, EndsOf(s)),
                                  Within(SubSeq(output, 1, diskEnd), EndsOf(s)))
<1>1. Within(output \o x, EndsOf(s)) = Within(output, EndsOf(s)) \o Within(x, EndsOf(s))
  <2>1. output \in Seq(Chunks)
    BY DEF Base, TypeOK
  <2> QED
    BY <2>1, WithinConcat, Zenon
<1>2. SubSeq(output', 1, diskEnd') = SubSeq(output, 1, diskEnd)
  BY DeviceSame
<1> QED
  BY <1>1, <1>2, SinkOfNext

LEMMA EndsIn == ASSUME NEW s PROVE EndsOf(s) \subseteq ChunksOf(s)
BY DEF EndsOf

LEMMA SinkOther ==
    ASSUME Base, Base', NEW s \in Streams, NEW v \in Streams \ {s}, NEW x \in Seq(ChunksOf(v)),
           output' = output \o x, buffer'[s] = buffer[s], diskEnd' = diskEnd
    PROVE  SinkOf(s)' = SinkOf(s)
<1>1. Within(output \o x, EndsOf(s)) = Within(output, EndsOf(s))
  BY EndsIn, OtherStream
<1>2. SubSeq(output', 1, diskEnd') = SubSeq(output, 1, diskEnd)
  BY DeviceSame, ChunksIn
<1> QED
  BY <1>1, <1>2, SinkOfNext, SinkOfIs

(* A chunk behind the buffer, of which the first part goes to the output.  *)
Pairs(C, e, x, y) == (e \o Within(x, C)) \o Within(y, C) = e \o Within(x \o y, C)

LEMMA WithinPairs ==
    ASSUME NEW S, NEW C, NEW x \in Seq(S), NEW y \in Seq(S), NEW e \in Seq(C)
    PROVE  Pairs(C, e, x, y)
<1>1. Within(x, C) \in Seq(C) /\ Within(y, C) \in Seq(C)
  BY WithinType
<1>2. Associates(e, Within(x, C), Within(y, C))
  BY <1>1, Associate
<1>3. (e \o Within(x, C)) \o Within(y, C) = e \o (Within(x, C) \o Within(y, C))
  BY <1>2, Zenon DEF Associates
<1>4. Within(x \o y, C) = Within(x, C) \o Within(y, C)
  BY WithinConcat
<1> QED
  BY <1>3, <1>4, Zenon DEF Pairs

LEMMA WithinBehind ==
    ASSUME NEW S, NEW C, NEW buf \in Seq(S), NEW c \in S, NEW e \in Seq(C)
    PROVE  e \o Within(Append(buf, c), C)
             = IF c \in C THEN Append(e \o Within(buf, C), c) ELSE e \o Within(buf, C)
<1>1. c \in C => \A a \in Seq(C) : e \o Append(a, c) = Append(e \o a, c)
  BY AppendBehind
<1>2. Within(buf, C) \in Seq(C)
  BY WithinType
<1>3. c \in C => e \o Append(Within(buf, C), c) = Append(e \o Within(buf, C), c)
  BY <1>1, <1>2, Zenon
<1>4. Within(Append(buf, c), C) = IF c \in C THEN Append(Within(buf, C), c) ELSE Within(buf, C)
  BY WithinAppend
<1> QED
  BY <1>3, <1>4, Zenon

(* The same, of a write that leaves x and y of the buffer q and the chunk. *)
GoesBehind(s, e, q, c, x, y) ==
    x \o y = Append(q, c) =>
        (e \o Within(x, EndsOf(s))) \o Within(y, EndsOf(s))
          = IF c \in EndsOf(s) THEN Append(e \o Within(q, EndsOf(s)), c) ELSE e \o Within(q, EndsOf(s))

LEMMA EndsPut ==
    ASSUME NEW s, NEW c \in ChunksOf(s), NEW q \in Seq(ChunksOf(s)), NEW e \in Seq(EndsOf(s)),
           NEW x \in Seq(ChunksOf(s)), NEW y \in Seq(ChunksOf(s))
    PROVE  GoesBehind(s, e, q, c, x, y)
<1>1. (e \o Within(x, EndsOf(s))) \o Within(y, EndsOf(s)) = e \o Within(x \o y, EndsOf(s))
  <2>1. Pairs(EndsOf(s), e, x, y)
    BY WithinPairs
  <2> QED
    BY <2>1, Zenon DEF Pairs
<1>2. e \o Within(Append(q, c), EndsOf(s))
        = IF c \in EndsOf(s) THEN Append(e \o Within(q, EndsOf(s)), c) ELSE e \o Within(q, EndsOf(s))
  BY WithinBehind
<1> QED
  BY <1>1, <1>2, Zenon DEF GoesBehind

(* What a log becomes when records go behind e, up to what y keeps back.   *)
LEMMA RecsPassed ==
    ASSUME NEW s, NEW e \in Seq(EndsOf(s)), NEW x \in Seq(EndsOf(s)), NEW y \in Seq(EndsOf(s))
    PROVE  Len(e \o x) \in Len(e)..Len(Recs((e \o x) \o y))
<1>1. e \o x \in Seq(EndsOf(s)) /\ Len(e \o x) = Len(e) + Len(x)
  BY ConcatProperties
<1>2. (e \o x) \o y \in Seq(EndsOf(s)) /\ Len((e \o x) \o y) = Len(e \o x) + Len(y)
  BY <1>1, ConcatProperties
<1>3. Len(Recs((e \o x) \o y)) = Len((e \o x) \o y)
  BY <1>2, RecsType
<1>4. Len(e) \in Nat /\ Len(x) \in Nat /\ Len(y) \in Nat
  BY LenProperties
<1>5. \A a, z, u \in Nat : a + z \in a..a + z + u
  OBVIOUS
<1> QED
  BY <1>1, <1>2, <1>3, <1>4, <1>5, Zenon

(* A write is a Write of its stream's log when the record ends with it.    *)
LEMMA LogPut ==
    ASSUME Base, Base', NEW t \in Threads, pc[t] # "idle", NEW part \in {1, 2}, Put(t, part)
    PROVE  \A s \in Streams : SinkOf(s)' = SinkOf(s) \/ Log(s)!Keep
<1>1. PICK v \in Streams : v = Via(t)
  BY CallIs DEF Base
<1>2. PICK c : c = [rec |-> Record(t), part |-> part]
  OBVIOUS
<1>3. PICK x, y \in Seq(ChunksOf(v)) :
         /\ x \o y = Append(buffer[v], c) /\ output' = output \o x /\ diskEnd' = diskEnd
         /\ buffer' = [buffer EXCEPT ![v] = y] /\ c \in ChunksOf(v)
  BY <1>1, <1>2, PutShape
<1>4. buffer'[v] = y /\ \A s \in Streams \ {v} : buffer'[s] = buffer[s]
  BY <1>3 DEF Base, TypeOK
<1>5. ASSUME NEW s \in Streams \ {v} PROVE SinkOf(s)' = SinkOf(s)
  <2>1. v \in Streams \ {s} /\ buffer'[s] = buffer[s]
    BY <1>4
  <2> HIDE <1>1, <1>2
  <2> QED
    BY <1>3, <2>1, SinkOther
<1>6. Log(v)!Keep
  <2>1. PICK e, b, d \in Seq(EndsOf(v)) :
           /\ e = Within(output, EndsOf(v)) /\ b = Within(buffer[v], EndsOf(v))
           /\ d = Within(SubSeq(output, 1, diskEnd), EndsOf(v))
           /\ SinkOf(v) = SinkIs(v, e, b, d)
    BY SinkShape
  <2>2. PICK g, h \in Seq(EndsOf(v)) : g = Within(x, EndsOf(v)) /\ h = Within(y, EndsOf(v))
    BY WithinType
  <2>3. SinkOf(v)' = SinkIs(v, e \o g, h, d)
    <3>1. x \in Seq(Chunks)
      BY ChunksIn
    <3> QED
      BY <1>3, <1>4, <2>1, <2>2, <3>1, SinkBehind, Zenon
  <2>4. PICK q \in Seq(ChunksOf(v)) : q = buffer[v]
    BY DEF Base, FlowOK
  <2>5. (e \o g) \o h = IF c \in EndsOf(v) THEN Append(e \o b, c) ELSE e \o b
    <3>1. q = buffer[v] /\ x \o y = Append(q, c)
      BY <1>3, <2>4, Zenon
    <3>2. c \in ChunksOf(v)
      BY <1>3
    <3>3. GoesBehind(v, e, q, c, x, y)
      BY <3>2, EndsPut
    <3> QED
      BY <2>1, <2>2, <3>1, <3>3, Zenon DEF GoesBehind
  <2>6. PICK n, l, m : /\ n = Len(e \o g) /\ l = Recs(e \o b) /\ m = Recs((e \o g) \o h)
                       /\ n \in Len(e)..Len(m)
    BY RecsPassed
  <2>7. SinkAs(v, l, Len(e), Len(d)) /\ SinkOf(v)' = [lines |-> m, flushed |-> n, synced |-> Len(d)]
    BY <2>1, <2>3, <2>6, Zenon DEF SinkAs, SinkIs
  <2>8. CASE c \notin EndsOf(v)
    <3>1. m = l
      BY <2>5, <2>6, <2>8, Zenon
    <3> QED
      BY <2>6, <2>7, <3>1, LogSpill, Zenon
  <2>9. CASE c \in EndsOf(v)
    <3>1. e \o b \in Seq(EndsOf(v))
      BY ConcatProperties, Zenon
    <3>2. m = Append(l, c.rec) /\ Len(m) = Len(l) + 1 /\ c.rec \in LinesOf(v)
      <4>1. Recs(Append(e \o b, c)) = Append(Recs(e \o b), c.rec)
        BY <2>9, <3>1, RecsAppend, Zenon
      <4>2. l \in Seq(LinesOf(v))
        BY <2>6, <3>1, RecsType, Zenon
      <4>3. c.rec \in LinesOf(v)
        BY <2>9 DEF EndsOf, ChunksOf, Chunks, LinesOf
      <4>4. m = Append(l, c.rec)
        BY <2>5, <2>6, <2>9, <4>1, Zenon
      <4>5. Len(Append(l, c.rec)) = Len(l) + 1
        BY <4>2, <4>3, OneLonger
      <4> QED
        BY <4>3, <4>4, <4>5, Zenon
    <3>3. n \in Len(e)..Len(l) + 1
      BY <2>6, <3>2, Zenon
    <3> QED
      BY <2>7, <3>2, <3>3, LogWrite, Zenon
  <2> QED
    BY <2>8, <2>9
<1> QED
  BY <1>5, <1>6

(* A flush leaves stdio with nothing.                                      *)
LEMMA LogFlushes ==
    ASSUME Base, Base', NEW t \in Threads, Flush(t)
    PROVE  \A s \in Streams : SinkOf(s)' = SinkOf(s) \/ Log(s)!Keep
<1>1. PICK v \in Streams : v = Via(t)
  BY CallIs DEF Base
<1>2. PICK x \in Seq(ChunksOf(v)) : x = buffer[v]
  BY DEF Base, FlowOK
<1>3. /\ output' = output \o x /\ diskEnd' = diskEnd
      /\ buffer'[v] = <<>> /\ \A s \in Streams \ {v} : buffer'[s] = buffer[s]
  BY <1>1, <1>2 DEF Flush, Base, TypeOK
<1>4. ASSUME NEW s \in Streams \ {v} PROVE SinkOf(s)' = SinkOf(s)
  <2>1. v \in Streams \ {s} /\ buffer'[s] = buffer[s]
    BY <1>3
  <2> HIDE <1>1, <1>2
  <2> QED
    BY <1>3, <2>1, SinkOther
<1>5. Log(v)!Keep
  <2>1. PICK e, b, d \in Seq(EndsOf(v)) :
           /\ e = Within(output, EndsOf(v)) /\ b = Within(buffer[v], EndsOf(v))
           /\ d = Within(SubSeq(output, 1, diskEnd), EndsOf(v))
           /\ SinkOf(v) = SinkIs(v, e, b, d)
    BY SinkShape
  <2>2. SinkOf(v)' = SinkIs(v, e \o b, <<>>, d)
    <3>1. x \in Seq(Chunks)
      BY ChunksIn
    <3>2. SinkOf(v)' = SinkIs(v, e \o Within(x, EndsOf(v)), Within(<<>>, EndsOf(v)), d)
      BY <1>3, <2>1, <3>1, SinkBehind, Zenon
    <3>3. Within(<<>>, EndsOf(v)) = <<>>
      BY WithinEmpty
    <3> QED
      BY <1>2, <2>1, <3>2, <3>3, Zenon
  <2>3. PICK l : l = Recs(e \o b) /\ Len(l) = Len(e \o b) /\ Recs((e \o b) \o <<>>) = l
    <3>1. e \o b \in Seq(EndsOf(v))
      BY ConcatProperties, Zenon
    <3>2. Len(Recs(e \o b)) = Len(e \o b) /\ (e \o b) \o <<>> = e \o b
      BY <3>1, RecsType, ConcatEmptySeq, Zenon
    <3> QED
      BY <3>2, Zenon
  <2>4. SinkAs(v, l, Len(e), Len(d)) /\ SinkOf(v)' = [lines |-> l, flushed |-> Len(l), synced |-> Len(d)]
    BY <2>1, <2>2, <2>3, Zenon DEF SinkAs, SinkIs
  <2> QED
    BY <2>4, LogFlush, Zenon
<1> QED
  BY <1>4, <1>5

LEMMA CutLess ==
    ASSUME NEW S, NEW C, NEW q \in Seq(S), NEW k \in 0..Len(q)
    PROVE  Len(Within(SubSeq(q, 1, k), C)) \in 0..Len(Within(q, C))
<1>1. PICK a, b \in Seq(S) : a = SubSeq(q, 1, k) /\ q = a \o b
  <2>1. /\ SubSeq(q, 1, k) \in Seq(S) /\ SubSeq(q, k + 1, Len(q)) \in Seq(S)
        /\ q = SubSeq(q, 1, k) \o SubSeq(q, k + 1, Len(q))
    BY Cut
  <2> QED
    BY <2>1
<1>2. Within(q, C) = Within(a, C) \o Within(b, C)
  BY <1>1, WithinConcat
<1>3. Within(a, C) \in Seq(C) /\ Within(b, C) \in Seq(C)
  BY WithinType
<1>4. Len(Within(a, C) \o Within(b, C)) = Len(Within(a, C)) + Len(Within(b, C))
  BY <1>3, ConcatProperties, Zenon
<1>5. Len(Within(a, C)) \in Nat /\ Len(Within(b, C)) \in Nat
  BY <1>3, LenProperties
<1>6. \A m, n \in Nat : m \in 0..m + n
  OBVIOUS
<1> QED
  BY <1>1, <1>2, <1>4, <1>5, <1>6, Zenon

(* fdatasync of one appender confirms what all streams gave the system.    *)
LEMMA LogFdatasync ==
    ASSUME Base, Base', NEW t \in Threads, Fdatasync(t), NEW s \in Streams
    PROVE  Log(s)!Keep
<1>1. output' = output /\ buffer' = buffer /\ diskEnd' = Len(output)
  BY DEF Fdatasync
<1>2. PICK e, b, d \in Seq(EndsOf(s)) :
         /\ e = Within(output, EndsOf(s)) /\ b = Within(buffer[s], EndsOf(s))
         /\ d = Within(SubSeq(output, 1, diskEnd), EndsOf(s))
         /\ SinkOf(s) = SinkIs(s, e, b, d)
  BY SinkShape
<1>3. output \in Seq(Chunks) /\ diskEnd \in 0..Len(output)
  BY DEF Base, TypeOK
<1>4. SubSeq(output, 1, Len(output)) = output
  BY <1>3, SubSeqFull
<1>5. SinkOf(s)' = SinkIs(s, e, b, e)
  BY <1>1, <1>2, <1>4, SinkOfNext
<1>6. Len(e) \in Len(d)..Len(e)
  <2>1. Len(d) \in 0..Len(e)
    BY <1>2, <1>3, CutLess
  <2> QED
    BY <2>1, LenProperties
<1>7. /\ SinkAs(s, Recs(e \o b), Len(e), Len(d))
      /\ SinkOf(s)' = [lines |-> Recs(e \o b), flushed |-> Len(e), synced |-> Len(e)]
  BY <1>2, <1>5, Zenon DEF SinkAs, SinkIs
<1> QED
  BY <1>6, <1>7, LogWriteBack, Zenon

LEMMA RecsStop ==
    ASSUME NEW s, NEW e \in Seq(EndsOf(s)), NEW x \in Seq(EndsOf(s)), NEW b \in Seq(EndsOf(s))
    PROVE  /\ SubSeq(Recs((e \o x) \o b), 1, Len(e)) = Recs(e)
           /\ Len(e) \in 0..Len(Recs((e \o x) \o b))
<1>1. Associates(e, x, b)
  BY Associate
<1>2. x \o b \in Seq(EndsOf(s))
  BY ConcatProperties, Zenon
<1>3. SubSeq(Recs(e \o (x \o b)), 1, Len(e)) = Recs(e) /\ Len(e) \in 0..Len(Recs(e \o (x \o b)))
  BY <1>2, RecsCut, Zenon
<1> QED
  BY <1>1, <1>3, Zenon DEF Associates

(* A crash takes a tail of each stream's log, and none of it from the      *)
(* device.                                                                 *)
LEMMA LogStop ==
    ASSUME Base, Base', NEW n \in diskEnd..Len(output), Stop(n), NEW s \in Streams
    PROVE  Log(s)!Crash
<1>1. output \in Seq(Chunks) /\ diskEnd \in 0..Len(output) /\ Len(output) \in Nat
  BY LenProperties DEF Base, TypeOK
<1>2. n \in 0..Len(output) /\ diskEnd \in 0..n
  BY <1>1
<1>3. PICK p, r \in Seq(Chunks) : p = SubSeq(output, 1, n) /\ output = p \o r /\ Len(p) = n
  <2>1. /\ SubSeq(output, 1, n) \in Seq(Chunks) /\ SubSeq(output, n + 1, Len(output)) \in Seq(Chunks)
        /\ output = SubSeq(output, 1, n) \o SubSeq(output, n + 1, Len(output))
        /\ Len(SubSeq(output, 1, n)) = n
    BY <1>1, <1>2, Cut
  <2> QED
    BY <2>1
<1>4. output' = p /\ diskEnd' = diskEnd /\ buffer'[s] = <<>>
  BY <1>3 DEF Stop
<1>5. PICK e, b, d \in Seq(EndsOf(s)) :
         /\ e = Within(output, EndsOf(s)) /\ b = Within(buffer[s], EndsOf(s))
         /\ d = Within(SubSeq(output, 1, diskEnd), EndsOf(s))
         /\ SinkOf(s) = SinkIs(s, e, b, d)
  BY SinkShape
<1>6. PICK g, h \in Seq(EndsOf(s)) : g = Within(p, EndsOf(s)) /\ h = Within(r, EndsOf(s))
  BY WithinType
<1>7. e = g \o h
  <2>1. Within(p \o r, EndsOf(s)) = Within(p, EndsOf(s)) \o Within(r, EndsOf(s))
    BY WithinConcat, Zenon
  <2> QED
    BY <1>3, <1>5, <1>6, <2>1, Zenon
<1>8. SubSeq(p, 1, diskEnd) = SubSeq(output, 1, diskEnd)
  BY <1>2, <1>3, PrefixStays
<1>9. Len(d) \in 0..Len(g)
  BY <1>2, <1>3, <1>5, <1>6, <1>8, CutLess
<1>10. SinkOf(s)' = SinkIs(s, g, <<>>, d)
  <2>1. Within(<<>>, EndsOf(s)) = <<>>
    BY WithinEmpty
  <2> QED
    BY <1>4, <1>5, <1>6, <1>8, <2>1, SinkOfNext
<1>11. PICK l, m : /\ l = Recs(e \o b) /\ m = Len(g)
                   /\ SubSeq(l, 1, m) = Recs(g) /\ m \in 0..Len(l)
  <2>1. /\ SubSeq(Recs((g \o h) \o b), 1, Len(g)) = Recs(g)
        /\ Len(g) \in 0..Len(Recs((g \o h) \o b))
    BY RecsStop
  <2> QED
    BY <1>7, <2>1, Zenon
<1>12. Len(d) \in Nat /\ m \in Len(d)..Len(l)
  BY <1>9, <1>11
<1>13. SinkAs(s, l, Len(e), Len(d)) /\ SinkOf(s)' = [lines |-> SubSeq(l, 1, m), flushed |-> m, synced |-> Len(d)]
  <2>1. g \o <<>> = g
    BY ConcatEmptySeq
  <2> QED
    BY <1>5, <1>10, <1>11, <2>1, Zenon DEF SinkAs, SinkIs
<1> QED
  BY <1>12, <1>13, LogCrash, Zenon

LEMMA LogInit == ASSUME Init, NEW s \in Streams PROVE Log(s)!Init
<1>1. output = <<>> /\ buffer[s] = <<>> /\ diskEnd = 0
  BY DEF Init
<1>2. Base
  BY TypeInit
<1>3. Within(<<>>, EndsOf(s)) = <<>>
  BY WithinEmpty
<1>4. SubSeq(output, 1, diskEnd) = <<>>
  <2>1. output \in Seq(Chunks) /\ Len(output) = 0
    BY <1>1, EmptySeq
  <2>2. SubSeq(output, 1, Len(output)) = output
    BY <2>1, SubSeqFull
  <2> QED
    BY <1>1, <2>1, <2>2
<1>5. SinkOf(s) = SinkIs(s, <<>>, <<>>, <<>>)
  BY <1>1, <1>2, <1>3, <1>4, SinkOfIs
<1>6. <<>> \o <<>> = <<>> /\ Len(<<>>) = 0 /\ Recs(<<>>) = <<>>
  <2>1. <<>> \in Seq(EndsOf(s)) /\ <<>> \in Seq(LinesOf(s)) /\ Len(<<>>) = 0
    BY EmptySeq
  <2>2. <<>> \o <<>> = <<>>
    BY <2>1, ConcatEmptySeq
  <2>3. Recs(<<>>) \in Seq(LinesOf(s)) /\ Len(Recs(<<>>)) = 0
    BY <2>1, RecsType
  <2>4. Recs(<<>>) = <<>>
    BY <2>3, EmptySeq
  <2> QED
    BY <2>1, <2>2, <2>4
<1>7. SinkIs(s, <<>>, <<>>, <<>>) = [lines |-> <<>>, flushed |-> 0, synced |-> 0]
  BY <1>6, Zenon DEF SinkIs
<1> QED
  BY <1>5, <1>7 DEF Log!Init, Log!Empty

(* A step that is not of the output.                                       *)
LEMMA LogQuiet ==
    ASSUME UNCHANGED data, NEW s PROVE SinkOf(s)' = SinkOf(s)
BY DEF data, SinkOf, Ends, ChunksOf, Chunks, Records, Streams

(* EachStreamIsOneLog, in its two parts.                                   *)
LStep == \A s \in Streams :
             \/ SinkOf(s)' = SinkOf(s)
             \/ IF crashes' = crashes THEN Log(s)!Keep ELSE Log(s)!Crash

LInit == \A s \in Streams : Log(s)!Init

LEMMA LogStep == ASSUME Base, Base', [Next]_vars PROVE LStep
<1> USE DEF LStep
<1>1. CASE UNCHANGED vars
  BY <1>1, LogQuiet DEF vars, data
<1>2. ASSUME NEW t \in Threads, Begin(t) \/ Lock(t) \/ Unlock(t) \/ Fail(t) PROVE LStep
  <2>1. UNCHANGED data
    BY <1>2 DEF Begin, Lock, Unlock, Fail
  <2> QED
    BY <2>1, LogQuiet
<1>3. ASSUME NEW t \in Threads, Write(t) \/ WriteRest(t) PROVE LStep
  <2>1. PICK part \in {1, 2} : Put(t, part)
    BY <1>3 DEF Write, WriteRest
  <2>2. pc[t] # "idle" /\ crashes' = crashes
    BY <1>3 DEF Write, WriteRest
  <2> QED
    BY <2>1, <2>2, LogPut
<1>4. ASSUME NEW t \in Threads, Flush(t) PROVE LStep
  <2>1. crashes' = crashes
    BY <1>4 DEF Flush
  <2> QED
    BY <1>4, <2>1, LogFlushes
<1>5. ASSUME NEW t \in Threads, Fdatasync(t) PROVE LStep
  <2>1. crashes' = crashes
    BY <1>5 DEF Fdatasync
  <2> QED
    BY <1>5, <2>1, LogFdatasync
<1>6. CASE Crash \/ PowerLoss
  <2>1. PICK n \in diskEnd..Len(output) : Stop(n)
    <3>1. diskEnd \in 0..Len(output) /\ Len(output) \in Nat
      BY LenProperties DEF Base, TypeOK
    <3> QED
      BY <1>6, <3>1 DEF Crash, PowerLoss
  <2>2. crashes' # crashes
    BY <2>1 DEF Stop, Base, TypeOK
  <2> QED
    BY <2>1, <2>2, LogStop
<1> QED
  BY <1>1, <1>2, <1>3, <1>4, <1>5, <1>6 DEF Next, Work, Rest

(* Each stream is one log, whatever appenders, threads and crashes there   *)
(* are, and whether or not anything fails: only the appenders of a stream  *)
(* put records on its log, and only a crash takes any, none from the       *)
(* device.                                                                 *)
THEOREM StreamsAreLogs == Spec => EachStreamIsOneLog
<1>1. Base /\ Base' /\ [Next]_vars => [LStep]_vars
  BY LogStep
<1>2. Init => LInit
  BY LogInit DEF LInit
<1>3. EachStreamIsOneLog <=> LInit /\ [][LStep]_vars
  BY DEF EachStreamIsOneLog, LInit, LStep
<1> HIDE DEF LInit, LStep, EachStreamIsOneLog
<1> QED
  BY <1>1, <1>2, <1>3, BaseAlways, PTL DEF Spec
=============================================================================
