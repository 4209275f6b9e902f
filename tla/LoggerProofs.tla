---------------------------- MODULE LoggerProofs ----------------------------
(***************************************************************************)
(* Proofs about Logger for any threads, loggers, appenders and calls.      *)
(***************************************************************************)
EXTENDS Logger, FiniteSetTheorems, WellFoundedInduction, TLAPS

LEMMA Least ==
  ASSUME NEW T, T \subseteq Nat, T # {}
  PROVE  \E n \in T : \A m \in T : n <= m
<1> DEFINE R == OpToRel(<, Nat)
<1>1. \A m, n \in Nat : m < n => <<m, n>> \in R
  BY DEF OpToRel
<1>2. IsWellFoundedOn(R, Nat)
  BY NatLessThanWellFounded
<1> HIDE DEF R
<1>3. PICK n \in T : \A m \in T : ~(<<m, n>> \in R)
  BY <1>2, WFMin
<1>4. \A m \in T : ~(m < n)
  BY <1>1, <1>3
<1> QED
  BY <1>4

LEMMA EraseType ==
    ASSUME NEW S, NEW s \in Seq(S), NEW x
    PROVE  Erase(s, x) \in Seq(S)
<1> DEFINE E(f, i) == IF i = 0 THEN <<>>
                      ELSE IF s[i] = x THEN f[i - 1] ELSE Append(f[i - 1], s[i])
           Upto(n, f) == f \in [0..n -> Seq(S)] /\ \A i \in 0..n : f[i] = E(f, i)
           G == CHOOSE f : f = [i \in 0..Len(s) |-> E(f, i)]
<1>1. Len(s) \in Nat /\ \A i \in 1..Len(s) : s[i] \in S
  OBVIOUS
<1>2. \A n \in 0..Len(s) : \E f : Upto(n, f)
  <2> DEFINE Bad == {n \in 0..Len(s) : ~ \E f : Upto(n, f)}
  <2>1. SUFFICES ASSUME Bad # {} PROVE FALSE
    OBVIOUS
  <2>2. PICK n \in Bad : \A m \in Bad : n <= m
    <3>1. Bad \subseteq Nat
      BY <1>1
    <3> HIDE DEF Bad
    <3> QED
      BY <2>1, <3>1, Least
  <2>3. n # 0
    <3>1. Upto(0, [i \in 0..0 |-> <<>>])
      OBVIOUS
    <3> QED
      BY <3>1
  <2>4. n - 1 \in 0..Len(s) /\ n - 1 \notin Bad
    <3>1. n \in 1..Len(s)
      BY <1>1, <2>3
    <3>2. ~(n <= n - 1)
      BY <3>1
    <3> HIDE DEF Bad
    <3> QED
      BY <1>1, <2>2, <3>1, <3>2
  <2>5. PICK f : Upto(n - 1, f)
    <3> HIDE DEF Upto
    <3> QED
      BY <2>4
  <2> DEFINE h == [i \in 0..n |-> IF i = n THEN E(f, n) ELSE f[i]]
  <2>6. E(f, n) \in Seq(S)
    <3>1. f[n - 1] \in Seq(S) /\ s[n] \in S
      BY <1>1, <2>3, <2>4, <2>5
    <3> QED
      BY <2>3, <3>1
  <2>7. h \in [0..n -> Seq(S)]
    BY <1>1, <2>2, <2>5, <2>6
  <2>8. \A i \in 0..n : h[i] = E(h, i)
    <3> SUFFICES ASSUME NEW i \in 0..n PROVE h[i] = E(h, i)
      OBVIOUS
    <3>1. CASE i = n
      <4>1. h[n - 1] = f[n - 1]
        BY <2>3, <2>4
      <4> QED
        BY <1>1, <3>1, <4>1, <2>2, <2>3
    <3>2. CASE i # n
      <4>1. i \in 0..n - 1
        BY <1>1, <2>2, <3>2
      <4>3. f[i] = E(f, i)
        BY <2>5, <4>1
      <4>2. i # 0 => h[i - 1] = f[i - 1]
        BY <1>1, <2>2, <4>1
      <4> QED
        BY <3>2, <4>1, <4>2, <4>3
    <3> QED
      BY <3>1, <3>2
  <2>9. Upto(n, h)
    BY <2>7, <2>8
  <2> QED
    BY <2>2, <2>9
<1>3. PICK f : Upto(Len(s), f)
  BY SMTT(30), <1>1, <1>2
<1>4. f = [i \in 0..Len(s) |-> E(f, i)]
  BY <1>3
<1>5. G = [i \in 0..Len(s) |-> E(G, i)]
  BY <1>4
<1>6. G[Len(s)] = f[Len(s)]
  <2> HIDE DEF G
  <2> DEFINE Bad == {n \in 0..Len(s) : G[n] # f[n]}
  <2>1. SUFFICES ASSUME Bad # {} PROVE FALSE
    BY <1>1
  <2>2. PICK n \in Bad : \A m \in Bad : n <= m
    <3>1. Bad \subseteq Nat
      BY <1>1
    <3> HIDE DEF Bad
    <3> QED
      BY <2>1, <3>1, Least
  <2>3. G[n] = E(G, n) /\ f[n] = E(f, n)
    BY <1>3, <1>5, <2>2
  <2>4. n # 0
    BY <2>2, <2>3
  <2>5. n - 1 \in 0..Len(s) /\ n - 1 \notin Bad
    BY <1>1, <2>2, <2>4
  <2>6. G[n - 1] = f[n - 1]
    BY <2>5
  <2> QED
    BY <2>2, <2>3, <2>4, <2>6
<1>7. Erase(s, x) = G[Len(s)]
  BY DEF Erase
<1>8. f[Len(s)] \in Seq(S)
  BY SMTT(30), <1>1, <1>3
<1> QED
  BY <1>6, <1>7, <1>8

SinkOK == [lines : Seq(Line), flushed : Nat, synced : Nat]

Results == {"none", "ok", "filtered", "dropped", "nowhere", "threw", "rejected"}

LEMMA SinkSteps ==
    ASSUME NEW s \in SinkOK, NEW line \in Line, NEW fatal \in BOOLEAN
    PROVE  Wrote(s, line, fatal) \in SinkOK /\ Flushed(s) \in SinkOK /\ Synced(s) \in SinkOK
BY DEF SinkOK, Wrote, Flushed, Synced

LEMMA InitType == Init => TypeOK
<1> SUFFICES ASSUME Init PROVE TypeOK
  OBVIOUS
<1>1. Empty \in [lines : Seq(Line), flushed : Nat, synced : Nat]
  BY DEF Empty
<1> QED
  BY <1>1, ParameterAssumption DEF Init, TypeOK, Where

Seen == [high : SUBSET Loggers, empty : SUBSET Loggers]

LEMMA SeenType ==
    ASSUME TypeOK
    PROVE  /\ \A t \in Threads : \A lv : [seen EXCEPT ![t] = Refusing(lv)] \in [Threads -> Seen]
           /\ Disturb => seen' \in [Threads -> Seen] /\ stable' \in [Threads -> BOOLEAN]
<1>1. \A lv : Refusing(lv) \in Seen
  BY DEF Refusing, Seen
<1>2. seen \in [Threads -> Seen]
  BY DEF TypeOK, Seen
<1>3. ASSUME NEW high, NEW empty, NEW u \in Threads,
             high \subseteq Loggers, empty \subseteq Loggers
      PROVE  [high |-> seen[u].high \cup high, empty |-> seen[u].empty \cup empty] \in Seen
  BY <1>2, <1>3 DEF Seen
<1>4. ASSUME Disturb, NEW u \in Threads PROVE seen'[u] \in Seen
  <2> DEFINE high  == {lg \in Loggers : Below(call'[u].level, level'[lg])}
             empty == {lg \in Loggers : appenders'[lg] = <<>>}
  <2>1. \/ seen'[u] = seen[u]
        \/ seen'[u] = [high |-> seen[u].high \cup high, empty |-> seen[u].empty \cup empty]
    BY <1>4 DEF Disturb, Refusing
  <2>2. [high |-> seen[u].high \cup high, empty |-> seen[u].empty \cup empty] \in Seen
    BY <1>3
  <2> QED
    BY <1>2, <2>1, <2>2
<1> QED
  BY <1>1, <1>2, <1>4 DEF Disturb

LEMMA TypeStep ==
    ASSUME TypeOK, CallOK, NEW t \in Threads, Step(t) \/ Calls(t)
    PROVE  TypeOK'
<1> USE DEF config, ghosts, Goto, Return
<1>b. ASSUME NEW c \in Call, NEW where \in Where, Begin(t, c, where)
      PROVE  /\ pc' \in [Threads -> Where]
             /\ call' \in [Threads -> Call \cup {None}]
             /\ cur' \in [Threads -> Loggers \cup {None}]
             /\ idx' \in [Threads -> Nat]
             /\ text' \in [Threads -> Formatters \cup {None}]
             /\ calls' \in [Threads -> 0..MaxCalls]
             /\ snap' \in [Threads -> Seq(Appenders)]
             /\ mark' \in [Threads -> [Appenders -> Nat]]
  <2>1. [a \in Appenders |-> Len(sink[a].lines)] \in [Appenders -> Nat]
    BY DEF TypeOK
  <2>2. c.logger \in Loggers \cup {None}
    BY <1>b DEF Call
  <2>3. calls' \in [Threads -> 0..MaxCalls]
    BY <1>b, ParameterAssumption DEF TypeOK, Begin
  <2>4. snap' \in [Threads -> Seq(Appenders)]
    BY <1>b DEF TypeOK, Begin
  <2>5. pc' \in [Threads -> Where] /\ idx' \in [Threads -> Nat]
    BY <1>b DEF TypeOK, Begin
  <2> QED
    BY <1>b, <2>1, <2>2, <2>3, <2>4, <2>5 DEF TypeOK, Begin
<1>s. ASSUME NEW c \in Call, NEW where \in Where, Start(t, c, where) PROVE TypeOK'
  <2>1. seen' \in [Threads -> Seen]
    BY <1>s, SeenType DEF Start
  <2> QED
    BY <1>b, <1>s, <2>1 DEF TypeOK, Start, Seen
<1>c. ASSUME NEW op \in Ops, NEW lg \in Loggers \cup {None}, NEW lv \in Level,
             NEW arg \in Appenders \cup Formatters \cup {None}
      PROVE  [op |-> op, logger |-> lg, level |-> lv, arg |-> arg] \in Call
  BY DEF Call
<1>d. DEBUG \in Level
  BY DEF Level, DEBUG, OFF
<1>l. Levels \subseteq Level
  BY ParameterAssumption
<1>1. CASE CallLog(t)
  <2>1. PICK lg \in Loggers, lv \in Levels :
           Start(t, [op |-> "log", logger |-> lg, level |-> lv, arg |-> None], "shouldLog")
    BY <1>1 DEF CallLog
  <2>2. [op |-> "log", logger |-> lg, level |-> lv, arg |-> None] \in Call
    BY <1>c, <1>l DEF Ops
  <2> QED
    BY <1>s, <2>1, <2>2 DEF Where
<1>2. CASE CallDrain(t)
  <2>1. PICK lg \in Loggers, op \in DrainOps :
           Start(t, [op |-> op, logger |-> lg, level |-> DEBUG, arg |-> None], "enter")
    BY <1>2 DEF CallDrain
  <2>2. [op |-> op, logger |-> lg, level |-> DEBUG, arg |-> None] \in Call
    <3>1. op \in Ops
      BY <2>1 DEF Ops, DrainOps, ConfigOps
    <3> QED
      BY <1>c, <1>d, <3>1
  <2> QED
    BY <1>s, <2>1, <2>2 DEF Where
<1>3. CASE CallConfig(t)
  <2>1. PICK lg \in Loggers, op \in ConfigOps, arg \in Appenders \cup Formatters \cup {None} :
           Start(t, [op |-> op, logger |-> lg, level |-> DEBUG, arg |-> arg], "exclusive")
    BY <1>3 DEF CallConfig
  <2>2. [op |-> op, logger |-> lg, level |-> DEBUG, arg |-> arg] \in Call
    <3>1. op \in Ops
      BY <2>1 DEF Ops
    <3> QED
      BY <1>c, <1>d, <3>1
  <2> QED
    BY <1>s, <2>1, <2>2 DEF Where
<1>4. CASE RejectedCall(t)
  <2>1. PICK lg \in Loggers, op \in {"addAppender", "setFormatter"} :
        /\ Begin(t, [op |-> op, logger |-> lg, level |-> DEBUG, arg |-> None], "idle")
        /\ result' = [result EXCEPT ![t] = "rejected"]
        /\ stable' = [stable EXCEPT ![t] = TRUE]
        /\ UNCHANGED <<config, readers, sink, seen>>
    BY <1>4 DEF RejectedCall
  <2>2. [op |-> op, logger |-> lg, level |-> DEBUG, arg |-> None] \in Call
    <3>1. op \in Ops
      BY <2>1 DEF Ops, ConfigOps
    <3> QED
      BY <1>c, <1>d, <3>1
  <2> QED
    BY <1>b, <2>1, <2>2 DEF Where, TypeOK
<1>5. CASE SetLevel(t)
  <2>1. PICK lg \in Loggers, lv \in Levels :
        /\ Begin(t, [op |-> "setLevel", logger |-> lg, level |-> lv, arg |-> None], "idle")
        /\ level' = [level EXCEPT ![lg] = lv]
        /\ result' = [result EXCEPT ![t] = "ok"]
        /\ UNCHANGED <<formatter, appenders, threshold, readers, sink>>
        /\ Disturb
    BY <1>5 DEF SetLevel
  <2>2. [op |-> "setLevel", logger |-> lg, level |-> lv, arg |-> None] \in Call
    BY <1>c, <1>l DEF Ops
  <2>3. seen' \in [Threads -> Seen] /\ stable' \in [Threads -> BOOLEAN]
    BY <2>1, SeenType
  <2> QED
    BY <1>b, <1>l, <2>1, <2>2, <2>3 DEF Where, TypeOK, Seen
<1>6. CASE AppenderSetLevel(t)
  <2>1. PICK a \in Appenders, lv \in Levels :
        /\ Begin(t, [op |-> "appenderSetLevel", logger |-> None, level |-> lv, arg |-> a], "idle")
        /\ threshold' = [threshold EXCEPT ![a] = lv]
        /\ result' = [result EXCEPT ![t] = "ok"]
        /\ UNCHANGED <<level, formatter, appenders, readers, sink>>
        /\ Disturb
    BY <1>6 DEF AppenderSetLevel
  <2>2. [op |-> "appenderSetLevel", logger |-> None, level |-> lv, arg |-> a] \in Call
    BY <1>c, <1>l DEF Ops
  <2>3. seen' \in [Threads -> Seen] /\ stable' \in [Threads -> BOOLEAN]
    BY <2>1, SeenType
  <2> QED
    BY <1>b, <1>l, <2>1, <2>2, <2>3 DEF Where, TypeOK, Seen
<1>k. ASSUME pc' \in [Threads -> Where], result' \in [Threads -> Results],
             cur' \in [Threads -> Loggers \cup {None}], idx' \in [Threads -> Nat],
             text' \in [Threads -> Formatters \cup {None}],
             sink' \in [Appenders -> SinkOK], readers' \in [Loggers -> SUBSET Threads],
             snap' \in [Threads -> Seq(Appenders)],
             UNCHANGED <<config, call, calls, stable, seen, mark>>
      PROVE  TypeOK'
  BY <1>k DEF TypeOK, SinkOK, Results
<1>t. /\ pc \in [Threads -> Where] /\ result \in [Threads -> Results]
      /\ cur \in [Threads -> Loggers \cup {None}] /\ idx \in [Threads -> Nat]
      /\ text \in [Threads -> Formatters \cup {None}]
      /\ sink \in [Appenders -> SinkOK] /\ readers \in [Loggers -> SUBSET Threads]
      /\ snap \in [Threads -> Seq(Appenders)]
  BY DEF TypeOK, SinkOK, Results
<1>p. /\ \A w \in Where : [pc EXCEPT ![t] = w] \in [Threads -> Where]
      /\ \A how \in Results : [result EXCEPT ![t] = how] \in [Threads -> Results]
      /\ \A lg \in Loggers \cup {None} :
            [cur EXCEPT ![t] = lg] \in [Threads -> Loggers \cup {None}]
      /\ [idx EXCEPT ![t] = @ + 1] \in [Threads -> Nat]
      /\ [idx EXCEPT ![t] = 1] \in [Threads -> Nat]
  BY <1>t
<1>w. Inside \cup {"idle", "shouldLog", "probe", "submit", "enter"} \subseteq Where
  BY DEF Inside, Where
<1>r. ASSUME NEW how \in Results, NEW w \in Where,
             Return(t, how) \/ (Goto(t, w) /\ UNCHANGED result)
      PROVE  pc' \in [Threads -> Where] /\ result' \in [Threads -> Results]
  <2>1. CASE Return(t, how)
    BY <2>1, <1>p, <1>w
  <2>2. CASE Goto(t, w) /\ UNCHANGED result
    BY <2>2, <1>p, <1>t
  <2> QED
    BY <1>r, <2>1, <2>2
<1>7. CASE ShouldLog(t) \/ ProbeYes(t) \/ ProbeRoot(t)
  <2>1. CASE ShouldLog(t)
    <3>1. pc' \in [Threads -> Where] /\ result' \in [Threads -> Results]
      <4>1. Return(t, "filtered") \/ (Goto(t, "probe") /\ UNCHANGED result)
        BY <2>1 DEF ShouldLog
      <4>2. "filtered" \in Results /\ {"probe"} \subseteq Where
        BY <1>w DEF Results
      <4> QED
        BY <4>1, <4>2, <1>r
    <3> QED
      BY <2>1, <3>1, <1>k, <1>t DEF ShouldLog
  <2>2. CASE ProbeYes(t)
    <3>1. call[t].logger \in Loggers
      BY <2>2 DEF ProbeYes, CallOK
    <3>2. pc' \in [Threads -> Where] /\ cur' \in [Threads -> Loggers \cup {None}]
      BY <2>2, <3>1, <1>p, <1>w DEF ProbeYes
    <3> QED
      BY <2>2, <3>2, <1>k, <1>t DEF ProbeYes
  <2>3. CASE ProbeRoot(t)
    <3>1. cur[t] \in Loggers /\ Root[cur[t]] \in Loggers \cup {None}
      BY <2>3, RootAssumption DEF ProbeRoot, CallOK
    <3>2. cur' \in [Threads -> Loggers \cup {None}]
      BY <2>3, <3>1, <1>p, <1>t DEF ProbeRoot
    <3>3. pc' \in [Threads -> Where] /\ result' \in [Threads -> Results]
      <4>1. Return(t, "filtered") \/ (Goto(t, "shouldLog") /\ UNCHANGED result)
        BY <2>3 DEF ProbeRoot
      <4>2. "filtered" \in Results /\ {"shouldLog"} \subseteq Where
        BY <1>w DEF Results
      <4> QED
        BY <4>1, <4>2, <1>r
    <3> QED
      BY <2>3, <3>2, <3>3, <1>k, <1>t DEF ProbeRoot
  <2> QED
    BY <1>7, <2>1, <2>2, <2>3
<1>8. CASE SubmitLevel(t) \/ Enter(t) \/ FallBack(t)
  <2>1. CASE SubmitLevel(t)
    <3>1. pc' \in [Threads -> Where] /\ result' \in [Threads -> Results]
      <4>1. Return(t, "dropped") \/ (Goto(t, "enter") /\ UNCHANGED result)
        BY <2>1 DEF SubmitLevel
      <4>2. "dropped" \in Results /\ {"enter"} \subseteq Where
        BY <1>w DEF Results
      <4> QED
        BY <4>1, <4>2, <1>r
    <3> QED
      BY <2>1, <3>1, <1>k, <1>t DEF SubmitLevel
  <2>2. CASE Enter(t)
    <3>1. cur[t] \in Loggers /\ appenders[cur[t]] \in Seq(Appenders)
      BY <2>2 DEF Enter, CallOK, TypeOK
    <3>2. readers' \in [Loggers -> SUBSET Threads] /\ snap' \in [Threads -> Seq(Appenders)]
      BY <2>2, <3>1, <1>t DEF Enter
    <3>3. pc' \in [Threads -> Where] /\ idx' \in [Threads -> Nat]
      BY <2>2, <1>p, <1>w DEF Enter, Inside
    <3> QED
      BY <2>2, <3>2, <3>3, <1>k, <1>t DEF Enter
  <2>3. CASE FallBack(t)
    <3>1. cur[t] \in Loggers /\ Root[cur[t]] \in Loggers \cup {None}
      BY <2>3, RootAssumption DEF FallBack, CallOK
    <3>2. cur' \in [Threads -> Loggers \cup {None}]
      BY <2>3, <3>1, <1>p, <1>t DEF FallBack
    <3>3. pc' \in [Threads -> Where] /\ result' \in [Threads -> Results]
      <4>1. 
            \/ Return(t, "nowhere")
            \/ Goto(t, "submit") /\ UNCHANGED result
            \/ Goto(t, "enter") /\ UNCHANGED result
        BY <2>3 DEF FallBack
      <4>2. "nowhere" \in Results /\ {"submit", "enter"} \subseteq Where
        BY <1>w DEF Results
      <4> QED
        BY <4>1, <4>2, <1>r
    <3> QED
      BY <2>3, <3>2, <3>3, <1>k, <1>t DEF FallBack
  <2> QED
    BY <1>8, <2>1, <2>2, <2>3
<1>9. CASE Format(t) \/ FormatThrows(t) \/ Gate(t) \/ WriteThrows(t) \/ DrainThrows(t)
  <2>1. CASE Format(t)
    <3>1. formatter[cur[t]] \in Formatters
      BY <2>1 DEF Format, CallOK, TypeOK
    <3>2. text' \in [Threads -> Formatters \cup {None}]
      BY <2>1, <3>1, <1>t DEF Format
    <3>3. pc' \in [Threads -> Where]
      BY <2>1, <1>p, <1>w DEF Format, Inside
    <3> QED
      BY <2>1, <3>2, <3>3, <1>k, <1>t DEF Format
  <2>2. CASE FormatThrows(t) \/ DrainThrows(t)
    <3>1. pc' \in [Threads -> Where] /\ result' \in [Threads -> Results]
      BY <2>2, <1>p, <1>w DEF FormatThrows, DrainThrows, Inside, Results
    <3> QED
      BY <2>2, <3>1, <1>k, <1>t DEF FormatThrows, DrainThrows
  <2>3. CASE Gate(t)
    <3>1. pc' \in [Threads -> Where] /\ idx' \in [Threads -> Nat]
      BY <2>3, <1>p, <1>t, <1>w DEF Gate, Advance, Inside
    <3> QED
      BY <2>3, <3>1, <1>k, <1>t DEF Gate
  <2>4. CASE WriteThrows(t)
    <3>1. pc' \in [Threads -> Where] /\ idx' \in [Threads -> Nat] /\ result' \in [Threads -> Results]
      BY <2>4, <1>p, <1>w DEF WriteThrows, Advance, Inside, Results
    <3> QED
      BY <2>4, <3>1, <1>k, <1>t DEF WriteThrows
  <2> QED
    BY <1>9, <2>1, <2>2, <2>3, <2>4
<1>10. CASE Write(t)
  <2>1. [rec |-> Record(t), level |-> call[t].level, fmt |-> text[t], via |-> cur[t]] \in Line
    <3>1. call[t] \in Call /\ cur[t] \in Loggers /\ text[t] = formatter[cur[t]]
      BY <1>10 DEF Write, CallOK
    <3>2. call[t].level \in Level /\ text[t] \in Formatters /\ Record(t) \in Records
      BY <3>1 DEF Call, TypeOK, Record, Records
    <3> QED
      BY <3>1, <3>2 DEF Line
  <2>2. \A s \in SinkOK :
           Wrote(s, [rec |-> Record(t), level |-> call[t].level, fmt |-> text[t], via |-> cur[t]],
                 call[t].level = FATAL) \in SinkOK
    BY <2>1, SinkSteps
  <2>3. sink' \in [Appenders -> SinkOK]
    BY <1>10, <2>2, <1>t DEF Write
  <2>4. pc' \in [Threads -> Where] /\ idx' \in [Threads -> Nat]
    BY <1>10, <1>p, <1>w DEF Write, Advance, Inside
  <2> QED
    BY <1>10, <2>3, <2>4, <1>k, <1>t DEF Write
<1>11. CASE Drain(t)
  <2>1. \A s \in SinkOK : Flushed(s) \in SinkOK /\ Synced(s) \in SinkOK
    BY DEF SinkOK, Flushed, Synced
  <2>2. sink' \in [Appenders -> SinkOK] /\ idx' \in [Threads -> Nat]
    BY <1>11, <2>1, <1>t, <1>p DEF Drain, Advance
  <2> QED
    BY <1>11, <2>2, <1>k, <1>t DEF Drain
<1>12. CASE Leave(t)
  <2>1. readers' \in [Loggers -> SUBSET Threads]
    BY <1>12, <1>t DEF Leave
  <2>2. pc' \in [Threads -> Where] /\ result' \in [Threads -> Results]
    BY <1>12, <1>p, <1>w DEF Leave, Results
  <2> QED
    BY <1>12, <2>1, <2>2, <1>k, <1>t DEF Leave
<1>f. ASSUME Done(t), appenders' \in [Loggers -> Seq(Appenders)], formatter' \in [Loggers -> Formatters]
      PROVE  TypeOK'
  <2>1. seen' \in [Threads -> Seen] /\ stable' \in [Threads -> BOOLEAN]
    BY <1>f, SeenType DEF Done
  <2> QED
    BY <1>f, <2>1 DEF TypeOK, Done, Where, Seen
<1>13. CASE AddAppender(t)
  <2>1. call[t].arg \in Appenders
    BY <1>13 DEF AddAppender, Locked, CallOK, TakesArg
  <2> QED
    <3>1. \A list \in Seq(Appenders) : Append(list, call[t].arg) \in Seq(Appenders)
      BY <2>1
    <3>2. appenders' \in [Loggers -> Seq(Appenders)]
      BY <1>13, <3>1 DEF TypeOK, AddAppender
    <3> QED
      BY <1>13, <1>f, <3>2 DEF TypeOK, AddAppender
<1>14. CASE RemoveAppender(t)
  BY <1>14, <1>f, EraseType DEF TypeOK, RemoveAppender
<1>15. CASE ClearAppenders(t)
  <2>1. appenders' \in [Loggers -> Seq(Appenders)]
    <3>1. <<>> \in Seq(Appenders)
      OBVIOUS
    <3> QED
      BY <1>15, <3>1 DEF TypeOK, ClearAppenders
  <2> QED
    BY <1>15, <1>f, <2>1 DEF TypeOK, ClearAppenders
<1>16. CASE SetFormatter(t)
  <2>1. call[t].arg \in Formatters
    BY <1>16 DEF SetFormatter, Locked, CallOK, TakesArg
  <2> QED
    BY <1>16, <1>f, <2>1 DEF TypeOK, SetFormatter
<1> QED
  BY <1>1, <1>2, <1>3, <1>4, <1>5, <1>6, <1>7, <1>8, <1>9, <1>10, <1>11, <1>12, <1>13,
     <1>14, <1>15, <1>16 DEF Step, Work, Throw, Calls
LEMMA InitInside == Init => ListFrozen /\ CallOK
BY DEF Init, ListFrozen, CallOK, Inside

(* What each other thread's view needs: its lists and formatters change    *)
(* only while it is in no list.                                            *)
LEMMA FrozenStep ==
    ASSUME TypeOK, CallOK, ListFrozen, NEW t \in Threads, Step(t) \/ Calls(t)
    PROVE  ListFrozen'
<1> USE DEF config, ghosts, Goto, Return
<1>1. ASSUME NEW c, NEW where \in {"idle", "shouldLog", "enter", "exclusive"},
             Begin(t, c, where), UNCHANGED <<appenders, readers>>
      PROVE  ListFrozen'
  <2>1. /\ pc'[t] = where /\ pc[t] = "idle"
        /\ \A u \in Threads \ {t} : pc'[u] = pc[u] /\ cur'[u] = cur[u]
        /\ \A u \in Threads \ {t} : snap'[u] = snap[u] /\ idx'[u] = idx[u]
    BY <1>1 DEF Begin, TypeOK
  <2>2. pc[t] \notin Inside /\ pc'[t] \notin Inside
    BY <1>1, <2>1 DEF Inside
  <2>3. \A lg \in Loggers : t \notin readers[lg]
    BY <2>2 DEF ListFrozen
  <2>4. appenders' = appenders /\ readers' = readers
    BY <1>1
  <2> QED
    BY <2>1, <2>2, <2>3, <2>4 DEF ListFrozen
<1>2. CASE Calls(t)
  <2>1. CASE CallLog(t)
    BY <1>1, <2>1 DEF CallLog, Start
  <2>2. CASE CallDrain(t)
    BY <1>1, <2>2 DEF CallDrain, Start
  <2>3. CASE CallConfig(t)
    BY <1>1, <2>3 DEF CallConfig, Start
  <2>4. CASE RejectedCall(t)
    BY <1>1, <2>4 DEF RejectedCall
  <2>5. CASE SetLevel(t)
    BY <1>1, <2>5 DEF SetLevel
  <2>6. CASE AppenderSetLevel(t)
    BY <1>1, <2>6 DEF AppenderSetLevel
  <2> QED
    BY <1>2, <2>1, <2>2, <2>3, <2>4, <2>5, <2>6 DEF Calls
<1>3. CASE ShouldLog(t) \/ ProbeYes(t) \/ ProbeRoot(t) \/ SubmitLevel(t) \/ FallBack(t)
  <2>1. /\ pc[t] \notin Inside /\ pc'[t] \notin Inside
        /\ \A u \in Threads \ {t} : pc'[u] = pc[u] /\ cur'[u] = cur[u]
        /\ UNCHANGED <<appenders, readers, snap, idx>>
    BY <1>3 DEF TypeOK, ShouldLog, ProbeYes, ProbeRoot, SubmitLevel, FallBack, Inside
  <2> QED
    BY <2>1 DEF ListFrozen
<1>4. CASE Enter(t)
  <2>1. /\ pc[t] = "enter" /\ pc'[t] \in {"format", "drain"}
        /\ cur' = cur /\ cur[t] \in Loggers /\ appenders' = appenders
        /\ readers' = [readers EXCEPT ![cur[t]] = @ \cup {t}]
        /\ snap' = [snap EXCEPT ![t] = appenders[cur[t]]]
        /\ idx' = [idx EXCEPT ![t] = 1]
        /\ \A u \in Threads \ {t} : pc'[u] = pc[u]
    BY <1>4 DEF TypeOK, CallOK, Enter
  <2>2. Len(appenders[cur[t]]) \in Nat
    BY <2>1 DEF TypeOK
  <2>3. /\ t \in readers'[cur[t]] /\ snap'[t] = appenders[cur[t]] /\ idx'[t] = 1
        /\ \A lg \in Loggers : t \in readers'[lg] => lg = cur[t]
    BY <2>1 DEF TypeOK, ListFrozen, Inside
  <2>4. \A u \in Threads \ {t} :
           /\ snap'[u] = snap[u] /\ idx'[u] = idx[u]
           /\ \A lg \in Loggers : u \in readers'[lg] <=> u \in readers[lg]
    BY <2>1 DEF TypeOK
  <2> QED
    BY <2>1, <2>2, <2>3, <2>4 DEF ListFrozen, Inside, CallOK
<1>5. CASE Format(t) \/ FormatThrows(t) \/ Gate(t) \/ Write(t) \/ WriteThrows(t)
              \/ Drain(t) \/ DrainThrows(t)
  <2>1. /\ pc[t] \in Inside /\ pc'[t] \in Inside
        /\ \A u \in Threads \ {t} : pc'[u] = pc[u] /\ idx'[u] = idx[u]
        /\ UNCHANGED <<appenders, readers, snap, cur>>
    BY <1>5 DEF TypeOK, Format, FormatThrows, Gate, Write, WriteThrows, Drain, DrainThrows,
                Advance, Inside
  <2>2. /\ idx'[t] \in 1..Len(snap[t]) + 1
        /\ pc'[t] = "write" => idx'[t] <= Len(snap[t])
    <3>1. /\ snap[t] = appenders[cur[t]] /\ idx[t] \in 1..Len(snap[t]) + 1
          /\ Len(snap[t]) \in Nat /\ idx[t] \in Nat
          /\ pc[t] = "write" => idx[t] <= Len(snap[t])
      BY <2>1 DEF ListFrozen, TypeOK
    <3>2. CASE idx' = idx /\ pc'[t] # "write"
      BY <3>1, <3>2
    <3>3. CASE idx' = idx /\ pc'[t] = "write" /\ More(t)
      BY <3>1, <3>3 DEF More
    <3>4. CASE idx'[t] = idx[t] + 1 /\ pc'[t] # "write" /\ idx[t] <= Len(snap[t])
      BY <3>1, <3>4
    <3>5. CASE Gate(t)
      <4>1. \/ pc'[t] # "write" /\ idx'[t] = idx[t] + 1
            \/ pc'[t] = "write" /\ idx' = idx
        BY <1>5, <3>5 DEF Gate, Advance, TypeOK
      <4> QED
        BY <3>1, <3>3, <3>4, <3>5, <4>1 DEF Gate, More
    <3> QED
      BY <1>5, <3>1, <3>2, <3>4, <3>5 DEF TypeOK, Format, FormatThrows, Write, WriteThrows, Drain,
                      DrainThrows, Advance, More
  <2> QED
    BY <2>1, <2>2 DEF ListFrozen
<1>6. CASE Leave(t)
  BY <1>6 DEF TypeOK, ListFrozen, Leave, Inside
<1>7. CASE AddAppender(t) \/ RemoveAppender(t) \/ ClearAppenders(t) \/ SetFormatter(t)
  <2>1. /\ pc[t] = "exclusive" /\ pc'[t] = "idle" /\ readers[cur[t]] = {}
        /\ \A u \in Threads \ {t} : pc'[u] = pc[u]
        /\ \A lg \in Loggers : lg # cur[t] => appenders'[lg] = appenders[lg]
        /\ UNCHANGED <<readers, snap, cur, idx>>
    BY <1>7 DEF TypeOK, AddAppender, RemoveAppender, ClearAppenders, SetFormatter, Locked,
                Exclusive, Done
  <2>2. ASSUME NEW u \in Threads, pc'[u] \in Inside
        PROVE  pc[u] \in Inside /\ cur[u] \in Loggers /\ cur[u] # cur[t]
    <3>1. u # t /\ pc[u] \in Inside
      BY <2>1, <2>2 DEF Inside
    <3>2. u \in readers[cur[u]] /\ cur[u] \in Loggers
      BY <3>1 DEF ListFrozen, CallOK, Inside
    <3> QED
      BY <2>1, <3>1, <3>2
  <2>3. \A u \in Threads, lg \in Loggers : u \in readers[lg] => u # t
    BY <2>1 DEF ListFrozen, Inside
  <2> QED
    BY <2>1, <2>2, <2>3 DEF ListFrozen
<1> QED
  BY <1>2, <1>3, <1>4, <1>5, <1>6, <1>7 DEF Step, Work, Throw

LEMMA CallStep ==
    ASSUME TypeOK, CallOK, ListFrozen, NEW t \in Threads, Step(t) \/ Calls(t)
    PROVE  CallOK'
<1> USE DEF config, ghosts, Goto, Return
<1> USE RootAssumption, ParameterAssumption
<1> DEFINE Same(u) == pc'[u] = pc[u] /\ call'[u] = call[u] /\ cur'[u] = cur[u] /\ text'[u] = text[u]
<1>o. ASSUME \A u \in Threads \ {t} : Same(u), formatter' = formatter,
             pc'[t] # "idle" =>
                /\ call'[t] \in Call
                /\ call'[t].logger \in Loggers
                /\ cur'[t] \in Loggers
                /\ pc'[t] \in {"shouldLog", "probe", "submit", "format", "append", "write"} =>
                     call'[t].op = "log"
                /\ pc'[t] = "drain" => call'[t].op \in DrainOps
                /\ pc'[t] = "enter" => call'[t].op \in DrainOps \cup {"log"}
                /\ pc'[t] = "exclusive" => TakesArg(call'[t].op, call'[t].arg)
                /\ pc'[t] \in {"append", "write"} => text'[t] = formatter[cur'[t]]
      PROVE  CallOK'
  BY <1>o DEF CallOK, TakesArg
<1>1. ASSUME NEW c \in Call, NEW where \in {"idle", "shouldLog", "enter", "exclusive"},
             Begin(t, c, where), formatter' = formatter,
             where # "idle" => c.logger \in Loggers,
             where = "shouldLog" => c.op = "log",
             where = "enter" => c.op \in DrainOps,
             where = "exclusive" => TakesArg(c.op, c.arg)
      PROVE  CallOK'
  <2>1. /\ \A u \in Threads \ {t} : Same(u)
        /\ pc'[t] = where /\ call'[t] = c /\ cur'[t] = c.logger
    BY <1>1 DEF Begin, TypeOK
  <2> QED
    BY <1>1, <1>o, <2>1
<1>c. ASSUME NEW op \in Ops, NEW lg \in Loggers \cup {None}, NEW lv \in Level,
             NEW arg \in Appenders \cup Formatters \cup {None}
      PROVE  [op |-> op, logger |-> lg, level |-> lv, arg |-> arg] \in Call
  BY DEF Call
<1>d. DEBUG \in Level /\ ConfigOps \subseteq Ops /\ DrainOps \subseteq Ops
  BY DEF Level, DEBUG, OFF, Ops
<1>2. CASE CallLog(t)
  <2>1. PICK lg \in Loggers, lv \in Levels :
           Start(t, [op |-> "log", logger |-> lg, level |-> lv, arg |-> None], "shouldLog")
    BY <1>2 DEF CallLog
  <2>2. [op |-> "log", logger |-> lg, level |-> lv, arg |-> None] \in Call
    BY <1>c DEF Ops
  <2> QED
    BY <1>1, <2>1, <2>2 DEF Start
<1>3. CASE CallDrain(t)
  <2>1. PICK lg \in Loggers, op \in DrainOps :
           Start(t, [op |-> op, logger |-> lg, level |-> DEBUG, arg |-> None], "enter")
    BY <1>3 DEF CallDrain
  <2>2. [op |-> op, logger |-> lg, level |-> DEBUG, arg |-> None] \in Call
    BY <1>c, <1>d
  <2> QED
    BY <1>1, <2>1, <2>2 DEF Start
<1>4. CASE CallConfig(t)
  <2>1. PICK lg \in Loggers, op \in ConfigOps, arg \in Appenders \cup Formatters \cup {None} :
           /\ TakesArg(op, arg)
           /\ Start(t, [op |-> op, logger |-> lg, level |-> DEBUG, arg |-> arg], "exclusive")
    BY <1>4 DEF CallConfig
  <2>2. [op |-> op, logger |-> lg, level |-> DEBUG, arg |-> arg] \in Call
    BY <1>c, <1>d
  <2> QED
    BY <1>1, <2>1, <2>2 DEF Start
<1>5. CASE RejectedCall(t) \/ SetLevel(t) \/ AppenderSetLevel(t)
  <2>1. (\A u \in Threads \ {t} : Same(u)) /\ pc'[t] = "idle" /\ formatter' = formatter
    BY <1>5 DEF RejectedCall, SetLevel, AppenderSetLevel, Begin, TypeOK
  <2> QED
    BY <1>o, <2>1
<1>6. CASE ShouldLog(t) \/ SubmitLevel(t)
  <2>1. /\ \A u \in Threads \ {t} : Same(u)
        /\ call' = call /\ cur' = cur /\ text' = text /\ formatter' = formatter
        /\ pc[t] \in {"shouldLog", "submit"} /\ pc'[t] \in {"idle", "probe", "enter"}
    BY <1>6 DEF ShouldLog, SubmitLevel, TypeOK
  <2> QED
    BY <1>o, <2>1 DEF CallOK
<1>7. CASE ProbeYes(t)
  <2>1. /\ \A u \in Threads \ {t} : Same(u)
        /\ call' = call /\ formatter' = formatter /\ pc[t] = "probe" /\ pc'[t] = "submit"
        /\ cur'[t] = call[t].logger
    BY <1>7 DEF ProbeYes, TypeOK
  <2> QED
    BY <1>o, <2>1 DEF CallOK
<1>8. CASE ProbeRoot(t) \/ FallBack(t)
  <2>1. /\ \A u \in Threads \ {t} : Same(u)
        /\ call' = call /\ formatter' = formatter
        /\ pc[t] \in {"probe", "enter"} /\ pc'[t] \in {"idle", "shouldLog", "submit", "enter"}
        /\ pc'[t] \in {"shouldLog", "submit"} => call[t].op = "log"
        /\ pc'[t] = "enter" => pc[t] = "enter"
        /\ pc'[t] # "idle" => cur'[t] = Root[cur[t]] /\ Root[cur[t]] # None
    BY <1>8 DEF ProbeRoot, FallBack, TypeOK, CallOK
  <2>2. cur[t] \in Loggers
    BY <2>1 DEF CallOK
  <2>3. pc'[t] # "idle" => cur'[t] \in Loggers
    BY <2>1, <2>2
  <2> QED
    BY <1>o, <2>1, <2>3 DEF CallOK
<1>9. CASE Enter(t)
  <2>1. /\ \A u \in Threads \ {t} : Same(u)
        /\ call' = call /\ cur' = cur /\ text' = text /\ formatter' = formatter
        /\ pc[t] = "enter"
        /\ \/ pc'[t] = "format" /\ call[t].op = "log"
           \/ pc'[t] = "drain" /\ call[t].op # "log"
    BY <1>9 DEF Enter, TypeOK
  <2> QED
    BY <1>o, <2>1 DEF CallOK
<1>10. CASE Format(t)
  <2>1. /\ \A u \in Threads \ {t} : Same(u)
        /\ call' = call /\ cur' = cur /\ formatter' = formatter
        /\ pc[t] = "format" /\ pc'[t] = "append" /\ text'[t] = formatter[cur[t]]
    BY <1>10 DEF Format, TypeOK
  <2> QED
    BY <1>o, <2>1 DEF CallOK
<1>11. CASE FormatThrows(t) \/ Gate(t) \/ Write(t) \/ WriteThrows(t)
  <2>1. /\ \A u \in Threads \ {t} : Same(u)
        /\ call' = call /\ cur' = cur /\ text' = text /\ formatter' = formatter
        /\ pc[t] \in {"format", "append", "write"} /\ pc'[t] \in {"leave", "append", "write"}
        /\ pc[t] = "format" => pc'[t] = "leave"
    BY <1>11 DEF FormatThrows, Gate, Write, WriteThrows, TypeOK
  <2> QED
    BY <1>o, <2>1 DEF CallOK
<1>12. CASE Drain(t) \/ DrainThrows(t) \/ Leave(t)
  <2>1. /\ \A u \in Threads \ {t} : Same(u)
        /\ call' = call /\ cur' = cur /\ text' = text /\ formatter' = formatter
        /\ pc[t] \in Inside
        /\ pc'[t] \in {"leave", "idle"} \/ (pc[t] = "drain" /\ pc'[t] = "drain")
    BY <1>12 DEF Drain, DrainThrows, Leave, TypeOK, Inside
  <2> QED
    BY <1>o, <2>1 DEF CallOK, Inside
<1>13. CASE AddAppender(t) \/ RemoveAppender(t) \/ ClearAppenders(t)
  <2>1. (\A u \in Threads \ {t} : Same(u)) /\ pc'[t] = "idle" /\ formatter' = formatter
    BY <1>13 DEF AddAppender, RemoveAppender, ClearAppenders, Done, TypeOK
  <2> QED
    BY <1>o, <2>1
<1>14. CASE SetFormatter(t)
  <2>1. /\ \A u \in Threads \ {t} : Same(u)
        /\ pc'[t] = "idle" /\ readers[cur[t]] = {}
        /\ \A lg \in Loggers : lg # cur[t] => formatter'[lg] = formatter[lg]
    BY <1>14 DEF SetFormatter, Locked, Exclusive, Done, TypeOK
  <2>2. ASSUME NEW u \in Threads, pc'[u] \in {"append", "write"}
        PROVE  text'[u] = formatter'[cur'[u]]
    <3>1. u # t /\ pc[u] = pc'[u] /\ pc[u] # "idle" /\ pc[u] \in Inside
      BY <2>1, <2>2 DEF Inside
    <3>2. cur[u] \in Loggers /\ u \in readers[cur[u]] /\ text[u] = formatter[cur[u]]
      BY <2>2, <3>1 DEF ListFrozen, CallOK
    <3> QED
      BY <2>1, <3>1, <3>2
  <2> QED
    BY <2>1, <2>2 DEF CallOK, TakesArg
<1> QED
  BY <1>2, <1>3, <1>4, <1>5, <1>6, <1>7, <1>8, <1>9, <1>10, <1>11, <1>12, <1>13, <1>14
  DEF Step, Work, Throw, Calls

-----------------------------------------------------------------------------

Inv == TypeOK /\ ListFrozen /\ CallOK

LEMMA InvInductive == Inv /\ [Next]_vars => Inv'
<1> SUFFICES ASSUME Inv, [Next]_vars PROVE Inv'
  OBVIOUS
<1>1. ASSUME NEW t \in Threads, Calls(t) \/ Step(t) PROVE Inv'
  BY <1>1, TypeStep, FrozenStep, CallStep DEF Inv
<1>2. CASE UNCHANGED vars
  BY <1>2 DEF Inv, vars, TypeOK, ListFrozen, CallOK, Inside
<1> QED
  BY <1>1, <1>2 DEF Next, Quiet

LEMMA Invariance == Spec => []Inv
<1>1. Init => Inv
  BY InitType, InitInside DEF Inv
<1> QED
  BY <1>1, InvInductive, PTL DEF Spec

(* Every variable keeps its type, and in particular no list ever holds a   *)
(* null appender and no logger a null formatter, which submit dereferences *)
(* unchecked.                                                              *)
THEOREM TypeCorrect == Spec => []TypeOK
BY Invariance, PTL DEF Inv

(* Any number of threads may log, drain and reconfigure any loggers: the   *)
(* list a thread iterates over is never changed under it.                  *)
THEOREM ListsAreFrozen == Spec => []ListFrozen
BY Invariance, PTL DEF Inv

(* What is rendered is what the logger's formatter, still, would render.   *)
THEOREM CallsAreConsistent == Spec => []CallOK
BY Invariance, PTL DEF Inv

(* Only the three operations on the list change it, and they change the    *)
(* list of a logger that nobody is in.                                     *)
LEMMA ListChanges ==
    ASSUME TypeOK, NEW u \in Threads, Calls(u) \/ Step(u),
           NEW lg \in Loggers, appenders'[lg] # appenders[lg]
    PROVE  readers[lg] = {}
<1> USE DEF config, ghosts
<1>1. CASE CallLog(u) \/ CallDrain(u) \/ CallConfig(u)
  BY <1>1 DEF CallLog, CallDrain, CallConfig, Start
<1>2. CASE RejectedCall(u) \/ SetLevel(u) \/ AppenderSetLevel(u)
  BY <1>2 DEF RejectedCall, SetLevel, AppenderSetLevel
<1>3. CASE ShouldLog(u) \/ ProbeYes(u) \/ ProbeRoot(u) \/ SubmitLevel(u) \/ Enter(u) \/ FallBack(u)
  BY <1>3 DEF ShouldLog, ProbeYes, ProbeRoot, SubmitLevel, Enter, FallBack
<1>4. CASE Format(u) \/ Gate(u) \/ Write(u) \/ Drain(u) \/ Leave(u) \/ Throw(u)
  BY <1>4 DEF Format, Gate, Write, Drain, Leave, Throw, FormatThrows, WriteThrows, DrainThrows
<1>5. CASE SetFormatter(u)
  BY <1>5 DEF SetFormatter
<1>6. CASE AddAppender(u) \/ RemoveAppender(u) \/ ClearAppenders(u)
  <2>1. readers[cur[u]] = {} /\ \E list : appenders' = [appenders EXCEPT ![cur[u]] = list]
    BY <1>6 DEF AddAppender, RemoveAppender, ClearAppenders, Locked, Exclusive
  <2>2. lg = cur[u]
    BY <2>1 DEF TypeOK
  <2> QED
    BY <2>1, <2>2
<1> QED
  BY <1>1, <1>2, <1>3, <1>4, <1>5, <1>6 DEF Calls, Step, Work

(* No call is half-way through a list that an appender is taken out of.    *)
THEOREM RemovalIsFinal == Spec => NoLateWrite
<1> DEFINE Late(t, lg) == Pending(t) \cap (Listed(lg) \ Listed(lg)')
           Final == \A lg \in Loggers, t \in Threads :
                        (pc[t] \in Inside \ {"leave"} /\ cur[t] = lg) => Late(t, lg) = {}
<1>1. Inv /\ [Next]_vars => [Final]_vars
  <2> SUFFICES ASSUME Inv, Next, ~UNCHANGED vars, NEW lg \in Loggers, NEW t \in Threads,
                      pc[t] \in Inside, cur[t] = lg
               PROVE  Late(t, lg) = {}
    OBVIOUS
  <2>1. t \in readers[lg]
    BY DEF Inv, ListFrozen
  <2>2. PICK u \in Threads : Calls(u) \/ Step(u)
    BY DEF Next, Quiet
  <2>3. appenders'[lg] = appenders[lg]
    BY <2>1, <2>2, ListChanges DEF Inv
  <2>4. Listed(lg)' = Listed(lg)
    BY <2>3 DEF Listed
  <2> QED
    BY <2>4
<1> QED
  BY <1>1, Invariance, PTL DEF Spec, NoLateWrite

-----------------------------------------------------------------------------
(* What a call has achieved by the time it returns.  The invariants above  *)
(* say that a call is safe; those below say how far it has got: on which   *)
(* logger it is and why (OnCourse, Decided), what it has drained of what   *)
(* there was when it began (Marks, Draining), and which copies of its      *)
(* record it has written (Named, Delivering).                              *)

(* No appender claims more than it was given, and a call begins with what  *)
(* is there.                                                               *)
Marks ==
    \A a \in Appenders :
        /\ sink[a].flushed <= Len(sink[a].lines)
        /\ sink[a].synced <= Len(sink[a].lines)
        /\ \A u \in Threads : mark[u][a] <= Len(sink[a].lines)

(* What another thread's step leaves of a call.                            *)
Same(u) ==
    /\ pc'[u] = pc[u] /\ call'[u] = call[u] /\ cur'[u] = cur[u] /\ idx'[u] = idx[u]
    /\ calls'[u] = calls[u] /\ result'[u] = result[u] /\ snap'[u] = snap[u]
    /\ mark'[u] = mark[u]
    /\ stable'[u] => stable[u]

(* What a step of t does to an appender.                                   *)
Moves(t, a) ==
    \/ sink'[a] = sink[a]
    \/ pc[t] = "drain" /\ sink'[a] = Flushed(sink[a])
    \/ pc[t] = "drain" /\ sink'[a] = Synced(sink[a])
    \/ pc[t] = "write" /\ \E line \in Line, fatal \in BOOLEAN :
            line.rec = Record(t) /\ line.via = cur[t] /\ sink'[a] = Wrote(sink[a], line, fatal)

Settled == UNCHANGED <<level, appenders, threshold>>

LEMMA Frame ==
    ASSUME Inv, NEW t \in Threads, Step(t) \/ Calls(t)
    PROVE  /\ \A u \in Threads \ {t} : Same(u)
           /\ Settled \/ \A u \in Threads : ~stable'[u]
           /\ \A a \in Appenders : Moves(t, a)
<1> USE DEF config, ghosts, Goto, Return
<1>1. ASSUME NEW c, NEW where, Begin(t, c, where), UNCHANGED sink,
             \A u \in Threads \ {t} : result'[u] = result[u] /\ (stable'[u] => stable[u])
      PROVE  (\A u \in Threads \ {t} : Same(u)) /\ (\A a \in Appenders : Moves(t, a))
  BY <1>1 DEF Begin, Inv, TypeOK, Same, Moves
<1>2. CASE Calls(t)
  <2>1. CASE CallLog(t) \/ CallDrain(t) \/ CallConfig(t) \/ RejectedCall(t)
    <3>1. PICK c, where : Begin(t, c, where)
      BY <2>1 DEF CallLog, CallDrain, CallConfig, RejectedCall, Start
    <3>2. /\ UNCHANGED <<config, sink>>
          /\ \A u \in Threads \ {t} : result'[u] = result[u] /\ (stable'[u] => stable[u])
      BY <2>1 DEF CallLog, CallDrain, CallConfig, RejectedCall, Start, Inv, TypeOK
    <3> QED
      BY <1>1, <3>1, <3>2 DEF Settled
  <2>2. CASE SetLevel(t) \/ AppenderSetLevel(t)
    <3>1. PICK c, where : Begin(t, c, where)
      BY <2>2 DEF SetLevel, AppenderSetLevel
    <3>2. /\ UNCHANGED sink /\ \A u \in Threads : ~stable'[u]
          /\ \A u \in Threads \ {t} : result'[u] = result[u]
      BY <2>2 DEF SetLevel, AppenderSetLevel, Disturb, Inv, TypeOK
    <3> QED
      BY <1>1, <3>1, <3>2
  <2> QED
    BY <1>2, <2>1, <2>2 DEF Calls
<1>3. CASE ShouldLog(t) \/ ProbeYes(t) \/ ProbeRoot(t)
  BY <1>3 DEF ShouldLog, ProbeYes, ProbeRoot, Inv, TypeOK, Same, Moves, Settled
<1>4. CASE SubmitLevel(t) \/ Enter(t) \/ FallBack(t)
  BY <1>4 DEF SubmitLevel, Enter, FallBack, Inv, TypeOK, Same, Moves, Settled
<1>5. CASE Format(t) \/ FormatThrows(t) \/ Gate(t) \/ WriteThrows(t)
  BY <1>5 DEF Format, FormatThrows, Gate, WriteThrows, Advance, Inv, TypeOK, Same, Moves, Settled
<1>6. CASE DrainThrows(t) \/ Leave(t)
  BY <1>6 DEF DrainThrows, Leave, Inv, TypeOK, Same, Moves, Settled
<1>7. CASE Drain(t)
  <2>1. (\A u \in Threads \ {t} : Same(u)) /\ Settled
    BY <1>7 DEF Drain, Advance, Inv, TypeOK, Same, Settled
  <2>2. \A a \in Appenders : Moves(t, a)
    BY <1>7 DEF Drain, Inv, TypeOK, Moves
  <2> QED
    BY <2>1, <2>2
<1>8. CASE Write(t)
  <2>1. (\A u \in Threads \ {t} : Same(u)) /\ Settled
    BY <1>8 DEF Write, Advance, Inv, TypeOK, Same, Settled
  <2> DEFINE line == [rec |-> Record(t), level |-> call[t].level, fmt |-> text[t], via |-> cur[t]]
  <2>2. line \in Line
    <3>1. call[t] \in Call /\ cur[t] \in Loggers /\ text[t] = formatter[cur[t]]
      BY <1>8 DEF Write, Inv, CallOK
    <3>2. call[t].level \in Level /\ text[t] \in Formatters /\ Record(t) \in Records
      BY <3>1 DEF Call, Inv, TypeOK, Record, Records
    <3> QED
      BY <3>1, <3>2 DEF Line
  <2>3. /\ line.rec = Record(t) /\ line.via = cur[t] /\ pc[t] = "write"
        /\ sink' = [sink EXCEPT ![Here(t)] = Wrote(@, line, call[t].level = FATAL)]
    BY <1>8 DEF Write
  <2> HIDE DEF line
  <2>4. \A a \in Appenders :
           \/ sink'[a] = sink[a]
           \/ sink'[a] = Wrote(sink[a], line, call[t].level = FATAL)
    BY <2>3 DEF Inv, TypeOK
  <2>5. (call[t].level = FATAL) \in BOOLEAN
    OBVIOUS
  <2> QED
    BY <2>1, <2>2, <2>3, <2>4, <2>5 DEF Moves
<1>9. CASE AddAppender(t) \/ RemoveAppender(t) \/ ClearAppenders(t) \/ SetFormatter(t)
  <2>1. Done(t)
    BY <1>9 DEF AddAppender, RemoveAppender, ClearAppenders, SetFormatter
  <2> QED
    BY <2>1 DEF Done, Disturb, Inv, TypeOK, Same, Moves
<1> QED
  BY <1>2, <1>3, <1>4, <1>5, <1>6, <1>7, <1>8, <1>9 DEF Step, Work, Throw

(* The counts of an appender only grow.                                    *)
LEMMA SinksGrow ==
    ASSUME Inv, Marks, NEW t \in Threads, NEW a \in Appenders, Moves(t, a)
    PROVE  /\ Len(sink'[a].lines) >= Len(sink[a].lines)
           /\ sink'[a].flushed >= sink[a].flushed /\ sink'[a].synced >= sink[a].synced
           /\ sink'[a].flushed <= Len(sink'[a].lines) /\ sink'[a].synced <= Len(sink'[a].lines)
           /\ sink'[a].flushed \in Nat /\ sink'[a].synced \in Nat /\ Len(sink'[a].lines) \in Nat
<1>1. /\ sink[a] \in SinkOK /\ Len(sink[a].lines) \in Nat
      /\ sink[a].flushed \in Nat /\ sink[a].synced \in Nat /\ sink[a].lines \in Seq(Line)
  BY DEF Inv, TypeOK, SinkOK
<1>2. sink[a].flushed <= Len(sink[a].lines) /\ sink[a].synced <= Len(sink[a].lines)
  BY DEF Marks
<1>3. CASE sink'[a] = sink[a]
  BY <1>1, <1>2, <1>3
<1>4. CASE sink'[a] = Flushed(sink[a])
  <2>1. sink'[a].lines = sink[a].lines /\ sink'[a].flushed = Len(sink[a].lines)
        /\ sink'[a].synced = sink[a].synced
    BY <1>1, <1>4 DEF Flushed, SinkOK
  <2> QED
    BY <1>1, <1>2, <2>1
<1>5. CASE sink'[a] = Synced(sink[a])
  BY <1>1, <1>2, <1>5 DEF Synced
<1>6. ASSUME NEW line \in Line, NEW fatal \in BOOLEAN, sink'[a] = Wrote(sink[a], line, fatal)
      PROVE  /\ sink'[a].lines = Append(sink[a].lines, line)
             /\ sink'[a].flushed \in {sink[a].flushed, Len(sink[a].lines) + 1}
             /\ sink'[a].synced = sink[a].synced
  BY <1>6 DEF Wrote
<1>7. \A line \in Line : Len(Append(sink[a].lines, line)) = Len(sink[a].lines) + 1
  BY <1>1
<1>8. ASSUME NEW line \in Line, NEW fatal \in BOOLEAN, sink'[a] = Wrote(sink[a], line, fatal)
      PROVE  /\ Len(sink'[a].lines) = Len(sink[a].lines) + 1
             /\ sink'[a].flushed \in {sink[a].flushed, Len(sink[a].lines) + 1}
             /\ sink'[a].synced = sink[a].synced
  BY <1>6, <1>7, <1>8
<1>9. CASE \E line \in Line, fatal \in BOOLEAN : sink'[a] = Wrote(sink[a], line, fatal)
  <2>1. /\ Len(sink'[a].lines) = Len(sink[a].lines) + 1
        /\ sink'[a].flushed \in {sink[a].flushed, Len(sink[a].lines) + 1}
        /\ sink'[a].synced = sink[a].synced
    BY <1>8, <1>9
  <2> DEFINE n == Len(sink[a].lines)   f == sink[a].flushed   y == sink[a].synced
             m == Len(sink'[a].lines)  g == sink'[a].flushed  z == sink'[a].synced
  <2>2. /\ n \in Nat /\ f \in Nat /\ y \in Nat /\ f <= n /\ y <= n
        /\ m = n + 1 /\ g \in {f, n + 1} /\ z = y
    BY <1>1, <1>2, <2>1
  <2> HIDE DEF n, f, y, m, g, z
  <2>3. /\ m >= n /\ g >= f /\ z >= y /\ g <= m /\ z <= m
        /\ g \in Nat /\ z \in Nat /\ m \in Nat
    BY <2>2
  <2> QED
    BY <2>3 DEF n, f, y, m, g, z
<1> QED
  BY <1>3, <1>4, <1>5, <1>9 DEF Moves

LEMMA MarkStep ==
    ASSUME Inv, Inv', Marks, NEW t \in Threads, Step(t) \/ Calls(t)
    PROVE  Marks'
<1>1. \A a \in Appenders : Moves(t, a)
  BY Frame
<1>2. \A u \in Threads \ {t} : mark'[u] = mark[u]
  BY Frame DEF Same
<1>3. \/ mark'[t] = mark[t]
      \/ \A a \in Appenders : mark'[t][a] = Len(sink[a].lines)
  <2>1. mark' = mark \/ mark' = [mark EXCEPT ![t] = [a \in Appenders |-> Len(sink[a].lines)]]
    <3>1. CASE Calls(t)
      BY <3>1 DEF Calls, CallLog, CallDrain, CallConfig, RejectedCall, Start, SetLevel,
                  AppenderSetLevel, Begin
    <3>2. CASE Work(t)
      BY <3>2 DEF Work, ShouldLog, ProbeYes, ProbeRoot, SubmitLevel, Enter, FallBack, Format, Gate,
                  Write, Drain, Leave, AddAppender, RemoveAppender, ClearAppenders, SetFormatter,
                  Done, ghosts
    <3>3. CASE Throw(t)
      BY <3>3 DEF Throw, FormatThrows, WriteThrows, DrainThrows
    <3> QED
      BY <3>1, <3>2, <3>3 DEF Step
  <2>2. mark \in [Threads -> [Appenders -> Nat]]
    BY DEF Inv, TypeOK
  <2> QED
    BY <2>1, <2>2
<1>4. \A u \in Threads, a \in Appenders : mark[u][a] \in Nat /\ mark'[u][a] \in Nat
  BY DEF Inv, TypeOK
<1>5. ASSUME NEW u \in Threads, NEW a \in Appenders
      PROVE  mark'[u][a] <= Len(sink'[a].lines)
  <2>1. Len(sink'[a].lines) >= Len(sink[a].lines) /\ Len(sink'[a].lines) \in Nat
    <3>1. Moves(t, a)
      BY <1>1
    <3> QED
      BY <3>1, SinksGrow
  <2>4. Len(sink[a].lines) \in Nat
    <3>1. sink[a] \in [lines : Seq(Line), flushed : Nat, synced : Nat]
      BY DEF Inv, TypeOK
    <3> QED
      BY <3>1
  <2>2. mark[u][a] <= Len(sink[a].lines)
    BY DEF Marks
  <2>3. mark'[u][a] \in {mark[u][a], Len(sink[a].lines)}
    BY <1>2, <1>3
  <2>5. mark[u][a] \in Nat /\ mark'[u][a] \in Nat
    BY <1>4
  <2> DEFINE n == Len(sink[a].lines)  m == Len(sink'[a].lines)  k == mark[u][a]  l == mark'[u][a]
  <2>6. n \in Nat /\ m \in Nat /\ k \in Nat /\ m >= n /\ k <= n /\ l \in {k, n}
    BY <2>1, <2>2, <2>3, <2>4, <2>5
  <2> HIDE DEF n, m, k, l
  <2>7. l <= m
    BY <2>6
  <2> QED
    BY <2>7 DEF m, l
<1> QED
  BY <1>1, <1>5, SinksGrow DEF Marks

(* The places of a call that has written nothing yet.                      *)
Unwritten == {"shouldLog", "probe", "submit", "enter", "format"}

Written(rec) ==
    \E a \in Appenders : \E i \in 1..Len(sink[a].lines) : sink[a].lines[i].rec = rec

(* A line bears the number of a call that has been made, and of one that   *)
(* has come to its writing.                                                *)
Named ==
    \A u \in Threads, n \in 0..MaxCalls :
        Written(<<u, n>>) => n <= calls[u] /\ (pc[u] \in Unwritten => n < calls[u])

(* What a step leaves of the call of the thread that makes it.             *)
LEMMA StepKeeps ==
    ASSUME Inv, NEW t \in Threads, Step(t)
    PROVE  /\ call'[t] = call[t] /\ calls'[t] = calls[t] /\ mark'[t] = mark[t]
           /\ stable'[t] => stable[t]
           /\ pc[t] # "idle"
           /\ pc'[t] \in Unwritten => pc[t] \in Unwritten
           /\ pc[t] = "write" => pc'[t] = "append"
<1> USE DEF config, ghosts, Goto, Return, Unwritten
<1>1. CASE ShouldLog(t) \/ ProbeYes(t) \/ ProbeRoot(t)
  BY <1>1 DEF ShouldLog, ProbeYes, ProbeRoot, Inv, TypeOK
<1>2. CASE SubmitLevel(t) \/ Enter(t) \/ FallBack(t)
  BY <1>2 DEF SubmitLevel, Enter, FallBack, Inv, TypeOK
<1>3. CASE Format(t) \/ FormatThrows(t) \/ Gate(t) \/ Write(t) \/ WriteThrows(t)
  BY <1>3 DEF Format, FormatThrows, Gate, Write, WriteThrows, Advance, Inv, TypeOK
<1>4. CASE Drain(t) \/ DrainThrows(t) \/ Leave(t)
  BY <1>4 DEF Drain, DrainThrows, Leave, Advance, Inv, TypeOK
<1>5. CASE AddAppender(t) \/ RemoveAppender(t) \/ ClearAppenders(t) \/ SetFormatter(t)
  <2>1. Done(t) /\ pc[t] = "exclusive"
    BY <1>5 DEF AddAppender, RemoveAppender, ClearAppenders, SetFormatter, Locked
  <2> QED
    BY <2>1 DEF Done, Disturb, Inv, TypeOK
<1> QED
  BY <1>1, <1>2, <1>3, <1>4, <1>5 DEF Step, Work, Throw

(* What a call is when it has begun.                                       *)
LEMMA CallBegins ==
    ASSUME Inv, NEW t \in Threads, Calls(t)
    PROVE  /\ pc[t] = "idle" /\ calls'[t] = calls[t] + 1 /\ UNCHANGED <<sink, appenders>>
           /\ snap'[t] = <<>> /\ mark'[t] = [a \in Appenders |-> Len(sink[a].lines)]
           /\ call'[t] \in Call /\ cur'[t] = call'[t].logger
           /\ \/ pc'[t] = "shouldLog" /\ call'[t].op = "log"
              \/ pc'[t] = "enter" /\ call'[t].op \in DrainOps
              \/ pc'[t] \in {"idle", "exclusive"} /\ call'[t].op \notin DrainOps \cup {"log"}
           /\ pc'[t] # "idle" => result'[t] = "none"
<1> USE DEF config
<1>1. ASSUME NEW c \in Call, NEW where, Begin(t, c, where)
      PROVE  /\ pc[t] = "idle" /\ calls'[t] = calls[t] + 1
             /\ snap'[t] = <<>> /\ mark'[t] = [a \in Appenders |-> Len(sink[a].lines)]
             /\ call'[t] = c /\ cur'[t] = c.logger /\ pc'[t] = where
  BY <1>1 DEF Begin, Inv, TypeOK
<1>c. ASSUME NEW op \in Ops, NEW lg \in Loggers \cup {None}, NEW lv \in Level,
             NEW arg \in Appenders \cup Formatters \cup {None}
      PROVE  [op |-> op, logger |-> lg, level |-> lv, arg |-> arg] \in Call
  BY DEF Call
<1>d. /\ DEBUG \in Level /\ Levels \subseteq Level /\ ConfigOps \subseteq Ops /\ DrainOps \subseteq Ops
      /\ {"log", "setLevel", "appenderSetLevel", "addAppender", "setFormatter"} \subseteq Ops
  BY ParameterAssumption DEF Level, DEBUG, OFF, Ops, ConfigOps
<1>n. \A op \in ConfigOps \cup {"setLevel", "appenderSetLevel", "addAppender", "setFormatter"} :
          op \notin DrainOps \cup {"log"}
  BY DEF ConfigOps, DrainOps
<1>s. ASSUME NEW c \in Call, NEW where, Start(t, c, where)
      PROVE  /\ UNCHANGED <<sink, appenders>> /\ Begin(t, c, where) /\ result'[t] = "none"
  BY <1>s DEF Start, Inv, TypeOK
<1>2. CASE CallLog(t)
  <2>1. PICK lg \in Loggers, lv \in Levels :
           Start(t, [op |-> "log", logger |-> lg, level |-> lv, arg |-> None], "shouldLog")
    BY <1>2 DEF CallLog
  <2> DEFINE c == [op |-> "log", logger |-> lg, level |-> lv, arg |-> None]
  <2>2. c \in Call /\ c.op = "log" /\ Start(t, c, "shouldLog")
    BY <1>c, <1>d, <2>1
  <2> HIDE DEF c
  <2> QED
    BY <1>1, <1>s, <2>2
<1>3. CASE CallDrain(t)
  <2>1. PICK lg \in Loggers, op \in DrainOps :
           Start(t, [op |-> op, logger |-> lg, level |-> DEBUG, arg |-> None], "enter")
    BY <1>3 DEF CallDrain
  <2> DEFINE c == [op |-> op, logger |-> lg, level |-> DEBUG, arg |-> None]
  <2>2. c \in Call /\ c.op \in DrainOps /\ Start(t, c, "enter")
    BY <1>c, <1>d, <2>1
  <2> HIDE DEF c
  <2> QED
    BY <1>1, <1>s, <2>2
<1>4. CASE CallConfig(t)
  <2>1. PICK lg \in Loggers, op \in ConfigOps, arg \in Appenders \cup Formatters \cup {None} :
           Start(t, [op |-> op, logger |-> lg, level |-> DEBUG, arg |-> arg], "exclusive")
    BY <1>4 DEF CallConfig
  <2> DEFINE c == [op |-> op, logger |-> lg, level |-> DEBUG, arg |-> arg]
  <2>2. c \in Call /\ c.op \notin DrainOps \cup {"log"} /\ Start(t, c, "exclusive")
    BY <1>c, <1>d, <1>n, <2>1
  <2> HIDE DEF c
  <2> QED
    BY <1>1, <1>s, <2>2
<1>5. CASE RejectedCall(t) \/ SetLevel(t) \/ AppenderSetLevel(t)
  <2>1. \E op \in {"setLevel", "appenderSetLevel", "addAppender", "setFormatter"},
           lg \in Loggers \cup {None}, lv \in Level, arg \in Appenders \cup {None} :
              Begin(t, [op |-> op, logger |-> lg, level |-> lv, arg |-> arg], "idle")
    <3>1. CASE RejectedCall(t)
      BY <1>d, <3>1 DEF RejectedCall
    <3>2. CASE SetLevel(t)
      BY <1>d, <3>2 DEF SetLevel
    <3>3. CASE AppenderSetLevel(t)
      BY <1>d, <3>3 DEF AppenderSetLevel
    <3> QED
      BY <1>5, <3>1, <3>2, <3>3
  <2>2. PICK op \in {"setLevel", "appenderSetLevel", "addAppender", "setFormatter"},
             lg \in Loggers \cup {None}, lv \in Level, arg \in Appenders \cup {None} :
               Begin(t, [op |-> op, logger |-> lg, level |-> lv, arg |-> arg], "idle")
    BY <2>1
  <2> DEFINE c == [op |-> op, logger |-> lg, level |-> lv, arg |-> arg]
  <2>3. c \in Call /\ c.op \notin DrainOps \cup {"log"} /\ Begin(t, c, "idle")
    BY <1>c, <1>d, <1>n, <2>2
  <2>4. UNCHANGED <<sink, appenders>>
    BY <1>5 DEF RejectedCall, SetLevel, AppenderSetLevel
  <2> HIDE DEF c
  <2> QED
    BY <1>1, <2>3, <2>4
<1> QED
  BY <1>2, <1>3, <1>4, <1>5 DEF Calls

(* A line that was not there is one of the call that is in its write.      *)
LEMMA NewLine ==
    ASSUME Inv, NEW t \in Threads, \A a \in Appenders : Moves(t, a), NEW rec, Written(rec)'
    PROVE  Written(rec) \/ (pc[t] = "write" /\ rec = Record(t))
<1>1. PICK a \in Appenders : \E i \in 1..Len(sink'[a].lines) : sink'[a].lines[i].rec = rec
  BY DEF Written
<1>2. PICK i \in 1..Len(sink'[a].lines) : sink'[a].lines[i].rec = rec
  BY <1>1
<1>3. sink[a] \in SinkOK /\ sink[a].lines \in Seq(Line)
  BY DEF Inv, TypeOK, SinkOK
<1>4. CASE sink'[a].lines = sink[a].lines
  BY <1>2, <1>4 DEF Written
<1>5. CASE pc[t] = "write" /\ \E line \in Line :
               line.rec = Record(t) /\ sink'[a].lines = Append(sink[a].lines, line)
  <2>1. PICK line \in Line : line.rec = Record(t) /\ sink'[a].lines = Append(sink[a].lines, line)
    BY <1>5
  <2>2. \/ i \in 1..Len(sink[a].lines) /\ sink'[a].lines[i] = sink[a].lines[i]
        \/ sink'[a].lines[i] = line
    BY <1>2, <1>3, <2>1
  <2> QED
    BY <1>2, <1>5, <2>1, <2>2 DEF Written
<1>6. \/ sink'[a].lines = sink[a].lines
      \/ pc[t] = "write" /\ \E line \in Line :
            line.rec = Record(t) /\ sink'[a].lines = Append(sink[a].lines, line)
  <2>1. Flushed(sink[a]).lines = sink[a].lines /\ Synced(sink[a]).lines = sink[a].lines
    BY <1>3 DEF Flushed, Synced, SinkOK
  <2>2. \A line, fatal : Wrote(sink[a], line, fatal).lines = Append(sink[a].lines, line)
    BY DEF Wrote
  <2> QED
    BY <2>1, <2>2 DEF Moves
<1> QED
  BY <1>4, <1>5, <1>6

LEMMA NameStep ==
    ASSUME Inv, Named, NEW t \in Threads, Step(t) \/ Calls(t)
    PROVE  Named'
<1> SUFFICES ASSUME NEW u \in Threads, NEW n \in 0..MaxCalls, Written(<<u, n>>)'
             PROVE  n <= calls'[u] /\ (pc'[u] \in Unwritten => n < calls'[u])
  BY DEF Named
<1>1. Written(<<u, n>>) \/ (pc[t] = "write" /\ <<u, n>> = Record(t))
  BY Frame, NewLine
<1>2. calls[u] \in Nat /\ calls[t] \in Nat /\ n \in Nat
  BY ParameterAssumption DEF Inv, TypeOK
<1>3. CASE u # t
  <2>1. pc'[u] = pc[u] /\ calls'[u] = calls[u]
    BY <1>3, Frame DEF Same
  <2>2. Written(<<u, n>>)
    BY <1>1, <1>3 DEF Record
  <2> QED
    BY <2>1, <2>2 DEF Named
<1>4. CASE u = t /\ Calls(t)
  <2>1. pc[t] = "idle" /\ calls'[t] = calls[t] + 1
    BY <1>4, CallBegins
  <2>2. n <= calls[t]
    BY <1>1, <1>4, <2>1 DEF Named
  <2> QED
    BY <1>2, <1>4, <2>1, <2>2
<1>5. CASE u = t /\ Step(t)
  <2>1. /\ calls'[t] = calls[t] /\ (pc'[t] \in Unwritten => pc[t] \in Unwritten)
        /\ pc[t] = "write" => pc'[t] = "append"
    BY <1>5, StepKeeps
  <2>2. CASE Written(<<u, n>>)
    BY <1>5, <2>1, <2>2 DEF Named
  <2>3. CASE pc[t] = "write" /\ <<u, n>> = Record(t)
    BY <1>2, <1>5, <2>1, <2>3 DEF Record, Unwritten
  <2> QED
    BY <1>1, <2>2, <2>3
<1> QED
  BY <1>3, <1>4, <1>5

(* A call is on its logger, or on the root because that logger has no      *)
(* appenders; it has thrown if it is about to leave without having ended   *)
(* its walk.                                                               *)
OnCourse(u) ==
    pc[u] # "idle" =>
        /\ result[u] \in {"none", "threw"}
        /\ pc[u] \notin Inside => result[u] = "none"
        /\ pc[u] = "leave" => result[u] = "threw"
        /\ pc[u] \in Inside => snap[u] # <<>>
        /\ stable[u] => \/ cur[u] = call[u].logger
                        \/ appenders[call[u].logger] = <<>> /\ cur[u] = Root[call[u].logger]

(* The first n appenders of the walk have let go of what they held when    *)
(* the call began.                                                         *)
Covered(u, n) ==
    \A i \in 1..n :
        /\ sink[snap[u][i]].flushed >= mark[u][snap[u][i]]
        /\ call[u].op = "sync" => sink[snap[u][i]].synced >= mark[u][snap[u][i]]

Draining(u) == pc[u] = "drain" => Covered(u, idx[u] - 1)

(* DrainCovers, for one thread.                                            *)
Drained(u) ==
    (pc[u] = "idle" /\ call[u] # None /\ call[u].op \in DrainOps /\ result[u] = "ok") =>
        /\ Covered(u, Len(snap[u]))
        /\ stable[u] =>
             LET lg == call[u].logger
             IN  snap[u] = appenders[IF appenders[lg] = <<>> THEN Root[lg] ELSE lg]

LEMMA CourseStep ==
    ASSUME Inv, NEW t \in Threads, Step(t) \/ Calls(t), \A u \in Threads : OnCourse(u)
    PROVE  \A u \in Threads : OnCourse(u)'
<1> USE DEF config, ghosts, Goto, Return
<1> SUFFICES ASSUME NEW u \in Threads PROVE OnCourse(u)'
  OBVIOUS
<1>1. CASE u # t
  BY <1>1, Frame DEF OnCourse, Same, Settled
<1>2. CASE u = t /\ Calls(t)
  BY <1>2, CallBegins DEF OnCourse, Inside
<1>3. CASE u = t /\ (ShouldLog(t) \/ SubmitLevel(t))
  <2>1. pc[t] # "idle" /\ pc[t] \notin Inside
        /\ pc'[t] \in {"idle", "probe", "enter"}
        /\ (pc'[t] # "idle" => result' = result)
        /\ UNCHANGED <<snap, stable, cur, call, appenders>>
    BY <1>3 DEF ShouldLog, SubmitLevel, Inv, TypeOK, Inside
  <2> QED
    BY <1>3, <2>1 DEF OnCourse, Inside
<1>4. CASE u = t /\ ProbeYes(t)
  BY <1>4 DEF ProbeYes, OnCourse, Inside, Inv, TypeOK
<1>5. CASE u = t /\ (ProbeRoot(t) \/ FallBack(t))
  <2>1. /\ pc[t] \in {"probe", "enter"} /\ appenders[cur[t]] = <<>>
        /\ pc'[t] # "idle" =>
              /\ pc'[t] \in {"shouldLog", "submit", "enter"} /\ result' = result
              /\ cur'[t] = Root[cur[t]] /\ Root[cur[t]] # None
        /\ UNCHANGED <<snap, stable, call, appenders>>
    BY <1>5 DEF ProbeRoot, FallBack, Inv, TypeOK
  <2>2. call[t].logger \in Loggers /\ cur[t] \in Loggers
    BY <2>1 DEF Inv, CallOK
  <2>3. ASSUME stable[t], Root[cur[t]] # None PROVE cur[t] = call[t].logger
    BY <2>1, <2>2, <2>3, RootAssumption, <1>5 DEF OnCourse
  <2>4. CASE pc'[t] = "idle"
    BY <1>5, <2>4 DEF OnCourse
  <2>5. CASE pc'[t] # "idle"
    <3>1. pc'[t] \notin Inside /\ pc[t] # "idle"
      BY <2>1, <2>5 DEF Inside
    <3>2. result'[t] = "none"
      <4>1. pc[t] \notin Inside
        BY <2>1 DEF Inside
      <4> QED
        BY <1>5, <2>1, <2>5, <3>1, <4>1 DEF OnCourse
    <3>3. stable'[t] =>
             appenders'[call'[t].logger] = <<>> /\ cur'[t] = Root[call'[t].logger]
      BY <2>1, <2>3, <2>5
    <3> QED
      BY <1>5, <3>1, <3>2, <3>3 DEF OnCourse, Inside
  <2> QED
    BY <2>4, <2>5
<1>6. CASE u = t /\ Enter(t)
  <2>1. /\ pc[t] = "enter" /\ pc'[t] \in {"format", "drain"}
        /\ snap'[t] = appenders[cur[t]] /\ appenders[cur[t]] # <<>>
        /\ UNCHANGED <<result, stable, cur, call, appenders>>
    BY <1>6 DEF Enter, Inv, TypeOK
  <2> QED
    BY <1>6, <2>1 DEF OnCourse, Inside
<1>7. CASE u = t /\ (Format(t) \/ Gate(t) \/ Write(t) \/ Drain(t))
  <2>1. /\ pc[t] \in Inside /\ pc'[t] \in Inside \ {"leave"}
        /\ UNCHANGED <<result, stable, cur, call, appenders, snap>>
    BY <1>7 DEF Format, Gate, Write, Drain, Inv, TypeOK, Inside
  <2> QED
    BY <1>7, <2>1 DEF OnCourse, Inside
<1>8. CASE u = t /\ (FormatThrows(t) \/ WriteThrows(t) \/ DrainThrows(t))
  <2>1. /\ pc[t] \in Inside /\ pc'[t] \in Inside /\ result'[t] = "threw"
        /\ UNCHANGED <<stable, cur, call, appenders, snap>>
    BY <1>8 DEF FormatThrows, WriteThrows, DrainThrows, Inv, TypeOK, Inside
  <2> QED
    BY <1>8, <2>1 DEF OnCourse, Inside
<1>9. CASE u = t /\ (Leave(t) \/ AddAppender(t) \/ RemoveAppender(t) \/ ClearAppenders(t)
                     \/ SetFormatter(t))
  <2>1. pc'[t] = "idle"
    BY <1>9 DEF Leave, AddAppender, RemoveAppender, ClearAppenders, SetFormatter, Done, Inv, TypeOK
  <2> QED
    BY <1>9, <2>1 DEF OnCourse
<1> QED
  BY <1>1, <1>2, <1>3, <1>4, <1>5, <1>6, <1>7, <1>8, <1>9 DEF Step, Work, Throw

(* What has been covered stays covered, whoever moves.                     *)
LEMMA CoverKept ==
    ASSUME Inv, Marks, \A a \in Appenders : \E t \in Threads : Moves(t, a),
           NEW u \in Threads, NEW n, n \in 0..Len(snap[u]), Covered(u, n),
           snap'[u] = snap[u], mark'[u] = mark[u], call'[u] = call[u]
    PROVE  Covered(u, n)'
<1> SUFFICES ASSUME NEW i \in 1..n
             PROVE  LET a == snap[u][i]
                    IN  /\ sink'[a].flushed >= mark[u][a]
                        /\ call[u].op = "sync" => sink'[a].synced >= mark[u][a]
  BY DEF Covered
<1> DEFINE a == snap[u][i]
<1>1. a \in Appenders
  BY DEF Inv, TypeOK
<1>2. /\ sink[a].flushed >= mark[u][a]
      /\ call[u].op = "sync" => sink[a].synced >= mark[u][a]
  BY DEF Covered
<1> HIDE DEF a
<1>3. /\ sink[a].flushed \in Nat /\ sink[a].synced \in Nat /\ mark[u][a] \in Nat
  BY <1>1 DEF Inv, TypeOK
<1>4. /\ sink'[a].flushed >= sink[a].flushed /\ sink'[a].synced >= sink[a].synced
      /\ sink'[a].flushed \in Nat /\ sink'[a].synced \in Nat
  BY <1>1, SinksGrow
<1>5. /\ sink'[a].flushed >= mark[u][a]
      /\ call[u].op = "sync" => sink'[a].synced >= mark[u][a]
  BY <1>2, <1>3, <1>4
<1> QED
  BY <1>5 DEF a

LEMMA DrainingStep ==
    ASSUME Inv, Inv', Marks, NEW t \in Threads, Step(t) \/ Calls(t),
           \A u \in Threads : OnCourse(u) /\ Draining(u) /\ Drained(u)
    PROVE  \A u \in Threads : Draining(u)' /\ Drained(u)'
<1> USE DEF config, ghosts, Goto, Return
<1>m. \A a \in Appenders : \E s \in Threads : Moves(s, a)
  BY Frame
<1> SUFFICES ASSUME NEW u \in Threads PROVE Draining(u)' /\ Drained(u)'
  OBVIOUS
<1>n. Len(snap[u]) \in Nat /\ idx[u] \in Nat
  BY DEF Inv, TypeOK
<1>i. pc[u] = "drain" => idx[u] \in 1..Len(snap[u]) + 1 /\ idx[u] - 1 \in 0..Len(snap[u])
  BY <1>n DEF Inv, ListFrozen, Inside
<1>1. CASE u # t
  <2>1. Same(u) /\ (Settled \/ ~stable'[u])
    BY <1>1, Frame
  <2>2. Draining(u)'
    <3>1. ASSUME pc[u] = "drain" PROVE Covered(u, idx[u] - 1)'
      <4>1. idx[u] - 1 = idx'[u] - 1
        BY <2>1 DEF Same
      <4>2. idx[u] - 1 \in 0..Len(snap[u]) /\ Covered(u, idx[u] - 1)
        BY <1>i, <3>1 DEF Draining
      <4>3. PICK n : n = idx[u] - 1
        OBVIOUS
      <4>4. Covered(u, n)'
        BY <1>m, <2>1, <4>2, <4>3, CoverKept DEF Same
      <4> QED
        BY <4>1, <4>3, <4>4 DEF Covered
    <3> QED
      BY <2>1, <3>1 DEF Same, Draining
  <2>3. Drained(u)'
    <3>1. ASSUME Covered(u, Len(snap[u])) PROVE Covered(u, Len(snap[u]))'
      <4>1. PICK n : n = Len(snap[u])
        OBVIOUS
      <4>2. Covered(u, n)'
        BY <1>m, <1>n, <2>1, <3>1, <4>1, CoverKept DEF Same
      <4>3. Len(snap'[u]) = n
        BY <2>1, <4>1 DEF Same
      <4> QED
        BY <4>2, <4>3 DEF Covered
    <3> QED
      BY <2>1, <3>1 DEF Same, Drained, Settled
  <2> QED
    BY <2>2, <2>3
<1>2. CASE u = t /\ Calls(t)
  BY <1>2, CallBegins DEF Draining, Drained
<1>3. CASE u = t /\ (ShouldLog(t) \/ ProbeYes(t) \/ ProbeRoot(t) \/ SubmitLevel(t) \/ FallBack(t))
  <2>1. pc'[t] # "drain" /\ ~(pc'[t] = "idle" /\ result'[t] = "ok")
    BY <1>3 DEF ShouldLog, ProbeYes, ProbeRoot, SubmitLevel, FallBack, Inv, TypeOK
  <2> QED
    BY <1>3, <2>1 DEF Draining, Drained
<1>4. CASE u = t /\ Enter(t)
  <2>1. idx'[t] = 1 /\ pc'[t] # "idle"
    BY <1>4 DEF Enter, Inv, TypeOK
  <2> QED
    BY <1>4, <2>1 DEF Draining, Drained, Covered
<1>5. CASE u = t /\ (Format(t) \/ Gate(t) \/ Write(t) \/ FormatThrows(t) \/ WriteThrows(t)
                     \/ DrainThrows(t))
  <2>1. pc'[t] \notin {"drain", "idle"}
    BY <1>5 DEF Format, Gate, Write, FormatThrows, WriteThrows, DrainThrows, Inv, TypeOK
  <2> QED
    BY <1>5, <2>1 DEF Draining, Drained
<1>6. CASE u = t /\ Drain(t)
  <2>1. /\ pc[t] = "drain" /\ pc'[t] = "drain" /\ idx'[t] = idx[t] + 1 /\ More(t)
        /\ sink' = [sink EXCEPT ![Here(t)] = IF call[t].op = "sync" THEN Synced(@) ELSE Flushed(@)]
        /\ UNCHANGED <<snap, mark, call>>
    BY <1>6 DEF Drain, Advance, Inv, TypeOK
  <2>2. /\ snap[t] = appenders[cur[t]] /\ snap[t] \in Seq(Appenders)
        /\ idx[t] \in 1..Len(snap[t]) /\ Here(t) = snap[t][idx[t]]
    <3>1. snap[t] = appenders[cur[t]] /\ idx[t] >= 1
      BY <2>1 DEF Inv, ListFrozen, Inside
    <3> QED
      BY <1>6, <1>n, <2>1, <3>1 DEF More, Here, Inv, TypeOK
  <2>3. Here(t) \in Appenders
    BY <2>2
  <2>4. PICK n : n = idx[t] - 1
    OBVIOUS
  <2>5. Covered(t, n)'
    <3>1. n \in 0..Len(snap[t]) /\ Covered(t, n)
      BY <1>6, <1>i, <2>1, <2>4 DEF Draining
    <3> QED
      BY <1>m, <2>1, <3>1, CoverKept
  <2>6. /\ sink'[Here(t)].flushed = Len(sink[Here(t)].lines)
        /\ call[t].op = "sync" => sink'[Here(t)].synced = Len(sink[Here(t)].lines)
    BY <2>1, <2>3 DEF Inv, TypeOK, Synced, Flushed
  <2>7. /\ mark[t][Here(t)] <= Len(sink[Here(t)].lines) /\ mark[t][Here(t)] \in Nat
        /\ Len(sink[Here(t)].lines) \in Nat
    <3>1. mark[t][Here(t)] <= Len(sink[Here(t)].lines)
      BY <2>3 DEF Marks
    <3>2. mark[t] \in [Appenders -> Nat] /\ sink[Here(t)].lines \in Seq(Line)
      BY <2>3 DEF Inv, TypeOK
    <3> QED
      BY <2>3, <3>1, <3>2
  <2>8. /\ sink'[Here(t)].flushed >= mark[t][Here(t)]
        /\ call[t].op = "sync" => sink'[Here(t)].synced >= mark[t][Here(t)]
    BY <2>6, <2>7
  <2>12. PICK m : m = idx[t]
    OBVIOUS
  <2>9. Covered(t, m)'
    <3>1. \A i \in 1..m : i = idx[t] \/ i \in 1..n
      BY <2>2, <2>4, <2>12
    <3> QED
      BY <2>1, <2>2, <2>5, <2>8, <3>1 DEF Covered
  <2>10. idx'[t] - 1 = m
    BY <2>1, <2>2, <2>12
  <2>11. Covered(t, idx[t] - 1)'
    BY <2>9, <2>10 DEF Covered
  <2> QED
    BY <1>6, <2>1, <2>11 DEF Draining, Drained
<1>7. CASE u = t /\ Leave(t)
  <2>1. /\ pc'[t] = "idle" /\ result'[t] = (IF result[t] = "threw" THEN "threw" ELSE "ok")
        /\ UNCHANGED <<snap, mark, call, stable, appenders, sink, cur, idx>>
        /\ pc[t] = "leave" \/ (pc[t] \in {"append", "drain"} /\ ~More(t))
    BY <1>7 DEF Leave, Inv, TypeOK
  <2>2. CASE pc[t] \in {"leave", "append"}
    <3>1. pc[t] = "append" => call[t].op \notin DrainOps
      BY DEF Inv, CallOK, DrainOps
    <3>2. pc[t] = "leave" => result[t] = "threw"
      BY <1>7 DEF OnCourse
    <3> QED
      BY <1>7, <2>1, <2>2, <3>1, <3>2 DEF Draining, Drained
  <2>3. CASE pc[t] = "drain" /\ ~More(t)
    <3>1. snap[t] = appenders[cur[t]] /\ idx[t] \in 1..Len(snap[t]) + 1 /\ snap[t] # <<>>
          /\ Covered(t, idx[t] - 1)
      BY <1>7, <2>3 DEF Inv, ListFrozen, Inside, OnCourse, Draining
    <3>2. idx[t] - 1 = Len(snap[t])
      BY <1>7, <1>n, <2>3, <3>1 DEF More
    <3>3. Covered(t, Len(snap[t]))'
      BY <2>1, <3>1, <3>2 DEF Covered
    <3>4. stable[t] => \/ cur[t] = call[t].logger
                       \/ appenders[call[t].logger] = <<>> /\ cur[t] = Root[call[t].logger]
      BY <1>7, <2>3 DEF OnCourse
    <3>5. ASSUME stable[t]
          PROVE  LET lg == call[t].logger
                 IN  snap[t] = appenders[IF appenders[lg] = <<>> THEN Root[lg] ELSE lg]
      BY <3>1, <3>4, <3>5
    <3> QED
      BY <1>7, <2>1, <3>3, <3>5 DEF Draining, Drained
  <2> QED
    BY <2>1, <2>2, <2>3
<1>8. CASE u = t /\ (AddAppender(t) \/ RemoveAppender(t) \/ ClearAppenders(t) \/ SetFormatter(t))
  <2>1. pc'[t] = "idle" /\ call'[t] = call[t] /\ call[t].op \notin DrainOps
    BY <1>8 DEF AddAppender, RemoveAppender, ClearAppenders, SetFormatter, Locked, Done, Inv, TypeOK,
                DrainOps
  <2> QED
    BY <1>8, <2>1 DEF Draining, Drained
<1> QED
  BY <1>1, <1>2, <1>3, <1>4, <1>5, <1>6, <1>7, <1>8 DEF Step, Work, Throw

(* How many of the first n positions are in P.                             *)
Upto(P, n) == Cardinality({i \in 1..n : i \in P})

LEMMA CountUpto ==
    ASSUME NEW P, NEW n \in Nat
    PROVE  /\ Upto(P, n) \in Nat /\ Upto(P, 0) = 0
           /\ Upto(P, n + 1) = Upto(P, n) + IF n + 1 \in P THEN 1 ELSE 0
<1> DEFINE N == {i \in 1..n : i \in P}
           M == {i \in 1..n + 1 : i \in P}
<1>1. IsFiniteSet(N)
  <2>1. IsFiniteSet(1..n)
    BY FS_Interval
  <2> QED
    BY <2>1, FS_Subset
<1>2. Cardinality(N) \in Nat
  BY <1>1, FS_CardinalityType
<1>3. {i \in 1..0 : i \in P} = {}
  OBVIOUS
<1>4. Upto(P, 0) = 0
  BY <1>3, FS_EmptySet DEF Upto
<1>5. Upto(P, n) = Cardinality(N) /\ Upto(P, n + 1) = Cardinality(M)
  BY DEF Upto
<1>6. CASE n + 1 \in P
  <2>1. M = N \cup {n + 1} /\ n + 1 \notin N
    BY <1>6
  <2> HIDE DEF M, N
  <2>2. Cardinality(M) = Cardinality(N) + 1
    BY <1>1, <2>1, FS_AddElement
  <2> QED
    BY <1>2, <1>4, <1>5, <1>6, <2>2
<1>7. CASE n + 1 \notin P
  <2>1. M = N
    BY <1>7
  <2> HIDE DEF M, N
  <2> QED
    BY <1>2, <1>4, <1>5, <1>7, <2>1
<1> QED
  BY <1>6, <1>7

(* How often a list names an appender in its first n places.               *)
Occurs(list, a, n) == Cardinality({i \in 1..n : list[i] = a})

LEMMA OccursStep ==
    ASSUME NEW list, NEW a, NEW n \in Nat
    PROVE  /\ Occurs(list, a, n) \in Nat /\ Occurs(list, a, 0) = 0
           /\ Occurs(list, a, n + 1) = Occurs(list, a, n) + IF list[n + 1] = a THEN 1 ELSE 0
<1> DEFINE P == {i \in 1..n + 1 : list[i] = a}
<1>1. /\ {i \in 1..n : i \in P} = {i \in 1..n : list[i] = a}
      /\ {i \in 1..0 : i \in P} = {i \in 1..0 : list[i] = a}
      /\ {i \in 1..n + 1 : i \in P} = {i \in 1..n + 1 : list[i] = a}
      /\ n + 1 \in P <=> list[n + 1] = a
  OBVIOUS
<1> HIDE DEF P
<1>2. /\ Upto(P, n) = Occurs(list, a, n) /\ Upto(P, 0) = Occurs(list, a, 0)
      /\ Upto(P, n + 1) = Occurs(list, a, n + 1)
  BY <1>1 DEF Upto, Occurs
<1> QED
  BY <1>1, <1>2, CountUpto

(* How many lines are copies of a record.                                  *)
CopiesIn(lines, rec) == Cardinality({i \in 1..Len(lines) : lines[i].rec = rec})

LEMMA CopyCount ==
    ASSUME NEW s \in Seq(Line), NEW line \in Line, NEW rec
    PROVE  /\ CopiesIn(s, rec) \in Nat
           /\ CopiesIn(Append(s, line), rec) = CopiesIn(s, rec) + IF line.rec = rec THEN 1 ELSE 0
<1> DEFINE q == Append(s, line)
           P == {i \in 1..Len(q) : q[i].rec = rec}
<1>1. Len(s) \in Nat /\ Len(q) = Len(s) + 1 /\ q[Len(s) + 1] = line
      /\ \A i \in 1..Len(s) : q[i] = s[i]
  OBVIOUS
<1> HIDE DEF q
<1>2. /\ {i \in 1..Len(s) : i \in P} = {i \in 1..Len(s) : s[i].rec = rec}
      /\ {i \in 1..Len(s) + 1 : i \in P} = {i \in 1..Len(q) : q[i].rec = rec}
      /\ Len(s) + 1 \in P <=> line.rec = rec
  <2>1. \A i : i \in 1..Len(s) + 1 <=> i \in 1..Len(q)
    BY <1>1
  <2>2. {i \in 1..Len(s) + 1 : i \in P} = {i \in 1..Len(q) : q[i].rec = rec}
    BY <2>1
  <2>3. \A i \in 1..Len(s) : i \in P <=> s[i].rec = rec
    BY <1>1
  <2>4. Len(s) + 1 \in P <=> line.rec = rec
    BY <1>1
  <2>5. {i \in 1..Len(s) : i \in P} = {i \in 1..Len(s) : s[i].rec = rec}
    <3> HIDE DEF P
    <3> QED
      BY <2>3
  <2> QED
    BY <2>2, <2>4, <2>5
<1> HIDE DEF P
<1>3. Upto(P, Len(s)) = CopiesIn(s, rec) /\ Upto(P, Len(s) + 1) = CopiesIn(q, rec)
  BY <1>2 DEF Upto, CopiesIn
<1>4. /\ CopiesIn(s, rec) \in Nat
      /\ CopiesIn(q, rec) = CopiesIn(s, rec) + IF line.rec = rec THEN 1 ELSE 0
  <2>1. Len(s) \in Nat
    OBVIOUS
  <2>2. /\ Upto(P, Len(s)) \in Nat
        /\ Upto(P, Len(s) + 1) = Upto(P, Len(s)) + IF Len(s) + 1 \in P THEN 1 ELSE 0
    BY <2>1, CountUpto
  <2> QED
    BY <1>2, <1>3, <2>2
<1> QED
  BY <1>4 DEF q

LEMMA NotWritten ==
    ASSUME NEW rec, ~Written(rec), NEW a \in Appenders
    PROVE  Copied(rec, a) = 0
<1>1. {i \in 1..Len(sink[a].lines) : sink[a].lines[i].rec = rec} = {}
  BY DEF Written
<1> QED
  BY <1>1, FS_EmptySet DEF Copied

(* Nobody but t writes lines in t's name.                                  *)
LEMMA CopiesKept ==
    ASSUME Inv, NEW t \in Threads, NEW a \in Appenders, Moves(t, a),
           NEW rec, rec # Record(t)
    PROVE  Copied(rec, a)' = Copied(rec, a)
<1>1. sink[a] \in SinkOK /\ sink[a].lines \in Seq(Line)
  BY DEF Inv, TypeOK, SinkOK
<1>2. CASE sink'[a].lines = sink[a].lines
  BY <1>2 DEF Copied
<1>3. CASE \E line \in Line : line.rec = Record(t) /\ sink'[a].lines = Append(sink[a].lines, line)
  <2>1. PICK line \in Line : line.rec = Record(t) /\ sink'[a].lines = Append(sink[a].lines, line)
    BY <1>3
  <2>2. CopiesIn(Append(sink[a].lines, line), rec) = CopiesIn(sink[a].lines, rec)
    BY <1>1, <2>1, CopyCount
  <2> QED
    BY <2>1, <2>2 DEF Copied, CopiesIn
<1>4. \/ sink'[a].lines = sink[a].lines
      \/ \E line \in Line : line.rec = Record(t) /\ sink'[a].lines = Append(sink[a].lines, line)
  <2>1. Flushed(sink[a]).lines = sink[a].lines /\ Synced(sink[a]).lines = sink[a].lines
    BY <1>1 DEF Flushed, Synced, SinkOK
  <2>2. \A line, fatal : Wrote(sink[a], line, fatal).lines = Append(sink[a].lines, line)
    BY DEF Wrote
  <2> QED
    BY <2>1, <2>2 DEF Moves
<1> QED
  BY <1>2, <1>3, <1>4

(* What the tests passed so far have settled, as long as the configuration *)
(* does not change: the logger admits the level, so does the one the call  *)
(* is on, and somebody will take the record.                               *)
Decided(u) ==
    (pc[u] # "idle" /\ stable[u] /\ call[u].op = "log") =>
        /\ ~(pc[u] = "shouldLog" /\ cur[u] = call[u].logger) => Passes(call[u].logger, call[u].level)
        /\ pc[u] \in {"probe", "enter"} \cup Inside => Passes(cur[u], call[u].level)
        /\ pc[u] \in {"submit", "enter"} \cup Inside => Takers(call[u].logger, call[u].level) # {}

(* At most one logger takes a record: the logger itself if it has a list,  *)
(* its root if it has none.                                                *)
LEMMA OneTaker ==
    ASSUME NEW lg \in Loggers, NEW lv, NEW r \in Takers(lg, lv)
    PROVE  Takers(lg, lv) = {r}
BY DEF Takers

LEMMA DecideStep ==
    ASSUME Inv, NEW t \in Threads, Step(t) \/ Calls(t),
           \A u \in Threads : OnCourse(u) /\ Decided(u)
    PROVE  \A u \in Threads : Decided(u)'
<1> USE DEF config, ghosts, Goto, Return
<1> SUFFICES ASSUME NEW u \in Threads PROVE Decided(u)'
  OBVIOUS
<1> DEFINE lg == call[t].logger
           lv == call[t].level
<1>1. CASE u # t
  <2>1. Same(u) /\ (Settled \/ ~stable'[u])
    BY <1>1, Frame
  <2>2. CASE ~stable'[u]
    BY <2>2 DEF Decided
  <2>3. CASE Settled /\ stable[u]
    <3>1. ASSUME NEW l, NEW v
          PROVE  (Passes(l, v)' <=> Passes(l, v)) /\ Takers(l, v)' = Takers(l, v)
      BY <2>3 DEF Settled, Passes, Takers
    <3> QED
      BY <2>1, <2>3, <3>1 DEF Same, Decided
  <2> QED
    BY <2>1, <2>2, <2>3 DEF Same
<1>2. CASE u = t /\ Calls(t)
  BY <1>2, CallBegins DEF Decided, Inside, DrainOps
<1>k. ASSUME NEW l, NEW v, Settled
      PROVE  (Passes(l, v)' <=> Passes(l, v)) /\ Takers(l, v)' = Takers(l, v)
  BY <1>k DEF Settled, Passes, Takers
<1>l. pc[t] \in {"shouldLog", "probe", "submit", "enter"} \cup Inside =>
         lg \in Loggers /\ cur[t] \in Loggers
  BY DEF Inv, CallOK, Inside
<1>c. pc[t] # "idle" /\ stable[t] => cur[t] = lg \/ (appenders[lg] = <<>> /\ cur[t] = Root[lg])
  BY DEF OnCourse
<1>3. CASE u = t /\ ShouldLog(t)
  <2>1. /\ pc[t] = "shouldLog"
        /\ pc'[t] # "idle" => pc'[t] = "probe" /\ Passes(cur[t], lv)
        /\ UNCHANGED <<call, cur, stable>> /\ Settled
    BY <1>3 DEF ShouldLog, Passes, Settled, Inv, TypeOK
  <2> QED
    BY <1>3, <1>k, <2>1 DEF Decided, Inside
<1>4. CASE u = t /\ (ProbeYes(t) \/ ProbeRoot(t))
  <2>1. /\ pc[t] = "probe"
        /\ UNCHANGED <<call, stable>> /\ Settled
    BY <1>4 DEF ProbeYes, ProbeRoot, Settled, Inv, TypeOK
  <2>2. CASE ProbeYes(t)
    <3>1. pc'[t] = "submit" /\ appenders[cur[t]] # <<>>
      BY <2>2 DEF ProbeYes, Inv, TypeOK
    <3>2. ASSUME stable[t], call[t].op = "log" PROVE Passes(lg, lv) /\ cur[t] \in Takers(lg, lv)
      BY <1>4, <1>c, <1>l, <2>1, <3>1, <3>2 DEF Decided, Takers
    <3> QED
      BY <1>4, <1>k, <2>1, <3>1, <3>2 DEF Decided, Inside
  <2>3. CASE ProbeRoot(t)
    <3>1. pc'[t] \in {"idle", "shouldLog"}
      BY <2>3 DEF ProbeRoot, Inv, TypeOK
    <3> QED
      BY <1>4, <1>k, <2>1, <3>1 DEF Decided, Inside
  <2> QED
    BY <1>4, <2>2, <2>3
<1>5. CASE u = t /\ SubmitLevel(t)
  <2>1. /\ pc[t] = "submit"
        /\ pc'[t] # "idle" => pc'[t] = "enter" /\ Passes(cur[t], lv)
        /\ UNCHANGED <<call, cur, stable>> /\ Settled
    BY <1>5 DEF SubmitLevel, Passes, Settled, Inv, TypeOK
  <2> QED
    BY <1>5, <1>k, <2>1 DEF Decided, Inside
<1>6. CASE u = t /\ Enter(t)
  <2>1. /\ pc[t] = "enter" /\ pc'[t] \in Inside
        /\ UNCHANGED <<call, cur, stable>> /\ Settled
    BY <1>6 DEF Enter, Settled, Inv, TypeOK, Inside
  <2> QED
    BY <1>6, <1>k, <2>1 DEF Decided, Inside
<1>7. CASE u = t /\ FallBack(t)
  <2>1. /\ pc[t] = "enter" /\ UNCHANGED <<call, stable>> /\ Settled
        /\ pc'[t] # "idle" /\ call[t].op = "log" => pc'[t] = "submit"
    BY <1>7 DEF FallBack, Settled, Inv, TypeOK
  <2> QED
    BY <1>7, <1>k, <2>1 DEF Decided, Inside
<1>8. CASE u = t /\ (Format(t) \/ Gate(t) \/ Write(t) \/ Drain(t) \/ FormatThrows(t)
                     \/ WriteThrows(t) \/ DrainThrows(t))
  <2>1. /\ pc[t] \in Inside /\ pc'[t] \in Inside
        /\ UNCHANGED <<stable, cur, call>> /\ Settled
    BY <1>8 DEF Format, Gate, Write, Drain, FormatThrows, WriteThrows, DrainThrows, Inv, TypeOK, Inside,
                Settled
  <2> QED
    BY <1>8, <1>k, <2>1 DEF Decided, Inside
<1>9. CASE u = t /\ (Leave(t) \/ AddAppender(t) \/ RemoveAppender(t) \/ ClearAppenders(t)
                     \/ SetFormatter(t))
  <2>1. pc'[t] = "idle"
    BY <1>9 DEF Leave, AddAppender, RemoveAppender, ClearAppenders, SetFormatter, Done, Inv, TypeOK
  <2> QED
    BY <1>9, <2>1 DEF Decided
<1> QED
  BY <1>1, <1>2, <1>3, <1>4, <1>5, <1>6, <1>7, <1>8, <1>9 DEF Step, Work, Throw

(* The share of the record that the walk has delivered so far.             *)
Share(u, a, n) == IF Below(call[u].level, threshold[a]) THEN 0 ELSE Occurs(snap[u], a, n)

(* A walk that nothing disturbs has written its share to every appender.   *)
Delivering(u) ==
    /\ pc[u] = "format" => idx[u] = 1
    /\ (pc[u] \in {"append", "write"} /\ stable[u] /\ result[u] # "threw") =>
          /\ \A a \in Appenders : Copied(Record(u), a) = Share(u, a, idx[u] - 1)
          /\ pc[u] = "write" => ~Below(call[u].level, threshold[Here(u)])

(* QuietDelivery, for one thread.                                          *)
Delivered(u) ==
    (pc[u] = "idle" /\ stable[u] /\ call[u].op = "log" /\ result[u] # "threw") =>
        LET takers == Takers(call[u].logger, call[u].level) IN
        /\ result[u] = IF takers = {} THEN "filtered" ELSE "ok"
        /\ \A a \in Appenders :
             Copied(Record(u), a) =
                 IF takers = {} \/ Below(call[u].level, threshold[a])
                 THEN 0
                 ELSE Copies(CHOOSE lg \in takers : TRUE, a)

LEMMA OthersDeliver ==
    ASSUME Inv, NEW t \in Threads, Step(t) \/ Calls(t), NEW u \in Threads \ {t},
           Delivering(u), Delivered(u)
    PROVE  Delivering(u)' /\ Delivered(u)'
<1>1. Same(u) /\ (Settled \/ ~stable'[u]) /\ (stable'[u] => stable[u])
  BY Frame DEF Same
<1>2. CASE ~stable'[u]
  BY <1>1, <1>2 DEF Delivering, Delivered, Same
<1>3. CASE stable'[u]
  <2>1. Record(u)' = Record(u) /\ Record(u) # Record(t)
    BY <1>1 DEF Record, Same
  <2>2. ASSUME NEW a \in Appenders PROVE Copied(Record(u), a)' = Copied(Record(u), a)
    <3>1. PICK rec : rec = Record(u)
      OBVIOUS
    <3>2. Copied(rec, a)' = Copied(rec, a)
      BY <2>1, <3>1, Frame, CopiesKept
    <3> QED
      BY <2>1, <3>1, <3>2 DEF Copied
  <2>3. Settled
    BY <1>1, <1>3
  <2>4. ASSUME NEW a \in Appenders, NEW n
        PROVE  Share(u, a, n)' = Share(u, a, n)
    BY <1>1, <2>3 DEF Share, Same, Settled, Occurs
  <2>5. \A a \in Appenders : Share(u, a, idx[u] - 1)' = Share(u, a, idx[u] - 1)
    BY <1>1, <2>4 DEF Share, Same, Occurs
  <2>6. Here(u)' = Here(u)
    BY <1>1, <2>3 DEF Here, Same, Settled
  <2>7. Delivering(u)'
    BY <1>1, <2>1, <2>2, <2>3, <2>5, <2>6 DEF Delivering, Same, Settled
  <2>8. /\ \A lg, lv : Takers(lg, lv)' = Takers(lg, lv)
        /\ \A lg, a : Copies(lg, a)' = Copies(lg, a)
    BY <2>3 DEF Settled, Takers, Passes, Copies
  <2>9. Delivered(u)'
    BY <1>1, <2>1, <2>2, <2>3, <2>8 DEF Delivered, Same, Settled
  <2> QED
    BY <2>7, <2>9
<1> QED
  BY <1>2, <1>3

(* A statement that is filtered has written nothing.                       *)
LEMMA NothingYet ==
    ASSUME Inv, Named, NEW t \in Threads, pc[t] \in Unwritten, NEW a \in Appenders
    PROVE  Copied(Record(t), a) = 0
<1>1. calls[t] \in 0..MaxCalls /\ calls[t] \in Nat
  BY ParameterAssumption DEF Inv, TypeOK
<1>2. ~Written(Record(t))
  BY <1>1 DEF Named, Record
<1> QED
  BY <1>2, NotWritten

LEMMA DeliverStep ==
    ASSUME Inv, Inv', Named, NEW t \in Threads, Step(t),
           OnCourse(t), Decided(t), Delivering(t)
    PROVE  Delivering(t)' /\ Delivered(t)'
<1> USE DEF config, ghosts, Goto, Return
<1> DEFINE lg == call[t].logger
           lv == call[t].level
<1>l. pc[t] \in {"shouldLog", "probe", "submit", "enter"} \cup Inside =>
         lg \in Loggers /\ cur[t] \in Loggers
  BY DEF Inv, CallOK, Inside
<1>c. pc[t] # "idle" /\ stable[t] => cur[t] = lg \/ (appenders[lg] = <<>> /\ cur[t] = Root[lg])
  BY DEF OnCourse
<1>n. /\ idx[t] \in Nat /\ Len(snap[t]) \in Nat /\ snap[t] \in Seq(Appenders)
      /\ None \notin Loggers
  BY RootAssumption DEF Inv, TypeOK
<1>k. ASSUME Settled PROVE \A l, v : Takers(l, v)' = Takers(l, v)
  BY <1>k DEF Settled, Passes, Takers
<1>f. ASSUME pc[t] \in Unwritten, pc'[t] = "idle", result'[t] = "filtered", Settled,
             UNCHANGED <<sink, calls, call, stable>>,
             stable[t] /\ call[t].op = "log" => Takers(lg, lv) = {}
      PROVE  Delivering(t)' /\ Delivered(t)'
  <2>1. Record(t)' = Record(t) /\ \A a \in Appenders : Copied(Record(t), a)' = 0
    BY <1>f, NothingYet DEF Copied, Record
  <2> QED
    BY <1>f, <1>k, <2>1 DEF Delivering, Delivered
<1>1. CASE ShouldLog(t)
  <2>1. /\ pc[t] = "shouldLog" /\ Settled /\ UNCHANGED <<sink, calls, call, stable>>
        /\ \/ pc'[t] = "probe"
           \/ pc'[t] = "idle" /\ result'[t] = "filtered" /\ ~Passes(cur[t], lv)
    BY <1>1 DEF ShouldLog, Settled, Passes, Inv, TypeOK
  <2>2. CASE pc'[t] = "probe"
    BY <2>2 DEF Delivering, Delivered
  <2>3. CASE pc'[t] = "idle"
    <3>1. stable[t] => Takers(lg, lv) = {}
      BY <1>c, <1>l, <2>1, <2>3 DEF Takers
    <3> QED
      BY <1>f, <2>1, <2>3, <3>1 DEF Unwritten
  <2> QED
    BY <2>1, <2>2, <2>3
<1>2. CASE ProbeYes(t)
  <2>1. pc'[t] = "submit"
    BY <1>2 DEF ProbeYes, Inv, TypeOK
  <2> QED
    BY <2>1 DEF Delivering, Delivered
<1>3. CASE ProbeRoot(t)
  <2>1. /\ pc[t] = "probe" /\ Settled /\ UNCHANGED <<sink, calls, call, stable>>
        /\ appenders[cur[t]] = <<>>
        /\ \/ pc'[t] = "shouldLog"
           \/ pc'[t] = "idle" /\ result'[t] = "filtered" /\ Root[cur[t]] = None
    BY <1>3 DEF ProbeRoot, Settled, Inv, TypeOK
  <2>2. CASE pc'[t] = "shouldLog"
    BY <2>2 DEF Delivering, Delivered
  <2>3. CASE pc'[t] = "idle"
    <3>1. stable[t] => Takers(lg, lv) = {}
      BY <1>c, <1>l, <1>n, <2>1, <2>3 DEF Takers
    <3> QED
      BY <1>f, <2>1, <2>3, <3>1 DEF Unwritten
  <2> QED
    BY <2>1, <2>2, <2>3
<1>4. CASE SubmitLevel(t)
  <2>1. /\ pc[t] = "submit" /\ UNCHANGED <<stable, call>>
        /\ \/ pc'[t] = "enter"
           \/ pc'[t] = "idle" /\ ~Passes(cur[t], lv)
    BY <1>4 DEF SubmitLevel, Passes, Inv, TypeOK
  <2>2. CASE pc'[t] = "enter"
    BY <2>2 DEF Delivering, Delivered
  <2>3. CASE pc'[t] = "idle"
    <3>1. call[t].op = "log"
      BY <2>1 DEF Inv, CallOK
    <3>2. ASSUME stable[t] PROVE FALSE
      <4>1. Passes(lg, lv) /\ Takers(lg, lv) # {}
        BY <2>1, <3>1, <3>2 DEF Decided
      <4> QED
        BY <1>c, <1>l, <2>1, <2>3, <3>2, <4>1 DEF Takers
    <3> QED
      BY <2>1, <2>3, <3>2 DEF Delivering, Delivered
  <2> QED
    BY <2>1, <2>2, <2>3
<1>5. CASE FallBack(t)
  <2>1. /\ pc[t] = "enter" /\ UNCHANGED <<stable, call>> /\ appenders[cur[t]] = <<>>
        /\ \/ pc'[t] \in {"submit", "enter"}
           \/ pc'[t] = "idle" /\ Root[cur[t]] = None
    BY <1>5 DEF FallBack, Inv, TypeOK
  <2>2. CASE pc'[t] \in {"submit", "enter"}
    BY <2>2 DEF Delivering, Delivered
  <2>3. CASE pc'[t] = "idle"
    <3>2. ASSUME stable[t], call[t].op = "log" PROVE FALSE
      <4>1. Takers(lg, lv) # {}
        BY <2>1, <3>2 DEF Decided
      <4> QED
        BY <1>c, <1>l, <1>n, <2>1, <2>3, <3>2, <4>1 DEF Takers
    <3> QED
      BY <2>1, <2>3, <3>2 DEF Delivering, Delivered
  <2> QED
    BY <2>1, <2>2, <2>3
<1>6. CASE Enter(t)
  <2>1. pc'[t] \in {"format", "drain"} /\ idx'[t] = 1
    BY <1>6 DEF Enter, Inv, TypeOK
  <2> QED
    BY <2>1 DEF Delivering, Delivered
<1>7. CASE Format(t)
  <2>1. /\ pc[t] = "format" /\ pc'[t] = "append" /\ UNCHANGED <<sink, idx, calls>>
    BY <1>7 DEF Format, Inv, TypeOK
  <2>2. idx'[t] - 1 = 0 /\ snap'[t] \in Seq(Appenders)
    BY <2>1 DEF Delivering, Inv, TypeOK
  <2>3. ASSUME NEW a \in Appenders PROVE Copied(Record(t), a)' = 0 /\ Share(t, a, idx[t] - 1)' = 0
    <3>1. Copied(Record(t), a)' = 0
      BY <2>1, NothingYet DEF Unwritten, Copied, Record
    <3>2. Occurs(snap'[t], a, 0) = 0
      <4>1. 0 \in Nat
        OBVIOUS
      <4> QED
        BY <4>1, OccursStep
    <3> QED
      BY <2>2, <3>1, <3>2 DEF Share
  <2> QED
    BY <2>1, <2>3 DEF Delivering, Delivered
<1>8. CASE FormatThrows(t) \/ DrainThrows(t) \/ Drain(t)
  <2>1. pc'[t] \in {"leave", "drain"}
    BY <1>8 DEF FormatThrows, DrainThrows, Drain, Inv, TypeOK
  <2> QED
    BY <2>1 DEF Delivering, Delivered
<1>9. CASE WriteThrows(t)
  <2>1. pc'[t] = "append" /\ result'[t] = "threw"
    BY <1>9 DEF WriteThrows, Inv, TypeOK
  <2> QED
    BY <2>1 DEF Delivering, Delivered
<1>h. ASSUME pc[t] \in {"append", "write"}, pc[t] = "append" => More(t)
      PROVE  /\ idx[t] \in 1..Len(snap[t]) /\ Here(t) = snap[t][idx[t]] /\ Here(t) \in Appenders
             /\ snap[t] = appenders[cur[t]]
  <2>1. /\ snap[t] = appenders[cur[t]] /\ idx[t] >= 1
        /\ pc[t] = "write" => idx[t] <= Len(snap[t])
    BY <1>h DEF Inv, ListFrozen, Inside
  <2>2. idx[t] \in 1..Len(snap[t])
    BY <1>h, <1>n, <2>1 DEF More
  <2> QED
    BY <1>n, <2>1, <2>2 DEF Here
<1>o. ASSUME idx[t] \in 1..Len(snap[t]), NEW a \in Appenders
      PROVE  /\ Occurs(snap[t], a, idx[t] - 1) \in Nat
             /\ Occurs(snap[t], a, idx[t]) = Occurs(snap[t], a, idx[t] - 1)
                                             + IF snap[t][idx[t]] = a THEN 1 ELSE 0
  <2>1. idx[t] - 1 \in Nat /\ (idx[t] - 1) + 1 = idx[t]
    BY <1>o
  <2> QED
    BY <2>1, OccursStep
<1>10. CASE Gate(t)
  <2>1. /\ pc[t] = "append" /\ More(t)
        /\ UNCHANGED <<sink, call, calls, cur, snap, appenders, threshold, stable, result>>
        /\ \/ /\ Below(lv, threshold[Here(t)]) /\ pc'[t] = "append" /\ idx'[t] = idx[t] + 1
           \/ /\ ~Below(lv, threshold[Here(t)]) /\ pc'[t] = "write" /\ idx'[t] = idx[t]
    BY <1>10 DEF Gate, Advance, Inv, TypeOK
  <2>2. /\ idx[t] \in 1..Len(snap[t]) /\ Here(t) = snap[t][idx[t]] /\ Here(t) \in Appenders
    BY <1>h, <2>1
  <2>3. \A a \in Appenders : Copied(Record(t), a)' = Copied(Record(t), a)
    BY <2>1 DEF Copied, Record
  <2>4. CASE pc'[t] = "append"
    <3>1. Below(lv, threshold[Here(t)]) /\ idx'[t] - 1 = idx[t]
      BY <2>1, <2>2, <2>4
    <3>2. ASSUME NEW a \in Appenders
          PROVE  Share(t, a, idx[t] - 1)' = Share(t, a, idx[t] - 1)
      <4>1. Share(t, a, idx[t] - 1)' = IF Below(lv, threshold[a]) THEN 0 ELSE Occurs(snap[t], a, idx[t])
        BY <2>1, <3>1 DEF Share
      <4>2. CASE a = Here(t)
        BY <3>1, <4>1, <4>2 DEF Share
      <4>3. CASE a # Here(t)
        BY <1>o, <2>2, <4>1, <4>3 DEF Share
      <4> QED
        BY <4>2, <4>3
    <3> QED
      BY <2>1, <2>3, <2>4, <3>2 DEF Delivering, Delivered
  <2>5. CASE pc'[t] = "write"
    <3>1. /\ ~Below(lv, threshold[Here(t)]) /\ idx'[t] = idx[t] /\ Here(t)' = Here(t)
      BY <2>1, <2>5 DEF Here
    <3>2. \A a \in Appenders : Share(t, a, idx[t] - 1)' = Share(t, a, idx[t] - 1)
      BY <2>1, <3>1 DEF Share
    <3> QED
      BY <2>1, <2>3, <2>5, <3>1, <3>2 DEF Delivering, Delivered
  <2> QED
    BY <2>1, <2>4, <2>5
<1>11. CASE Write(t)
  <2> DEFINE line == [rec |-> Record(t), level |-> call[t].level, fmt |-> text[t], via |-> cur[t]]
  <2>1. /\ pc[t] = "write" /\ pc'[t] = "append" /\ idx'[t] = idx[t] + 1
        /\ UNCHANGED <<call, calls, cur, snap, appenders, threshold, stable, result>>
        /\ sink' = [sink EXCEPT ![Here(t)] = Wrote(@, line, call[t].level = FATAL)]
    BY <1>11 DEF Write, Advance, Inv, TypeOK
  <2>2. line \in Line /\ line.rec = Record(t)
    <3>1. call[t] \in Call /\ cur[t] \in Loggers /\ text[t] = formatter[cur[t]]
      BY <2>1 DEF Inv, CallOK
    <3>2. call[t].level \in Level /\ text[t] \in Formatters /\ Record(t) \in Records
      BY <3>1 DEF Call, Inv, TypeOK, Record, Records
    <3> QED
      BY <3>1, <3>2 DEF Line
  <2>3. /\ idx[t] \in 1..Len(snap[t]) /\ Here(t) = snap[t][idx[t]] /\ Here(t) \in Appenders
    BY <1>h, <2>1
  <2> HIDE DEF line
  <2>4. idx'[t] - 1 = idx[t]
    BY <2>1, <2>3
  <2>5. CASE stable[t] /\ result[t] # "threw"
    <3>1. /\ \A a \in Appenders : Copied(Record(t), a) = Share(t, a, idx[t] - 1)
          /\ ~Below(lv, threshold[Here(t)])
      BY <2>1, <2>5 DEF Delivering
    <3>2. ASSUME NEW a \in Appenders
          PROVE  Copied(Record(t), a)' = Share(t, a, idx[t] - 1)'
      <4>1. Share(t, a, idx[t] - 1)' = IF Below(lv, threshold[a]) THEN 0 ELSE Occurs(snap[t], a, idx[t])
        BY <2>1, <2>4 DEF Share
      <4>2. CASE a = Here(t)
        <5>1. sink[a].lines \in Seq(Line) /\ sink'[a].lines = Append(sink[a].lines, line)
          BY <2>1, <2>3, <4>2 DEF Inv, TypeOK, Wrote
        <5>2. CopiesIn(Append(sink[a].lines, line), Record(t)) = CopiesIn(sink[a].lines, Record(t)) + 1
          BY <2>2, <5>1, CopyCount
        <5>3. Copied(Record(t), a)' = Copied(Record(t), a) + 1
          BY <2>1, <5>1, <5>2 DEF Copied, CopiesIn, Record
        <5>4. Copied(Record(t), a) = Occurs(snap[t], a, idx[t] - 1)
          BY <3>1, <4>2 DEF Share
        <5>5. Occurs(snap[t], a, idx[t]) = Occurs(snap[t], a, idx[t] - 1) + 1
          BY <1>o, <2>3, <4>2
        <5> QED
          BY <3>1, <4>1, <4>2, <5>3, <5>4, <5>5
      <4>3. CASE a # Here(t)
        <5>1. sink'[a] = sink[a]
          BY <2>1, <4>3 DEF Inv, TypeOK
        <5>2. Copied(Record(t), a)' = Copied(Record(t), a)
          BY <2>1, <5>1 DEF Copied, Record
        <5>3. Occurs(snap[t], a, idx[t]) = Occurs(snap[t], a, idx[t] - 1)
          BY <1>o, <2>3, <4>3
        <5> QED
          BY <3>1, <4>1, <5>2, <5>3 DEF Share
      <4> QED
        BY <4>2, <4>3
    <3> QED
      BY <2>1, <3>2 DEF Delivering, Delivered
  <2> QED
    BY <2>1, <2>5 DEF Delivering, Delivered
<1>12. CASE Leave(t)
  <2>1. /\ pc'[t] = "idle" /\ result'[t] = (IF result[t] = "threw" THEN "threw" ELSE "ok")
        /\ UNCHANGED <<sink, call, calls, cur, snap, appenders, threshold, level, stable>>
        /\ pc[t] = "leave" \/ (pc[t] \in {"append", "drain"} /\ ~More(t))
    BY <1>12 DEF Leave, Inv, TypeOK
  <2>2. CASE ~(pc[t] = "append" /\ result[t] # "threw" /\ stable[t])
    <3>1. pc[t] = "leave" => result[t] = "threw"
      BY DEF OnCourse
    <3>2. pc[t] = "drain" => call[t].op # "log"
      BY DEF Inv, CallOK, DrainOps
    <3> QED
      BY <2>1, <2>2, <3>1, <3>2 DEF Delivering, Delivered
  <2>3. CASE pc[t] = "append" /\ result[t] # "threw" /\ stable[t]
    <3>1. /\ snap[t] = appenders[cur[t]] /\ idx[t] \in 1..Len(snap[t]) + 1 /\ snap[t] # <<>>
          /\ call[t].op = "log"
      BY <2>3 DEF Inv, ListFrozen, CallOK, Inside, OnCourse
    <3>2. idx[t] - 1 = Len(snap[t])
      BY <1>n, <2>1, <2>3, <3>1 DEF More
    <3>3. cur[t] \in Takers(lg, lv)
      <4>1. Passes(cur[t], lv) /\ Passes(lg, lv)
        BY <2>3, <3>1 DEF Decided, Inside
      <4> QED
        BY <1>c, <1>l, <2>3, <3>1, <4>1 DEF Takers, Inside
    <3>4. Takers(lg, lv) = {cur[t]} /\ \A l, v : Takers(l, v)' = Takers(l, v)
      <4>1. lg \in Loggers
        BY <1>l, <2>3 DEF Inside
      <4>2. Settled
        BY <2>1 DEF Settled
      <4> QED
        BY <1>k, <3>3, <4>1, <4>2, OneTaker
    <3>5. (CHOOSE l \in {cur[t]} : TRUE) = cur[t]
      OBVIOUS
    <3>6. ASSUME NEW a \in Appenders
          PROVE  Copied(Record(t), a)' = IF Below(lv, threshold[a]) THEN 0 ELSE Copies(cur[t], a)
      <4>1. Copied(Record(t), a)' = Copied(Record(t), a)
        BY <2>1 DEF Copied, Record
      <4>2. Copied(Record(t), a) = Share(t, a, Len(snap[t]))
        BY <2>3, <3>2 DEF Delivering
      <4>3. Occurs(snap[t], a, Len(snap[t])) = Copies(cur[t], a)
        BY <3>1 DEF Occurs, Copies
      <4> QED
        BY <4>1, <4>2, <4>3 DEF Share
    <3>7. \A l, a : Copies(l, a)' = Copies(l, a)
      BY <2>1 DEF Copies
    <3>8. result'[t] = "ok"
      BY <2>1, <2>3
    <3>9. Record(t)' = Record(t)
      BY <2>1 DEF Record
    <3>10. Delivered(t)'
      BY <2>1, <3>4, <3>5, <3>6, <3>7, <3>8, <3>9 DEF Delivered
    <3> QED
      BY <2>1, <3>10 DEF Delivering
  <2> QED
    BY <2>2, <2>3
<1>13. CASE AddAppender(t) \/ RemoveAppender(t) \/ ClearAppenders(t) \/ SetFormatter(t)
  <2>1. pc'[t] = "idle" /\ ~stable'[t]
    BY <1>13 DEF AddAppender, RemoveAppender, ClearAppenders, SetFormatter, Done, Disturb, Inv, TypeOK
  <2> QED
    BY <2>1 DEF Delivering, Delivered
<1> QED
  BY <1>1, <1>2, <1>3, <1>4, <1>5, <1>6, <1>7, <1>8, <1>9, <1>10, <1>11, <1>12, <1>13
  DEF Step, Work, Throw

Calling == \A u \in Threads : OnCourse(u) /\ Decided(u)
Walking == \A u \in Threads : Draining(u) /\ Delivering(u)

Strong == Inv /\ Marks /\ Named /\ Calling /\ Walking /\ DrainCovers /\ QuietDelivery

LEMMA StrongInit == Init => Strong
<1> SUFFICES ASSUME Init PROVE Strong
  OBVIOUS
<1>1. Inv
  BY InitType, InitInside DEF Inv
<1>2. \A a \in Appenders : sink[a] = Empty /\ Len(sink[a].lines) = 0
  BY DEF Init, Empty
<1>3. Marks
  BY <1>2 DEF Marks, Init, Empty
<1>4. Named
  BY <1>2 DEF Named, Written
<1>5. Calling /\ Walking
  BY DEF Calling, Walking, OnCourse, Decided, Draining, Delivering, Init
<1>6. DrainCovers /\ QuietDelivery
  BY DEF DrainCovers, QuietDelivery, Init
<1> QED
  BY <1>1, <1>3, <1>4, <1>5, <1>6 DEF Strong

LEMMA StrongStep ==
    ASSUME Strong, Inv', NEW t \in Threads, Step(t) \/ Calls(t)
    PROVE  Strong'
<1>1. \A u \in Threads : /\ OnCourse(u) /\ Decided(u) /\ Draining(u) /\ Delivering(u)
                         /\ Drained(u) /\ Delivered(u)
  BY DEF Strong, Calling, Walking, DrainCovers, QuietDelivery, Drained, Delivered, Covered
<1>2. Inv /\ Marks /\ Named
  BY DEF Strong
<1>3. Marks' /\ Named'
  BY <1>2, MarkStep, NameStep
<1>4. \A u \in Threads : OnCourse(u)' /\ Decided(u)'
  BY <1>1, <1>2, CourseStep, DecideStep
<1>5. \A u \in Threads : Draining(u)' /\ Drained(u)'
  BY <1>1, <1>2, DrainingStep
<1>6. \A u \in Threads \ {t} : Delivering(u)' /\ Delivered(u)'
  BY <1>1, <1>2, OthersDeliver
<1>7. Delivering(t)' /\ Delivered(t)'
  <2>1. CASE Step(t)
    BY <1>1, <1>2, <2>1, DeliverStep
  <2>2. CASE Calls(t)
    BY <2>2, <1>2, CallBegins DEF Delivering, Delivered
  <2> QED
    BY <2>1, <2>2
<1>8. Calling' /\ Walking'
  BY <1>4, <1>5, <1>6, <1>7 DEF Calling, Walking
<1>9. DrainCovers'
  BY <1>5 DEF DrainCovers, Drained, Covered
<1>10. QuietDelivery'
  <2>1. \A u \in Threads : Delivered(u)'
    BY <1>6, <1>7
  <2> QED
    BY <2>1 DEF QuietDelivery, Delivered
<1> QED
  BY <1>3, <1>8, <1>9, <1>10 DEF Strong

LEMMA StrongInvariance == Spec => []Strong
<1>1. Strong /\ [Next]_vars => Strong'
  <2> SUFFICES ASSUME Strong, [Next]_vars PROVE Strong'
    OBVIOUS
  <2>1. Inv'
    BY InvInductive DEF Strong
  <2>2. ASSUME NEW t \in Threads, Calls(t) \/ Step(t) PROVE Strong'
    BY <2>1, <2>2, StrongStep
  <2>3. CASE UNCHANGED vars
    <3>1. Marks' /\ Named'
      BY <2>3 DEF Strong, vars, Marks, Named, Written
    <3>2. /\ \A lg, lv : Takers(lg, lv)' = Takers(lg, lv) /\ (Passes(lg, lv)' <=> Passes(lg, lv))
          /\ \A u : Record(u)' = Record(u)
          /\ \A rec, a : Copied(rec, a)' = Copied(rec, a)
          /\ \A lg, a : Copies(lg, a)' = Copies(lg, a)
      BY <2>3 DEF vars, Takers, Passes, Record, Copied, Copies
    <3>3. Calling'
      BY <2>3, <3>2 DEF Strong, vars, Calling, OnCourse, Decided
    <3>4. Walking'
      BY <2>3, <3>2 DEF Strong, vars, Walking, Draining, Covered, Delivering, Share, Here
    <3>5. DrainCovers'
      BY <2>3 DEF Strong, vars, DrainCovers
    <3>6. QuietDelivery'
      BY <2>3, <3>2 DEF Strong, vars, QuietDelivery
    <3> QED
      BY <2>1, <3>1, <3>3, <3>4, <3>5, <3>6 DEF Strong
  <2> QED
    BY <2>2, <2>3 DEF Next, Quiet
<1> QED
  BY <1>1, StrongInit, PTL DEF Spec

(* When flush() or sync() returns, what was in the appenders of its logger *)
(* when it was called has left the process, or is on the device, whoever   *)
(* logs and reconfigures meanwhile.                                        *)
THEOREM DrainsCover == Spec => []DrainCovers
BY StrongInvariance, PTL DEF Strong

(* A log statement during which nobody changes the configuration delivers  *)
(* one copy for each place of the appender in the delivering logger's      *)
(* list, if the appender admits it, and nothing elsewhere: the two tests   *)
(* of shouldLog and submit act as one.                                     *)
THEOREM QuietStatementsDeliver == Spec => []QuietDelivery
BY StrongInvariance, PTL DEF Strong

-----------------------------------------------------------------------------
(* The verdict on a statement                                              *)

(* What a logger that turns the record away at this moment is to the call. *)
Noted(u) ==
    /\ Refusing(call[u].level).high \subseteq seen[u].high
    /\ Refusing(call[u].level).empty \subseteq seen[u].empty

(* VerdictHeld for one thread, and what makes it true by the time the call *)
(* ends: the call has noted every logger that would turn it away, and is   *)
(* on its own logger, or on the root for the reason that sent it there.    *)
Judged(u) ==
    (call[u] # None /\ call[u].op = "log") =>
        LET own == call[u].logger IN
        /\ own \in Loggers
        /\ cur[u] = own \/ (cur[u] = Root[own] /\ own \in seen[u].empty)
        /\ \A lg \in Via(Record(u)) : lg = cur[u]
        /\ pc[u] # "idle" => Noted(u)
        /\ (pc[u] = "idle" /\ result[u] \in {"filtered", "dropped", "nowhere"}) =>
             /\ ~Written(Record(u))
             /\ \/ own \in seen[u].high
                \/ own \in seen[u].empty /\ Root[own] \in {None} \cup seen[u].high \cup seen[u].empty

LEMMA ViaIs ==
    ASSUME NEW rec, NEW lg
    PROVE  lg \in Via(rec) <=> \E a \in Appenders : \E i \in 1..Len(sink[a].lines) :
                                  sink[a].lines[i].rec = rec /\ sink[a].lines[i].via = lg
BY DEF Via

(* A record comes by another logger only where its call writes it.         *)
LEMMA NewVia ==
    ASSUME Inv, NEW t \in Threads, \A a \in Appenders : Moves(t, a), NEW rec, NEW lg \in Via(rec)'
    PROVE  lg \in Via(rec) \/ (pc[t] = "write" /\ rec = Record(t) /\ lg = cur[t])
<1>0. PICK a \in Appenders : \E i \in 1..Len(sink'[a].lines) :
          sink'[a].lines[i].rec = rec /\ sink'[a].lines[i].via = lg
  BY DEF Via
<1>1. PICK i \in 1..Len(sink'[a].lines) :
          sink'[a].lines[i].rec = rec /\ sink'[a].lines[i].via = lg
  BY <1>0
<1>2. sink[a] \in SinkOK /\ sink[a].lines \in Seq(Line)
  BY DEF Inv, TypeOK, SinkOK
<1>3. \/ sink'[a].lines = sink[a].lines
      \/ pc[t] = "write" /\ \E line \in Line :
            /\ line.rec = Record(t) /\ line.via = cur[t]
            /\ sink'[a].lines = Append(sink[a].lines, line)
  <2>1. Flushed(sink[a]).lines = sink[a].lines /\ Synced(sink[a]).lines = sink[a].lines
    BY <1>2 DEF Flushed, Synced, SinkOK
  <2>2. \A line, fatal : Wrote(sink[a], line, fatal).lines = Append(sink[a].lines, line)
    BY DEF Wrote
  <2> QED
    BY <2>1, <2>2 DEF Moves
<1>4. CASE sink'[a].lines = sink[a].lines
  BY <1>1, <1>4, ViaIs
<1>5. CASE pc[t] = "write" /\ \E line \in Line :
               /\ line.rec = Record(t) /\ line.via = cur[t]
               /\ sink'[a].lines = Append(sink[a].lines, line)
  <2>1. PICK line \in Line : /\ line.rec = Record(t) /\ line.via = cur[t]
                             /\ sink'[a].lines = Append(sink[a].lines, line)
    BY <1>5
  <2>2. \/ i \in 1..Len(sink[a].lines) /\ sink'[a].lines[i] = sink[a].lines[i]
        \/ sink'[a].lines[i] = line
    BY <1>1, <1>2, <2>1
  <2> QED
    BY <1>1, <1>5, <2>1, <2>2, ViaIs
<1> QED
  BY <1>3, <1>4, <1>5

(* What a step of t leaves of what other calls have noted, or of its own.  *)
LEMMA Noticed ==
    ASSUME Inv, NEW t \in Threads, Step(t) \/ Calls(t), NEW u \in Threads,
           u # t \/ Step(t), call[u] # None, call[u].op = "log"
    PROVE  /\ seen[u].high \subseteq seen'[u].high /\ seen[u].empty \subseteq seen'[u].empty
           /\ pc[u] # "idle" /\ Noted(u) => Noted(u)'
           /\ pc[u] = "idle" => seen'[u] = seen[u]
<1> USE DEF config, ghosts, Goto, Return
<1>1. CASE UNCHANGED <<level, appenders>> /\ seen'[u] = seen[u] /\ call'[u] = call[u]
  BY <1>1 DEF Noted, Refusing
<1>2. CASE Disturb /\ call'[u] = call[u]
  <2>1. CASE pc[u] = "idle"
    BY <1>2, <2>1 DEF Disturb, Inv, TypeOK
  <2>2. CASE pc[u] # "idle"
    <3>1. seen'[u] = [high  |-> seen[u].high \cup Refusing(call[u].level)'.high,
                      empty |-> seen[u].empty \cup Refusing(call[u].level)'.empty]
      BY <1>2, <2>2 DEF Disturb
    <3> QED
      BY <2>2, <3>1 DEF Noted
  <2> QED
    BY <2>1, <2>2
<1>3. CASE Calls(t)
  <2>1. u # t /\ call'[u] = call[u]
    <3>1. u # t
      BY <1>3, CallBegins, StepKeeps
    <3> QED
      BY <3>1, Frame DEF Same
  <2>2. CASE CallLog(t) \/ CallDrain(t) \/ CallConfig(t) \/ RejectedCall(t)
    <3>1. UNCHANGED <<level, appenders>> /\ seen'[u] = seen[u]
      BY <2>1, <2>2 DEF CallLog, CallDrain, CallConfig, RejectedCall, Start, Inv, TypeOK
    <3> QED
      BY <1>1, <2>1, <3>1
  <2>3. CASE SetLevel(t) \/ AppenderSetLevel(t)
    <3>1. Disturb
      BY <2>3 DEF SetLevel, AppenderSetLevel
    <3> QED
      BY <1>2, <2>1, <3>1
  <2> QED
    BY <1>3, <2>2, <2>3 DEF Calls
<1>4. CASE AddAppender(t) \/ RemoveAppender(t) \/ ClearAppenders(t) \/ SetFormatter(t)
  <2>1. Disturb /\ call'[u] = call[u]
    BY <1>4 DEF AddAppender, RemoveAppender, ClearAppenders, SetFormatter, Done
  <2> QED
    BY <1>2, <2>1
<1>5. CASE ShouldLog(t) \/ ProbeYes(t) \/ ProbeRoot(t) \/ SubmitLevel(t) \/ Enter(t) \/ FallBack(t)
  BY <1>1, <1>5 DEF ShouldLog, ProbeYes, ProbeRoot, SubmitLevel, Enter, FallBack
<1>6. CASE Format(t) \/ Gate(t) \/ Write(t) \/ Drain(t) \/ Leave(t)
  BY <1>1, <1>6 DEF Format, Gate, Write, Drain, Leave
<1>7. CASE FormatThrows(t) \/ WriteThrows(t) \/ DrainThrows(t)
  BY <1>1, <1>7 DEF FormatThrows, WriteThrows, DrainThrows
<1> QED
  BY <1>3, <1>4, <1>5, <1>6, <1>7 DEF Step, Work, Throw

(* Only a log statement is a call of its kind.                             *)
LEMMA OnlyLogs ==
    ASSUME Inv, NEW t \in Threads, Calls(t), ~CallLog(t)
    PROVE  pc'[t] # "shouldLog"
<1>1. ASSUME NEW c, NEW where, where # "shouldLog", Begin(t, c, where) PROVE pc'[t] # "shouldLog"
  BY <1>1 DEF Begin, Inv, TypeOK
<1>2. CASE CallDrain(t) \/ CallConfig(t)
  BY <1>1, <1>2 DEF CallDrain, CallConfig, Start
<1>3. CASE RejectedCall(t) \/ SetLevel(t) \/ AppenderSetLevel(t)
  BY <1>1, <1>3 DEF RejectedCall, SetLevel, AppenderSetLevel
<1> QED
  BY <1>2, <1>3 DEF Calls

LEMMA JudgeStep ==
    ASSUME Inv, Inv', Named, Named', NEW t \in Threads, Step(t) \/ Calls(t),
           \A u \in Threads : Judged(u), \A u \in Threads : OnCourse(u)
    PROVE  \A u \in Threads : Judged(u)'
<1> USE DEF config, ghosts, Goto, Return
<1>1. \A a \in Appenders : Moves(t, a)
  BY Frame
<1>2. ASSUME NEW u \in Threads \ {t} PROVE Judged(u)'
  <2> SUFFICES ASSUME call'[u] # None, call'[u].op = "log" PROVE Judged(u)'
    BY DEF Judged
  <2>1. Same(u)
    BY Frame
  <2>2. Judged(u) /\ call[u] # None /\ call[u].op = "log" /\ u # t
    BY <2>1 DEF Same
  <2>3. Record(u)' = Record(u) /\ Record(u) # Record(t)
    BY <2>1 DEF Same, Record
  <2>4. \A lg \in Via(Record(u))' : lg \in Via(Record(u))
    BY <1>1, <2>3, NewVia
  <2>5. Written(Record(u))' => Written(Record(u))
    BY <1>1, <2>3, NewLine
  <2>6. /\ seen[u].high \subseteq seen'[u].high /\ seen[u].empty \subseteq seen'[u].empty
        /\ pc[u] # "idle" /\ Noted(u) => Noted(u)'
    BY <2>2, Noticed
  <2> QED
    BY <2>1, <2>2, <2>3, <2>4, <2>5, <2>6 DEF Judged, Same
<1>3. CASE Calls(t)
  <2> SUFFICES ASSUME call'[t] # None, call'[t].op = "log" PROVE Judged(t)'
    BY <1>2 DEF Judged
  <2>1. pc'[t] = "shouldLog" /\ cur'[t] = call'[t].logger
    BY <1>3, CallBegins DEF DrainOps
  <2>2. call'[t].logger \in Loggers
    BY <2>1 DEF Inv, CallOK
  <2>3. ~Written(Record(t))'
    <3>1. calls'[t] \in 0..MaxCalls /\ ~(calls'[t] < calls'[t])
      BY ParameterAssumption DEF Inv, TypeOK
    <3> QED
      BY <2>1, <3>1 DEF Named, Record, Unwritten
  <2>4. \A lg : lg \notin Via(Record(t))'
    BY <2>3 DEF Via, Written
  <2>5. Noted(t)'
    <3>1. CASE CallLog(t)
      <4>1. PICK lg \in Loggers, lv \in Levels :
               Start(t, [op |-> "log", logger |-> lg, level |-> lv, arg |-> None], "shouldLog")
        BY <3>1 DEF CallLog
      <4>2. call'[t].level = lv /\ seen'[t] = Refusing(lv) /\ UNCHANGED <<level, appenders>>
        BY <4>1 DEF Start, Begin, Inv, TypeOK
      <4> QED
        BY <4>2 DEF Noted, Refusing
    <3>2. CASE ~CallLog(t)
      BY <1>3, <3>2, <2>1, OnlyLogs
    <3> QED
      BY <3>1, <3>2
  <2> QED
    BY <2>1, <2>2, <2>3, <2>4, <2>5 DEF Judged
<1>4. CASE Step(t)
  <2> SUFFICES ASSUME call'[t] # None, call'[t].op = "log" PROVE Judged(t)'
    BY <1>2 DEF Judged
  <2> DEFINE own == call[t].logger
  <2>1. /\ call'[t] = call[t] /\ calls'[t] = calls[t] /\ pc[t] # "idle"
        /\ pc[t] = "write" => pc'[t] = "append"
    BY <1>4, StepKeeps
  <2>2. Judged(t) /\ call[t] # None /\ call[t].op = "log" /\ OnCourse(t)
    BY <2>1
  <2>3. /\ seen[t].high \subseteq seen'[t].high /\ seen[t].empty \subseteq seen'[t].empty
        /\ Noted(t) /\ Noted(t)' /\ own \in Loggers /\ cur[t] \in Loggers
        /\ cur[t] = own \/ (cur[t] = Root[own] /\ own \in seen[t].empty)
        /\ \A lg \in Via(Record(t)) : lg = cur[t]
    <3>1. Noted(t) /\ own \in Loggers
      BY <2>1, <2>2 DEF Judged
    <3>2. cur[t] \in Loggers
      BY <2>1 DEF Inv, CallOK
    <3> QED
      BY <1>4, <2>1, <2>2, <3>1, <3>2, Noticed DEF Judged
  <2>4. Record(t)' = Record(t)
    BY <2>1 DEF Record
  <2>5. \A lg \in Via(Record(t))' : lg = cur[t]
    BY <1>1, <2>3, <2>4, NewVia
  <2>6. pc[t] \in Unwritten => ~Written(Record(t))' /\ \A lg : lg \notin Via(Record(t))'
    <3>1. calls[t] \in 0..MaxCalls /\ ~(calls[t] < calls[t])
      BY ParameterAssumption DEF Inv, TypeOK
    <3>2. pc[t] \in Unwritten => ~Written(Record(t))
      BY <3>1 DEF Named, Record
    <3>3. pc[t] \in Unwritten => ~Written(Record(t))'
      BY <1>1, <2>4, <3>2, NewLine DEF Unwritten
    <3> QED
      BY <3>3 DEF Via, Written
  <2> DEFINE Turned == \/ own \in seen'[t].high
                       \/ own \in seen'[t].empty /\ Root[own] \in {None} \cup seen'[t].high \cup seen'[t].empty
  <2>7. ASSUME cur'[t] = cur[t], result'[t] \notin {"filtered", "dropped", "nowhere"} \/ pc'[t] # "idle"
        PROVE  Judged(t)'
    BY <2>1, <2>3, <2>5, <2>7 DEF Judged
  <2>8. ASSUME pc[t] \in Unwritten, cur'[t] = cur[t], Turned
        PROVE  Judged(t)'
    BY <2>1, <2>3, <2>5, <2>6, <2>8 DEF Judged
  <2>9. ASSUME pc[t] \in Unwritten, pc'[t] # "idle", cur'[t] = own \/ (cur'[t] = Root[own] /\ own \in seen[t].empty)
        PROVE  Judged(t)'
    BY <2>1, <2>3, <2>6, <2>9 DEF Judged
  <2>10. cur[t] \in seen[t].high \/ (cur[t] \in seen[t].empty /\ Root[cur[t]] = None) => Turned
    BY <2>3
  <2>11. /\ Below(call[t].level, level[cur[t]]) => cur[t] \in seen[t].high
         /\ appenders[cur[t]] = <<>> => cur[t] \in seen[t].empty
    BY <2>3 DEF Noted, Refusing
  <2>12. Root[cur[t]] # None => cur[t] = own
    BY <2>3, RootAssumption
  <2> HIDE DEF Turned
  <2>13. CASE ShouldLog(t) \/ SubmitLevel(t)
    <3>1. /\ pc[t] \in Unwritten /\ cur'[t] = cur[t]
          /\ pc'[t] # "idle" \/ Below(call[t].level, level[cur[t]])
      BY <2>13 DEF ShouldLog, SubmitLevel, Unwritten, Inv, TypeOK
    <3> QED
      BY <2>7, <2>8, <2>10, <2>11, <3>1
  <2>14. CASE ProbeYes(t)
    <3>1. pc[t] \in Unwritten /\ cur'[t] = own /\ pc'[t] # "idle"
      BY <2>14 DEF ProbeYes, Unwritten, Inv, TypeOK
    <3> QED
      BY <2>9, <3>1
  <2>15. CASE ProbeRoot(t) \/ FallBack(t)
    <3>1. /\ pc[t] \in Unwritten /\ appenders[cur[t]] = <<>>
          /\ Root[cur[t]] = None => cur'[t] = cur[t]
          /\ Root[cur[t]] # None => cur'[t] = Root[cur[t]] /\ pc'[t] # "idle"
      BY <2>15 DEF ProbeRoot, FallBack, Unwritten, Inv, TypeOK
    <3>2. CASE Root[cur[t]] = None
      BY <2>8, <2>10, <2>11, <3>1, <3>2
    <3>3. CASE Root[cur[t]] # None
      BY <2>9, <2>11, <2>12, <3>1, <3>3
    <3> QED
      BY <3>2, <3>3
  <2>16. CASE Enter(t) \/ Format(t) \/ FormatThrows(t) \/ Gate(t)
    <3>1. cur'[t] = cur[t] /\ pc'[t] # "idle"
      BY <2>16 DEF Enter, Format, FormatThrows, Gate, Inv, TypeOK
    <3> QED
      BY <2>7, <3>1
  <2>17. CASE Write(t) \/ WriteThrows(t) \/ Drain(t) \/ DrainThrows(t)
    <3>1. cur'[t] = cur[t] /\ pc'[t] # "idle"
      BY <2>17 DEF Write, WriteThrows, Drain, DrainThrows, Inv, TypeOK
    <3> QED
      BY <2>7, <3>1
  <2>18. CASE Leave(t)
    <3>1. cur'[t] = cur[t] /\ result'[t] \in {"threw", "ok"}
      BY <2>18 DEF Leave, Inv, TypeOK
    <3> QED
      BY <2>7, <3>1
  <2>19. CASE AddAppender(t) \/ RemoveAppender(t) \/ ClearAppenders(t) \/ SetFormatter(t)
    BY <2>2, <2>19 DEF AddAppender, RemoveAppender, ClearAppenders, SetFormatter, Locked
  <2> QED
    BY <1>4, <2>13, <2>14, <2>15, <2>16, <2>17, <2>18, <2>19 DEF Step, Work, Throw
<1> QED
  BY <1>3, <1>4

LEMMA JudgeInit == Init => \A u \in Threads : Judged(u)
BY DEF Init, Judged

(* However the configuration changes between the steps of a log statement, *)
(* it is lost only if some moment of it justified that, goes to the root   *)
(* only if its own logger had no appenders at some moment of it, and never *)
(* goes to both.                                                           *)
THEOREM VerdictsHold == Spec => []VerdictHeld
<1> DEFINE AllJudged == \A u \in Threads : Judged(u)
<1>1. Strong /\ Strong' /\ AllJudged /\ [Next]_vars => AllJudged'
  <2> SUFFICES ASSUME Strong, Strong', AllJudged, [Next]_vars PROVE AllJudged'
    OBVIOUS
  <2>1. /\ Inv /\ Inv' /\ Named /\ Named' /\ \A t \in Threads : OnCourse(t)
        /\ \A t \in Threads : Judged(t)
    BY DEF Strong, Calling
  <2>2. ASSUME NEW t \in Threads, Calls(t) \/ Step(t) PROVE AllJudged'
    BY <2>1, <2>2, JudgeStep
  <2>3. CASE UNCHANGED vars
    <3>1. /\ \A rec : Via(rec)' = Via(rec) /\ (Written(rec)' <=> Written(rec))
          /\ \A u : Record(u)' = Record(u)
          /\ \A u : Noted(u)' <=> Noted(u)
      BY <2>3 DEF vars, Via, Written, Record, Noted, Refusing
    <3> QED
      BY <2>1, <2>3, <3>1 DEF vars, Judged
  <2> QED
    BY <2>2, <2>3 DEF Next, Quiet
<1>2. AllJudged => VerdictHeld
  <2> SUFFICES ASSUME AllJudged, NEW t \in Threads, pc[t] = "idle", call[t] # None, call[t].op = "log"
               PROVE  LET own == call[t].logger IN
                      /\ \A lg \in Via(Record(t)) :
                           /\ Via(Record(t)) = {lg}
                           /\ lg = own \/ (lg = Root[own] /\ own \in seen[t].empty)
                      /\ result[t] \in {"filtered", "dropped", "nowhere"} =>
                           /\ Via(Record(t)) = {}
                           /\ \/ own \in seen[t].high
                              \/ /\ own \in seen[t].empty
                                 /\ Root[own] \in {None} \cup seen[t].high \cup seen[t].empty
    BY DEF VerdictHeld
  <2>1. Judged(t)
    OBVIOUS
  <2>2. ~Written(Record(t)) => Via(Record(t)) = {}
    BY DEF Via, Written
  <2> QED
    BY <2>1, <2>2 DEF Judged
<1>3. Init => AllJudged
  BY JudgeInit
<1> QED
  BY <1>1, <1>2, <1>3, StrongInvariance, PTL DEF Spec

-----------------------------------------------------------------------------
(* Logger implements Delivery                                              *)

DJob    == [t \in Threads |-> Job(t)]
DCourse == [t \in Threads |-> Course(t)]

(* A thread in no list has no job; in one, its job is read off the logger. *)
LEMMA JobShape ==
    ASSUME NEW t \in Threads
    PROVE  /\ pc[t] \notin Inside \ {"leave"} => Job(t) = D!NoJob
           /\ pc[t] \in Inside \ {"leave"} =>
                Job(t) = [op |-> call[t].op, level |-> call[t].level, via |-> cur[t],
                          fmt |-> formatter[cur[t]], list |-> appenders[cur[t]],
                          pos |-> idx[t], stage |-> pc[t]]
BY DEF Job, D!NoJob

Early == {"shouldLog", "probe", "submit", "enter"}

LEMMA CourseIs ==
    ASSUME NEW t \in Threads, NEW o \in BOOLEAN, NEW w \in BOOLEAN
    PROVE  /\ (pc[t] \in Early <=> o) /\ (result[t] = "threw" <=> w) =>
                Course(t) = [nr |-> calls[t], open |-> o, threw |-> w]
           /\ (pc'[t] \in Early <=> o) /\ (result'[t] = "threw" <=> w) =>
                Course(t)' = [nr |-> calls'[t], open |-> o, threw |-> w]
<1>1. ASSUME pc[t] \in Early <=> o, result[t] = "threw" <=> w
      PROVE  Course(t) = [nr |-> calls[t], open |-> o, threw |-> w]
  <2>1. (pc[t] \in {"shouldLog", "probe", "submit", "enter"}) = o
    BY <1>1 DEF Early
  <2>2. (result[t] = "threw") = w
    BY <1>1
  <2> QED
    BY <2>1, <2>2, Zenon DEF Course
<1>2. ASSUME pc'[t] \in Early <=> o, result'[t] = "threw" <=> w
      PROVE  Course(t)' = [nr |-> calls'[t], open |-> o, threw |-> w]
  <2>1. (pc'[t] \in {"shouldLog", "probe", "submit", "enter"}) = o
    BY <1>2 DEF Early
  <2>2. (result'[t] = "threw") = w
    BY <1>2
  <2> QED
    BY <2>1, <2>2, Zenon DEF Course
<1> QED
  BY <1>1, <1>2

LEMMA DeliveryInit == Init => D!Init
<1> SUFFICES ASSUME Init PROVE D!Init
  OBVIOUS
<1>1. \A t \in Threads : Job(t) = D!NoJob
  BY JobShape DEF Init, Inside
<1>2. /\ DJob = [t \in Threads |-> D!NoJob]
      /\ DCourse = [t \in Threads |-> [nr |-> 0, open |-> FALSE, threw |-> FALSE]]
  <2>1. \A t \in Threads : Course(t) = [nr |-> 0, open |-> FALSE, threw |-> FALSE]
    BY CourseIs DEF Init, Early
  <2> QED
    BY <1>1, <2>1 DEF DJob, DCourse
<1>3. level \in [Loggers -> Level] /\ appenders \in [Loggers -> Seq(Appenders)]
      /\ formatter \in [Loggers -> Formatters] /\ threshold \in [Appenders -> Level]
  BY ParameterAssumption DEF Init
<1>4. sink = [a \in Appenders |-> Empty]
  BY DEF Init
<1> QED
  BY <1>2, <1>3, <1>4 DEF D!Init, DJob, DCourse, Empty, D!Empty, Level, D!Level, DEBUG, D!DEBUG, OFF, D!OFF

(* What the mapping makes of a step that changes nobody's job, or one.     *)
LEMMA OneJob ==
    ASSUME NEW t \in Threads,
           \A u \in Threads \ {t} : Job(u)' = Job(u) /\ Course(u)' = Course(u)
    PROVE  /\ DJob' = [DJob EXCEPT ![t] = Job(t)'] /\ DJob[t] = Job(t)
           /\ DCourse' = [DCourse EXCEPT ![t] = Course(t)'] /\ DCourse[t] = Course(t)
           /\ Job(t)' = Job(t) => DJob' = DJob
           /\ Course(t)' = Course(t) => DCourse' = DCourse
BY DEF DJob, DCourse

LEMMA Reconfigured == ASSUME Inv', UNCHANGED sink, DJob' = DJob, DCourse' = DCourse PROVE D!Next
<1>1. appenders' \in [Loggers -> Seq(Appenders)] /\ formatter' \in [Loggers -> Formatters]
      /\ threshold' \in [Appenders -> Level]
  BY DEF Inv, TypeOK
<1>2. D!Reconfigure
  BY <1>1 DEF D!Reconfigure, DJob, DCourse, Level, D!Level, DEBUG, D!DEBUG, OFF, D!OFF
<1> QED
  BY <1>2 DEF D!Next

LEMMA OthersKeep ==
    ASSUME Inv, NEW t \in Threads, Step(t) \/ Calls(t)
    PROVE  \A u \in Threads \ {t} : Job(u)' = Job(u)
<1> USE DEF config, ghosts, Goto, Return
<1> DEFINE AsIs(u) == /\ pc'[u] = pc[u] /\ call'[u] = call[u] /\ cur'[u] = cur[u]
                      /\ idx'[u] = idx[u] /\ calls'[u] = calls[u]
<1>1. ASSUME UNCHANGED <<appenders, formatter>>, \A u \in Threads \ {t} : AsIs(u)
      PROVE  \A u \in Threads \ {t} : Job(u)' = Job(u)
  BY <1>1 DEF Job
<1>2. CASE Calls(t)
  <2>1. ASSUME NEW c, NEW where, Begin(t, c, where) PROVE \A u \in Threads \ {t} : AsIs(u)
    BY <2>1 DEF Begin, Inv, TypeOK
  <2>2. UNCHANGED <<appenders, formatter>>
    BY <1>2 DEF Calls, CallLog, CallDrain, CallConfig, RejectedCall, SetLevel, AppenderSetLevel,
                Start
  <2>3. \E c, where : Begin(t, c, where)
    BY <1>2 DEF Calls, CallLog, CallDrain, CallConfig, RejectedCall, SetLevel, AppenderSetLevel,
                Start
  <2> QED
    BY <1>1, <2>1, <2>2, <2>3
<1>3. CASE AddAppender(t) \/ RemoveAppender(t) \/ ClearAppenders(t) \/ SetFormatter(t)
  <2>1. /\ readers[cur[t]] = {}
        /\ \A u \in Threads \ {t} : AsIs(u)
        /\ \A lg \in Loggers : lg # cur[t] =>
              appenders'[lg] = appenders[lg] /\ formatter'[lg] = formatter[lg]
    BY <1>3 DEF AddAppender, RemoveAppender, ClearAppenders, SetFormatter, Locked, Exclusive, Done,
                Inv, TypeOK
  <2>2. ASSUME NEW u \in Threads \ {t} PROVE Job(u)' = Job(u)
    <3>1. CASE pc[u] \in Inside
      <4>1. cur[u] \in Loggers /\ u \in readers[cur[u]]
        BY <3>1 DEF Inv, ListFrozen, CallOK, Inside
      <4> QED
        BY <2>1, <4>1 DEF Job
    <3>2. CASE pc[u] \notin Inside
      BY <2>1, <3>2 DEF Job
    <3> QED
      BY <3>1, <3>2
  <2> QED
    BY <2>2
<1>4. CASE ShouldLog(t) \/ ProbeYes(t) \/ ProbeRoot(t)
  BY <1>1, <1>4 DEF ShouldLog, ProbeYes, ProbeRoot, Inv, TypeOK
<1>5. CASE SubmitLevel(t) \/ Enter(t) \/ FallBack(t)
  <2>1. CASE SubmitLevel(t)
    BY <1>1, <2>1 DEF SubmitLevel, Inv, TypeOK
  <2>2. CASE Enter(t)
    BY <1>1, <2>2 DEF Enter, Inv, TypeOK
  <2>3. CASE FallBack(t)
    BY <1>1, <2>3 DEF FallBack, Inv, TypeOK
  <2> QED
    BY <1>5, <2>1, <2>2, <2>3
<1>6. CASE Format(t) \/ FormatThrows(t) \/ Gate(t)
  BY <1>1, <1>6 DEF Format, FormatThrows, Gate, Advance, Inv, TypeOK
<1>7. CASE Write(t) \/ WriteThrows(t)
  BY <1>1, <1>7 DEF Write, WriteThrows, Advance, Inv, TypeOK
<1>8. CASE Drain(t) \/ DrainThrows(t) \/ Leave(t)
  BY <1>1, <1>8 DEF Drain, DrainThrows, Leave, Advance, Inv, TypeOK
<1> QED
  BY <1>2, <1>3, <1>4, <1>5, <1>6, <1>7, <1>8 DEF Step, Work, Throw

(* A call begins with nothing thrown, and leaves the lists as they are.    *)
LEMMA FreshCall ==
    ASSUME Inv, NEW t \in Threads, Calls(t)
    PROVE  result'[t] # "threw" /\ UNCHANGED <<appenders, formatter, sink>>
BY DEF Calls, CallLog, CallDrain, CallConfig, RejectedCall, SetLevel, AppenderSetLevel, Start,
       config, Inv, TypeOK

LEMMA DeliveryStep ==
    ASSUME Inv, Inv', NEW t \in Threads, OnCourse(t), Step(t) \/ Calls(t)
    PROVE  D!Next
<1> USE DEF config, ghosts, Goto, Return
<1>1. \A u \in Threads \ {t} : Job(u)' = Job(u) /\ Course(u)' = Course(u)
  <2>1. \A u \in Threads \ {t} : Course(u)' = Course(u)
    BY Frame DEF Same, Course
  <2> QED
    BY <2>1, OthersKeep
<1>2. /\ DJob' = [DJob EXCEPT ![t] = Job(t)'] /\ DJob[t] = Job(t)
      /\ DCourse' = [DCourse EXCEPT ![t] = Course(t)'] /\ DCourse[t] = Course(t)
      /\ Job(t)' = Job(t) => DJob' = DJob
      /\ Course(t)' = Course(t) => DCourse' = DCourse
  BY <1>1, OneJob
<1>3. ASSUME Job(t)' = Job(t), Course(t)' = Course(t), UNCHANGED sink PROVE D!Next
  BY <1>2, <1>3, Reconfigured
<1>4. ASSUME NEW o \in BOOLEAN, NEW w \in BOOLEAN
      PROVE  /\ (pc[t] \in Early <=> o) /\ (result[t] = "threw" <=> w) =>
                  Course(t) = [nr |-> calls[t], open |-> o, threw |-> w]
             /\ (pc'[t] \in Early <=> o) /\ (result'[t] = "threw" <=> w) =>
                  Course(t)' = [nr |-> calls'[t], open |-> o, threw |-> w]
  BY CourseIs
<1>5. ASSUME pc'[t] \in Early <=> pc[t] \in Early, result'[t] = "threw" <=> result[t] = "threw",
             calls'[t] = calls[t]
      PROVE  Course(t)' = Course(t)
  <2>1. PICK o \in BOOLEAN, w \in BOOLEAN : (pc[t] \in Early <=> o) /\ (result[t] = "threw" <=> w)
    OBVIOUS
  <2> QED
    BY <1>4, <1>5, <2>1
<1>6. /\ pc[t] \in Early => Job(t) = D!NoJob /\ result[t] = "none"
      /\ pc[t] = "exclusive" => Job(t) = D!NoJob /\ result[t] = "none"
      /\ pc[t] \in {"idle", "leave"} => Job(t) = D!NoJob
      /\ pc'[t] \in {"idle", "leave"} \cup Early => Job(t)' = D!NoJob
  BY DEF Early, Inside, OnCourse, Job, D!NoJob
<1>7. CASE Calls(t)
  <2>1. pc[t] = "idle" /\ pc'[t] \in {"idle", "shouldLog", "enter", "exclusive"}
        /\ calls'[t] = calls[t] + 1 /\ result'[t] # "threw"
        /\ UNCHANGED <<appenders, formatter, sink>>
    BY <1>7, CallBegins, FreshCall
  <2>2. Job(t) = D!NoJob /\ Job(t)' = D!NoJob
    BY <2>1 DEF Job, Inside, D!NoJob
  <2>3. PICK open \in BOOLEAN : pc'[t] \in Early <=> open
    OBVIOUS
  <2>7. /\ Course(t).nr = calls[t] /\ ~Course(t).open
        /\ Course(t)' = [nr |-> Course(t).nr + 1, open |-> open, threw |-> FALSE]
    <3>1. PICK w \in BOOLEAN : result[t] = "threw" <=> w
      OBVIOUS
    <3>2. Course(t) = [nr |-> calls[t], open |-> FALSE, threw |-> w]
      BY <1>4, <2>1, <3>1 DEF Early
    <3>3. Course(t)' = [nr |-> calls'[t], open |-> open, threw |-> FALSE]
      BY <1>4, <2>1, <2>3
    <3> QED
      BY <2>1, <3>2, <3>3
  <2>4. threshold' \in [Appenders -> Level]
    BY DEF Inv, TypeOK
  <2>6. D!NewCall(t)
    BY <1>2, <2>1, <2>2, <2>4, <2>7
    DEF D!NewCall, DJob, DCourse, Level, D!Level, DEBUG, D!DEBUG, OFF, D!OFF
  <2> QED
    BY <2>6 DEF D!Next
<1> SUFFICES ASSUME Step(t) PROVE D!Next
  BY <1>7
<1>8. calls'[t] = calls[t]
  BY StepKeeps
<1>9. CASE ShouldLog(t) \/ ProbeYes(t) \/ ProbeRoot(t) \/ SubmitLevel(t) \/ FallBack(t)
  <2>1. /\ pc[t] \in Early /\ pc'[t] \in {"idle"} \cup Early
        /\ result'[t] # result[t] => result'[t] \in {"filtered", "dropped", "nowhere"}
        /\ UNCHANGED <<sink, appenders, formatter, threshold>>
    BY <1>9 DEF ShouldLog, ProbeYes, ProbeRoot, SubmitLevel, FallBack, Inv, TypeOK, Early
  <2>2. Job(t)' = Job(t) /\ result'[t] # "threw" /\ result[t] = "none"
    BY <1>6, <2>1
  <2>3. CASE pc'[t] \in Early
    BY <1>3, <1>5, <1>8, <2>1, <2>2, <2>3
  <2>4. CASE pc'[t] \notin Early
    <3>1. Course(t) = [nr |-> calls[t], open |-> TRUE, threw |-> FALSE]
      BY <1>4, <2>1, <2>2
    <3>2. Course(t)' = [nr |-> calls[t], open |-> FALSE, threw |-> FALSE]
      BY <1>4, <1>8, <2>2, <2>4
    <3>3. Course(t).open /\ Course(t)' = D!Went(Course(t), FALSE, Course(t).threw)
      BY <3>1, <3>2 DEF D!Went
    <3>4. DJob' = DJob
      BY <1>2, <2>2
    <3>5. D!Pass(t)
      BY <1>2, <2>1, <3>3, <3>4 DEF D!Pass, D!Closed, DJob, DCourse
    <3> QED
      BY <3>5 DEF D!Next
  <2> QED
    BY <2>3, <2>4
<1>10. CASE AddAppender(t) \/ RemoveAppender(t) \/ ClearAppenders(t) \/ SetFormatter(t)
  <2>1. pc[t] = "exclusive" /\ pc'[t] = "idle" /\ UNCHANGED sink /\ result'[t] = "ok"
    BY <1>10 DEF AddAppender, RemoveAppender, ClearAppenders, SetFormatter, Locked, Done, Inv, TypeOK
  <2>2. Job(t)' = Job(t) /\ result[t] = "none"
    BY <1>6, <2>1
  <2>3. Course(t)' = Course(t)
    BY <1>5, <1>8, <2>1, <2>2 DEF Early
  <2> QED
    BY <1>3, <2>1, <2>2, <2>3
<1>11. CASE Enter(t)
  <2>1. /\ pc[t] = "enter" /\ pc'[t] = (IF call[t].op = "log" THEN "format" ELSE "drain")
        /\ idx'[t] = 1 /\ appenders[cur[t]] # <<>>
        /\ UNCHANGED <<call, cur, calls, formatter, appenders, threshold, sink, result>>
    BY <1>11 DEF Enter, Inv, TypeOK
  <2>2. Course(t).open /\ Course(t)' = D!Went(Course(t), FALSE, Course(t).threw)
    <3>1. result[t] = "none" /\ result'[t] = "none" /\ pc[t] \in Early /\ pc'[t] \notin Early
      BY <1>6, <2>1 DEF Early
    <3>2. Course(t) = [nr |-> calls[t], open |-> TRUE, threw |-> FALSE]
      BY <1>4, <3>1
    <3>3. Course(t)' = [nr |-> calls[t], open |-> FALSE, threw |-> FALSE]
      BY <1>4, <1>8, <3>1
    <3> QED
      BY <3>2, <3>3 DEF D!Went
  <2>6. Job(t) = D!NoJob /\ D!Closed(t)
    BY <1>2, <1>6, <2>1, <2>2 DEF D!Closed, DCourse, Early
  <2>3. Job(t)' = [op |-> call[t].op, level |-> call[t].level, via |-> cur[t],
                   fmt |-> formatter[cur[t]], list |-> appenders[cur[t]], pos |-> 1,
                   stage |-> IF call[t].op = "log" THEN "format" ELSE "drain"]
    BY <2>1 DEF Job, Inside
  <2>4. cur[t] \in Loggers /\ call[t].op \in {"log", "flush", "sync"} /\ call[t].level \in Level
    BY <2>1 DEF Inv, CallOK, Call, DrainOps
  <2>5. D!Take(t, call[t].op, call[t].level, cur[t])
    BY <1>2, <2>1, <2>3, <2>6 DEF D!Take, DJob
  <2> QED
    BY <2>4, <2>5 DEF D!Next, Level, D!Level, DEBUG, D!DEBUG, OFF, D!OFF
<1> DEFINE JobAt(i, stage) ==
        [op |-> call[t].op, level |-> call[t].level, via |-> cur[t], fmt |-> formatter[cur[t]],
         list |-> appenders[cur[t]], pos |-> i, stage |-> stage]
<1>12. pc[t] \in Inside \ {"leave"} =>
          /\ Job(t) = JobAt(idx[t], pc[t])
          /\ \A i, stage : D!Moved(Job(t), i, stage) = JobAt(i, stage)
          /\ cur[t] \in Loggers /\ idx[t] \in Nat /\ Len(appenders[cur[t]]) \in Nat
  <2> SUFFICES ASSUME pc[t] \in Inside \ {"leave"}
               PROVE  /\ Job(t) = JobAt(idx[t], pc[t])
                      /\ \A i, stage : D!Moved(Job(t), i, stage) = JobAt(i, stage)
                      /\ cur[t] \in Loggers /\ idx[t] \in Nat /\ Len(appenders[cur[t]]) \in Nat
    OBVIOUS
  <2>1. Job(t) = JobAt(idx[t], pc[t])
    BY JobShape
  <2>2. \A i, stage : D!Moved(Job(t), i, stage) = JobAt(i, stage)
    BY <2>1 DEF D!Moved
  <2>3. cur[t] \in Loggers /\ idx[t] \in Nat
    BY DEF Inv, TypeOK, CallOK, Inside
  <2>4. appenders[cur[t]] \in Seq(Appenders)
    BY <2>3 DEF Inv, TypeOK
  <2> QED
    BY <2>1, <2>2, <2>3, <2>4
<1>13. pc'[t] \in Inside \ {"leave"} /\ UNCHANGED <<call, cur, formatter, appenders>> =>
          Job(t)' = JobAt(idx'[t], pc'[t])
  BY DEF Job
<1>14. pc[t] \in Inside \ {"leave"} =>
          /\ Job(t).op = call[t].op /\ Job(t).level = call[t].level /\ Job(t).pos = idx[t]
          /\ Job(t).via = cur[t] /\ Job(t).fmt = formatter[cur[t]] /\ Job(t).stage = pc[t]
          /\ Job(t).list = appenders[cur[t]]
  BY <1>12
<1> HIDE DEF JobAt
<1>15. CASE Format(t)
  <2>1. pc[t] = "format" /\ pc'[t] = "append"
        /\ UNCHANGED <<call, cur, idx, calls, formatter, appenders, threshold, sink, result>>
    BY <1>15 DEF Format, Inv, TypeOK
  <2>2. Job(t)' = D!Moved(Job(t), Job(t).pos, "append") /\ Job(t).stage = "format"
    BY <1>12, <1>13, <1>14, <2>1 DEF Inside
  <2>3. DCourse' = DCourse
    BY <1>2, <1>5, <2>1 DEF Early
  <2>4. D!Render(t)
    BY <1>2, <2>1, <2>2, <2>3 DEF D!Render, DJob, DCourse
  <2> QED
    BY <2>4 DEF D!Next
<1>16. Here(t) = appenders[cur[t]][idx[t]]
  BY DEF Here
<1>17. ASSUME pc[t] \in {"append", "write", "drain"}, More(t) \/ pc[t] = "write"
       PROVE  /\ idx[t] \in 1..Len(appenders[cur[t]]) /\ Here(t) \in Appenders
              /\ D!At(t, Here(t), pc[t])
  <2>1. idx[t] \in 1..Len(appenders[cur[t]])
    <3>1. snap[t] = appenders[cur[t]] /\ idx[t] \in 1..Len(snap[t]) + 1
          /\ (pc[t] = "write" => idx[t] <= Len(snap[t]))
      BY <1>17 DEF Inv, ListFrozen, Inside
    <3> QED
      BY <1>12, <1>17, <3>1 DEF More, Inside
  <2>2. cur[t] \in Loggers /\ appenders[cur[t]] \in Seq(Appenders)
    BY <1>12, <1>17 DEF Inside, Inv, TypeOK
  <2>3. Here(t) \in Appenders
    BY <2>1, <2>2 DEF Here
  <2>4. D!At(t, Here(t), pc[t])
    BY <1>2, <1>14, <1>16, <1>17, <2>1 DEF D!At, DJob, Inside
  <2> QED
    BY <2>1, <2>3, <2>4
<1>t. ASSUME pc[t] \notin Early, pc'[t] \notin Early, result'[t] = "threw"
       PROVE  Course(t)' = D!Went(Course(t), Course(t).open, TRUE)
  <2>1. PICK w \in BOOLEAN : result[t] = "threw" <=> w
    OBVIOUS
  <2>2. Course(t) = [nr |-> calls[t], open |-> FALSE, threw |-> w]
    BY <1>4, <1>t, <2>1
  <2>3. Course(t)' = [nr |-> calls[t], open |-> FALSE, threw |-> TRUE]
    BY <1>4, <1>8, <1>t
  <2> QED
    BY <2>2, <2>3 DEF D!Went
<1>18. CASE FormatThrows(t) \/ DrainThrows(t)
  <2>1. /\ pc[t] \in {"format", "drain"} /\ pc'[t] = "leave" /\ MayFail /\ result'[t] = "threw"
        /\ pc[t] = "drain" => More(t)
        /\ UNCHANGED <<formatter, appenders, threshold, sink>>
    BY <1>18 DEF FormatThrows, DrainThrows, Inv, TypeOK
  <2>2. Job(t)' = D!NoJob /\ Job(t).stage = pc[t]
    BY <1>6, <1>14, <2>1 DEF Inside
  <2>3. Course(t)' = D!Went(Course(t), Course(t).open, TRUE)
    <3>1. pc[t] \notin Early /\ pc'[t] \notin Early
      BY <2>1 DEF Early
    <3> QED
      BY <1>t, <2>1, <3>1
  <2>4. Job(t).stage = "format" \/ \E a \in Appenders : D!At(t, a, "drain")
    BY <1>17, <2>1, <2>2
  <2>5. D!GiveUp(t)
    BY <1>2, <2>1, <2>2, <2>3, <2>4 DEF D!GiveUp, D!Threw, DJob, DCourse
  <2> QED
    BY <2>5 DEF D!Next
<1>19. CASE Leave(t)
  <2>1. /\ pc[t] \in {"leave", "append", "drain"} /\ (pc[t] = "leave" \/ ~More(t)) /\ pc'[t] = "idle"
        /\ result'[t] = IF result[t] = "threw" THEN "threw" ELSE "ok"
        /\ UNCHANGED <<formatter, appenders, threshold, sink>>
    BY <1>19 DEF Leave, Inv, TypeOK
  <2>3. Course(t)' = Course(t) /\ Job(t)' = D!NoJob
    BY <1>5, <1>6, <1>8, <2>1 DEF Early
  <2>4. CASE pc[t] = "leave"
    BY <1>3, <1>6, <2>1, <2>3, <2>4
  <2>5. CASE pc[t] # "leave"
    <3>1. Job(t).stage \in {"append", "drain"} /\ Job(t).pos > Len(Job(t).list)
      BY <1>12, <1>14, <2>1, <2>5 DEF Inside, More
    <3>2. D!Finish(t)
      BY <1>2, <2>1, <2>3, <3>1 DEF D!Finish, DJob, DCourse
    <3> QED
      BY <3>2 DEF D!Next
  <2> QED
    BY <2>4, <2>5
<1>20. CASE Gate(t)
  <2>1. /\ pc[t] = "append" /\ More(t) /\ pc'[t] \in {"append", "write"}
        /\ UNCHANGED <<call, cur, calls, formatter, appenders, threshold, sink, result>>
    BY <1>20 DEF Gate, Inv, TypeOK
  <2>2. D!At(t, Here(t), "append") /\ Here(t) \in Appenders
    BY <1>17, <2>1
  <2>3. Job(t)' = D!Moved(Job(t), idx'[t], pc'[t]) /\ Job(t).level = call[t].level /\ Job(t).pos = idx[t]
    BY <1>12, <1>13, <1>14, <2>1 DEF Inside
  <2>4. DCourse' = DCourse
    BY <1>2, <1>5, <2>1 DEF Early
  <2>5. CASE Below(call[t].level, threshold[Here(t)])
    <3>1. idx'[t] = idx[t] + 1 /\ pc'[t] = "append"
      BY <1>20, <2>1, <2>5 DEF Gate, Advance, Inv, TypeOK
    <3>2. D!Refuse(t, Here(t))
      BY <1>2, <2>1, <2>2, <2>3, <2>4, <2>5, <3>1
      DEF D!Refuse, D!Onward, DJob, DCourse, Below, D!Below
    <3> QED
      BY <2>2, <3>2 DEF D!Next
  <2>6. CASE ~Below(call[t].level, threshold[Here(t)])
    <3>1. idx'[t] = idx[t] /\ pc'[t] = "write"
      BY <1>20, <2>1, <2>6 DEF Gate, Inv, TypeOK
    <3>2. D!Admit(t, Here(t))
      BY <1>2, <2>1, <2>2, <2>3, <2>4, <2>6, <3>1 DEF D!Admit, DJob, DCourse, Below, D!Below
    <3> QED
      BY <2>2, <3>2 DEF D!Next
  <2> QED
    BY <2>5, <2>6
<1>21. CASE Write(t) \/ WriteThrows(t)
  <2>1. /\ pc[t] = "write" /\ pc'[t] = "append" /\ idx'[t] = idx[t] + 1
        /\ UNCHANGED <<call, cur, calls, formatter, appenders, threshold>>
    BY <1>21 DEF Write, WriteThrows, Advance, Inv, TypeOK
  <2>2. D!At(t, Here(t), "write") /\ Here(t) \in Appenders
    BY <1>17, <2>1
  <2>3. Job(t)' = D!Moved(Job(t), Job(t).pos + 1, "append")
    BY <1>12, <1>13, <1>14, <2>1 DEF Inside
  <2>4. CASE Write(t)
    <3>1. result' = result /\ text[t] = formatter[cur[t]]
      BY <2>1, <2>4 DEF Write, Inv, CallOK
    <3>2. DCourse' = DCourse /\ Record(t) = <<t, Course(t).nr>>
      <4>1. DCourse' = DCourse
        BY <1>2, <1>5, <2>1, <3>1 DEF Early
      <4>2. Course(t).nr = calls[t]
        BY DEF Course
      <4> QED
        BY <4>1, <4>2 DEF Record
    <3>3. sink' = [sink EXCEPT ![Here(t)] =
                      Wrote(@, [rec |-> <<t, Course(t).nr>>, level |-> Job(t).level,
                                fmt |-> Job(t).fmt, via |-> Job(t).via],
                            Job(t).level = FATAL)]
      BY <1>14, <2>1, <2>4, <3>1, <3>2 DEF Write, Inside
    <3>4. D!Deliver(t, Here(t))
      BY <1>2, <2>1, <2>2, <2>3, <3>2, <3>3
      DEF D!Deliver, D!Onward, DJob, DCourse, Wrote, D!Wrote, FATAL, D!FATAL
    <3> QED
      BY <2>2, <3>4 DEF D!Next
  <2>5. CASE WriteThrows(t)
    <3>1. MayFail /\ result'[t] = "threw" /\ UNCHANGED sink
      BY <2>5 DEF WriteThrows, Inv, TypeOK
    <3>2. Course(t)' = D!Went(Course(t), Course(t).open, TRUE)
      BY <1>t, <2>1, <3>1 DEF Early
    <3>3. D!Miss(t, Here(t))
      BY <1>2, <2>1, <2>2, <2>3, <3>1, <3>2 DEF D!Miss, D!Threw, D!Onward, DJob, DCourse
    <3> QED
      BY <2>2, <3>3 DEF D!Next
  <2> QED
    BY <1>21, <2>4, <2>5
<1>22. CASE Drain(t)
  <2>1. /\ pc[t] = "drain" /\ More(t) /\ pc'[t] = "drain" /\ idx'[t] = idx[t] + 1
        /\ UNCHANGED <<call, cur, calls, formatter, appenders, threshold, result>>
    BY <1>22 DEF Drain, Advance, Inv, TypeOK
  <2>2. D!At(t, Here(t), "drain") /\ Here(t) \in Appenders
    BY <1>17, <2>1
  <2>3. Job(t)' = D!Moved(Job(t), Job(t).pos + 1, "drain")
    BY <1>12, <1>13, <1>14, <2>1 DEF Inside
  <2>4. DCourse' = DCourse
    BY <1>2, <1>5, <2>1 DEF Early
  <2>5. sink' = [sink EXCEPT ![Here(t)] = IF Job(t).op = "sync" THEN Synced(@) ELSE Flushed(@)]
    BY <1>14, <1>22, <2>1 DEF Drain, Inside
  <2>6. D!DrainOne(t, Here(t))
    BY <1>2, <2>1, <2>2, <2>3, <2>4, <2>5
    DEF D!DrainOne, D!Onward, DJob, DCourse, Synced, D!Synced, Flushed, D!Flushed
  <2> QED
    BY <2>2, <2>6 DEF D!Next
<1> QED
  BY <1>9, <1>10, <1>11, <1>15, <1>18, <1>19, <1>20, <1>21, <1>22 DEF Step, Work, Throw

(* The lock makes walking the live list as good as walking a copy: every   *)
(* behaviour of the loggers is one of Delivery, where calls work from      *)
(* copies of the list and the formatter taken in one step, and an          *)
(* exception costs what the catch in append, or in nobody, says.           *)
THEOREM LoggerImplementsDelivery == Spec => Delivers
<1>1. Strong /\ Strong' /\ [Next]_vars => [D!Next]_(D!vars)
  <2> SUFFICES ASSUME Strong, Strong', [Next]_vars PROVE [D!Next]_(D!vars)
    OBVIOUS
  <2>1. Inv /\ Inv' /\ \A t \in Threads : OnCourse(t)
    BY DEF Strong, Calling
  <2>2. ASSUME NEW t \in Threads, Calls(t) \/ Step(t) PROVE D!Next
    BY <2>1, <2>2, DeliveryStep
  <2>3. CASE UNCHANGED vars
    BY <2>3 DEF vars, D!vars, Job, Course
  <2> QED
    BY <2>2, <2>3 DEF Next, Quiet
<1> QED
  BY <1>1, DeliveryInit, StrongInvariance, PTL DEF Spec, Delivers, D!Spec

=============================================================================
