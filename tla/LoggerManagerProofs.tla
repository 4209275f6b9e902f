------------------------ MODULE LoggerManagerProofs ------------------------
(***************************************************************************)
(* Proofs about LoggerManager for any threads, names, calls and failures.  *)
(***************************************************************************)
EXTENDS LoggerManager, TLAPS

(* Who constructs, who holds the mutex, and that nobody locks before the   *)
(* manager is there.                                                       *)
LockOK ==
    /\ \A t \in Threads : /\ pc[t] \in Building <=> builder = t
                          /\ pc[t] \in Locked <=> mutex = t
                          /\ pc[t] \in Locked \cup {"lock"} => ready /\ want[t] \in Names
                          /\ pc[t] = "getRoot" => ready /\ want[t] = None
    /\ builder # None => ~ready

(* The constructor's progress, and what it leaves behind.                  *)
RootOK ==
    /\ \A t \in Threads :
          /\ pc[t] \in {"attach", "publish"} => root \in 1..Len(roots) /\ roots[root] = 0
          /\ pc[t] = "publish" => root \in stdout
    /\ ~ready => given = {} /\ \A n \in Names : loggers[n] = 0
    /\ ready => root \in 1..Len(roots) /\ roots[root] = 0 /\ root \in stdout /\ loggers[RootName] = root

(* The map names different loggers, made and complete.                     *)
MapOK ==
    /\ \A n \in Names : loggers[n] # 0 =>
          /\ loggers[n] \in 1..Len(roots)
          /\ n # RootName => roots[loggers[n]] = root /\ loggers[n] # root
    /\ \A n, m \in Names : loggers[n] = loggers[m] /\ loggers[n] # 0 => n = m
    /\ \A g \in given : g[1] \in Names /\ g[2] = loggers[g[1]] /\ g[2] # 0

(* The logger a thread is making is nobody else's yet.                     *)
MineOK ==
    \A t \in Threads :
        /\ pc[t] \in {"make", "setRoot", "emplace"} => loggers[want[t]] = 0
        /\ pc[t] \in {"setRoot", "emplace"} =>
              /\ mine[t] \in 1..Len(roots)
              /\ mine[t] # root
              /\ \A n \in Names : loggers[n] # mine[t]
        /\ pc[t] = "emplace" => roots[mine[t]] = root

Inv == TypeOK /\ LockOK /\ RootOK /\ MapOK /\ MineOK

LEMMA Added ==
    ASSUME NEW s \in Seq(Nat), NEW x \in Nat
    PROVE  /\ Append(s, x) \in Seq(Nat) /\ Len(Append(s, x)) = Len(s) + 1
           /\ Append(s, x)[Len(s) + 1] = x /\ Len(s) \in Nat
           /\ \A i \in 1..Len(s) : Append(s, x)[i] = s[i]
OBVIOUS

LEMMA TypeStep == ASSUME Inv, [Next]_vars PROVE TypeOK'
<1> USE LoggerManagerAssumption DEF Goto, Building, Locked, Inv
<1>1. ASSUME NEW t \in Threads, Call(t) PROVE TypeOK'
  <2>1. calls' \in [Threads -> 0..MaxCalls]
    BY <1>1 DEF Call, TypeOK
  <2> QED
    BY SMTT(30), <1>1, <2>1 DEF Call, TypeOK
<1>2. ASSUME NEW t \in Threads, Step(t) PROVE TypeOK'
  <2>1. CASE EnterFirst(t)
    BY <2>1 DEF EnterFirst, TypeOK
  <2>12. CASE BuildThrows(t)
    <3>1. root' \in Nat
      BY <2>12 DEF BuildThrows
    <3> QED
      BY <2>12, <3>1 DEF BuildThrows, TypeOK
  <2>2. CASE EnterReady(t)
    BY <2>2 DEF EnterReady, Entry, TypeOK
  <2>3. CASE BuildRoot(t)
    <3>1. roots' \in Seq(Nat) /\ root' \in Nat
      BY <2>3, Added DEF BuildRoot, TypeOK
    <3> QED
      BY <2>3, <3>1 DEF BuildRoot, TypeOK
  <2>4. CASE AttachStdout(t)
    BY <2>4 DEF AttachStdout, TypeOK
  <2>5. CASE PublishRoot(t)
    BY <2>5 DEF PublishRoot, Entry, TypeOK
  <2>6. CASE GetRoot(t)
    BY <2>6 DEF GetRoot, TypeOK
  <2>7. CASE Lock(t) \/ LockThrows(t) \/ NotFound(t) \/ GetThrows(t)
    BY <2>7 DEF Lock, LockThrows, NotFound, GetThrows, TypeOK
  <2>8. CASE Found(t)
    BY <2>8 DEF Found, TypeOK, LockOK
  <2>9. CASE Make(t)
    BY SMTT(30), <2>9, Added DEF Make, TypeOK
  <2>10. CASE SetRoot(t)
    <3>1. mine[t] \in 1..Len(roots)
      BY <2>10 DEF SetRoot, MineOK
    <3>2. roots' \in Seq(Nat)
      BY <2>10, <3>1 DEF SetRoot, TypeOK
    <3> QED
      BY <2>10, <3>2 DEF SetRoot, TypeOK
  <2>11. CASE Emplace(t)
    BY <2>11 DEF Emplace, TypeOK, LockOK
  <2> QED
    BY <1>2, <2>1, <2>2, <2>3, <2>4, <2>5, <2>6, <2>7, <2>8, <2>9, <2>10, <2>11, <2>12 DEF Step, Work, Throw
<1>3. CASE UNCHANGED vars
  BY <1>3 DEF vars, TypeOK
<1> QED
  BY <1>1, <1>2, <1>3 DEF Next, Rest

LEMMA LockStep == ASSUME Inv, [Next]_vars PROVE LockOK'
<1> USE LoggerManagerAssumption DEF Goto, Building, Locked, Inv, TypeOK, LockOK
<1>1. ASSUME NEW t \in Threads, Call(t) PROVE LockOK'
  BY <1>1 DEF Call
<1>2. ASSUME NEW t \in Threads, Step(t) PROVE LockOK'
  <2>1. CASE EnterFirst(t)
    BY <2>1 DEF EnterFirst
  <2>10. CASE BuildThrows(t)
    BY <2>10 DEF BuildThrows
  <2>2. CASE EnterReady(t)
    <3>1. pc'[t] = Entry(t) /\ UNCHANGED <<ready, builder, mutex, want>>
          /\ \A u \in Threads \ {t} : pc'[u] = pc[u]
      BY <2>2 DEF EnterReady
    <3>2. \/ pc'[t] = "getRoot" /\ want[t] = None
          \/ pc'[t] = "idle"
          \/ pc'[t] = "lock" /\ want[t] \in Names
      BY <3>1 DEF Entry
    <3> QED
      BY <2>2, <3>1, <3>2 DEF EnterReady
  <2>3. CASE BuildRoot(t)
    BY <2>3 DEF BuildRoot
  <2>4. CASE AttachStdout(t)
    BY <2>4 DEF AttachStdout
  <2>5. CASE PublishRoot(t)
    <3>1. pc'[t] = Entry(t) /\ ready' = TRUE /\ builder' = None /\ UNCHANGED <<mutex, want>>
          /\ \A u \in Threads \ {t} : pc'[u] = pc[u]
      BY <2>5 DEF PublishRoot
    <3>2. \/ pc'[t] = "getRoot" /\ want[t] = None
          \/ pc'[t] = "idle"
          \/ pc'[t] = "lock" /\ want[t] \in Names
      BY <3>1 DEF Entry
    <3> QED
      BY <2>5, <3>1, <3>2 DEF PublishRoot
  <2>6. CASE GetRoot(t) \/ LockThrows(t)
    BY <2>6 DEF GetRoot, LockThrows
  <2>7. CASE Lock(t)
    BY <2>7 DEF Lock
  <2>8. CASE Found(t) \/ Emplace(t) \/ GetThrows(t)
    BY <2>8 DEF Found, Emplace, GetThrows
  <2>9. CASE NotFound(t) \/ Make(t) \/ SetRoot(t)
    BY <2>9 DEF NotFound, Make, SetRoot
  <2> QED
    BY <1>2, <2>1, <2>2, <2>3, <2>4, <2>5, <2>6, <2>7, <2>8, <2>9, <2>10 DEF Step, Work, Throw
<1>3. CASE UNCHANGED vars
  BY <1>3 DEF vars
<1> QED
  BY <1>1, <1>2, <1>3 DEF Next, Rest

(* The steps that touch no logger, no map and no root.                     *)
LEMMA QuietStep ==
    ASSUME Inv, TypeOK', NEW t \in Threads, UNCHANGED <<root, loggers, roots, stdout, ready, given>>,
           UNCHANGED <<want, mine>>, \A u \in Threads \ {t} : pc'[u] = pc[u],
           \/ pc'[t] \in {"idle", "guard", "lock", "getRoot", "build", "find"}
           \/ pc'[t] = "make" /\ loggers[want[t]] = 0
    PROVE  RootOK' /\ MapOK' /\ MineOK'
<1> USE DEF Inv
<1>1. RootOK'
  BY DEF RootOK
<1>2. MapOK'
  BY DEF MapOK
<1>3. MineOK'
  BY DEF MineOK
<1> QED
  BY <1>1, <1>2, <1>3

LEMMA CallStep == ASSUME Inv, TypeOK', NEW t \in Threads, Call(t)
                  PROVE  RootOK' /\ MapOK' /\ MineOK'
<1> USE DEF Inv
<1>1. /\ UNCHANGED <<root, loggers, roots, stdout, ready, given, mine>> /\ pc'[t] = "guard"
      /\ \A u \in Threads \ {t} : pc'[u] = pc[u] /\ want'[u] = want[u]
  BY DEF Call, Goto, TypeOK
<1>2. RootOK'
  BY <1>1 DEF RootOK
<1>3. MapOK'
  BY <1>1 DEF MapOK
<1>4. MineOK'
  BY <1>1 DEF MineOK
<1> QED
  BY <1>2, <1>3, <1>4

(* While one thread constructs the manager nobody has a logger.            *)
LEMMA BuildStep ==
    ASSUME Inv, TypeOK', NEW t \in Threads,
           BuildRoot(t) \/ AttachStdout(t) \/ PublishRoot(t) \/ BuildThrows(t)
    PROVE  RootOK' /\ MapOK' /\ MineOK'
<1> USE LoggerManagerAssumption DEF Inv, Building
<1>1. builder = t /\ ~ready /\ given = {} /\ \A n \in Names : loggers[n] = 0
  BY DEF BuildRoot, AttachStdout, PublishRoot, BuildThrows, LockOK, RootOK
<1>2. \A u \in Threads : u # t => pc[u] \in {"idle", "guard"}
  BY <1>1 DEF LockOK, TypeOK, Locked
<1>3. CASE BuildRoot(t)
  <2>1. /\ roots' = Append(roots, 0) /\ root' = Len(roots) + 1 /\ pc'[t] = "attach"
        /\ UNCHANGED <<loggers, ready, given>> /\ \A u \in Threads : u # t => pc'[u] = pc[u]
    BY <1>3 DEF BuildRoot, Goto, TypeOK
  <2>2. root' \in 1..Len(roots') /\ roots'[root'] = 0
    BY <2>1, Added DEF TypeOK
  <2> QED
    BY <1>1, <1>2, <2>1, <2>2 DEF RootOK, MapOK, MineOK
<1>4. CASE AttachStdout(t)
  <2>1. /\ stdout' = stdout \cup {root} /\ pc'[t] = "publish"
        /\ UNCHANGED <<loggers, roots, root, ready, given>>
        /\ \A u \in Threads : u # t => pc'[u] = pc[u]
    BY <1>4 DEF AttachStdout, Goto, TypeOK
  <2>2. root \in 1..Len(roots) /\ roots[root] = 0
    BY <1>4 DEF AttachStdout, RootOK
  <2> QED
    BY <1>1, <1>2, <2>1, <2>2 DEF RootOK, MapOK, MineOK
<1>5. CASE PublishRoot(t)
  <2>1. /\ loggers' = [loggers EXCEPT ![RootName] = root] /\ ready' = TRUE
        /\ UNCHANGED <<roots, root, stdout, given>> /\ pc'[t] = Entry(t)
        /\ \A u \in Threads : u # t => pc'[u] = pc[u]
    BY <1>5 DEF PublishRoot, Goto, TypeOK
  <2>2. root \in 1..Len(roots) /\ roots[root] = 0 /\ root \in stdout
    BY <1>5 DEF PublishRoot, RootOK
  <2>3. pc'[t] \in {"getRoot", "idle", "lock"}
    BY <2>1 DEF Entry
  <2>4. loggers'[RootName] = root /\ \A n \in Names : n # RootName => loggers'[n] = 0
    BY <1>1, <2>1 DEF TypeOK
  <2>5. RootOK'
    BY <1>1, <1>2, <2>1, <2>2, <2>3, <2>4 DEF RootOK
  <2>6. MapOK'
    BY <1>1, <2>1, <2>2, <2>4 DEF MapOK
  <2>7. MineOK'
    BY <1>2, <2>1, <2>3 DEF MineOK
  <2> QED
    BY <2>5, <2>6, <2>7
<1>6. CASE BuildThrows(t)
  <2>1. /\ pc'[t] = "idle" /\ UNCHANGED <<loggers, roots, ready, given>>
        /\ \A u \in Threads : u # t => pc'[u] = pc[u]
    BY <1>6 DEF BuildThrows, Goto, TypeOK
  <2> QED
    BY <1>1, <1>2, <2>1 DEF RootOK, MapOK, MineOK
<1> QED
  BY <1>3, <1>4, <1>5, <1>6

LEMMA ReturnStep ==
    ASSUME Inv, TypeOK', NEW t \in Threads, GetRoot(t) \/ Found(t)
    PROVE  RootOK' /\ MapOK' /\ MineOK'
<1> USE LoggerManagerAssumption DEF Inv, Locked
<1>1. /\ UNCHANGED <<root, loggers, roots, stdout, ready, want, mine>>
      /\ pc'[t] = "idle" /\ \A u \in Threads : u # t => pc'[u] = pc[u]
      /\ ready
  BY DEF GetRoot, Found, Goto, TypeOK, LockOK
<1>2. \E n \in Names : loggers[n] # 0 /\ given' = given \cup {<<n, loggers[n]>>}
  <2>1. CASE GetRoot(t)
    <3>1. RootName \in Names /\ loggers[RootName] = root /\ root # 0
      BY <1>1 DEF RootOK, TypeOK
    <3>2. given' = given \cup {<<RootName, root>>}
      BY <2>1 DEF GetRoot
    <3> QED
      BY <3>1, <3>2
  <2>2. CASE Found(t)
    BY <2>2 DEF Found, LockOK
  <2> QED
    BY <2>1, <2>2
<1>3. RootOK'
  BY <1>1 DEF RootOK
<1>4. MapOK'
  BY <1>1, <1>2 DEF MapOK
<1>5. MineOK'
  BY <1>1 DEF MineOK
<1> QED
  BY <1>3, <1>4, <1>5

(* A new logger is behind all the others.                                  *)
LEMMA MakeStep ==
    ASSUME Inv, TypeOK', NEW t \in Threads, Make(t)
    PROVE  RootOK' /\ MapOK' /\ MineOK'
<1> USE LoggerManagerAssumption DEF Inv, Locked, Building
<1>1. /\ roots' = Append(roots, 0) /\ mine' = [mine EXCEPT ![t] = Len(roots) + 1]
      /\ UNCHANGED <<root, loggers, stdout, ready, want, given>>
      /\ pc[t] = "make" /\ pc'[t] = "setRoot" /\ \A u \in Threads : u # t => pc'[u] = pc[u]
  BY DEF Make, Goto, TypeOK
<1>2. ready /\ \A u \in Threads : u # t => pc[u] \notin Locked \cup Building
  BY <1>1 DEF LockOK
<1>3. /\ Len(roots') = Len(roots) + 1 /\ Len(roots) \in Nat
      /\ \A i \in 1..Len(roots) : roots'[i] = roots[i]
  BY <1>1, Added DEF TypeOK
<1>4. RootOK'
  BY <1>1, <1>2, <1>3 DEF RootOK
<1>5. MapOK'
  BY <1>1, <1>3 DEF MapOK
<1>6. mine'[t] = Len(roots) + 1 /\ loggers[want[t]] = 0
  BY <1>1 DEF MineOK, TypeOK
<1>7. root # Len(roots) + 1 /\ \A n \in Names : loggers[n] # Len(roots) + 1
  <2>1. root \in 1..Len(roots)
    BY <1>2 DEF RootOK
  <2>2. \A n \in Names : loggers[n] = 0 \/ loggers[n] \in 1..Len(roots)
    BY DEF MapOK
  <2>3. 0 # Len(roots) + 1 /\ \A i \in 1..Len(roots) : i # Len(roots) + 1
    BY <1>3
  <2> QED
    BY <2>1, <2>2, <2>3
<1>8. MineOK'
  BY <1>1, <1>2, <1>3, <1>6, <1>7 DEF MineOK
<1> QED
  BY <1>4, <1>5, <1>8

LEMMA SetRootStep ==
    ASSUME Inv, TypeOK', NEW t \in Threads, SetRoot(t)
    PROVE  RootOK' /\ MapOK' /\ MineOK'
<1> USE LoggerManagerAssumption DEF Inv, Locked, Building
<1>1. /\ roots' = [roots EXCEPT ![mine[t]] = root]
      /\ UNCHANGED <<root, loggers, stdout, ready, want, mine, given>>
      /\ pc[t] = "setRoot" /\ pc'[t] = "emplace" /\ \A u \in Threads : u # t => pc'[u] = pc[u]
  BY DEF SetRoot, Goto, TypeOK
<1>2. ready /\ \A u \in Threads : u # t => pc[u] \notin Locked \cup Building
  BY <1>1 DEF LockOK
<1>3. /\ mine[t] \in 1..Len(roots) /\ mine[t] # root /\ \A n \in Names : loggers[n] # mine[t]
      /\ loggers[want[t]] = 0
  BY <1>1 DEF MineOK
<1>4. /\ Len(roots') = Len(roots) /\ roots'[mine[t]] = root
      /\ \A i \in 1..Len(roots) : i # mine[t] => roots'[i] = roots[i]
  BY <1>1, <1>3 DEF TypeOK
<1>5. RootOK'
  BY <1>1, <1>2, <1>3, <1>4 DEF RootOK
<1>6. MapOK'
  BY <1>1, <1>3, <1>4 DEF MapOK
<1>7. MineOK'
  BY <1>1, <1>2, <1>3, <1>4 DEF MineOK
<1> QED
  BY <1>5, <1>6, <1>7

LEMMA EmplaceStep ==
    ASSUME Inv, TypeOK', NEW t \in Threads, Emplace(t)
    PROVE  RootOK' /\ MapOK' /\ MineOK'
<1> USE LoggerManagerAssumption DEF Inv, Locked, Building
<1>1. /\ loggers' = [loggers EXCEPT ![want[t]] = mine[t]]
      /\ given' = given \cup {<<want[t], mine[t]>>}
      /\ UNCHANGED <<root, roots, stdout, ready, want, mine>>
      /\ pc[t] = "emplace" /\ pc'[t] = "idle" /\ \A u \in Threads : u # t => pc'[u] = pc[u]
  BY DEF Emplace, Goto, TypeOK
<1>2. ready /\ want[t] \in Names /\ \A u \in Threads : u # t => pc[u] \notin Locked \cup Building
  BY <1>1 DEF LockOK
<1>3. /\ mine[t] \in 1..Len(roots) /\ mine[t] # root /\ \A n \in Names : loggers[n] # mine[t]
      /\ loggers[want[t]] = 0 /\ roots[mine[t]] = root
  BY <1>1 DEF MineOK
<1>4. /\ loggers'[want[t]] = mine[t]
      /\ \A n \in Names : n # want[t] => loggers'[n] = loggers[n]
  BY <1>1, <1>2 DEF TypeOK
<1>5. root # 0 /\ want[t] # RootName
  BY SMTT(30), <1>2, <1>3 DEF RootOK, TypeOK
<1>6. RootOK'
  BY <1>1, <1>2, <1>4, <1>5 DEF RootOK
<1>7. MapOK'
  <2>1. \A n \in Names : loggers'[n] # 0 =>
          /\ loggers'[n] \in 1..Len(roots)
          /\ n # RootName => roots[loggers'[n]] = root /\ loggers'[n] # root
    BY <1>2, <1>3, <1>4 DEF MapOK
  <2>2. \A n, m \in Names : loggers'[n] = loggers'[m] /\ loggers'[n] # 0 => n = m
    BY <1>2, <1>3, <1>4 DEF MapOK
  <2>3. \A g \in given' : g[1] \in Names /\ g[2] = loggers'[g[1]] /\ g[2] # 0
    <3>1. mine[t] # 0
      BY <1>3 DEF TypeOK
    <3> QED
      BY <1>1, <1>2, <1>3, <1>4, <3>1 DEF MapOK
  <2> QED
    BY <1>1, <2>1, <2>2, <2>3 DEF MapOK
<1>8. MineOK'
  BY <1>1, <1>2 DEF MineOK
<1> QED
  BY <1>6, <1>7, <1>8

LEMMA InvStep == ASSUME Inv, [Next]_vars PROVE Inv'
<1>1. TypeOK' /\ LockOK'
  BY TypeStep, LockStep
<1> SUFFICES RootOK' /\ MapOK' /\ MineOK'
  BY <1>1 DEF Inv
<1>2. ASSUME NEW t \in Threads, Step(t) PROVE RootOK' /\ MapOK' /\ MineOK'
  <2>1. CASE \/ EnterFirst(t) \/ EnterReady(t) \/ Lock(t) \/ LockThrows(t)
             \/ NotFound(t) \/ GetThrows(t)
    <3>1. /\ UNCHANGED <<root, loggers, roots, stdout, ready, given, want, mine>>
          /\ \A u \in Threads \ {t} : pc'[u] = pc[u]
      BY <2>1 DEF EnterFirst, EnterReady, Lock, LockThrows, NotFound, GetThrows, Goto, Inv, TypeOK
    <3>2. \/ pc'[t] \in {"idle", "guard", "lock", "getRoot", "build", "find"}
          \/ pc'[t] = "make" /\ loggers[want[t]] = 0
      <4>1. CASE EnterReady(t)
        BY <4>1 DEF EnterReady, Entry, Goto, Inv, TypeOK
      <4>2. CASE NotFound(t)
        BY <4>2 DEF NotFound, Goto, Inv, TypeOK
      <4>3. CASE EnterFirst(t) \/ Lock(t) \/ LockThrows(t) \/ GetThrows(t)
        BY <4>3 DEF EnterFirst, Lock, LockThrows, GetThrows, Goto, Inv, TypeOK
      <4> QED
        BY <2>1, <4>1, <4>2, <4>3
    <3> QED
      BY <1>1, <3>1, <3>2, QuietStep
  <2> QED
    BY <1>1, <1>2, <2>1, BuildStep, ReturnStep, MakeStep, SetRootStep, EmplaceStep DEF Step, Work, Throw
<1>3. CASE UNCHANGED vars
  BY <1>3 DEF vars, Inv, RootOK, MapOK, MineOK
<1> QED
  BY <1>1, <1>2, <1>3, CallStep DEF Next, Rest

LEMMA InvInit == Init => Inv
<1> SUFFICES ASSUME Init PROVE Inv
  OBVIOUS
<1> USE LoggerManagerAssumption
<1>1. TypeOK
  <2>1. <<>> \in Seq(Nat) /\ 0 \in 0..MaxCalls
    OBVIOUS
  <2> QED
    BY <2>1 DEF Init, TypeOK
<1>2. LockOK
  BY DEF Init, LockOK, Building, Locked
<1>3. RootOK /\ MapOK /\ MineOK
  BY DEF Init, RootOK, MapOK, MineOK
<1> QED
  BY <1>1, <1>2, <1>3 DEF Inv

LEMMA Invariance == Spec => []Inv
BY InvInit, InvStep, PTL DEF Spec

(* Every variable keeps its type.                                          *)
THEOREM TypeCorrect == Spec => []TypeOK
<1>1. Inv => TypeOK
  BY DEF Inv
<1> QED
  BY <1>1, Invariance, PTL

(* One logger per name and one name per logger, for any number of threads  *)
(* that ask at the same time and any attempts that fail.                   *)
THEOREM NamesAreUnique == Spec => []OneLoggerPerName
<1>1. Inv => OneLoggerPerName
  BY DEF Inv, MapOK, OneLoggerPerName
<1> QED
  BY <1>1, Invariance, PTL

(* What a name means never changes once somebody has been told.            *)
THEOREM NamesStay == Spec => NamesAreKept
<1>1. Inv /\ Inv' /\ [Next]_vars => [\A g \in given : loggers'[g[1]] = g[2] /\ root' = root]_vars
  <2> SUFFICES ASSUME Inv, Inv', Next, NEW g \in given
               PROVE  loggers'[g[1]] = g[2] /\ root' = root
    OBVIOUS
  <2>1. ready
    BY DEF Inv, RootOK
  <2>2. root' = root /\ given \subseteq given'
    <3>1. CASE \E t \in Threads : Call(t)
      BY <3>1 DEF Call
    <3>2. ASSUME NEW t \in Threads, Step(t) PROVE root' = root /\ given \subseteq given'
      <4>1. pc[t] \notin Building
        BY <2>1, LoggerManagerAssumption DEF Inv, LockOK
      <4> QED
        BY <3>2, <4>1 DEF Step, Work, Throw, EnterFirst, EnterReady, BuildRoot, AttachStdout, PublishRoot,
             BuildThrows, GetRoot, Lock, LockThrows, Found, NotFound, Make, SetRoot, Emplace,
             GetThrows, Building
    <3>3. CASE Rest
      BY <3>3 DEF Rest, vars
    <3> QED
      BY <3>1, <3>2, <3>3 DEF Next
  <2> QED
    BY <2>2 DEF Inv, MapOK
<1> QED
  BY <1>1, InvInit, InvStep, PTL DEF Spec, NamesAreKept

(* Every logger that was ever returned has its root, and the root is       *)
(* complete: what Logger's RootAssumption takes for granted.               *)
THEOREM FallbackIsReady == Spec => []FallbackReady
<1>1. Inv => FallbackReady
  <2> SUFFICES ASSUME Inv, NEW g \in given
               PROVE  /\ root # 0 /\ root \in stdout /\ roots[root] = 0
                      /\ g[2] # root => roots[g[2]] = root
    BY DEF FallbackReady
  <2>1. ready
    BY DEF Inv, RootOK
  <2>2. root # 0 /\ root \in stdout /\ roots[root] = 0 /\ loggers[RootName] = root
    BY <2>1 DEF Inv, RootOK, TypeOK
  <2>3. g[1] \in Names /\ g[2] = loggers[g[1]] /\ g[2] # 0
    BY DEF Inv, MapOK
  <2> QED
    BY <2>2, <2>3 DEF Inv, MapOK
<1> QED
  BY <1>1, Invariance, PTL

=============================================================================
