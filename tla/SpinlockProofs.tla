--------------------------- MODULE SpinlockProofs ---------------------------
(***************************************************************************)
(* Proofs about Spinlock for any number of threads, increments and runs.   *)
(***************************************************************************)
EXTENDS Spinlock, FiniteSets, FiniteSetTheorems, FunctionTheorems, TLAPS

Arriving == {t \in Threads : pc[t] \in {"none", "ready"}}
Running  == {t \in Threads : pc[t] # "ended"}

(* The type invariant, but for the latches.                                *)
Types ==
    /\ g_target \in Targets
    /\ m_mutex \in BOOLEAN
    /\ g_Counter \in Nat /\ stored \in Nat
    /\ start_gate \in {0, 1}
    /\ pc \in [Threads -> {"none", "ready", "gate", "lock", "spin", "finish", "ended"} \cup Critical]
    /\ left \in [Threads -> Nat] /\ read \in [Threads -> Nat]
    /\ main \in {"reset", "spawn", "open", "wait", "join", "check", "threw", "done"}
    /\ run \in 1..Runs

(* A latch counts the threads that have yet to count it down.              *)
LatchesOK == ready = Cardinality(Arriving) /\ finished = Cardinality(Running)

(* The flag is set while a thread is between lock() and unlock(), what it  *)
(* has loaded is what is there, and it has an increment to go for every    *)
(* turn; the main thread touches the lock when nobody is at it.            *)
HeldOK ==
    /\ \A t \in Threads : pc[t] \in Critical => m_mutex
    /\ \A t \in Threads : pc[t] = "store" => read[t] = g_Counter
    /\ \A t \in Threads : pc[t] \in Critical \cup {"lock", "spin"} => left[t] > 0
    /\ main = "reset" => \A t \in Threads : pc[t] \in {"none", "ended"}
    /\ main = "check" => \A t \in Threads : pc[t] = "ended"

Inv == Types /\ LatchesOK /\ HeldOK /\ MutualExclusion /\ NothingLost

LEMMA Finite ==
    /\ IsFiniteSet(Threads) /\ Cardinality(Threads) = ThreadCount
    /\ \A S \in SUBSET Threads : IsFiniteSet(S) /\ Cardinality(S) \in 0..ThreadCount
<1>1. ThreadCount - 1 \in Int /\ 0 \in Int
  BY SpinlockAssumption
<1>2. IsFiniteSet(Threads) /\ Cardinality(Threads) = ThreadCount
  BY <1>1, FS_Interval, SpinlockAssumption DEF Threads
<1>3. ASSUME NEW S \in SUBSET Threads PROVE IsFiniteSet(S) /\ Cardinality(S) \in 0..ThreadCount
  <2>1. IsFiniteSet(S) /\ Cardinality(S) <= ThreadCount
    BY <1>2, FS_Subset
  <2>2. Cardinality(S) \in Nat
    BY <2>1, FS_CardinalityType
  <2> QED
    BY <2>1, <2>2, SpinlockAssumption
<1> QED
  BY <1>2, <1>3

LEMMA OperationsType ==
    ASSUME NEW t \in Threads, g_target \in Nat PROVE OperationsForThread(t) \in Nat
<1>1. g_target \div ThreadCount \in Nat
  BY SpinlockAssumption
<1> QED
  BY <1>1 DEF OperationsForThread

LEMMA TypesStep == ASSUME Types, HeldOK, [Next]_vars PROVE Types'
<1> USE SpinlockAssumption DEF Goto, Critical, latches
<1>1. ASSUME NEW t \in Threads, Thread(t) PROVE Types'
  <2>1. CASE CountReady(t) \/ TestAndSet(t) \/ Test(t) \/ Load(t) \/ CountFinished(t)
    BY <2>1 DEF CountReady, TestAndSet, Test, Load, CountFinished, Types
  <2>2. CASE PassGate(t)
    <3>1. OperationsForThread(t) \in Nat
      BY OperationsType DEF Types
    <3> QED
      BY <2>2, <3>1 DEF PassGate, Loop, Types
  <2>3. CASE Store(t)
    <3>1. read[t] + 1 \in Nat /\ stored + 1 \in Nat
      BY DEF Types
    <3> QED
      BY <2>3, <3>1 DEF Store, Types
  <2>4. CASE Unlock(t)
    <3>1. left[t] - 1 \in Nat
      BY <2>4 DEF Unlock, Types, HeldOK
    <3> QED
      BY <2>4, <3>1 DEF Unlock, Loop, Types
  <2> QED
    BY <1>1, <2>1, <2>2, <2>3, <2>4 DEF Thread
<1>2. ASSUME NEW t \in Threads, Spawn(t) PROVE Types'
  BY <1>2 DEF Spawn, Types
<1>3. CASE Open \/ Wait \/ Join
  BY <1>3 DEF Open, Wait, Join, Types
<1>4. CASE Reset
  <2>1. pc' \in [Threads -> {"none", "ready", "gate", "lock", "spin", "finish", "ended"} \cup Critical]
    BY <1>4 DEF Reset
  <2> QED
    BY <1>4, <2>1 DEF Reset, Types
<1>5. CASE Check
  BY <1>5 DEF Check, Types
<1>6. CASE UNCHANGED vars
  BY <1>6 DEF vars, Types
<1> QED
  BY <1>1, <1>2, <1>3, <1>4, <1>5, <1>6 DEF Next, Main, Over

(* Counting a latch down takes one thread out of those it counts.          *)
LEMMA LatchesStep == ASSUME Types, LatchesOK, [Next]_vars PROVE LatchesOK'
<1> USE DEF Goto, latches
<1>0. IsFiniteSet(Arriving) /\ IsFiniteSet(Running)
  BY Finite DEF Arriving, Running
<1>1. ASSUME NEW t \in Threads, CountReady(t) PROVE LatchesOK'
  <2>1. t \in Arriving /\ Arriving' = Arriving \ {t} /\ Running' = Running
    BY <1>1 DEF CountReady, Types, Arriving, Running
  <2>2. Cardinality(Arriving \ {t}) = Cardinality(Arriving) - 1
    BY <1>0, <2>1, FS_RemoveElement
  <2> QED
    BY <1>1, <2>1, <2>2 DEF CountReady, LatchesOK
<1>2. ASSUME NEW t \in Threads, CountFinished(t) PROVE LatchesOK'
  <2>1. t \in Running /\ Running' = Running \ {t} /\ Arriving' = Arriving
    BY <1>2 DEF CountFinished, Types, Arriving, Running
  <2>2. Cardinality(Running \ {t}) = Cardinality(Running) - 1
    BY <1>0, <2>1, FS_RemoveElement
  <2> QED
    BY <1>2, <2>1, <2>2 DEF CountFinished, LatchesOK
<1>3. ASSUME NEW t \in Threads,
             PassGate(t) \/ TestAndSet(t) \/ Test(t) \/ Load(t) \/ Store(t) \/ Unlock(t) \/ Spawn(t)
      PROVE  LatchesOK'
  <2>1. Arriving' = Arriving /\ Running' = Running
    BY <1>3 DEF PassGate, Loop, TestAndSet, Test, Load, Store, Unlock, Spawn, Types, Arriving, Running
  <2> QED
    BY <1>3, <2>1 DEF PassGate, TestAndSet, Test, Load, Store, Unlock, Spawn, LatchesOK
<1>4. CASE Reset
  <2>1. Arriving' = Threads /\ Running' = Threads
    BY <1>4 DEF Reset, Arriving, Running
  <2> QED
    BY <1>4, <2>1, Finite DEF Reset, LatchesOK
<1>5. CASE UNCHANGED <<ready, finished, pc>>
  BY <1>5 DEF LatchesOK, Arriving, Running
<1> QED
  BY <1>1, <1>2, <1>3, <1>4, <1>5 DEF Next, Thread, Main, Open, Wait, Join, Check, Over, vars

LEMMA HeldStep ==
    ASSUME Types, HeldOK, MutualExclusion, [Next]_vars PROVE HeldOK' /\ MutualExclusion'
<1> USE DEF Goto, Critical, latches, HeldOK, MutualExclusion
<1>1. ASSUME NEW t \in Threads, CountReady(t) \/ Test(t) \/ CountFinished(t)
      PROVE  HeldOK' /\ MutualExclusion'
  BY <1>1 DEF CountReady, Test, CountFinished, Types
<1>2. ASSUME NEW t \in Threads, PassGate(t) PROVE HeldOK' /\ MutualExclusion'
  <2>1. OperationsForThread(t) \in Nat
    BY OperationsType, SpinlockAssumption DEF Types
  <2> QED
    BY <1>2, <2>1 DEF PassGate, Loop, Types
<1>3. ASSUME NEW t \in Threads, TestAndSet(t) PROVE HeldOK' /\ MutualExclusion'
  BY <1>3 DEF TestAndSet, Types
<1>4. ASSUME NEW t \in Threads, Load(t) \/ Store(t) PROVE HeldOK' /\ MutualExclusion'
  BY <1>4 DEF Load, Store, Types
<1>5. ASSUME NEW t \in Threads, Unlock(t) PROVE HeldOK' /\ MutualExclusion'
  BY <1>5 DEF Unlock, Loop, Types
<1>6. ASSUME NEW t \in Threads, Spawn(t) PROVE HeldOK' /\ MutualExclusion'
  BY <1>6 DEF Spawn, Types
<1>7. CASE Reset \/ Open \/ Wait \/ Join
  BY <1>7 DEF Reset, Open, Wait, Join, Types
<1>8. CASE Check
  BY <1>8 DEF Check, Types
<1>9. CASE UNCHANGED vars
  BY <1>9 DEF vars
<1> QED
  BY <1>1, <1>2, <1>3, <1>4, <1>5, <1>6, <1>7, <1>8, <1>9 DEF Next, Thread, Main, Over

LEMMA LostStep == ASSUME Types, HeldOK, NothingLost, [Next]_vars PROVE NothingLost'
<1> USE DEF NothingLost
<1>1. ASSUME NEW t \in Threads, Store(t) PROVE NothingLost'
  BY <1>1 DEF Store, HeldOK
<1>2. CASE Reset
  BY <1>2 DEF Reset
<1>3. CASE UNCHANGED <<g_Counter, stored>>
  BY <1>3
<1> QED
  BY <1>1, <1>2, <1>3 DEF Next, Thread, CountReady, PassGate, TestAndSet, Test, Load, Unlock,
     CountFinished, Main, Spawn, Open, Wait, Join, Check, Over, vars

LEMMA InvInit == Init => Inv
<1> SUFFICES ASSUME Init PROVE Inv
  OBVIOUS
<1>1. Types
  <2>1. /\ pc \in [Threads -> {"none", "ready", "gate", "lock", "spin", "finish", "ended"} \cup Critical]
        /\ left \in [Threads -> Nat] /\ read \in [Threads -> Nat]
    BY DEF Init
  <2>2. run \in 1..Runs
    BY SpinlockAssumption DEF Init
  <2> QED
    BY <2>1, <2>2 DEF Init, Types
<1>2. Arriving = Threads /\ Running = Threads
  BY DEF Init, Arriving, Running
<1>3. LatchesOK
  BY <1>2, Finite DEF Init, LatchesOK
<1>4. HeldOK /\ MutualExclusion /\ NothingLost
  BY DEF Init, HeldOK, MutualExclusion, NothingLost, Critical
<1> QED
  BY <1>1, <1>3, <1>4 DEF Inv

LEMMA InvStep == ASSUME Inv, [Next]_vars PROVE Inv'
<1>1. Types /\ LatchesOK /\ HeldOK /\ MutualExclusion /\ NothingLost
  BY DEF Inv
<1>2. Types' /\ LatchesOK' /\ HeldOK' /\ MutualExclusion' /\ NothingLost'
  BY <1>1, TypesStep, LatchesStep, HeldStep, LostStep
<1> QED
  BY <1>2 DEF Inv

LEMMA InvHolds == Spec => []Inv
BY InvInit, InvStep, PTL DEF Spec

(* Every variable has its type; in particular no latch is counted down     *)
(* more often than it has counts.                                          *)
THEOREM TypeCorrect == Spec => []TypeOK
<1>1. Inv => TypeOK
  <2> SUFFICES ASSUME Inv PROVE TypeOK
    OBVIOUS
  <2>1. ready \in 0..ThreadCount /\ finished \in 0..ThreadCount
    BY Finite DEF Inv, LatchesOK, Arriving, Running
  <2> QED
    BY <2>1 DEF Inv, Types, TypeOK
<1> QED
  BY <1>1, InvHolds, PTL

(* However many threads leave the inner loop together, one gets the lock.  *)
THEOREM Excludes == Spec => []MutualExclusion
<1>1. Inv => MutualExclusion
  BY DEF Inv
<1> QED
  BY <1>1, InvHolds, PTL

(* The counter is at every time the number of increments that were done.   *)
THEOREM LosesNothing == Spec => []NothingLost
<1>1. Inv => NothingLost
  BY DEF Inv
<1> QED
  BY <1>1, InvHolds, PTL

-----------------------------------------------------------------------------
(* How many increments a thread has yet to do in this run.                 *)
Owed(t) ==
    IF pc[t] \in {"none", "ready", "gate"} THEN OperationsForThread(t)
    ELSE IF pc[t] \in {"lock", "spin", "load", "store"} THEN left[t]
    ELSE IF pc[t] = "unlock" THEN left[t] - 1
    ELSE 0

(* The increments that are yet to be done, as pairs of a thread and a      *)
(* number: counting them adds up what the threads owe.                     *)
Todo == {p \in Threads \X Nat : p[2] \in 1..Owed(p[1])}

(* What has been done and what is yet to be done make the target.          *)
CountOK == main # "reset" => IsFiniteSet(Todo) /\ stored + Cardinality(Todo) = g_target

(* Dividing by the number of threads.                                      *)
LEMMA Division ==
    ASSUME NEW N \in Nat \ {0}, NEW g \in Nat
    PROVE  /\ g \div N \in Nat /\ g % N \in 0..N - 1
           /\ g = N * (g \div N) + (g % N)
           /\ \A q \in Nat, r \in 0..N - 1 : g = N * q + r => q = g \div N /\ r = g % N
<1>1. g \div N \in Nat /\ g % N \in 0..N - 1 /\ g = N * (g \div N) + (g % N)
  OBVIOUS
<1>2. ASSUME NEW q \in Nat, NEW r \in 0..N - 1, NEW p \in Nat, NEW s \in 0..N - 1,
             N * q + r = N * p + s
      PROVE  q <= p
  <2>1. SUFFICES ASSUME q >= p + 1 PROVE FALSE
    OBVIOUS
  <2>2. PICK d \in Nat : q = p + 1 + d
    <3>1. q - p - 1 \in Nat /\ q = p + 1 + (q - p - 1)
      BY <2>1
    <3> QED
      BY <3>1
  <2>3. N * q = N * p + N + N * d
    BY <2>2
  <2>4. N * d \in Nat /\ N * p \in Nat /\ N * q \in Nat
    BY <2>2
  <2> QED
    BY <1>2, <2>3, <2>4
<1>3. ASSUME NEW q \in Nat, NEW r \in 0..N - 1, g = N * q + r
      PROVE  q = g \div N /\ r = g % N
  <2> DEFINE p == g \div N
             s == g % N
  <2>1. p \in Nat /\ s \in 0..N - 1 /\ g = N * p + s
    BY <1>1
  <2> HIDE DEF p, s
  <2>2. q <= p /\ p <= q
    BY <1>2, <1>3, <2>1
  <2>3. q = p
    BY <2>1, <2>2
  <2>4. r = s
    BY <1>3, <2>1, <2>3
  <2> QED
    BY <2>3, <2>4 DEF p, s
<1> QED
  BY <1>1, <1>3

(* The i-th increment falls to thread i % ThreadCount: dealt out like      *)
(* cards, every thread gets its OperationsForThread, and all are dealt.    *)
LEMMA SharesAddUp ==
    ASSUME g_target \in Nat
    PROVE  LET All == {p \in Threads \X Nat : p[2] \in 1..OperationsForThread(p[1])}
           IN  IsFiniteSet(All) /\ Cardinality(All) = g_target
<1> DEFINE N == ThreadCount
           All == {p \in Threads \X Nat : p[2] \in 1..OperationsForThread(p[1])}
           deal == [i \in 0..g_target - 1 |-> <<i % N, (i \div N) + 1>>]
           q == g_target \div N
           r == g_target % N
<1>n. N \in Nat \ {0} /\ Threads = 0..N - 1
  BY SpinlockAssumption DEF Threads
<1> HIDE DEF N
<1>o. \A t : OperationsForThread(t) = q + (IF t < r THEN 1 ELSE 0)
  BY DEF OperationsForThread, N
<1>q. q \in Nat /\ r \in 0..N - 1 /\ g_target = N * q + r
  BY <1>n, Division
<1> HIDE DEF q, r
<1>m. ASSUME NEW t \in 0..N - 1, NEW k \in Nat
      PROVE  N * k + t < g_target <=> k < q + (IF t < r THEN 1 ELSE 0)
  <2>1. N * k \in Nat /\ N * q \in Nat
    BY <1>n, <1>q
  <2>2. CASE k = q
    BY <1>n, <1>q, <2>2
  <2>3. CASE k < q
    <3>1. q - k - 1 \in Nat
      BY <1>q, <2>3
    <3>2. PICK d \in Nat : q = k + 1 + d
      BY <1>q, <3>1
    <3>3. N * q = N * k + N + N * d /\ N * d \in Nat
      BY <1>n, <3>2
    <3> QED
      BY <1>n, <1>q, <2>1, <2>3, <3>3
  <2>4. CASE k > q
    <3>1. k - q - 1 \in Nat
      BY <1>q, <2>4
    <3>2. PICK d \in Nat : k = q + 1 + d
      BY <1>q, <3>1
    <3>3. N * k = N * q + N + N * d /\ N * d \in Nat
      BY <1>n, <1>q, <3>2
    <3> QED
      BY <1>n, <1>q, <2>1, <2>4, <3>3
  <2> QED
    BY <1>q, <2>2, <2>3, <2>4
<1>1. \A i \in 0..g_target - 1 : /\ i \div N \in Nat /\ i % N \in 0..N - 1
                                 /\ i = N * (i \div N) + (i % N)
  <2> SUFFICES ASSUME NEW i \in Nat
               PROVE  /\ i \div N \in Nat /\ i % N \in 0..N - 1
                      /\ i = N * (i \div N) + (i % N)
    OBVIOUS
  <2> QED
    BY <1>n, Division
<1>2. deal \in [0..g_target - 1 -> All]
  <2> SUFFICES ASSUME NEW i \in 0..g_target - 1
               PROVE  <<i % N, (i \div N) + 1>> \in All
    OBVIOUS
  <2>1. /\ i \div N \in Nat /\ i % N \in 0..N - 1 /\ N * (i \div N) + (i % N) < g_target
    BY <1>1
  <2>2. i \div N < OperationsForThread(i % N)
    BY <1>m, <1>o, <2>1
  <2>3. OperationsForThread(i % N) \in Nat
    BY <1>n, <2>1, OperationsType
  <2>4. (i \div N) + 1 \in 1..OperationsForThread(i % N)
    BY <2>1, <2>2, <2>3
  <2> QED
    BY <1>n, <2>1, <2>4
<1>3. \A i, j \in 0..g_target - 1 : deal[i] = deal[j] => i = j
  <2> SUFFICES ASSUME NEW i \in 0..g_target - 1, NEW j \in 0..g_target - 1,
                      i % N = j % N, (i \div N) + 1 = (j \div N) + 1
               PROVE  i = j
    OBVIOUS
  <2>1. i \div N = j \div N
    BY <1>1
  <2> QED
    BY <1>1, <2>1
<1>4. \A p \in All : \E i \in 0..g_target - 1 : deal[i] = p
  <2> SUFFICES ASSUME NEW p \in All PROVE \E i \in 0..g_target - 1 : deal[i] = p
    OBVIOUS
  <2>0. PICK t \in Threads, k \in Nat : p = <<t, k>> /\ k \in 1..OperationsForThread(t)
    OBVIOUS
  <2>1. k - 1 \in Nat /\ t \in 0..N - 1 /\ k - 1 < OperationsForThread(t)
    BY <1>n, <2>0, OperationsType
  <2> DEFINE i == N * (k - 1) + t
  <2>2. N * (k - 1) \in Nat
    BY <1>n, <2>1
  <2>3. i \in Nat /\ i < g_target
    BY <1>m, <1>n, <1>o, <2>1, <2>2
  <2>4. k - 1 = i \div N /\ t = i % N
    BY <1>n, <2>1, <2>3, Division
  <2> HIDE DEF i
  <2>5. i \in 0..g_target - 1
    BY <2>3
  <2>6. deal[i] = <<t, k>>
    BY <2>4, <2>5
  <2> QED
    BY <2>0, <2>5, <2>6
<1> HIDE DEF All, deal
<1>5. ExistsBijection(0..g_target - 1, All)
  <2>1. deal \in Bijection(0..g_target - 1, All)
    BY <1>2, <1>3, <1>4, Fun_IsBij
  <2> QED
    BY <2>1, Fun_ExistsBij
<1>6. IsFiniteSet(0..g_target - 1) /\ Cardinality(0..g_target - 1) = g_target
  <2>1. g_target - 1 \in Int /\ 0 \in Int
    OBVIOUS
  <2> QED
    BY <2>1, FS_Interval
<1>7. IsFiniteSet(All) /\ Cardinality(All) = g_target
  BY <1>5, <1>6, FS_Bijection
<1> QED
  BY <1>7 DEF All

LEMMA CountStep ==
    ASSUME Types, HeldOK, CountOK, [Next]_vars PROVE CountOK'
<1> USE DEF Goto, latches
<1>g. g_target \in Nat
  BY SpinlockAssumption DEF Types
<1>u. ASSUME \A t \in Threads : Owed(t)' = Owed(t), stored' = stored, g_target' = g_target,
             main # "reset"
      PROVE  CountOK'
  <2>1. Todo' = Todo
    BY <1>u DEF Todo
  <2> QED
    BY <1>u, <2>1 DEF CountOK
<1>1. ASSUME NEW t \in Threads,
             \/ CountReady(t) \/ PassGate(t) \/ TestAndSet(t) \/ Test(t) \/ Load(t)
             \/ Unlock(t) \/ CountFinished(t)
      PROVE  CountOK'
  <2>0. main # "reset" /\ stored' = stored /\ g_target' = g_target
    <3>1. pc[t] \notin {"none", "ended"} /\ stored' = stored /\ g_target' = g_target
      BY <1>1 DEF CountReady, PassGate, TestAndSet, Test, Load, Unlock, CountFinished
    <3> QED
      BY <3>1 DEF HeldOK
  <2>1. \A u \in Threads : OperationsForThread(u)' = OperationsForThread(u)
    BY <2>0 DEF OperationsForThread
  <2>2. \A u \in Threads \ {t} : Owed(u)' = Owed(u)
    <3>1. \A u \in Threads \ {t} : pc'[u] = pc[u] /\ left'[u] = left[u]
      BY <1>1 DEF CountReady, PassGate, TestAndSet, Test, Load, Unlock, CountFinished, Loop, Types
    <3> QED
      BY <2>1, <3>1 DEF Owed
  <2>3. Owed(t)' = Owed(t)
    <3>1. CASE CountReady(t) \/ TestAndSet(t) \/ Test(t) \/ Load(t) \/ CountFinished(t)
      BY <2>1, <3>1 DEF CountReady, TestAndSet, Test, Load, CountFinished, Types, Owed
    <3>2. CASE PassGate(t)
      <4>1. /\ pc[t] = "gate" /\ left'[t] = OperationsForThread(t)
            /\ pc'[t] = IF OperationsForThread(t) = 0 THEN "finish" ELSE "lock"
        BY <3>2 DEF PassGate, Loop, Types
      <4> QED
        BY <4>1 DEF Owed
    <3>3. CASE Unlock(t)
      <4>1. /\ pc[t] = "unlock" /\ left'[t] = left[t] - 1
            /\ pc'[t] = IF left[t] - 1 = 0 THEN "finish" ELSE "lock"
        BY <3>3 DEF Unlock, Loop, Types
      <4> QED
        BY <4>1 DEF Owed
    <3> QED
      BY <1>1, <3>1, <3>2, <3>3
  <2> QED
    BY <1>u, <2>0, <2>2, <2>3
<1>2. ASSUME NEW t \in Threads, Store(t) PROVE CountOK'
  <2>1. /\ pc[t] = "store" /\ pc'[t] = "unlock" /\ stored' = stored + 1
        /\ UNCHANGED <<left, g_target, main>>
        /\ \A u \in Threads \ {t} : pc'[u] = pc[u]
    BY <1>2 DEF Store, Types
  <2>2. main # "reset" /\ left[t] \in Nat /\ left[t] > 0
    BY <2>1 DEF HeldOK, Types, Critical
  <2>3. Owed(t) = left[t] /\ Owed(t)' = left[t] - 1
    BY <2>1 DEF Owed
  <2>4. \A u \in Threads \ {t} : Owed(u)' = Owed(u)
    BY <2>1 DEF Owed, OperationsForThread
  <2>5. <<t, left[t]>> \in Todo /\ Todo' = Todo \ {<<t, left[t]>>}
    <3>1. <<t, left[t]>> \in Todo
      BY <2>2, <2>3 DEF Todo
    <3>2. ASSUME NEW u \in Threads, NEW k \in Nat
          PROVE  <<u, k>> \in Todo' <=> <<u, k>> \in Todo /\ <<u, k>> # <<t, left[t]>>
      <4>1. <<u, k>> \in Todo' <=> k \in 1..Owed(u)'
        BY DEF Todo
      <4>2. <<u, k>> \in Todo <=> k \in 1..Owed(u)
        BY DEF Todo
      <4>3. CASE u # t
        BY <2>4, <4>1, <4>2, <4>3
      <4>4. CASE u = t
        BY <2>2, <2>3, <4>1, <4>2, <4>4
      <4> QED
        BY <4>3, <4>4
    <3>3. Todo \subseteq Threads \X Nat /\ Todo' \subseteq Threads \X Nat
      BY DEF Todo
    <3> QED
      BY <3>1, <3>2, <3>3
  <2>6. IsFiniteSet(Todo') /\ Cardinality(Todo') = Cardinality(Todo) - 1
    BY <2>2, <2>5, FS_RemoveElement DEF CountOK
  <2>7. Cardinality(Todo) \in Nat /\ stored \in Nat /\ stored + Cardinality(Todo) = g_target
    BY <2>2, FS_CardinalityType DEF CountOK, Types
  <2> QED
    BY <2>1, <2>6, <2>7 DEF CountOK
<1>3. CASE Reset
  <2>1. /\ pc' = [t \in Threads |-> "none"] /\ g_target' = g_target /\ stored' = 0
    BY <1>3 DEF Reset
  <2>2. \A t \in Threads : Owed(t)' = OperationsForThread(t)
    BY <2>1 DEF Owed, OperationsForThread
  <2>3. Todo' = {p \in Threads \X Nat : p[2] \in 1..OperationsForThread(p[1])}
    BY <2>2 DEF Todo
  <2> QED
    BY <1>g, <2>1, <2>3, SharesAddUp DEF CountOK
<1>4. ASSUME NEW t \in Threads, Spawn(t) PROVE CountOK'
  <2>1. main # "reset" /\ stored' = stored /\ g_target' = g_target
    BY <1>4 DEF Spawn
  <2>2. \A u \in Threads : Owed(u)' = Owed(u)
    BY <1>4 DEF Spawn, Owed, OperationsForThread, Types
  <2> QED
    BY <1>u, <2>1, <2>2
<1>5. CASE Open \/ Wait \/ Join
  <2>1. main # "reset" /\ UNCHANGED <<stored, g_target, pc, left>>
    BY <1>5 DEF Open, Wait, Join
  <2>2. \A u \in Threads : Owed(u)' = Owed(u)
    BY <2>1 DEF Owed, OperationsForThread
  <2> QED
    BY <1>u, <2>1, <2>2
<1>6. CASE Check
  <2>1. main # "reset" /\ UNCHANGED <<stored, g_target, pc, left>>
    BY <1>6 DEF Check
  <2>2. \A u \in Threads : Owed(u)' = Owed(u)
    BY <2>1 DEF Owed, OperationsForThread
  <2> QED
    BY <1>u, <2>1, <2>2
<1>7. CASE UNCHANGED vars
  <2>1. UNCHANGED <<stored, g_target, pc, left, main>>
    BY <1>7 DEF vars
  <2>2. \A u \in Threads : Owed(u)' = Owed(u)
    BY <2>1 DEF Owed, OperationsForThread
  <2>3. CASE main # "reset"
    BY <1>u, <2>1, <2>2, <2>3
  <2>4. CASE main = "reset"
    BY <2>1, <2>4 DEF CountOK
  <2> QED
    BY <2>3, <2>4
<1> QED
  BY <1>1, <1>2, <1>3, <1>4, <1>5, <1>6, <1>7 DEF Next, Thread, Main, Over

(* When every thread has ended there is nothing to do.                     *)
LEMMA AllDone ==
    ASSUME Types, HeldOK, NothingLost, CountOK, main = "check" PROVE g_Counter = g_target
<1>1. \A t \in Threads : Owed(t) = 0
  BY DEF HeldOK, Owed
<1>2. Todo = {}
  BY <1>1 DEF Todo
<1>3. stored + 0 = g_target
  BY <1>2, FS_EmptySet DEF CountOK
<1> QED
  BY <1>3 DEF NothingLost, Types

(* The check of the benchmark never fails: every thread does its share,    *)
(* the shares add up to g_target, and none is lost.                        *)
THEOREM CountsExactly == Spec => []CountIsExact
<1> DEFINE Exact == Inv /\ CountOK /\ main # "threw"
<1>1. Init => Exact
  BY InvInit DEF Init, CountOK
<1>2. Exact /\ [Next]_vars => Exact'
  <2> SUFFICES ASSUME Inv, CountOK, main # "threw", [Next]_vars PROVE Exact'
    OBVIOUS
  <2>1. Inv' /\ CountOK'
    BY InvStep, CountStep DEF Inv
  <2>2. CASE Check
    <3>1. g_Counter = g_target
      BY <2>2, AllDone DEF Check, Inv
    <3> QED
      BY <2>1, <2>2, <3>1 DEF Check
  <2>3. CASE ~Check
    BY <2>1, <2>3 DEF Next, Thread, CountReady, PassGate, TestAndSet, Test, Load, Store, Unlock,
       CountFinished, Main, Reset, Spawn, Open, Wait, Join, Over, vars
  <2> QED
    BY <2>2, <2>3
<1>3. Exact => CountIsExact
  BY AllDone DEF Inv, CountIsExact
<1> HIDE DEF Exact
<1> QED
  BY <1>1, <1>2, <1>3, PTL DEF Spec

=============================================================================
