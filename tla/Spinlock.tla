------------------------------ MODULE Spinlock ------------------------------
(***************************************************************************)
(* pans::Spinlock where glibc has none (a test-and-test-and-set lock on a  *)
(* std::atomic_flag), under the client the repository has for it: the      *)
(* benchmark of tests/test_mutex.cpp, whose threads share out g_target     *)
(* increments of g_Counter and whose main thread checks the sum after      *)
(* every run.                                                              *)
(*                                                                         *)
(* An increment is a load and a store.  try_lock is the test-and-set of    *)
(* lock without the wait, so it is the same step where it succeeds and no  *)
(* step where it does not.  A wait for a latch is a step that is enabled   *)
(* when it ends.                                                           *)
(***************************************************************************)
EXTENDS Naturals

CONSTANTS
    ThreadCount,    \* thread_count of BenchmarkMutex
    Targets,        \* what g_target may be: argv[1]
    Runs            \* bound: runs of the benchmark (7, for five thread counts)

ASSUME SpinlockAssumption ==
    ThreadCount \in Nat \ {0} /\ Targets \subseteq Nat /\ Runs \in Nat \ {0}

VARIABLES
    g_target,
    m_mutex,        \* the flag
    g_Counter,
    ready, start_gate, finished,    \* the counts of the latches
    pc, left, read, \* per thread: where it is, increments to go, what it loaded
    main, run,      \* where the main thread is, and in which run
    stored          \* ghost: the increments done in this run

latches == <<ready, start_gate, finished>>
vars    == <<g_target, m_mutex, g_Counter, ready, start_gate, finished, pc, left, read,
             main, run, stored>>

Threads == 0..ThreadCount - 1

(* The places between lock() and unlock().                                 *)
Critical == {"load", "store", "unlock"}

TypeOK ==
    /\ g_target \in Targets
    /\ m_mutex \in BOOLEAN
    /\ g_Counter \in Nat /\ stored \in Nat
    /\ ready \in 0..ThreadCount /\ start_gate \in {0, 1} /\ finished \in 0..ThreadCount
    /\ pc \in [Threads -> {"none", "ready", "gate", "lock", "spin", "finish", "ended"} \cup Critical]
    /\ left \in [Threads -> Nat] /\ read \in [Threads -> Nat]
    /\ main \in {"reset", "spawn", "open", "wait", "join", "check", "threw", "done"}
    /\ run \in 1..Runs

Init ==
    /\ g_target \in Targets
    /\ m_mutex = FALSE
    /\ g_Counter = 0 /\ stored = 0
    /\ ready = ThreadCount /\ start_gate = 1 /\ finished = ThreadCount
    /\ pc = [t \in Threads |-> "none"]
    /\ left = [t \in Threads |-> 0] /\ read = [t \in Threads |-> 0]
    /\ main = "reset" /\ run = 1

Goto(t, where) == pc' = [pc EXCEPT ![t] = where]

-----------------------------------------------------------------------------
(* A thread                                                                *)

(* Faulty: the first threads and one more get what is left over.           *)
SharesUneven(t) ==
    g_target \div ThreadCount + (IF t <= g_target % ThreadCount THEN 1 ELSE 0)

OperationsForThread(t) ==
    g_target \div ThreadCount + (IF t < g_target % ThreadCount THEN 1 ELSE 0)

CountReady(t) ==
    /\ pc[t] = "ready"
    /\ ready' = ready - 1
    /\ Goto(t, "gate")
    /\ UNCHANGED <<g_target, m_mutex, g_Counter, start_gate, finished, left, read, main, run, stored>>

(* The loop of the benchmark's operation, from its test on.                *)
Loop(t, n) ==
    /\ left' = [left EXCEPT ![t] = n]
    /\ Goto(t, IF n = 0 THEN "finish" ELSE "lock")

PassGate(t) ==
    /\ pc[t] = "gate"
    /\ start_gate = 0
    /\ Loop(t, OperationsForThread(t))
    /\ UNCHANGED <<g_target, m_mutex, g_Counter, latches, read, main, run, stored>>

(* The outer loop of lock(): the old value of the flag decides.            *)
TestAndSet(t) ==
    /\ pc[t] = "lock"
    /\ m_mutex' = TRUE
    /\ Goto(t, IF m_mutex THEN "spin" ELSE "load")
    /\ UNCHANGED <<g_target, g_Counter, latches, left, read, main, run, stored>>

(* Faulty: who sees the flag clear takes the lock to be his.               *)
TestEnters(t) ==
    /\ pc[t] = "spin"
    /\ ~m_mutex
    /\ Goto(t, "load")
    /\ UNCHANGED <<g_target, m_mutex, g_Counter, latches, left, read, main, run, stored>>

(* The inner loop only looks, and goes round while the flag is set.        *)
Test(t) ==
    /\ pc[t] = "spin"
    /\ Goto(t, IF m_mutex THEN "spin" ELSE "lock")
    /\ UNCHANGED <<g_target, m_mutex, g_Counter, latches, left, read, main, run, stored>>

Load(t) ==
    /\ pc[t] = "load"
    /\ read' = [read EXCEPT ![t] = g_Counter]
    /\ Goto(t, "store")
    /\ UNCHANGED <<g_target, m_mutex, g_Counter, latches, left, main, run, stored>>

Store(t) ==
    /\ pc[t] = "store"
    /\ g_Counter' = read[t] + 1
    /\ stored' = stored + 1
    /\ Goto(t, "unlock")
    /\ UNCHANGED <<g_target, m_mutex, latches, left, read, main, run>>

(* Faulty: unlock() sets the flag once more.                               *)
UnlockNothing(t) ==
    /\ pc[t] = "unlock"
    /\ m_mutex' = TRUE
    /\ Loop(t, left[t] - 1)
    /\ UNCHANGED <<g_target, g_Counter, latches, read, main, run, stored>>

Unlock(t) ==
    /\ pc[t] = "unlock"
    /\ m_mutex' = FALSE
    /\ Loop(t, left[t] - 1)
    /\ UNCHANGED <<g_target, g_Counter, latches, read, main, run, stored>>

CountFinished(t) ==
    /\ pc[t] = "finish"
    /\ finished' = finished - 1
    /\ Goto(t, "ended")
    /\ UNCHANGED <<g_target, m_mutex, g_Counter, ready, start_gate, left, read, main, run, stored>>

-----------------------------------------------------------------------------
(* The main thread                                                         *)

(* A new Mutex, counter and latches.                                       *)
Reset ==
    /\ main = "reset"
    /\ m_mutex' = FALSE
    /\ g_Counter' = 0 /\ stored' = 0
    /\ ready' = ThreadCount /\ start_gate' = 1 /\ finished' = ThreadCount
    /\ pc' = [t \in Threads |-> "none"]
    /\ main' = "spawn"
    /\ UNCHANGED <<g_target, left, read, run>>

(* emplace_back starts the next thread; the earlier ones run already.      *)
Spawn(t) ==
    /\ main = "spawn"
    /\ pc[t] = "none"
    /\ \A u \in Threads : u < t => pc[u] # "none"
    /\ Goto(t, "ready")
    /\ main' = IF t = ThreadCount - 1 THEN "open" ELSE "spawn"
    /\ UNCHANGED <<g_target, m_mutex, g_Counter, latches, left, read, run, stored>>

Open ==
    /\ main = "open"
    /\ ready = 0
    /\ start_gate' = 0
    /\ main' = "wait"
    /\ UNCHANGED <<g_target, m_mutex, g_Counter, ready, finished, pc, left, read, run, stored>>

Wait ==
    /\ main = "wait"
    /\ finished = 0
    /\ main' = "join"
    /\ UNCHANGED <<g_target, m_mutex, g_Counter, latches, pc, left, read, run, stored>>

Join ==
    /\ main = "join"
    /\ \A t \in Threads : pc[t] = "ended"
    /\ main' = "check"
    /\ UNCHANGED <<g_target, m_mutex, g_Counter, latches, pc, left, read, run, stored>>

(* "mutex correctness check failed", or the next run.                      *)
Check ==
    /\ main = "check"
    /\ main' = IF g_Counter # g_target THEN "threw" ELSE IF run < Runs THEN "reset" ELSE "done"
    /\ run' = IF main' = "reset" THEN run + 1 ELSE run
    /\ UNCHANGED <<g_target, m_mutex, g_Counter, latches, pc, left, read, stored>>

-----------------------------------------------------------------------------

Thread(t) ==
    \/ CountReady(t) \/ PassGate(t) \/ TestAndSet(t) \/ Test(t) \/ Load(t) \/ Store(t)
    \/ Unlock(t) \/ CountFinished(t)

Main == Reset \/ (\E t \in Threads : Spawn(t)) \/ Open \/ Wait \/ Join \/ Check

Over == main \in {"done", "threw"} /\ UNCHANGED vars

Next == (\E t \in Threads : Thread(t)) \/ Main \/ Over

Spec == Init /\ [][Next]_vars

(* Every thread is scheduled again and again.                              *)
FairSpec == Spec /\ WF_vars(Main) /\ \A t \in Threads : WF_vars(Thread(t))

-----------------------------------------------------------------------------
(* Properties                                                              *)

(* The outer test-and-set alone decides: of the threads that leave the     *)
(* inner loop together one gets in, and no other gets between lock() and   *)
(* unlock() until it is out.                                               *)
MutualExclusion ==
    \A t, u \in Threads : pc[t] \in Critical /\ pc[u] \in Critical => t = u

(* No increment is lost, at any time.                                      *)
NothingLost == g_Counter = stored

(* The check of the benchmark holds: when every thread has ended, the      *)
(* shares of the threads have come to g_target increments, for any number  *)
(* of threads and whatever is left over.                                   *)
CountIsExact == main # "threw" /\ (main = "check" => g_Counter = g_target)

(* The benchmark comes to its end: no thread waits for the flag, and the   *)
(* main thread for no latch, for ever.                                     *)
Finishes == <>(main = "done")

=============================================================================
