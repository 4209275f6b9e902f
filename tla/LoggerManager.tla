--------------------------- MODULE LoggerManager ---------------------------
(***************************************************************************)
(* GetLogger() and GetRootLogger(): threads that look loggers up and make  *)
(* them, through a manager that the first of them builds.                  *)
(*                                                                         *)
(* The manager is a local static: the thread that comes first builds it,   *)
(* the others wait, and when the construction throws the next one starts   *)
(* it again.  getLogger() finds or creates under the manager's mutex;      *)
(* getRoot() takes no lock, and nobody takes one to read the m_root of a   *)
(* logger.  Loggers are numbered as they are made; 0 is the null pointer.  *)
(***************************************************************************)
EXTENDS Naturals, Sequences, FiniteSets

CONSTANTS
    Threads, Names,
    None,           \* no thread
    RootName,       \* "root"
    EmptyName,      \* ""
    MaxCalls,       \* bound: the calls of one thread
    MayFail         \* whether allocations and the mutex may throw

ASSUME LoggerManagerAssumption ==
    /\ None \notin Threads
    /\ RootName \in Names /\ EmptyName \notin Names
    /\ MaxCalls \in Nat
    /\ MayFail \in BOOLEAN

VARIABLES
    ready,          \* the static has been constructed
    builder,        \* the thread that constructs it, if any
    root,           \* LoggerManager::m_root
    loggers,        \* LoggerManager::m_loggers
    mutex,          \* the thread that holds LoggerManager::m_mutex
    roots,          \* Logger::Impl::m_root of each logger made
    stdout,         \* the loggers that have the stdout appender
    pc, want, mine, \* per thread: where it is, the name, the logger it makes
    calls,          \* per thread: calls made so far
    given           \* ghost: every logger returned, with the name asked for

vars == <<ready, builder, root, loggers, mutex, roots, stdout, pc, want, mine, calls, given>>

Building == {"build", "attach", "publish"}
Locked   == {"find", "make", "setRoot", "emplace"}

TypeOK ==
    /\ ready \in BOOLEAN
    /\ builder \in Threads \cup {None}
    /\ root \in Nat
    /\ loggers \in [Names \cup {EmptyName} -> Nat]
    /\ mutex \in Threads \cup {None}
    /\ roots \in Seq(Nat)
    /\ stdout \subseteq Nat
    /\ pc \in [Threads -> {"idle", "guard", "lock", "getRoot"} \cup Building \cup Locked]
    /\ want \in [Threads -> Names \cup {EmptyName, None}]
    /\ mine \in [Threads -> Nat]
    /\ calls \in [Threads -> 0..MaxCalls]
    /\ given \subseteq Names \X Nat

Init ==
    /\ ready = FALSE /\ builder = None
    /\ root = 0
    /\ loggers = [n \in Names \cup {EmptyName} |-> 0]
    /\ mutex = None
    /\ roots = <<>>
    /\ stdout = {}
    /\ pc = [t \in Threads |-> "idle"]
    /\ want = [t \in Threads |-> None]
    /\ mine = [t \in Threads |-> 0]
    /\ calls = [t \in Threads |-> 0]
    /\ given = {}

Goto(t, where) == pc' = [pc EXCEPT ![t] = where]

(* GetLogger(name), or GetRootLogger() for no name.                        *)
Call(t) ==
    /\ pc[t] = "idle"
    /\ calls[t] < MaxCalls
    /\ \E n \in Names \cup {EmptyName, None} : want' = [want EXCEPT ![t] = n]
    /\ calls' = [calls EXCEPT ![t] = @ + 1]
    /\ Goto(t, "guard")
    /\ UNCHANGED <<ready, builder, root, loggers, mutex, roots, stdout, mine, given>>

-----------------------------------------------------------------------------
(* GetLoggerManager(): the local static                                    *)

(* What the call does with the manager: getRoot(), or getLogger(), which   *)
(* turns an empty name away before it locks.                               *)
Entry(t) == IF want[t] = None THEN "getRoot" ELSE IF want[t] = EmptyName THEN "idle" ELSE "lock"

EnterFirst(t) ==
    /\ pc[t] = "guard"
    /\ ~ready /\ builder = None
    /\ builder' = t
    /\ Goto(t, "build")
    /\ UNCHANGED <<ready, root, loggers, mutex, roots, stdout, want, mine, calls, given>>

EnterReady(t) ==
    /\ pc[t] = "guard"
    /\ ready
    /\ Goto(t, Entry(t))
    /\ UNCHANGED <<ready, builder, root, loggers, mutex, roots, stdout, want, mine, calls, given>>

(* The constructor: a logger, its appender, its entry in the map.          *)
BuildRoot(t) ==
    /\ pc[t] = "build"
    /\ roots' = Append(roots, 0)
    /\ root' = Len(roots) + 1
    /\ Goto(t, "attach")
    /\ UNCHANGED <<ready, builder, loggers, mutex, stdout, want, mine, calls, given>>

AttachStdout(t) ==
    /\ pc[t] = "attach"
    /\ stdout' = stdout \cup {root}
    /\ Goto(t, "publish")
    /\ UNCHANGED <<ready, builder, root, loggers, mutex, roots, want, mine, calls, given>>

PublishRoot(t) ==
    /\ pc[t] = "publish"
    /\ loggers' = [loggers EXCEPT ![RootName] = root]
    /\ ready' = TRUE /\ builder' = None
    /\ Goto(t, Entry(t))
    /\ UNCHANGED <<root, mutex, roots, stdout, want, mine, calls, given>>

(* The constructor throws: its members go, the guard opens again, and the  *)
(* exception is the caller's.                                              *)
BuildThrows(t) ==
    /\ MayFail
    /\ pc[t] \in Building
    /\ root' = 0
    /\ builder' = None
    /\ Goto(t, "idle")
    /\ UNCHANGED <<ready, loggers, mutex, roots, stdout, want, mine, calls, given>>

-----------------------------------------------------------------------------
(* getRoot() and getLogger()                                               *)

GetRoot(t) ==
    /\ pc[t] = "getRoot"
    /\ given' = given \cup {<<RootName, root>>}
    /\ Goto(t, "idle")
    /\ UNCHANGED <<ready, builder, root, loggers, mutex, roots, stdout, want, mine, calls>>

(* Faulty: find and emplace with no lock.                                  *)
LockNothing(t) ==
    /\ pc[t] = "lock"
    /\ mutex' = t
    /\ Goto(t, "find")
    /\ UNCHANGED <<ready, builder, root, loggers, roots, stdout, want, mine, calls, given>>

Lock(t) ==
    /\ pc[t] = "lock"
    /\ mutex = None
    /\ mutex' = t
    /\ Goto(t, "find")
    /\ UNCHANGED <<ready, builder, root, loggers, roots, stdout, want, mine, calls, given>>

Found(t) ==
    /\ pc[t] = "find"
    /\ loggers[want[t]] # 0
    /\ given' = given \cup {<<want[t], loggers[want[t]]>>}
    /\ mutex' = None
    /\ Goto(t, "idle")
    /\ UNCHANGED <<ready, builder, root, loggers, roots, stdout, want, mine, calls>>

NotFound(t) ==
    /\ pc[t] = "find"
    /\ loggers[want[t]] = 0
    /\ Goto(t, "make")
    /\ UNCHANGED <<ready, builder, root, loggers, mutex, roots, stdout, want, mine, calls, given>>

(* Faulty: the logger never gets its root.                                 *)
MakeRootless(t) ==
    /\ pc[t] = "make"
    /\ roots' = Append(roots, 0)
    /\ mine' = [mine EXCEPT ![t] = Len(roots) + 1]
    /\ Goto(t, "emplace")
    /\ UNCHANGED <<ready, builder, root, loggers, mutex, stdout, want, calls, given>>

Make(t) ==
    /\ pc[t] = "make"
    /\ roots' = Append(roots, 0)
    /\ mine' = [mine EXCEPT ![t] = Len(roots) + 1]
    /\ Goto(t, "setRoot")
    /\ UNCHANGED <<ready, builder, root, loggers, mutex, stdout, want, calls, given>>

SetRoot(t) ==
    /\ pc[t] = "setRoot"
    /\ roots' = [roots EXCEPT ![mine[t]] = root]
    /\ Goto(t, "emplace")
    /\ UNCHANGED <<ready, builder, root, loggers, mutex, stdout, want, mine, calls, given>>

Emplace(t) ==
    /\ pc[t] = "emplace"
    /\ loggers' = [loggers EXCEPT ![want[t]] = mine[t]]
    /\ given' = given \cup {<<want[t], mine[t]>>}
    /\ mutex' = None
    /\ Goto(t, "idle")
    /\ UNCHANGED <<ready, builder, root, roots, stdout, want, mine, calls>>

LockThrows(t) ==
    /\ MayFail
    /\ pc[t] = "lock"
    /\ Goto(t, "idle")
    /\ UNCHANGED <<ready, builder, root, loggers, mutex, roots, stdout, want, mine, calls, given>>

(* Faulty: the cleanup erases the name, whoever put it there.              *)
GetThrowsErasing(t) ==
    /\ MayFail
    /\ pc[t] \in {"find", "make", "emplace"}
    /\ loggers' = [loggers EXCEPT ![want[t]] = 0]
    /\ mutex' = None
    /\ Goto(t, "idle")
    /\ UNCHANGED <<ready, builder, root, roots, stdout, want, mine, calls, given>>

(* Faulty: the mutex is not given up.                                      *)
GetThrowsLocked(t) ==
    /\ MayFail
    /\ pc[t] \in {"find", "make", "emplace"}
    /\ Goto(t, "idle")
    /\ UNCHANGED <<ready, builder, root, loggers, mutex, roots, stdout, want, mine, calls, given>>

(* bad_alloc under the lock: nothing is in the map, nothing was returned.  *)
GetThrows(t) ==
    /\ MayFail
    /\ pc[t] \in {"find", "make", "emplace"}
    /\ mutex' = None
    /\ Goto(t, "idle")
    /\ UNCHANGED <<ready, builder, root, loggers, roots, stdout, want, mine, calls, given>>

Work(t) ==
    \/ EnterFirst(t) \/ EnterReady(t)
    \/ BuildRoot(t) \/ AttachStdout(t) \/ PublishRoot(t)
    \/ GetRoot(t) \/ Lock(t)
    \/ Found(t) \/ NotFound(t) \/ Make(t) \/ SetRoot(t) \/ Emplace(t)

Throw(t) == BuildThrows(t) \/ LockThrows(t) \/ GetThrows(t)

Step(t) == Work(t) \/ Throw(t)

(* Threads may stop between two calls.                                     *)
Rest == (\A t \in Threads : pc[t] = "idle") /\ UNCHANGED vars

Next == (\E t \in Threads : Call(t) \/ Step(t)) \/ Rest

Spec == Init /\ [][Next]_vars

(* A thread inside a call is scheduled again; nothing has to throw.        *)
FairSpec == Spec /\ \A t \in Threads : WF_vars(Work(t))

-----------------------------------------------------------------------------
(* Properties                                                              *)

(* Whoever asks for a name, first or later, at the same time or after an   *)
(* attempt that failed, gets the one logger of that name, and no other     *)
(* name has it: GetLogger("root") and GetRootLogger() agree.               *)
OneLoggerPerName ==
    \A g, h \in given : g[1] = h[1] <=> g[2] = h[2]

(* A logger that anybody holds has the root to fall back on, read without  *)
(* a lock; the root has its appender and falls back on nobody.             *)
FallbackReady ==
    \A g \in given :
        /\ root # 0 /\ root \in stdout /\ roots[root] = 0
        /\ g[2] # root => roots[g[2]] = root

(* A logger once returned is what its name means from then on.             *)
NamesAreKept == [][\A g \in given : loggers'[g[1]] = g[2] /\ root' = root]_vars

(* A call ends, also when another one failed in the constructor or under   *)
(* the mutex.                                                              *)
CallsReturn == \A t \in Threads : pc[t] # "idle" ~> pc[t] = "idle"

=============================================================================
