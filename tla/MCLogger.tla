------------------------------ MODULE MCLogger ------------------------------
(***************************************************************************)
(* Small instances of Logger: the root logger and one named logger, a      *)
(* stdout appender and a file appender, and threads with different roles.  *)
(***************************************************************************)
EXTENDS Logger, TLC

CONSTANTS t1, t2, t3, root, app, out, file, f, g

MCRoot == root :> None @@ app :> root

(* The root has its stdout appender; the named logger has a list of its    *)
(* own or none.  One call of addAppender or removeAppender lists an        *)
(* appender twice, or leaves the root with none.                           *)
ListsOwn  == {root :> <<out>> @@ app :> <<file, out>>}
ListsFew  == {root :> <<out>> @@ app :> l : l \in {<<>>, <<file, out>>}}

LevelsOne == {2}
LevelsTwo == {2, FATAL}
LevelsTop == {FATAL, OFF}

LevelsAny   == [Loggers -> Levels]
LevelsLow   == {[lg \in Loggers |-> 2]}
ThresholdsAny   == [Appenders -> Levels]
ThresholdsMixed == {out :> FATAL @@ file :> 2}

ConfigWhileLogging == t1 :> {"log", "sync"} @@ t2 :> ConfigOps \cup {"appenderSetLevel"}
LogDrainAndChange  == t1 :> {"log"} @@ t2 :> {"log", "setLevel"} \cup DrainOps
                      @@ t3 :> {"addAppender", "removeAppender"}
SetLevelThenLog    == t1 :> {"log", "setLevel"}

(* log_level.h:21 says of LOG_LV_OFF that it is for turning the log off    *)
(* ("用来关闭日志"): while a logger is at OFF and nobody changes that, a   *)
(* statement made on it is not delivered.                                  *)
OffSilences ==
    \A t \in Threads :
        (pc[t] = "idle" /\ stable[t] /\ call[t].op = "log" /\ level[call[t].logger] = OFF)
            => result[t] = "filtered"

=============================================================================
