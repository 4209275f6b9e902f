------------------------------ MODULE LogLevel ------------------------------
(***************************************************************************)
(* pans::LogLevel::Level: the u8 enumeration of log_level.h.  Loggers and  *)
(* appenders both hold one of these as a threshold, and compare it with    *)
(* the level of a record as unsigned integers.                             *)
(***************************************************************************)
EXTENDS Integers

DEBUG == 1
FATAL == 5
OFF   == 6

Level == DEBUG..OFF

(* static_cast<u8>(level) < static_cast<u8>(getLevel()): the test with     *)
(* which shouldLog, submit and append all turn a record away.              *)
Below(lv, threshold) == lv < threshold

=============================================================================
