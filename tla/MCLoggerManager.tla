-------------------------- MODULE MCLoggerManager --------------------------
(***************************************************************************)
(* A small instance of LoggerManager.                                      *)
(***************************************************************************)
EXTENDS LoggerManager

CONSTANTS t1, t2, t3, a, b

=============================================================================
