----------------------------- MODULE MCSpinlock -----------------------------
(***************************************************************************)
(* Four threads that share nothing out, fewer increments than threads, or  *)
(* an uneven number.                                                       *)
(***************************************************************************)
EXTENDS Spinlock

=============================================================================
