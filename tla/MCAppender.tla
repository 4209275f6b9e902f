----------------------------- MODULE MCAppender -----------------------------
(***************************************************************************)
(* Small instances of Appender.                                            *)
(***************************************************************************)
EXTENDS Appender, TLC

CONSTANTS t1, t2, t3

Symmetry == Permutations(Threads)

=============================================================================
