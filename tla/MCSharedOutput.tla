--------------------------- MODULE MCSharedOutput ---------------------------
(***************************************************************************)
(* Two appenders on one file, or on stdout.                                *)
(***************************************************************************)
EXTENDS SharedOutput

CONSTANTS t1, t2, a, b

=============================================================================
