----------------------------- MODULE MCLogLine -----------------------------
(***************************************************************************)
(* A small instance of LogLine: an array of two bytes, a printf array of   *)
(* three, and texts on both sides of each boundary.                        *)
(***************************************************************************)
EXTENDS LogLine

Bytes   == 0..6
Piece   == {<<>>, <<1>>, <<2, 3>>, <<4, 5, 6>>}
Text    == {<<>>, <<1, 2>>, <<3, 4, 5>>, <<2, 3, 4, 5>>}
NullFmt == <<6, 6>>
Error   == <<5, 5, 5>>

=============================================================================
