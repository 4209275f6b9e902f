----------------------------- MODULE MCDateTime -----------------------------
(***************************************************************************)
(* Small instances of DateTime: a thread with one format, f, which fits    *)
(* always, or not in the second 3 (as "%B %d %H:%M:%S" does not in         *)
(* September), and a thread with the formats f and g.                      *)
(***************************************************************************)
EXTENDS DateTime

CONSTANTS t1, t2, f, g

OneAndMixed   == [t \in Threads |-> IF t = t1 THEN {f} ELSE {f, g}]
OneOnly       == [t \in Threads |-> {f}]
AllSeconds    == {0, 1, 3}
LaterSeconds  == {1, 2, 3}
MixedFits     == ({f} \X AllSeconds) \cup ({g} \X {0, 1})
SometimesFits == {f} \X {1, 2}

=============================================================================
