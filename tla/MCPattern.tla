----------------------------- MODULE MCPattern -----------------------------
(***************************************************************************)
(* Every pattern of up to five characters: the three that have a meaning   *)
(* in the grammar, a directive of either kind and a letter that is none;   *)
(* and longer ones, where an item follows a configuration.                 *)
(***************************************************************************)
EXTENDS Pattern

Characters == {"%", "{", "}", "d", "m", "x"}

Short == UNION {[1..n -> Characters] : n \in 0..5}

Long == {<<"%", "d", "{", "%", "x", "}", "x", "%", "m">>,
         <<"x", "%", "%", "x", "%", "d", "{", "{", "}", "}", "%">>,
         <<"%", "m", "{", "x", "}", "%", "d", "x", "%", "d", "{", "m", "}">>,
         <<"x", "%", "m", "%", "x", "%", "d", "{", "x">>}

MCPatterns == Short \cup Long

=============================================================================
