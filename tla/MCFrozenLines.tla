--------------------------- MODULE MCFrozenLines ---------------------------
(***************************************************************************)
(* Values for FrozenLines: two lines that differ in what the matcher       *)
(* ignores (one holds a lone CR) and a line with an embedded line break    *)
(* and a backslash.                                                        *)
(***************************************************************************)
EXTENDS FrozenLines

a1 == <<"x", "x">>
a2 == <<"x", "CR", "x">>
b  == <<"x", "LF", "\\", "x">>

MCLines == {a1, a2, b}
MCMatches == {<<l, k>> \in MCLines \X MCLines : l = k \/ {l, k} = {a1, a2}}
=============================================================================
