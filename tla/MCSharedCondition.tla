------------------------- MODULE MCSharedCondition -------------------------
(***************************************************************************)
(* Values for SharedCondition: three components, inputs that overlap and   *)
(* order them differently, every dependency graph between them.            *)
(***************************************************************************)
EXTENDS SharedCondition, TLC

CONSTANTS t1, t2, c1, x, y, z

MCGraphs == SUBSET {<<a, b>> \in {x, y, z} \X {x, y, z} : a # b}
MCInputs == {<<>>, <<x, y>>, <<y, x, z>>}
ThreadSymmetry == Permutations(Threads)
CyclicGraph == {{<<x, y>>, <<y, x>>}}
=============================================================================
