--------------------------- MODULE MCFreezeStore ---------------------------
(***************************************************************************)
(* Values for the constants of FreezeStore: two rules, two tests, lines    *)
(* that differ, lines that only differ in a line number (a1 and a2 match), *)
(* and repeated lines.                                                     *)
(***************************************************************************)
EXTENDS FreezeStore, TLC

CONSTANTS a1, a2, b, r1, r2, f1, f2, f3, f4, p1, p2, t1, t2, z1, z2

MCLines == {a1, a2, b}

\* FuzzyViolationLineMatcher ignores line numbers.
MCMatches == {<<x, y>> \in MCLines \X MCLines : x = y \/ {x, y} = {a1, a2}}

OneProcess == [t \in Threads |-> p1]
BothInP1 == [z \in Frozen |-> p1]
RulePerObject == [z \in Frozen |-> IF z = z1 THEN r1 ELSE r2]
ProcessPerThread == [t \in Threads |-> IF t = t1 THEN p1 ELSE p2]
ProcessPerObject == [z \in Frozen |-> IF z = z1 THEN p1 ELSE p2]

FewReports == {<<a2>>, <<a1, b>>}
MoreReports == {<<>>, <<a2>>, <<a1, b>>, <<a1, a2>>}

RatchetConfigs == {[create |-> TRUE, update |-> u, refreeze |-> FALSE] : u \in BOOLEAN}
AllConfigs == {[create |-> TRUE, update |-> TRUE, refreeze |-> FALSE],
               [create |-> TRUE, update |-> TRUE, refreeze |-> TRUE],
               [create |-> FALSE, update |-> FALSE, refreeze |-> FALSE]}

(***************************************************************************)
(* Names of files are interchangeable, so are the threads of one process,  *)
(* and so are the two rules together with the objects that freeze them     *)
(* (sound for FreezeFaults.cfg, where RuleOf is RulePerObject).            *)
(***************************************************************************)
SwapRules == r1 :> r2 @@ r2 :> r1 @@ z1 :> z2 @@ z2 :> z1
FaultSymmetry == Permutations(Files) \cup Permutations(Threads) \cup {SwapRules}
=============================================================================
