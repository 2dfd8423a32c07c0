---------------------------- MODULE MCArchTestRuns ----------------------------
(***************************************************************************)
(* Two threads; a module with #[analyze_classes], one without, and one     *)
(* that keeps its import to itself, all of one key; an ArchTests of two    *)
(* cases and an ignored one in between.                                    *)
(***************************************************************************)
EXTENDS ArchTestRuns

CONSTANTS t1, t2, m1, m2, m3, k, empty, no, fromFile, other, c1, c2, c3

MCKeyOf == [m \in Modules |-> k]
MCSettings == [p \in Properties |-> None]
\* Two threads are alike.
TestSymmetry == Permutations(Threads)

MCCases == <<c1, c2, c3>>
=============================================================================
