--------------------------- MODULE DependencyGraph ---------------------------
(***************************************************************************)
(* The dependency graph an import ends in, and the conditions of a class   *)
(* rule that look at it: src/src/core/domain/graph.rs, dependency.rs,      *)
(* rust_item.rs and src/src/lang/conditions/mod.rs.                        *)
(*                                                                         *)
(* A dependency is the pair of its origin and its target: what it is about *)
(* (an access, a type, an import) and where it stands are left out, so two *)
(* dependencies between the same items are one.  A predicate over items or *)
(* dependencies is the set of those it holds for: `or` is a union.         *)
(***************************************************************************)
EXTENDS FiniteSets, Naturals, Sequences

CONSTANTS
    Items,  \* the items of the imported sources
    Stubs,  \* items that are only referenced: is_fully_imported is false
    None

ASSUME GraphAssumption == Items \cap Stubs = {} /\ IsFiniteSet(Items) /\ IsFiniteSet(Stubs)

Universe == Items \cup Stubs

(***************************************************************************)
(* Only imported items have dependencies; no item depends on itself.       *)
(***************************************************************************)
AllDependencies == {d \in Items \X Universe : d[1] # d[2]}

DependencyOrigin(P) == {d \in AllDependencies : d[1] \in P}

DependencyTarget(P) == {d \in AllDependencies : d[2] \in P}

Between(P, Q) == DependencyOrigin(P) \cap DependencyTarget(Q)

-----------------------------------------------------------------------------
(***************************************************************************)
(* deps_from and deps_to, the two indexes of the graph.                    *)
(***************************************************************************)
DependenciesFromSelf(deps, i) == {d \in deps : d[1] = i}

DependenciesToSelf(deps, i) == {d \in deps : d[2] = i}

(***************************************************************************)
(* transitive_dependencies_from_self: breadth first, Seen[n] the items in  *)
(* the queue after n rounds.                                               *)
(***************************************************************************)
TransitiveDependenciesFromSelf(deps, i) ==
    LET Seen[n \in 0 .. Cardinality(Universe)] ==
            IF n = 0 THEN {i}
            ELSE Seen[n - 1] \cup {d[2] : d \in {e \in deps : e[1] \in Seen[n - 1]}}
    IN  {d \in deps : d[1] \in Seen[Cardinality(Universe)]}

-----------------------------------------------------------------------------
(***************************************************************************)
(* What a class rule reports.  The objects it checks are the given items   *)
(* that satisfy the `that` predicate; a violated only_have_.. condition    *)
(* reports the dependencies that fail.                                     *)
(***************************************************************************)
Violation(what, about, dependency) == [what |-> what, about |-> about, dependency |-> dependency]

OnlyHaveDependentsWhere(objects, P, deps) ==
    (UNION {DependenciesToSelf(deps, i) : i \in objects}) \ P

OnlyHaveDependenciesWhere(objects, P, deps) ==
    (UNION {DependenciesFromSelf(deps, i) : i \in objects}) \ P

(***************************************************************************)
(* transitively_depend_on_classes_that.  The search goes on from the items *)
(* outside of those the rule checks and stops at one that matches; Visited *)
(* are the items it sees, round by round, from one target of the object.   *)
(***************************************************************************)
TargetsOutside(deps, objects, i) == {d[2] : d \in DependenciesFromSelf(deps, i)} \ objects

(***************************************************************************)
(* Mutant: only the direct dependencies of an item are looked at.          *)
(***************************************************************************)
MatchesItself(deps, objects, P, start) == start \in P

PathFound(deps, objects, P, start) ==
    LET Visited[n \in 0 .. Cardinality(Universe)] ==
            IF n = 0 THEN {start}
            ELSE Visited[n - 1] \cup
                 UNION {TargetsOutside(deps, objects, i) : i \in Visited[n - 1] \ P}
    IN  Visited[Cardinality(Universe)] \cap P # {}

TransitivelyDependOn(deps, objects, P, i) ==
    {t \in TargetsOutside(deps, objects, i) : PathFound(deps, objects, P, t)}

(***************************************************************************)
(* The reference the properties use: an item reaches a set of items along  *)
(* dependencies iff it is in every set that holds them and, with an item,  *)
(* all that depend on it.                                                  *)
(***************************************************************************)
ClosedBackwards(S, deps) == \A d \in deps : d[2] \in S => d[1] \in S

Reaching(T, deps) == {i \in Universe : \A S \in SUBSET Universe :
                                          (T \subseteq S /\ ClosedBackwards(S, deps)) => i \in S}
=============================================================================
