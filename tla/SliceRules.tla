------------------------------ MODULE SliceRules ------------------------------
(***************************************************************************)
(* Slices and the rules about them, src/src/library/dependencies/mod.rs.   *)
(*                                                                         *)
(* An assignment gives every item the identifier of its slice, a sequence  *)
(* of name parts; the empty one ignores the item.  A predicate over slices *)
(* is the set of slices it holds for.                                      *)
(***************************************************************************)
EXTENDS LayeredArchitecture

Ignore == <<>>

(***************************************************************************)
(* PackageMatchingSliceIdentifier: the groups of the package matched, None *)
(* if it does not match.                                                   *)
(***************************************************************************)
PackageMatchingSliceIdentifier(groups) ==
    [i \in Universe |-> IF groups[i] = None THEN Ignore ELSE groups[i]]

-----------------------------------------------------------------------------
(***************************************************************************)
(* SlicesTransformer: that, and, or collect the predicate (None before the *)
(* first); transform keeps the slices that satisfy it.                     *)
(***************************************************************************)
NewTransformer(assignment) == [assignment |-> assignment, predicate |-> None]

That(transformer, P) ==
    [transformer EXCEPT !.predicate = IF @ = None THEN P ELSE @ \cap P]

ThatOrs(transformer, P) ==
    [transformer EXCEPT !.predicate = IF @ = None THEN P ELSE @ \cup P]

SliceOf(assignment, id, items) ==
    [identifier |-> id, items |-> {i \in items : assignment[i] = id}]

Transform(transformer, items) ==
    LET assignment == transformer.assignment
        all == {SliceOf(assignment, id, items) :
                    id \in {assignment[i] : i \in items} \ {Ignore}}
    IN  IF transformer.predicate = None THEN all ELSE all \cap transformer.predicate

OfDependencies(transformer, dependencies) ==
    Transform(transformer, {d[2] : d \in dependencies})

(***************************************************************************)
(* Mutant: the dependencies within a slice are not left out.               *)
(***************************************************************************)
AllDependenciesFromSlice(transformer, slice, deps) ==
    UNION {DependenciesFromSelf(deps, i) : i \in slice.items}

SliceDependenciesFromSelf(transformer, slice, deps) ==
    {d \in UNION {DependenciesFromSelf(deps, i) : i \in slice.items} :
        transformer.assignment[d[2]] # slice.identifier}

-----------------------------------------------------------------------------
(***************************************************************************)
(* SliceRule: a condition over the slices of the checked items, with the   *)
(* dependencies it ignores.                                                *)
(***************************************************************************)
NewSliceRule(transformer, condition, allowEmptyShould) ==
    [transformer |-> transformer, condition |-> condition, irrelevant |-> {},
     allowEmptyShould |-> allowEmptyShould]

RelevantDependencies(rule, slice, deps) ==
    SliceDependenciesFromSelf(rule.transformer, slice, deps) \ rule.irrelevant

(***************************************************************************)
(* not_depend_on_each_other: one violation per slice the targets of the    *)
(* relevant dependencies make up, with those dependencies.                 *)
(***************************************************************************)
NotDependOnEachOther(rule, slice, deps) ==
    LET relevant == RelevantDependencies(rule, slice, deps) IN
    {Violation("depends", <<slice.identifier, target.identifier>>,
               {d \in relevant : d[2] \in target.items}) :
        target \in OfDependencies(rule.transformer, relevant)}

(***************************************************************************)
(* be_free_of_cycles: the slices are the components of a CycleArchCondition*)
(* and a dependency is an edge when its target is in a slice that is       *)
(* checked too.  Which cycles are reported is the subject of CycleDetector;*)
(* here a cycle among the edges is a violation.                            *)
(***************************************************************************)
SliceEdges(rule, objects, deps) ==
    {e \in objects \X objects : \E d \in RelevantDependencies(rule, e[1], deps) : d[2] \in e[2].items}

HasCycle(nodes, edges) ==
    \E S \in (SUBSET nodes) \ {{}} : \A s \in S : \E t \in S : <<s, t>> \in edges

EvaluateSlices(rule, checked, deps) ==
    LET objects == Transform(rule.transformer, checked) IN
    IF objects = {} /\ ~rule.allowEmptyShould /\ FailOnEmptyShould
    THEN [panicked |-> TRUE, violations |-> {}]
    ELSE [panicked |-> FALSE,
          violations |->
            IF rule.condition = "not depend on each other"
            THEN UNION {NotDependOnEachOther(rule, s, deps) : s \in objects}
            ELSE IF HasCycle(objects, SliceEdges(rule, objects, deps))
                 THEN {Violation("cycle", None, None)} ELSE {}]
=============================================================================
