--------------------------- MODULE ModularMonolith ---------------------------
(***************************************************************************)
(* A modular monolith, src/src/library/modular_monolith.rs: modules that   *)
(* may only depend on each other along declared edges, through their API   *)
(* and without cycles.                                                     *)
(*                                                                         *)
(* The name of a module is a sequence of words: one for a module defined   *)
(* with module(..), the groups of the package pattern otherwise (joined    *)
(* with "-" in the code), or what naming_modules takes of them.            *)
(***************************************************************************)
EXTENDS SliceRules

NewModularMonolith ==
    [definitions |-> <<>>, pattern |-> None, naming |-> None, specifications |-> <<>>,
     through |-> None, freeOfCycles |-> FALSE,
     irrelevant |-> {}, optional |-> FALSE, containedUnless |-> None]

DefineModule(monolith, name, optional, contains) ==
    [monolith EXCEPT !.definitions =
        ReplaceOrPush(@, {k \in DOMAIN @ : @[k].name = name},
                      [name |-> name, optional |-> optional, contains |-> contains])]

(***************************************************************************)
(* module_of: the first definition that contains the item, else the groups *)
(* of its package, if it matches the pattern and there are any.            *)
(***************************************************************************)
ModuleOf(monolith, i) ==
    LET defining == {k \in DOMAIN monolith.definitions : i \in monolith.definitions[k].contains}
        groups == IF monolith.pattern = None THEN None ELSE monolith.pattern[i]
    IN  IF defining # {}
        THEN monolith.definitions[CHOOSE k \in defining : \A j \in defining : k <= j].name
        ELSE IF groups \in {None, <<>>} THEN None
        ELSE IF monolith.naming = None THEN groups
        ELSE monolith.naming[groups]

InModules(monolith, names) == {i \in Universe : ModuleOf(monolith, i) \in names}

InAnyModule(monolith) == {i \in Universe : ModuleOf(monolith, i) # None}

(***************************************************************************)
(* where_module and what follows it check the names only while there is no *)
(* package pattern.                                                        *)
(***************************************************************************)
CheckModuleNamesExist(monolith, names) ==
    \/ monolith.pattern # None
    \/ \A n \in names : \E m \in Elements(monolith.definitions) : m.name = n

AddSpecification(monolith, name, constraint, allowed) ==
    [monolith EXCEPT !.specifications =
        ReplaceOrPush(@, {k \in DOMAIN @ : @[k].name = name /\ @[k].constraint = constraint},
                      [name |-> name, constraint |-> constraint, allowed |-> allowed])]

-----------------------------------------------------------------------------
IsRelevant(monolith, P) ==
    P \cup Outside(InAnyModule(monolith)) \cup monolith.irrelevant

EvaluateSpecification(monolith, checked, deps, s) ==
    LET allowed == InModules(monolith, s.allowed \cup {s.name})
        P == IF s.constraint = "Target" THEN DependencyTarget(allowed)
             ELSE DependencyOrigin(allowed)
    IN  EvaluateConstraint(checked, deps, s.name, s.constraint,
                           InModules(monolith, {s.name}), IsRelevant(monolith, P))

EvaluateThroughItems(monolith, checked, deps) ==
    LET sameModuleOrApi == {d \in AllDependencies :
                               \/ ModuleOf(monolith, d[1]) = ModuleOf(monolith, d[2])
                               \/ d[2] \in monolith.through}
    IN  EvaluateConstraint(checked, deps, None, "Through", InAnyModule(monolith),
                           IsRelevant(monolith, sameModuleOrApi))

(***************************************************************************)
(* evaluate_free_of_cycles: a rule about the slices that the modules are.  *)
(***************************************************************************)
ModuleAssignment(monolith) ==
    [i \in Universe |-> IF ModuleOf(monolith, i) = None THEN Ignore ELSE ModuleOf(monolith, i)]

EvaluateFreeOfCycles(monolith, checked, deps) ==
    LET rule == NewSliceRule(NewTransformer(ModuleAssignment(monolith)), "free of cycles", TRUE) IN
    EvaluateSlices([rule EXCEPT !.irrelevant = monolith.irrelevant], checked, deps).violations

EvaluateMonolith(monolith, checked, deps) ==
    Evaluation(checked, monolith.containedUnless,
        (IF monolith.optional THEN {}
         ELSE UNION {EvaluateShouldNotBeEmpty(checked, m.name, InModules(monolith, {m.name})) :
                     m \in {n \in Elements(monolith.definitions) : ~n.optional}})
        \cup
        (IF monolith.containedUnless = None THEN {}
         ELSE EvaluateAllItemsAreContained(checked, monolith.containedUnless,
                                           InAnyModule(monolith)))
        \cup
        (UNION {EvaluateSpecification(monolith, checked, deps, s) :
                s \in Elements(monolith.specifications)})
        \cup
        (IF monolith.through = None THEN {} ELSE EvaluateThroughItems(monolith, checked, deps))
        \cup
        (IF monolith.freeOfCycles THEN EvaluateFreeOfCycles(monolith, checked, deps) ELSE {}))
=============================================================================
