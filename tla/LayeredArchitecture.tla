------------------------- MODULE LayeredArchitecture -------------------------
(***************************************************************************)
(* Layered and onion architectures, src/src/library/architectures.rs: the  *)
(* value a chain of fluent calls builds, and what evaluating it reports.   *)
(*                                                                         *)
(* Layers are found by name: defining a layer again replaces it where it   *)
(* stands, and a constraint on a layer replaces the earlier constraint of  *)
(* the same direction.  Predicates are looked up when the rule is          *)
(* evaluated, so a constraint speaks of the layer as defined last.         *)
(***************************************************************************)
EXTENDS DependencyGraph

CONSTANT FailOnEmptyShould  \* arch_rule.fail_on_empty_should

(***************************************************************************)
(* find(..) and replace, or push: how every builder here keeps its parts;  *)
(* `found` are the positions of the parts that are the same.               *)
(***************************************************************************)
ReplaceOrPush(parts, found, part) ==
    IF found = {} THEN Append(parts, part)
    ELSE [parts EXCEPT ![CHOOSE k \in found : \A j \in found : k <= j] = part]

Elements(parts) == {parts[k] : k \in DOMAIN parts}

-----------------------------------------------------------------------------
(***************************************************************************)
(* The parts of an evaluation that layers and modules share.  `contains`   *)
(* are the members of the layer or module, `checked` the items the rule is *)
(* evaluated for.                                                          *)
(***************************************************************************)
EvaluateShouldNotBeEmpty(checked, name, contains) ==
    IF checked \cap contains = {} THEN {Violation("empty", name, None)} ELSE {}

EvaluateAllItemsAreContained(checked, ignore, contained) ==
    {Violation("not contained", i, None) : i \in checked \ (ignore \cup contained)}

EvaluateConstraint(checked, deps, name, constraint, contains, P) ==
    {Violation(constraint, name, d) :
        d \in IF constraint = "Origin"
              THEN OnlyHaveDependentsWhere(checked \cap contains, P, deps)
              ELSE OnlyHaveDependenciesWhere(checked \cap contains, P, deps)}

(***************************************************************************)
(* The check that all items are contained is a rule about all classes that *)
(* does not allow an empty should: without items it panics.                *)
(***************************************************************************)
Evaluation(checked, containedUnless, violations) ==
    IF containedUnless # None /\ checked = {} /\ FailOnEmptyShould
    THEN [panicked |-> TRUE, violations |-> {}]
    ELSE [panicked |-> FALSE, violations |-> violations]

-----------------------------------------------------------------------------
(***************************************************************************)
(* LayeredArchitecture.  settings.only is "all", "packages" or "layers".   *)
(***************************************************************************)
NewLayeredArchitecture(settings) ==
    [layers |-> <<>>, specifications |-> <<>>, settings |-> settings,
     irrelevant |-> {}, optional |-> FALSE, containedUnless |-> None]

(***************************************************************************)
(* Mutant: a layer that is defined again is pushed, not replaced.          *)
(***************************************************************************)
PushLayerDefinition(architecture, name, optional, contains) ==
    [architecture EXCEPT !.layers =
        Append(@, [name |-> name, optional |-> optional, contains |-> contains])]

AddLayerDefinition(architecture, name, optional, contains) ==
    [architecture EXCEPT !.layers =
        ReplaceOrPush(@, {k \in DOMAIN @ : @[k].name = name},
                      [name |-> name, optional |-> optional, contains |-> contains])]

ContainLayer(architecture, name) == \E l \in Elements(architecture.layers) : l.name = name

ContainsPredicateFor(architecture, names) ==
    UNION {l.contains : l \in {m \in Elements(architecture.layers) : m.name \in names}}

ContainsPredicateForAll(architecture) ==
    UNION {l.contains : l \in Elements(architecture.layers)}

(***************************************************************************)
(* where_layer(name) and its four continuations: the denying ones allow no *)
(* other layer.                                                            *)
(***************************************************************************)
AddDependencySpecification(architecture, name, constraint, allowed) ==
    [architecture EXCEPT !.specifications =
        ReplaceOrPush(@, {k \in DOMAIN @ : @[k].name = name /\ @[k].constraint = constraint},
                      [name |-> name, constraint |-> constraint, allowed |-> allowed])]

CheckLayerNamesExist(architecture, names) ==
    \A n \in names : ContainLayer(architecture, n)

(***************************************************************************)
(* Mutant: only the target is looked at.                                   *)
(***************************************************************************)
TargetOutside(P) == DependencyTarget(Universe \ P)

(***************************************************************************)
(* The dependencies the settings exclude: origin or target outside of P.   *)
(***************************************************************************)
Outside(P) == DependencyOrigin(Universe \ P) \cup DependencyTarget(Universe \ P)

ExcludedDependencies(architecture) ==
    CASE architecture.settings.only = "all" -> {}
      [] architecture.settings.only = "packages" -> Outside(architecture.settings.packages)
      [] architecture.settings.only = "layers" -> Outside(ContainsPredicateForAll(architecture))

IfDependencyIsRelevant(architecture, P) ==
    P \cup ExcludedDependencies(architecture) \cup architecture.irrelevant

EvaluateDependenciesShouldBeSatisfied(architecture, checked, deps, s) ==
    LET allowed == ContainsPredicateFor(architecture, s.allowed \cup {s.name})
        P == IF s.constraint = "Origin" THEN DependencyOrigin(allowed)
             ELSE DependencyTarget(allowed)
    IN  EvaluateConstraint(checked, deps, s.name, s.constraint,
                           ContainsPredicateFor(architecture, {s.name}),
                           IfDependencyIsRelevant(architecture, P))

EvaluateLayered(architecture, checked, deps) ==
    Evaluation(checked, architecture.containedUnless,
        (IF architecture.optional THEN {}
         ELSE UNION {EvaluateShouldNotBeEmpty(checked, l.name,
                                              ContainsPredicateFor(architecture, {l.name})) :
                     l \in {m \in Elements(architecture.layers) : ~m.optional}})
        \cup
        (IF architecture.containedUnless = None THEN {}
         ELSE EvaluateAllItemsAreContained(checked, architecture.containedUnless,
                                           ContainsPredicateForAll(architecture)))
        \cup
        UNION {EvaluateDependenciesShouldBeSatisfied(architecture, checked, deps, s) :
               s \in Elements(architecture.specifications)})

-----------------------------------------------------------------------------
(***************************************************************************)
(* OnionArchitecture.  The rings from the inside out; a ring that is not   *)
(* given is always_false.                                                  *)
(***************************************************************************)
DomainModel == <<"domain model">>
DomainService == <<"domain service">>
ApplicationService == <<"application service">>
AnyAdapter == <<"adapter">>

NewOnionArchitecture ==
    [rings |-> [r \in {DomainModel, DomainService, ApplicationService} |-> {}],
     adapters |-> <<>>, irrelevant |-> {}, optional |-> FALSE, containedUnless |-> None]

DefineRing(onion, ring, contains) == [onion EXCEPT !.rings[ring] = contains]

AddAdapter(onion, name, contains) ==
    [onion EXCEPT !.adapters = ReplaceOrPush(@, {k \in DOMAIN @ : @[k].name = name},
                                             [name |-> name, contains |-> contains])]

Layer(name, contains) == [name |-> name, optional |-> FALSE, contains |-> contains]

MayOnlyBeAccessedBy(name, allowed) == [name |-> name, constraint |-> "Origin", allowed |-> allowed]

(***************************************************************************)
(* Mutant: the layer of one adapter has the name of the layer of all.      *)
(***************************************************************************)
AdapterLayerOfAll(a) == AnyAdapter

AdapterLayer(a) == <<a.name, "adapter">>

(***************************************************************************)
(* layered_architecture_delegate.  The names of the adapter layers differ  *)
(* from the others and from each other, so defining them only pushes.      *)
(***************************************************************************)
LayeredArchitectureDelegate(onion) ==
    [layers |->
        <<Layer(DomainModel, onion.rings[DomainModel]),
          Layer(DomainService, onion.rings[DomainService]),
          Layer(ApplicationService, onion.rings[ApplicationService]),
          Layer(AnyAdapter, UNION {a.contains : a \in Elements(onion.adapters)})>>
        \o [k \in 1 .. Len(onion.adapters) |->
                Layer(AdapterLayer(onion.adapters[k]), onion.adapters[k].contains)],
     specifications |->
        <<MayOnlyBeAccessedBy(DomainModel, {DomainService, ApplicationService, AnyAdapter}),
          MayOnlyBeAccessedBy(DomainService, {ApplicationService, AnyAdapter}),
          MayOnlyBeAccessedBy(ApplicationService, {AnyAdapter})>>
        \o [k \in 1 .. Len(onion.adapters) |->
                MayOnlyBeAccessedBy(AdapterLayer(onion.adapters[k]), {})],
     settings |-> [only |-> "all"],
     irrelevant |-> onion.irrelevant,
     optional |-> onion.optional,
     containedUnless |-> onion.containedUnless]

EvaluateOnion(onion, checked, deps) ==
    EvaluateLayered(LayeredArchitectureDelegate(onion), checked, deps)
=============================================================================
