-------------------------- MODULE ArchitectureRules --------------------------
(***************************************************************************)
(* A rule of src/src/library is written call by call and evaluated for an  *)
(* import: a layered or an onion architecture, a modular monolith, a rule  *)
(* about slices, a PlantUML diagram, or the condition that looks at        *)
(* transitive dependencies.                                                *)
(*                                                                         *)
(* `said` holds the last words about each topic; no action depends on it   *)
(* but for the bound MaxTopics, the properties read it.                    *)
(***************************************************************************)
EXTENDS ModularMonolith, PlantUmlDiagram

CONSTANTS
    Kinds,          \* the kinds of rules that are written
    Settings,       \* considering_..() of a layered architecture
    Considering,    \* the Configuration of a diagram
    Definitions,    \* [Kinds -> what layer(..), adapter(..), module(..).. may say]
    Allowed,        \* the sets of names a constraint may list
    IgnoredSets,    \* what ignore_dependency_where may be given
    IgnoredItems,   \* what ensure_all_classes_are_contained_.. may ignore
    Patterns,       \* package patterns: [Universe -> groups or None]
    Namings,        \* naming_modules: [groups -> name]
    ThroughItems,   \* the API predicates of a monolith
    SlicePredicates,\* predicates over slices
    Lines,          \* the lines of a diagram
    TransitiveRules,\* the rules about transitive dependencies
    Programs,       \* [Kinds -> the dependency graphs that are imported]
    CheckedSets,    \* [Kinds -> the items a rule is evaluated for]
    MaxTopics,      \* bound: topics of one rule
    MaxLines        \* bound: lines of a diagram

(***************************************************************************)
(* A rule is evaluated for imported items and on the dependencies that an  *)
(* import can find.  None is the Option that is not there.                 *)
(***************************************************************************)
ASSUME RulesAssumption ==
    /\ \A k \in Kinds :
        /\ Programs[k] \subseteq SUBSET AllDependencies
        /\ CheckedSets[k] \subseteq SUBSET Items
        /\ \A w \in Definitions[k] :
            /\ w.contains \subseteq Universe
            /\ k # "onion" => w.optional \in BOOLEAN
    /\ \A s \in Settings : s.only \in {"all", "packages", "layers"}
    /\ \A P \in SlicePredicates : \A s \in P : s \in [identifier : {s.identifier}, items : SUBSET Universe]
    /\ IgnoredSets \subseteq SUBSET AllDependencies
    /\ None \notin IgnoredItems /\ None \notin Patterns
    /\ None \notin Namings /\ None \notin ThroughItems
    /\ None \notin Nat
    /\ \A l \in Lines : l.kind = "arrow" => \A w \in l.arrows : None \notin {w[1], w[2]}

VARIABLES
    kind,           \* the kind of the rule
    rule,           \* the value built so far
    said,           \* the last words about each topic
    outcome,        \* "open", "panicked" or "evaluated"
    checked,        \* the items it was evaluated for
    dependencies,   \* the graph it was evaluated on
    violations      \* the EvaluationResult

vars == <<kind, rule, said, outcome, checked, dependencies, violations>>

NewRules(k) ==
    CASE k = "layered" -> {NewLayeredArchitecture(s) : s \in Settings}
      [] k = "onion" -> {NewOnionArchitecture}
      [] k = "monolith" -> {NewModularMonolith}
      [] k = "slices" -> {NewSliceRule(NewTransformer(PackageMatchingSliceIdentifier(p)), None, FALSE) :
                              p \in Patterns}
      [] k = "diagram" -> {[lines |-> <<>>, considering |-> c, irrelevant |-> {}] : c \in Considering}
      [] k = "transitive" -> TransitiveRules

Init ==
    /\ kind \in Kinds
    /\ rule \in NewRules(kind)
    /\ said = <<>>
    /\ outcome = "open"
    /\ checked = {} /\ dependencies = {} /\ violations = {}

-----------------------------------------------------------------------------
Say(topic, words, next) ==
    /\ topic \in DOMAIN said \/ Cardinality(DOMAIN said) < MaxTopics
    /\ rule' = next
    /\ said' = [t \in {topic} \cup DOMAIN said |-> IF t = topic THEN words ELSE said[t]]
    /\ UNCHANGED <<kind, outcome, checked, dependencies, violations>>

Panic ==
    /\ outcome' = "panicked"
    /\ UNCHANGED <<kind, rule, said, checked, dependencies, violations>>

Writing(kinds) == outcome = "open" /\ kind \in kinds

Names(k) == {w.name : w \in Definitions[k]}

(***************************************************************************)
(* layer(..).defined_by(..), where_layer(..) and its continuations.        *)
(***************************************************************************)
DefinedBy ==
    /\ Writing({"layered"})
    /\ \E w \in Definitions["layered"] :
            Say(<<"define", w.name>>, w, AddLayerDefinition(rule, w.name, w.optional, w.contains))

WhereLayer ==
    /\ Writing({"layered"})
    /\ \E n \in Names("layered"), c \in {"Origin", "Target"}, allowed \in Allowed["layered"] :
            IF CheckLayerNamesExist(rule, {n} \cup allowed)
            THEN Say(<<"where", n, c>>, allowed, AddDependencySpecification(rule, n, c, allowed))
            ELSE Panic

(***************************************************************************)
(* domain_models, domain_services, application_services and adapter.       *)
(***************************************************************************)
DefineOnion ==
    /\ Writing({"onion"})
    /\ \E w \in Definitions["onion"] :
            Say(<<"define", w.name>>, w,
                IF w.name \in DOMAIN rule.rings THEN DefineRing(rule, w.name, w.contains)
                ELSE AddAdapter(rule, w.name, w.contains))

(***************************************************************************)
(* module(..), modules_defined_by_packages, naming_modules, where_module   *)
(* and the two restrictions on all modules.                                *)
(***************************************************************************)
DefineModuleBy ==
    /\ Writing({"monolith"})
    /\ \E w \in Definitions["monolith"] :
            Say(<<"define", w.name>>, w, DefineModule(rule, w.name, w.optional, w.contains))

ModulesDefinedByPackages ==
    /\ Writing({"monolith"})
    /\ \E p \in Patterns : Say(<<"packages">>, p, [rule EXCEPT !.pattern = p])

NamingModules ==
    /\ Writing({"monolith"})
    /\ \E n \in Namings : Say(<<"naming">>, n, [rule EXCEPT !.naming = n])

WhereModule ==
    /\ Writing({"monolith"})
    /\ \E n \in Names("monolith"), c \in {"Origin", "Target"}, allowed \in Allowed["monolith"] :
            IF CheckModuleNamesExist(rule, {n} \cup allowed)
            THEN Say(<<"where", n, c>>, allowed, AddSpecification(rule, n, c, allowed))
            ELSE Panic

ThroughItemsThat ==
    /\ Writing({"monolith"})
    /\ \E P \in ThroughItems : Say(<<"through">>, P, [rule EXCEPT !.through = P])

ModulesShouldBeFreeOfCycles ==
    /\ Writing({"monolith"})
    /\ Say(<<"cycles">>, TRUE, [rule EXCEPT !.freeOfCycles = TRUE])

(***************************************************************************)
(* slices().matching(..): and, or (that is the first of them), should.     *)
(***************************************************************************)
RestrictSlices ==
    /\ Writing({"slices"})
    /\ rule.condition = None
    /\ \E P \in SlicePredicates :
        \/ Say(<<"and", P>>, P, [rule EXCEPT !.transformer = That(@, P)])
        \/ Say(<<"or", P>>, P, [rule EXCEPT !.transformer = ThatOrs(@, P)])

SlicesShould ==
    /\ Writing({"slices"})
    /\ rule.condition = None
    /\ \E c \in {"free of cycles", "not depend on each other"} :
            Say(<<"should">>, c, [rule EXCEPT !.condition = c])

AllowEmptyShould ==
    /\ Writing({"slices"})
    /\ rule.condition # None
    /\ Say(<<"allow">>, TRUE, [rule EXCEPT !.allowEmptyShould = TRUE])

WriteLine ==
    /\ Writing({"diagram"})
    /\ Len(rule.lines) < MaxLines
    /\ \E l \in Lines : rule' = [rule EXCEPT !.lines = Append(@, l)]
    /\ UNCHANGED <<kind, said, outcome, checked, dependencies, violations>>

-----------------------------------------------------------------------------
(***************************************************************************)
(* What several builders have: ignore_dependency_where, with_optional_..   *)
(* (allow_empty_should) and ensure_all_classes_are_contained_..            *)
(***************************************************************************)
IgnoreDependencyWhere ==
    /\ Writing({"layered", "onion", "monolith", "slices", "diagram"})
    /\ kind = "slices" => rule.condition # None
    /\ \E P \in IgnoredSets :
            Say(<<"ignore">>, rule.irrelevant \cup P, [rule EXCEPT !.irrelevant = @ \cup P])

WithOptional ==
    /\ Writing({"layered", "onion", "monolith"})
    /\ \E b \in BOOLEAN : Say(<<"optional">>, b, [rule EXCEPT !.optional = b])

EnsureAllItemsAreContained ==
    /\ Writing({"layered", "onion", "monolith"})
    /\ \E P \in IgnoredItems : Say(<<"contained">>, P, [rule EXCEPT !.containedUnless = P])

(***************************************************************************)
(* classes() or no_classes() that .. should transitively depend on ..      *)
(***************************************************************************)
EvaluateTransitive(r, items, deps) ==
    LET objects == items \cap r.that
        Found(i) == TransitivelyDependOn(deps, objects, r.on, i)
    IN  IF objects = {} /\ FailOnEmptyShould THEN [panicked |-> TRUE, violations |-> {}]
        ELSE [panicked |-> FALSE,
              violations |->
                IF r.negated THEN UNION {{Violation("depends", i, t) : t \in Found(i)} : i \in objects}
                ELSE {Violation("does not depend", i, None) : i \in {j \in objects : Found(j) = {}}}]

EvaluateRule(k, r, items, deps) ==
    CASE k = "layered" -> EvaluateLayered(r, items, deps)
      [] k = "onion" -> EvaluateOnion(r, items, deps)
      [] k = "monolith" -> EvaluateMonolith(r, items, deps)
      [] k = "slices" -> EvaluateSlices(r, items, deps)
      [] k = "diagram" -> EvaluateDiagram(r, items, deps)
      [] k = "transitive" -> EvaluateTransitive(r, items, deps)

Evaluate ==
    /\ outcome = "open"
    /\ kind = "slices" => rule.condition # None
    /\ checked' \in CheckedSets[kind]
    /\ dependencies' \in Programs[kind]
    /\ LET evaluation == EvaluateRule(kind, rule, checked', dependencies') IN
        /\ outcome' = IF evaluation.panicked THEN "panicked" ELSE "evaluated"
        /\ violations' = evaluation.violations
    /\ UNCHANGED <<kind, rule, said>>

Next ==
    \/ DefinedBy \/ WhereLayer \/ DefineOnion
    \/ DefineModuleBy \/ ModulesDefinedByPackages \/ NamingModules \/ WhereModule
    \/ ThroughItemsThat \/ ModulesShouldBeFreeOfCycles
    \/ RestrictSlices \/ SlicesShould \/ AllowEmptyShould \/ WriteLine
    \/ IgnoreDependencyWhere \/ WithOptional \/ EnsureAllItemsAreContained
    \/ Evaluate

Spec == Init /\ [][Next]_vars
-----------------------------------------------------------------------------
Said(topic) == topic \in DOMAIN said

Evaluated(k) == outcome = "evaluated" /\ kind = k

Dependencies(what) == {v.dependency : v \in {w \in violations : w.what = what}}

(***************************************************************************)
(* The members of a layer or module by what was said last about it; of two *)
(* modules an item may be in, the one that was mentioned first has it.     *)
(***************************************************************************)
SaidMembers(n) == IF Said(<<"define", n>>) THEN said[<<"define", n>>].contains ELSE {}

SaidModuleOf(i) ==
    LET explicit == {n \in Names("monolith") : i \in SaidMembers(n)}
        Position(n) == CHOOSE k \in DOMAIN rule.definitions : rule.definitions[k].name = n
        groups == IF Said(<<"packages">>) THEN said[<<"packages">>][i] ELSE None
    IN  IF explicit # {} THEN CHOOSE n \in explicit : \A m \in explicit : Position(n) <= Position(m)
        ELSE IF groups \in {None, <<>>} THEN None
        ELSE IF Said(<<"naming">>) THEN said[<<"naming">>][groups] ELSE groups

SaidIn(n) ==
    IF kind = "layered" THEN SaidMembers(n) ELSE {i \in Universe : SaidModuleOf(i) = n}

SaidInAny ==
    IF kind = "layered" THEN UNION {SaidMembers(n) : n \in Names("layered")}
    ELSE {i \in Universe : SaidModuleOf(i) # None}

SaidRelevant(d) ==
    /\ Said(<<"ignore">>) => d \notin said[<<"ignore">>]
    /\ LET considered == IF kind = "monolith" \/ rule.settings.only = "layers" THEN SaidInAny
                         ELSE IF rule.settings.only = "packages" THEN rule.settings.packages
                         ELSE Universe
       IN  d[1] \in considered /\ d[2] \in considered

(***************************************************************************)
(* What is reported is what the calls say, whatever their order: the last  *)
(* definition of a layer or module and the last constraint of a direction  *)
(* count, in the layers as they were defined last.  A dependency breaks a  *)
(* constraint iff it matters, its near end is a checked member and its far *)
(* end is neither a member nor allowed; an empty layer is reported unless  *)
(* it or the rule is optional; an item outside of everything is reported   *)
(* when that was asked for and it is not ignored (architectures.rs,        *)
(* modular_monolith.rs).                                                   *)
(***************************************************************************)
VerdictIsWhatWasSaid ==
    outcome = "evaluated" /\ kind \in {"layered", "monolith"} =>
        /\ \A n \in Names(kind), c \in {"Origin", "Target"}, d \in dependencies :
            LET near == IF c = "Origin" THEN d[2] ELSE d[1]
                far == IF c = "Origin" THEN d[1] ELSE d[2]
            IN  Violation(c, n, d) \in violations <=>
                    /\ Said(<<"where", n, c>>)
                    /\ near \in SaidIn(n) \cap checked
                    /\ far \notin UNION {SaidIn(m) : m \in said[<<"where", n, c>>] \cup {n}}
                    /\ SaidRelevant(d)
        /\ \A n \in Names(kind) :
            Violation("empty", n, None) \in violations <=>
                /\ Said(<<"define", n>>) /\ ~said[<<"define", n>>].optional
                /\ Said(<<"optional">>) => ~said[<<"optional">>]
                /\ SaidIn(n) \cap checked = {}
        /\ \A i \in Items :
            Violation("not contained", i, None) \in violations <=>
                /\ Said(<<"contained">>)
                /\ i \in checked \ (said[<<"contained">>] \cup SaidInAny)

(***************************************************************************)
(* An onion that passes keeps its rings apart, however long the way and    *)
(* through whatever items outside of it: what reaches an item of a ring is *)
(* in that ring or in one further out, and only an adapter itself reaches  *)
(* an adapter.  It needs a rule that ignores nothing and is evaluated for  *)
(* all that was imported (layered_architecture_delegate).                  *)
(***************************************************************************)
RingsFrom(r) ==
    LET adapters == UNION {a.contains : a \in Elements(rule.adapters)} IN
    CASE r = DomainModel -> (UNION {rule.rings[q] : q \in DOMAIN rule.rings}) \cup adapters
      [] r = DomainService -> rule.rings[DomainService] \cup rule.rings[ApplicationService] \cup adapters
      [] r = ApplicationService -> rule.rings[ApplicationService] \cup adapters

OnionIsolates ==
    Evaluated("onion") /\ Dependencies("Origin") = {} /\ rule.irrelevant = {} /\ checked = Items =>
        /\ \A r \in DOMAIN rule.rings : Reaching(rule.rings[r] \cap Items, dependencies) \subseteq RingsFrom(r)
        /\ \A a \in Elements(rule.adapters) :
                Reaching(a.contains \cap Items, dependencies) \subseteq a.contains

(***************************************************************************)
(* The two directions of a constraint are one: between disjoint layers of  *)
(* checked items, saying who may access each layer reports the same        *)
(* dependencies as saying what each layer may access                       *)
(* (evaluate_dependencies_should_be_satisfied).                            *)
(***************************************************************************)
MayAccess(n) ==
    LET Accessors(m) == {s.allowed : s \in {t \in Elements(rule.specifications) :
                                               t.name = m /\ t.constraint = "Origin"}}
    IN  {m \in Names("layered") : \A allowed \in Accessors(m) : n \in allowed}

Mirrored ==
    [rule EXCEPT !.specifications =
        [k \in DOMAIN rule.layers |->
            [name |-> rule.layers[k].name, constraint |-> "Target",
             allowed |-> MayAccess(rule.layers[k].name)]]]

ConstraintsAreDual ==
    /\ Evaluated("layered") /\ rule.settings.only = "layers"
    /\ \A l \in Elements(rule.layers) :
            /\ l.contains \subseteq checked
            /\ \A m \in Elements(rule.layers) : l # m => l.contains \cap m.contains = {}
    => Dependencies("Origin") =
        {v.dependency : v \in {w \in EvaluateLayered(Mirrored, checked, dependencies).violations :
                                  w.what = "Target"}}

(***************************************************************************)
(* For predicates that look at the identifiers of slices only: a rule that *)
(* slices do not depend on each other reports just the pairs of retained   *)
(* slices with a dependency that is not ignored, and a rule about cycles   *)
(* fails only where that rule would (SlicesTransformer).                   *)
(***************************************************************************)
Retained(id) ==
    \/ rule.transformer.predicate = None
    \/ \E s \in rule.transformer.predicate : s.identifier = id

ByIdentifier(P) ==
    \A s, t \in [identifier : {s.identifier : s \in P}, items : SUBSET Universe] :
        s.identifier = t.identifier => (s \in P <=> t \in P)

SlicesAgree ==
    /\ Evaluated("slices")
    /\ \A P \in SlicePredicates : (Said(<<"and", P>>) \/ Said(<<"or", P>>)) => ByIdentifier(P)
    =>  LET Id(i) == rule.transformer.assignment[i]
            pairs == {<<Id(d[1]), Id(d[2])>> :
                        d \in {e \in dependencies \ rule.irrelevant :
                                  /\ e[1] \in checked
                                  /\ Id(e[1]) # Id(e[2])
                                  /\ \A i \in {e[1], e[2]} : Id(i) # Ignore /\ Retained(Id(i))}}
        IN  IF rule.condition = "not depend on each other"
            THEN {v.about : v \in violations} = pairs
            ELSE violations # {} => \E p, q \in pairs : p[1] = q[2]

(***************************************************************************)
(* A dependency adheres to a diagram iff it stays in its component or goes *)
(* to one an arrow leads to, by the words on the line: without an alias    *)
(* that is also a name, for items of one component (find_component).       *)
(***************************************************************************)
Called(c) == {c.name, c.alias} \ {None}

AliasesAreNoNames(components) ==
    \A j, k \in DOMAIN components : j # k => Called(components[j]) \cap Called(components[k]) = {}

DiagramIsDrawn ==
    /\ Evaluated("diagram") /\ rule.considering.only = "all"
    /\ AliasesAreNoNames(ParsedComponents(rule.lines))
    => LET components == ParsedComponents(rule.lines)
           Of(i) == AssociatedComponents(components, i)
           Drawn(j, k) == \E l \in Elements(rule.lines) :
                            /\ l.kind = "arrow"
                            /\ \E a \in l.arrows : a[1] \in Called(components[j]) /\ a[2] \in Called(components[k])
       IN  \A d \in dependencies \ rule.irrelevant :
                d[1] \in checked /\ Cardinality(Of(d[1])) = 1 =>
                    (d \in Dependencies("not drawn") <=>
                        \A j \in Of(d[1]), k \in Of(d[2]) : j # k /\ ~Drawn(j, k))

(***************************************************************************)
(* Leaving out the items a rule checks loses no verdict of a no_classes()  *)
(* rule: when none of them matches itself, and one of them reaches a match *)
(* in any number of steps, some of them is reported                        *)
(* (transitively_depend_on_classes_that).                                  *)
(***************************************************************************)
TransitiveTargets(i) == {d[2] : d \in TransitiveDependenciesFromSelf(dependencies, i)}

ForbiddenPathIsReported ==
    Evaluated("transitive") /\ rule.negated /\ checked \cap rule.that \cap rule.on = {} =>
        (violations = {} <=>
            \A i \in checked \cap rule.that : TransitiveTargets(i) \cap rule.on = {})

=============================================================================
