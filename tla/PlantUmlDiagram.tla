--------------------------- MODULE PlantUmlDiagram ---------------------------
(***************************************************************************)
(* PlantUML component diagrams as rules, src/src/library/plantuml/mod.rs.  *)
(*                                                                         *)
(* A diagram is a sequence of lines that were matched by the expressions   *)
(* of the parser: a component with its stereotypes and its alias, or the   *)
(* arrows of a line (one, or one in each direction).  A stereotype is a    *)
(* package identifier, Resides[s] the items in such packages.              *)
(***************************************************************************)
EXTENDS LayeredArchitecture

CONSTANT Resides  \* [stereotypes -> SUBSET Universe]

ComponentLine(name, stereotypes, alias) ==
    [kind |-> "component", name |-> name, stereotypes |-> stereotypes, alias |-> alias]

ArrowLine(arrows) == [kind |-> "arrow", arrows |-> arrows]

Component(line) == [name |-> line.name, stereotypes |-> line.stereotypes, alias |-> line.alias]

(***************************************************************************)
(* parse_component refuses a component without a stereotype; of two with   *)
(* one name the first is kept.                                             *)
(***************************************************************************)
ParsedComponents(lines) ==
    LET step[n \in 0 .. Len(lines)] ==
            IF n = 0 THEN <<>>
            ELSE IF \/ lines[n].kind # "component"
                    \/ \E c \in Elements(step[n - 1]) : c.name = lines[n].name
                 THEN step[n - 1]
                 ELSE Append(step[n - 1], Component(lines[n]))
    IN  step[Len(lines)]

FirstPosition(found) ==
    IF found = {} THEN None ELSE CHOOSE k \in found : \A j \in found : k <= j

(***************************************************************************)
(* find_component: an alias goes before a name, whatever line it is on.    *)
(***************************************************************************)
FindComponent(components, word) ==
    LET byAlias == FirstPosition({k \in DOMAIN components : components[k].alias = word}) IN
    IF byAlias # None THEN byAlias ELSE FirstPosition({k \in DOMAIN components : components[k].name = word})

(***************************************************************************)
(* The second pass over the lines, when all components are known.          *)
(***************************************************************************)
ParsedDependencies(lines, components) ==
    {<<FindComponent(components, a[1]), FindComponent(components, a[2])>> :
        a \in {b \in UNION {line.arrows : line \in {l \in Elements(lines) : l.kind = "arrow"}} :
                  /\ FindComponent(components, b[1]) # None
                  /\ FindComponent(components, b[2]) # None}}

IllegalDiagram(lines) ==
    LET components == ParsedComponents(lines) IN
    \/ \E l \in Elements(lines) : l.kind = "component" /\ l.stereotypes = {}
    \/ components = <<>>
    \/ \E j, k \in DOMAIN components :
            j # k /\ components[j].stereotypes \cap components[k].stereotypes # {}

-----------------------------------------------------------------------------
(***************************************************************************)
(* DiagramAssociation.                                                     *)
(***************************************************************************)
ResideIn(stereotypes) == UNION {Resides[s] : s \in stereotypes}

AssociatedComponents(components, i) ==
    {k \in DOMAIN components : i \in ResideIn(components[k].stereotypes)}

(***************************************************************************)
(* Mutant: the packages of the component itself are forgotten.             *)
(***************************************************************************)
TargetPackageIdentifiers(lines, components, k) ==
    UNION {components[t].stereotypes :
           t \in {u \in DOMAIN components : <<k, u>> \in ParsedDependencies(lines, components)}}

AllowedPackageIdentifiers(lines, components, k) ==
    components[k].stereotypes
        \cup UNION {components[t].stereotypes :
                    t \in {u \in DOMAIN components :
                              <<k, u>> \in ParsedDependencies(lines, components)}}

(***************************************************************************)
(* The configuration's predicate of the dependencies to ignore.            *)
(***************************************************************************)
IgnoredByConfiguration(considering, components) ==
    CASE considering.only = "all" -> {}
      [] considering.only = "diagram" ->
            DependencyTarget({i \in Universe : AssociatedComponents(components, i) = {}})
      [] considering.only = "packages" -> DependencyTarget(Universe \ considering.packages)

(***************************************************************************)
(* PlantUmlArchCondition.check for one item.                               *)
(***************************************************************************)
CheckDiagram(lines, components, ignored, i, deps) ==
    LET dependencies == DependenciesFromSelf(deps, i)
        associated == AssociatedComponents(components, i)
    IN  IF dependencies \subseteq ignored THEN {}
        ELSE IF associated = {} THEN {Violation("in no component", i, None)}
        ELSE IF Cardinality(associated) > 1 THEN {Violation("in several components", i, None)}
        ELSE LET allowed == AllowedPackageIdentifiers(lines, components, CHOOSE k \in associated : TRUE) IN
             {Violation("not drawn", i, d) :
                d \in OnlyHaveDependenciesWhere({i}, DependencyTarget(ResideIn(allowed)) \cup ignored, deps)}

EvaluateDiagram(diagram, checked, deps) ==
    LET components == ParsedComponents(diagram.lines)
        ignored == diagram.irrelevant \cup IgnoredByConfiguration(diagram.considering, components)
    IN  IF IllegalDiagram(diagram.lines) \/ (checked = {} /\ FailOnEmptyShould)
        THEN [panicked |-> TRUE, violations |-> {}]
        ELSE [panicked |-> FALSE,
              violations |-> UNION {CheckDiagram(diagram.lines, components, ignored, i, deps) :
                                    i \in checked}]
=============================================================================
