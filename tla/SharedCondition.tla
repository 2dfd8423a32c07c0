-------------------------- MODULE SharedCondition --------------------------
(***************************************************************************)
(* Rules whose conditions keep state between calls.  A SimpleArchRule      *)
(* (src/src/lang/rule.rs) evaluates its ArchCondition                      *)
(* (src/src/lang/condition.rs) by init, a check per object and finish.     *)
(* Clones of a condition, of a rule, or of a static rule used by several   *)
(* tests share one ConditionLogic behind a mutex that is locked for one    *)
(* call at a time.  The logic is the one of the library that accumulates   *)
(* most between the calls, CycleLogic                                      *)
(* (src/src/library/cycle_detection/rules/mod.rs).                         *)
(***************************************************************************)
EXTENDS Naturals, Sequences, SequencesExt

CONSTANTS
    Threads,
    Conditions,    \* the ConditionLogic objects
    Components,    \* what the condition is checked against (slices)
    Graphs,        \* the dependencies between components in question
    Inputs,        \* the sequences of objects a rule is evaluated on
    NoCondition

ASSUME ConditionAssumption ==
    /\ Graphs \subseteq SUBSET (Components \X Components)
    /\ Inputs \subseteq Seq(Components)
    /\ \A input \in Inputs : IsInjective(input)
    /\ NoCondition \notin Conditions

VARIABLES
    dependsOn,     \* the relevant dependencies: constant after Init
    components,    \* per condition, CycleLogic.components (item_to_component goes with it)
    edges,         \* per condition, CycleLogic.edges: pairs of indexes into components
    poisoned,      \* the conditions whose mutex is poisoned
    pc,            \* per thread, the next call of evaluate_all
    using,         \* per thread, the condition of the rule under evaluation
    objects,       \* per thread, all_objects of evaluate_all
    left,          \* per thread, the objects still to be checked
    verdict,       \* per thread, the outcome of its last evaluation
    alone          \* history: no other thread used the condition meanwhile

vars == <<dependsOn, components, edges, poisoned, pc, using, objects, left, verdict, alone>>

shared == <<dependsOn, components, edges, poisoned>>

Init ==
    /\ dependsOn \in Graphs
    /\ components = [c \in Conditions |-> <<>>]
    /\ edges = [c \in Conditions |-> {}]
    /\ poisoned = {}
    /\ pc = [t \in Threads |-> "idle"]
    /\ using = [t \in Threads |-> NoCondition]
    /\ objects = [t \in Threads |-> <<>>]
    /\ left = [t \in Threads |-> <<>>]
    /\ verdict = [t \in Threads |-> "none"]
    /\ alone = [t \in Threads |-> TRUE]

-----------------------------------------------------------------------------
Edges(nodes) == (DOMAIN nodes) \X (DOMAIN nodes)

(***************************************************************************)
(* A relation between the positions of nodes has a cycle when some of them *)
(* each have another one of them as a successor (the detector drops        *)
(* components of one node, and so self-loops).                             *)
(***************************************************************************)
HasCycle(relation, nodes) ==
    \E S \in SUBSET DOMAIN nodes :
        /\ S # {}
        /\ \A i \in S : \E j \in S : i # j /\ <<i, j>> \in relation

(***************************************************************************)
(* evaluate: the rule transforms the items it is given.  Without objects   *)
(* it panics unless that is allowed, before it touches the condition.      *)
(***************************************************************************)
Begin(t, c, input) ==
    /\ pc[t] = "idle"
    /\ pc' = [pc EXCEPT ![t] = "init"]
    /\ using' = [using EXCEPT ![t] = c]
    /\ objects' = [objects EXCEPT ![t] = input]
    /\ left' = [left EXCEPT ![t] = input]
    /\ verdict' = [verdict EXCEPT ![t] = "none"]
    /\ alone' = [u \in Threads |-> IF u = t THEN \A s \in Threads : using[s] # c
                                   ELSE alone[u] /\ using[u] # c]
    /\ UNCHANGED shared

BeginEmpty(t) ==
    /\ pc[t] = "idle"
    /\ verdict' = [verdict EXCEPT ![t] = "panicked"]
    /\ UNCHANGED <<shared, pc, using, objects, left, alone>>

(***************************************************************************)
(* The evaluation returns, or the thread unwinds from it.                  *)
(***************************************************************************)
End(t, outcome) ==
    /\ pc' = [pc EXCEPT ![t] = "idle"]
    /\ using' = [using EXCEPT ![t] = NoCondition]
    /\ verdict' = [verdict EXCEPT ![t] = outcome]
    /\ UNCHANGED <<objects, left, alone>>

(***************************************************************************)
(* A call on a condition whose mutex is poisoned panics.                   *)
(***************************************************************************)
CallPoisoned(t) ==
    /\ pc[t] # "idle"
    /\ using[t] \in poisoned
    /\ End(t, "panicked")
    /\ UNCHANGED shared

\* Mutant of CallInit: the edges of the last evaluation are kept.
CallInitKeepingEdges(t) ==
    LET c == using[t] IN
    /\ pc[t] = "init"
    /\ c \notin poisoned
    /\ components' = [components EXCEPT ![c] = objects[t]]
    /\ pc' = [pc EXCEPT ![t] = "check"]
    /\ UNCHANGED <<dependsOn, edges, poisoned, using, objects, left, verdict, alone>>

(***************************************************************************)
(* init(all_objects).                                                      *)
(***************************************************************************)
CallInit(t) ==
    LET c == using[t] IN
    /\ pc[t] = "init"
    /\ c \notin poisoned
    /\ components' = [components EXCEPT ![c] = objects[t]]
    /\ edges' = [edges EXCEPT ![c] = {}]
    /\ pc' = [pc EXCEPT ![t] = "check"]
    /\ UNCHANGED <<dependsOn, poisoned, using, objects, left, verdict, alone>>

\* Mutant of EdgesFrom: one edge per origin.
LastEdgeFrom(c, object) ==
    {e \in Edges(components[c]) :
        /\ components[c][e[1]] = object
        /\ <<object, components[c][e[2]]>> \in dependsOn
        /\ \A k \in DOMAIN components[c] : k > e[2] => <<object, components[c][k]>> \notin dependsOn}

(***************************************************************************)
(* check(object): an object the logic was not initialized with is skipped, *)
(* else its dependencies on the components become edges.                   *)
(***************************************************************************)
EdgesFrom(c, object) ==
    {e \in Edges(components[c]) :
        components[c][e[1]] = object /\ <<object, components[c][e[2]]>> \in dependsOn}

CallCheck(t) ==
    LET c == using[t] IN
    /\ pc[t] = "check" /\ left[t] # <<>>
    /\ c \notin poisoned
    /\ edges' = [edges EXCEPT ![c] = @ \cup EdgesFrom(c, Head(left[t]))]
    /\ left' = [left EXCEPT ![t] = Tail(@)]
    /\ UNCHANGED <<dependsOn, components, poisoned, pc, using, objects, verdict, alone>>

(***************************************************************************)
(* A closure of the rule's author panics in check: the mutex is poisoned.  *)
(***************************************************************************)
CheckPanics(t) ==
    /\ pc[t] = "check" /\ left[t] # <<>>
    /\ using[t] \notin poisoned
    /\ poisoned' = poisoned \cup {using[t]}
    /\ End(t, "panicked")
    /\ UNCHANGED <<dependsOn, components, edges>>

\* Mutant of CallFinish: the edges are not cleared.
CallFinishKeepingEdges(t) ==
    LET c == using[t] IN
    /\ pc[t] = "check" /\ left[t] = <<>>
    /\ c \notin poisoned
    /\ components' = [components EXCEPT ![c] = <<>>]
    /\ End(t, IF HasCycle(edges[c], components[c]) THEN "violated" ELSE "passed")
    /\ UNCHANGED <<dependsOn, edges, poisoned>>

(***************************************************************************)
(* finish: a violation per cycle found, and the logic forgets.             *)
(***************************************************************************)
CallFinish(t) ==
    LET c == using[t] IN
    /\ pc[t] = "check" /\ left[t] = <<>>
    /\ c \notin poisoned
    /\ components' = [components EXCEPT ![c] = <<>>]
    /\ edges' = [edges EXCEPT ![c] = {}]
    /\ End(t, IF HasCycle(edges[c], components[c]) THEN "violated" ELSE "passed")
    /\ UNCHANGED <<dependsOn, poisoned>>

Next ==
    \E t \in Threads :
        \/ \E c \in Conditions, input \in Inputs : Begin(t, c, input)
        \/ BeginEmpty(t)
        \/ CallPoisoned(t)
        \/ CallInit(t) \/ CallCheck(t) \/ CheckPanics(t) \/ CallFinish(t)

Spec == Init /\ [][Next]_vars

-----------------------------------------------------------------------------
Between(input) ==
    {e \in Edges(input) : <<input[e[1]], input[e[2]]>> \in dependsOn}

(***************************************************************************)
(* An evaluation that had the condition to itself is right, whatever       *)
(* earlier and interrupted evaluations left in the logic: it is violated   *)
(* exactly when its objects have a cycle.                                  *)
(***************************************************************************)
AloneIsRight ==
    \A t \in Threads : alone[t] /\ verdict[t] \in {"passed", "violated"} =>
        (verdict[t] = "violated" <=> HasCycle(Between(objects[t]), objects[t]))

(***************************************************************************)
(* Evaluations that interleave on one logic overwrite each other's         *)
(* components while edges are collected as indexes into them; still every  *)
(* edge is a dependency between the components it points to.               *)
(***************************************************************************)
EdgesAreReal ==
    \A c \in Conditions : edges[c] \subseteq Between(components[c])

(***************************************************************************)
(* So interleaving can hide a cycle but never invent one: a violation is   *)
(* reported only when some input has a cycle.                              *)
(***************************************************************************)
NoFalseAlarm ==
    \A t \in Threads : verdict[t] = "violated" =>
        \E input \in Inputs : HasCycle(Between(input), input)

(***************************************************************************)
(* A condition that no evaluation uses holds nothing of past evaluations   *)
(* (the rules of general_coding_rules are statics that live as long as the *)
(* test process), unless a panic poisoned it.                              *)
(***************************************************************************)
QuietIsEmpty ==
    \A c \in Conditions \ poisoned :
        (\A t \in Threads : using[t] # c) => components[c] = <<>> /\ edges[c] = {}

(***************************************************************************)
(* "`init` is called with all objects before the checks, `check` once per  *)
(* object, `finish` after all checks" (trait ConditionLogic): what a       *)
(* thread is about to check is among what the logic was initialized with.  *)
(***************************************************************************)
InitBeforeChecks ==
    \A t \in Threads : pc[t] = "check" /\ using[t] \notin poisoned =>
        ToSet(left[t]) \subseteq ToSet(components[using[t]])
=============================================================================
