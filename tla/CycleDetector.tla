--------------------------- MODULE CycleDetector ---------------------------
(***************************************************************************)
(* CycleDetector of src/src/library/cycle_detection/mod.rs: Johnson's      *)
(* search for the elementary cycles of a graph, component by component, up *)
(* to a limit.  The recursive find_cycles_from is unfolded: a frame per    *)
(* node on the path, one action per call, per edge and per return.         *)
(***************************************************************************)
EXTENDS Naturals, Sequences, FiniteSets, SequencesExt

CONSTANTS Size,     \* the nodes are 0..Size-1
          Graphs,   \* the graphs in question: adjacency lists without repetitions
          Limits    \* the limits in question (cycles.max_number_to_detect)

Nodes == 0..(Size - 1)

ASSUME CycleAssumption ==
    /\ Size \in Nat
    /\ Graphs \subseteq [Nodes -> Seq(Nodes)]
    /\ \A graph \in Graphs, n \in Nodes : IsInjective(graph[n])
    /\ Limits \subseteq Nat

VARIABLES
    adjacency, maxCycles,     \* the input
    nodeToProcess,            \* the lower bound of the next component
    component,                \* the component under search, {} between searches
    frames,                   \* the calls of find_cycles_from: node, targets left, found
    blocked,                  \* nodes not worth entering
    dependents,               \* dependently_blocked: per node, those to unblock with it
    cycles, maxReached,       \* the result
    finished

vars == <<adjacency, maxCycles, nodeToProcess, component, frames, blocked, dependents,
          cycles, maxReached, finished>>

Targets(n) == ToSet(adjacency[n])
Path == [i \in DOMAIN frames |-> frames[i].node]
Least(S) == CHOOSE n \in S : \A k \in S : n <= k

-----------------------------------------------------------------------------
(***************************************************************************)
(* What TarjanComponentFinder finds (TarjanComponents has the algorithm):  *)
(* among the nodes from low on, the strongly connected components of more  *)
(* than one node that can be reached from a node.                          *)
(***************************************************************************)
Reach(node, low) ==
    LET Within[k \in 0..Size] ==
          IF k = 0 THEN {node}
          ELSE UNION {{n} \cup {m \in Targets(n) : m >= low} : n \in Within[k - 1]}
    IN Within[Size]

ComponentOf(node, low) ==
    {n \in low..(Size - 1) : n \in Reach(node, low) /\ node \in Reach(n, low)}

Components(low) == {c \in {ComponentOf(n, low) : n \in low..(Size - 1)} : Cardinality(c) > 1}

\* Those of comps in the first tree that holds any, and the lowest of comps.
FirstTree(comps, low) ==
    {c \in comps : \E root \in low..(Size - 1) :
                     /\ c \subseteq Reach(root, low)
                     /\ \A k \in low..(root - 1), d \in comps : ~(d \subseteq Reach(k, low))}

Lowest(comps) == {c \in comps : \A d \in comps : Least(c) <= Least(d)}

\* Mutant of NextComponents: components of the whole graph, not from low on.
NextComponentsOfAll(low) ==
    UNION {Lowest(found) : found \in {FirstTree(comps, 0) : comps \in {Components(0)}}}

(***************************************************************************)
(* find_non_trivial_component_with_lowest_node_index_above: the loop stops *)
(* at the first depth-first tree that holds a component and takes the one  *)
(* with the lowest node OF THAT TREE.  At most one component.              *)
(***************************************************************************)
NextComponents(low) ==
    UNION {Lowest(found) : found \in {FirstTree(comps, low) : comps \in {Components(low)}}}

-----------------------------------------------------------------------------
Init ==
    /\ adjacency \in Graphs
    /\ maxCycles \in Limits
    /\ nodeToProcess = 0
    /\ component = {}
    /\ frames = <<>>
    /\ blocked = {}
    /\ dependents = [n \in Nodes |-> {}]
    /\ cycles = <<>>
    /\ maxReached = FALSE
    /\ finished = FALSE

\* The frame of a call find_cycles_from(node).
Frame(node) == [node |-> node, left |-> adjacency[node], found |-> FALSE]

\* Mutant of NextRound: the next lower bound is the node just searched from.
NextRoundAgain ==
    /\ frames = <<>> /\ ~finished
    /\ \/ /\ NextComponents(nodeToProcess) = {}
          /\ finished' = TRUE
          /\ UNCHANGED <<nodeToProcess, component, frames, blocked, dependents>>
       \/ \E comp \in NextComponents(nodeToProcess) :
             /\ nodeToProcess' = Least(comp)
             /\ component' = comp
             /\ dependents' = [n \in Nodes |-> {}]
             /\ IF maxReached
                THEN frames' = <<>> /\ blocked' = {}
                ELSE /\ frames' = <<Frame(Least(comp))>>
                     /\ blocked' = {Least(comp)}
             /\ UNCHANGED finished
    /\ UNCHANGED <<adjacency, maxCycles, cycles, maxReached>>

(***************************************************************************)
(* find_cycles, one round: the next component is searched from its lowest  *)
(* node, with nothing blocked; without one the search is over.  Once the   *)
(* limit is reached find_cycles_from returns at once.                      *)
(***************************************************************************)
NextRound ==
    /\ frames = <<>> /\ ~finished
    /\ \/ /\ NextComponents(nodeToProcess) = {}
          /\ finished' = TRUE
          /\ UNCHANGED <<nodeToProcess, component, frames, blocked, dependents>>
       \/ \E comp \in NextComponents(nodeToProcess) :
             /\ nodeToProcess' = Least(comp) + 1
             /\ component' = comp
             /\ dependents' = [n \in Nodes |-> {}]
             /\ IF maxReached
                THEN frames' = <<>> /\ blocked' = {}
                ELSE /\ frames' = <<Frame(Least(comp))>>
                     /\ blocked' = {Least(comp)}
             /\ UNCHANGED finished
    /\ UNCHANGED <<adjacency, maxCycles, cycles, maxReached>>

Top == frames[Len(frames)]
Following == Top.left # <<>>
Advanced(found) ==
    [frames EXCEPT ![Len(frames)].left = Tail(@), ![Len(frames)].found = @ \/ found]

\* Mutant of CloseCycle: one cycle more than the limit is recorded.
CloseCycleLate ==
    /\ frames # <<>> /\ Following
    /\ Head(Top.left) = Least(component)
    /\ frames' = Advanced(TRUE)
    /\ maxReached' = (maxReached \/ Len(cycles) >= maxCycles)
    /\ cycles' = IF maxReached THEN cycles ELSE Append(cycles, Path)
    /\ UNCHANGED <<adjacency, maxCycles, nodeToProcess, component, blocked, dependents, finished>>

(***************************************************************************)
(* The edge back to the start closes a cycle: record_cycle.                *)
(***************************************************************************)
CloseCycle ==
    /\ frames # <<>> /\ Following
    /\ Head(Top.left) = Least(component)
    /\ frames' = Advanced(TRUE)
    /\ \/ /\ maxReached \/ Len(cycles) >= maxCycles
          /\ maxReached' = TRUE
          /\ UNCHANGED cycles
       \/ /\ ~maxReached /\ Len(cycles) < maxCycles
          /\ cycles' = Append(cycles, Path)
          /\ UNCHANGED maxReached
    /\ UNCHANGED <<adjacency, maxCycles, nodeToProcess, component, blocked, dependents, finished>>

\* Mutant of FollowEdge: blocked nodes are entered.
FollowAnyEdge ==
    /\ frames # <<>> /\ Following
    /\ LET target == Head(Top.left) IN
       /\ target \in component
       /\ target # Least(component)
       /\ ~maxReached /\ Len(frames) <= Size
       /\ frames' = Append(Advanced(FALSE), Frame(target))
       /\ blocked' = blocked \cup {target}
    /\ UNCHANGED <<adjacency, maxCycles, nodeToProcess, component, dependents, cycles,
                   maxReached, finished>>

(***************************************************************************)
(* An edge to a node that is not blocked is followed; a call after the     *)
(* limit was reached finds nothing.                                        *)
(***************************************************************************)
FollowEdge ==
    /\ frames # <<>> /\ Following
    /\ LET target == Head(Top.left) IN
       /\ target \in component
       /\ target # Least(component)
       /\ target \notin blocked /\ ~maxReached
       /\ frames' = Append(Advanced(FALSE), Frame(target))
       /\ blocked' = blocked \cup {target}
    /\ UNCHANGED <<adjacency, maxCycles, nodeToProcess, component, dependents, cycles,
                   maxReached, finished>>

(***************************************************************************)
(* Edges to blocked nodes are skipped, and those that leave the component, *)
(* which adjacent_in_component filters out before the loop.                *)
(***************************************************************************)
SkipEdge ==
    /\ frames # <<>> /\ Following
    /\ LET target == Head(Top.left) IN
       /\ target # Least(component)
       /\ target \notin component \/ target \in blocked \/ maxReached
       /\ frames' = Advanced(FALSE)
    /\ UNCHANGED <<adjacency, maxCycles, nodeToProcess, component, blocked, dependents, cycles,
                   maxReached, finished>>

(***************************************************************************)
(* unblock: the node and, if it was blocked, those that depend on it, and  *)
(* so on: what is in every set that is closed under that.                  *)
(***************************************************************************)
Unblocked(node) ==
    LET Closed(S) == {node} \cap blocked \subseteq S
                     /\ \A m \in S : dependents[m] \cap blocked \subseteq S IN
    {n \in blocked : \A S \in SUBSET blocked : Closed(S) => n \in S}

\* Mutant of Return: a node without a cycle does not wait for its targets.
ReturnUnlinked ==
    /\ frames # <<>> /\ ~Following
    /\ \E node \in {Top.node}, depth \in {Len(frames) - 1}, freed \in {Unblocked(Top.node)} :
       /\ frames' = IF depth = 0 THEN <<>>
                    ELSE [i \in 1..depth |->
                            IF i = depth THEN [frames[i] EXCEPT !.found = @ \/ Top.found]
                            ELSE frames[i]]
       /\ blocked' = IF Top.found THEN blocked \ freed ELSE blocked
    /\ UNCHANGED <<adjacency, maxCycles, nodeToProcess, component, dependents, cycles,
                   maxReached, finished>>

(***************************************************************************)
(* find_cycles_from returns.  A node with a cycle is unblocked; one        *)
(* without waits for its targets to be.                                    *)
(***************************************************************************)
Return ==
    /\ frames # <<>> /\ ~Following
    /\ \E node \in {Top.node}, depth \in {Len(frames) - 1}, freed \in {Unblocked(Top.node)} :
       /\ frames' = IF depth = 0 THEN <<>>
                    ELSE [i \in 1..depth |->
                            IF i = depth THEN [frames[i] EXCEPT !.found = @ \/ Top.found]
                            ELSE frames[i]]
       /\ \/ /\ Top.found
             /\ blocked' = blocked \ freed
             /\ dependents' = [n \in Nodes |-> IF n \in freed THEN {} ELSE dependents[n]]
          \/ /\ ~Top.found
             /\ dependents' = [n \in Nodes |->
                                 IF n \in Targets(node) \cap component
                                 THEN dependents[n] \cup {node} ELSE dependents[n]]
             /\ UNCHANGED blocked
    /\ UNCHANGED <<adjacency, maxCycles, nodeToProcess, component, cycles, maxReached, finished>>

Next == NextRound \/ CloseCycle \/ FollowEdge \/ SkipEdge \/ Return

Spec == Init /\ [][Next]_vars /\ WF_vars(Next)

-----------------------------------------------------------------------------
(***************************************************************************)
(* The elementary cycles of the graph, each from its lowest node: closed   *)
(* walks that meet no node twice.                                          *)
(***************************************************************************)
After(c, i) == IF i = Len(c) THEN c[1] ELSE c[i + 1]

IsElementary(c) ==
    /\ c # <<>>
    /\ IsInjective(c)
    /\ \A i \in DOMAIN c : c[1] <= c[i]
    /\ \A i \in DOMAIN c : After(c, i) \in Targets(c[i])

ElementaryCycles == {c \in UNION {[1..k -> Nodes] : k \in 1..Size} : IsElementary(c)}

(***************************************************************************)
(* What is recorded are elementary cycles of the graph, none of them twice *)
(* (nor a rotation of another), although nodes are unblocked and searched  *)
(* again.                                                                  *)
(***************************************************************************)
CyclesAreReal ==
    /\ \A i \in DOMAIN cycles : IsElementary(cycles[i])
    /\ IsInjective(cycles)

(***************************************************************************)
(* Why skipping blocked nodes loses no cycle: until the limit is reached,  *)
(* a blocked node off the path cannot reach the start of the search        *)
(* without crossing the path; and the nodes of the path are blocked.       *)
(***************************************************************************)
ReachAvoiding(node, avoid) ==
    LET Closed(S) == node \in S /\ \A m \in S : (Targets(m) \cap component) \ avoid \subseteq S IN
    {n \in component : \A S \in SUBSET component : Closed(S) => n \in S}

BlockedIsHopeless ==
    frames # <<>> /\ ~maxReached =>
        LET start == Least(component)
            path == ToSet(Path) IN
        /\ path \subseteq blocked
        /\ \A n \in (blocked \cap component) \ path :
              start \notin ReachAvoiding(n, path \ {start})

(***************************************************************************)
(* The limit cuts the result exactly: every cycle is found when there are  *)
(* not more of them than the limit, and maxNumberOfCyclesReached tells     *)
(* whether some were left out.  It holds on the graphs where the component *)
(* handed over is always the one with the lowest node (FindsTheLowest in   *)
(* CycleDetectorProofs): all of up to four nodes.  The finder stops at the *)
(* first tree that holds a component (mod.rs:330), so on some graphs of    *)
(* five nodes cycles are missed; see FindsAllCycles.                       *)
(***************************************************************************)
LimitExact ==
    finished =>
        LET total == Cardinality(ElementaryCycles) IN
        /\ Len(cycles) = (IF total <= maxCycles THEN total ELSE maxCycles)
        /\ maxReached <=> total > maxCycles

(***************************************************************************)
(* "Finds all elementary cycles among `nodes` connected by `edges`"        *)
(* (doc comment of detect_cycles).                                         *)
(***************************************************************************)
FindsAllCycles ==
    finished /\ ~maxReached => ElementaryCycles \subseteq ToSet(cycles)

(***************************************************************************)
(* The search comes to an end.                                             *)
(***************************************************************************)
Terminates == <>finished
=============================================================================
