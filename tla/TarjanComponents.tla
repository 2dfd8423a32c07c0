-------------------------- MODULE TarjanComponents --------------------------
(***************************************************************************)
(* TarjanComponentFinder of src/src/library/cycle_detection/mod.rs, the    *)
(* algorithm step by step: the reference for what CycleDetector says it    *)
(* finds.                                                                  *)
(***************************************************************************)
EXTENDS CycleDetector

(***************************************************************************)
(* The state of a finder.  As in CycleDetector, the recursive              *)
(* find_components is unfolded: `calls` are the nodes whose calls are      *)
(* under way, left[n] the edges that the loop of n has yet to take; `root` *)
(* is the next node to start a tree from, `comps` what was found so far.   *)
(***************************************************************************)
Start(low) ==
    [visited |-> <<>>, lowLink |-> [n \in Nodes |-> 0], next |-> 0, stack |-> <<>>,
     calls |-> <<>>, left |-> adjacency, root |-> low, comps |-> {}]

Smaller(a, b) == IF a <= b THEN a ELSE b

Link(s, node, index) == [s EXCEPT !.lowLink[node] = Smaller(@, index)]

Enter(s, node) ==
    [s EXCEPT !.visited = [n \in DOMAIN @ \cup {node} |-> IF n = node THEN s.next ELSE @[n]],
              !.lowLink[node] = s.next, !.next = @ + 1,
              !.stack = Append(@, node), !.calls = Append(@, node)]

\* The next edge of node; edges to nodes below the bound are not looked at.
TakeEdge(s, node, low) ==
    LET target == Head(s.left[node])
        taken == [s EXCEPT !.left[node] = Tail(@)]
    IN  IF target < low THEN taken
        ELSE IF target \notin DOMAIN s.visited THEN Enter(taken, target)
        ELSE IF target \in ToSet(s.stack) THEN Link(taken, node, s.visited[target])
        ELSE taken

\* Mutant of CloseComponent: the node itself stays on the stack.
CloseComponentAbove(s, node) ==
    LET k == CHOOSE k \in DOMAIN s.stack : s.stack[k] = node
        comp == ToSet(SubSeq(s.stack, k, Len(s.stack))) IN
    [s EXCEPT !.stack = SubSeq(@, 1, k),
              !.comps = IF Cardinality(comp) > 1 THEN @ \cup {comp} ELSE @]

\* Pops the stack down to node: its component; trivial ones are not collected.
CloseComponent(s, node) ==
    LET k == CHOOSE k \in DOMAIN s.stack : s.stack[k] = node
        comp == ToSet(SubSeq(s.stack, k, Len(s.stack))) IN
    [s EXCEPT !.stack = SubSeq(@, 1, k - 1),
              !.comps = IF Cardinality(comp) > 1 THEN @ \cup {comp} ELSE @]

\* The call for node returns, and its caller takes its low link.
Leave(s, node) ==
    LET depth == Len(s.calls) - 1
        closed == IF s.lowLink[node] = s.visited[node] THEN CloseComponent(s, node) ELSE s
        left == [closed EXCEPT !.calls = SubSeq(@, 1, depth)]
    IN  IF depth = 0 THEN left ELSE Link(left, s.calls[depth], s.lowLink[node])

NextRoot(s) ==
    LET passed == [s EXCEPT !.root = @ + 1] IN
    IF s.root \in DOMAIN s.visited THEN passed ELSE Enter(passed, s.root)

(***************************************************************************)
(* find_non_trivial_component_with_lowest_node_index_above: from the first *)
(* tree that holds a component, the one with the lowest node; {} if none.  *)
(* The finder has a step for each node to start from, edge and return.     *)
(***************************************************************************)
HasFound(s) == s.calls = <<>> /\ (s.comps # {} \/ s.root >= Size)

FinderStep(s, low) ==
    IF HasFound(s) THEN s
    ELSE IF s.calls = <<>> THEN NextRoot(s)
    ELSE LET node == s.calls[Len(s.calls)] IN
         IF s.left[node] = <<>> THEN Leave(s, node) ELSE TakeEdge(s, node, low)

FinderSteps == Cardinality(UNION {{n} \X (0 .. Len(adjacency[n]) + 1) : n \in Nodes})

ComponentFrom(low) ==
    LET run[k \in 0 .. FinderSteps] == IF k = 0 THEN Start(low) ELSE FinderStep(run[k - 1], low)
        found == run[FinderSteps].comps
    IN  IF found = {} THEN {} ELSE CHOOSE c \in found : \A d \in found : Least(c) <= Least(d)

(***************************************************************************)
(* For every lower bound, the finder returns the component that            *)
(* CycleDetector computes from reachability (a matter of the graph alone:  *)
(* looked at once per graph).                                              *)
(***************************************************************************)
FinderFindsComponents ==
    nodeToProcess = 0 /\ frames = <<>> /\ maxCycles = Least(Limits) => \A low \in 0..Size : 
        NextComponents(low) = {ComponentFrom(low)} \ {{}}
=============================================================================
