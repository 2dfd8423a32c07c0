------------------------- MODULE CycleDetectorProofs -------------------------
(***************************************************************************)
(* Theorems about CycleDetector and the finder of TarjanComponents, for    *)
(* every graph and every limit.                                            *)
(***************************************************************************)
EXTENDS TarjanComponents, InductionLemmas, TLAPS

Depth == Len(frames)
NodeAt(i) == frames[i].node
Upto(i) == {NodeAt(j) : j \in 1..i}
OnPath == Upto(Depth)
TargetsInside(n) == Targets(n) \cap component

CallFrame == [node : Nodes, left : Seq(Nodes), found : BOOLEAN]

(***************************************************************************)
(* The types, and what a search keeps of its component.                    *)
(***************************************************************************)
Types ==
    /\ adjacency \in Graphs /\ maxCycles \in Limits
    /\ nodeToProcess \in Nat
    /\ component \in SUBSET Nodes
    /\ frames \in Seq(CallFrame)
    /\ blocked \in SUBSET Nodes
    /\ dependents \in [Nodes -> SUBSET Nodes]
    /\ cycles \in Seq(Seq(Nodes))
    /\ maxReached \in BOOLEAN /\ finished \in BOOLEAN

SearchOK ==
    frames # <<>> =>
        /\ component # {}
        /\ NodeAt(1) = Least(component)
        /\ nodeToProcess = Least(component) + 1

(***************************************************************************)
(* The path: a walk in the component that meets no node twice, all of it   *)
(* blocked; an edge taken is not left to take.                             *)
(***************************************************************************)
PathOK ==
    /\ \A i \in 1..Depth :
          /\ NodeAt(i) \in component \cap blocked
          /\ ToSet(frames[i].left) \subseteq Targets(NodeAt(i))
          /\ IsInjective(frames[i].left)
    /\ \A i \in 1..(Depth - 1) :
          /\ NodeAt(i + 1) \in Targets(NodeAt(i))
          /\ NodeAt(i + 1) \notin ToSet(frames[i].left)
    /\ \A i, j \in 1..Depth : NodeAt(i) = NodeAt(j) => i = j

(***************************************************************************)
(* Why no node of the path is unblocked: those that a node of the path     *)
(* would be unblocked with are on the path before it, or are stuck, in a   *)
(* set of blocked nodes that leads nowhere but to the path before.         *)
(***************************************************************************)
StuckSet(i, T) ==
    /\ T \subseteq blocked \ OnPath
    /\ \A n \in T : TargetsInside(n) \subseteq T \cup Upto(i)
    /\ \A m \in Nodes : NodeAt(i) \in dependents[m] => m \in T \cup Upto(i)

StuckOK ==
    /\ \A m \in Nodes : \A n \in dependents[m] : m \in TargetsInside(n)
    /\ \A i \in 1..Depth : \E T \in SUBSET Nodes : StuckSet(i, T)

(***************************************************************************)
(* Until the limit is reached: blocked nodes off the path wait for all     *)
(* their targets, which are blocked, too; so are the targets that a call   *)
(* without a cycle is done with.                                           *)
(***************************************************************************)
WaitOK ==
    ~maxReached =>
        /\ blocked \subseteq component
        /\ \A n \in blocked \ OnPath : \A t \in TargetsInside(n) :
              t \in blocked /\ t # Least(component) /\ n \in dependents[t]
        /\ \A m \in Nodes \ blocked : dependents[m] = {}
        /\ \A i \in 1..Depth :
              (\A j \in i..Depth : ~frames[j].found) =>
                  \A t \in TargetsInside(NodeAt(i)) \ ToSet(frames[i].left) :
                      t \in blocked /\ t # Least(component)

(***************************************************************************)
(* A cycle found in this search has left the path where it has no edge     *)
(* left to take.                                                           *)
(***************************************************************************)
LeftBehind(n) ==
    \E k \in 1..Depth :
        /\ k <= Len(cycles[n])
        /\ \A i \in 1..k : cycles[n][i] = NodeAt(i)
        /\ After(cycles[n], k) \notin ToSet(frames[k].left)
        /\ k < Depth => After(cycles[n], k) # NodeAt(k + 1)

CyclesOK ==
    /\ CyclesAreReal
    /\ \A n \in DOMAIN cycles :
          /\ cycles[n][1] < nodeToProcess
          /\ frames # <<>> /\ cycles[n][1] = Least(component) => LeftBehind(n)

CycleInv == Types /\ SearchOK /\ PathOK /\ StuckOK /\ WaitOK /\ CyclesOK

-----------------------------------------------------------------------------
(***************************************************************************)
(* The least node of a component.                                          *)
(***************************************************************************)
LEMMA LeastIsLeast ==
    ASSUME NEW S \in SUBSET Nat, S # {}
    PROVE  Least(S) \in S /\ \A n \in S : Least(S) <= n
BY LeastExists DEF Least

(***************************************************************************)
(* The finder finds nodes from the lower bound on.                         *)
(***************************************************************************)
LEMMA ComponentsAbove ==
    ASSUME NEW low \in Nat, NEW comp \in NextComponents(low)
    PROVE  /\ comp \in SUBSET Nodes /\ comp # {}
           /\ \A n \in comp : low <= n
<1>1. comp \in Components(low)
  BY DEF NextComponents, Lowest, FirstTree
<1>2. comp # {}
  BY <1>1, FS_EmptySet DEF Components
<1>3. comp \subseteq low..(Size - 1)
  BY <1>1 DEF Components, ComponentOf
<1>. QED
  BY <1>2, <1>3, CycleAssumption DEF Nodes

(***************************************************************************)
(* unblock frees the least set that holds the node and, with a node, those *)
(* that depend on it.                                                      *)
(***************************************************************************)
LEMMA FreedFacts ==
    ASSUME NEW node \in blocked
    PROVE  /\ node \in Unblocked(node)
           /\ Unblocked(node) \subseteq blocked
           /\ \A m \in Unblocked(node) : dependents[m] \cap blocked \subseteq Unblocked(node)
           /\ \A S \in SUBSET blocked :
                 node \in S /\ (\A m \in S : dependents[m] \cap blocked \subseteq S) =>
                     Unblocked(node) \subseteq S
<1>. QED
  BY DEF Unblocked

(***************************************************************************)
(* The frames when the call on top is done with an edge.                   *)
(***************************************************************************)
LEMMA AdvancedFrames ==
    ASSUME frames \in Seq(CallFrame), frames # <<>>, Following, NEW found \in BOOLEAN
    PROVE  /\ Advanced(found) \in Seq(CallFrame)
           /\ Depth \in Nat /\ Depth >= 1
           /\ Len(Advanced(found)) = Depth
           /\ \A i \in 1..Depth : Advanced(found)[i].node = NodeAt(i)
           /\ \A i \in 1..(Depth - 1) : Advanced(found)[i] = frames[i]
           /\ Advanced(found)[Depth].left = Tail(Top.left)
           /\ Advanced(found)[Depth].found = (Top.found \/ found)
           /\ Head(Top.left) \in ToSet(Top.left)
           /\ ToSet(Top.left) = {Head(Top.left)} \cup ToSet(Tail(Top.left))
           /\ IsInjective(Top.left) => /\ IsInjective(Tail(Top.left))
                                       /\ Head(Top.left) \notin ToSet(Tail(Top.left))
<1>1. Depth \in Nat /\ Depth >= 1 /\ Top \in CallFrame /\ Top.left \in Seq(Nodes) /\ Top.left # <<>>
  <2>1. Depth \in Nat /\ Depth >= 1 /\ Depth \in 1..Len(frames)
    BY DEF Depth
  <2>2. Top \in CallFrame
    BY <2>1 DEF Top, Depth
  <2>. QED
    BY <2>1, <2>2 DEF CallFrame, Following
<1>2. [Top EXCEPT !.left = Tail(@), !.found = @ \/ found] \in CallFrame
  <2>1. Tail(Top.left) \in Seq(Nodes)
    BY <1>1
  <2>2. (Top.found \/ found) \in BOOLEAN
    BY Zenon
  <2>3. \A l \in Seq(Nodes), f \in BOOLEAN : [Top EXCEPT !.left = l, !.found = f] \in CallFrame
    BY <1>1 DEF CallFrame
  <2>. QED
    BY <2>1, <2>2, <2>3
<1>3. Advanced(found) = [frames EXCEPT ![Depth] = [Top EXCEPT !.left = Tail(@), !.found = @ \/ found]]
  BY <1>1 DEF Advanced, Top, Depth
<1>4. /\ Head(Top.left) \in ToSet(Top.left)
      /\ ToSet(Top.left) = {Head(Top.left)} \cup ToSet(Tail(Top.left))
      /\ IsInjective(Top.left) => /\ IsInjective(Tail(Top.left))
                                  /\ Head(Top.left) \notin ToSet(Tail(Top.left))
  <2>. DEFINE list == Top.left
  <2>1. /\ Len(list) \in Nat /\ Len(list) >= 1 /\ Head(list) = list[1]
        /\ Len(Tail(list)) = Len(list) - 1
        /\ \A k \in 1..(Len(list) - 1) : Tail(list)[k] = list[k + 1]
    BY <1>1
  <2>2. DOMAIN list = 1..Len(list) /\ DOMAIN Tail(list) = 1..(Len(list) - 1)
    BY <1>1, <2>1
  <2>. HIDE DEF list
  <2>3. ToSet(list) = {list[1]} \cup ToSet(Tail(list))
    <3>1. \A k \in 1..Len(list) : k = 1 \/ (k - 1 \in 1..(Len(list) - 1) /\ list[k] = Tail(list)[k - 1])
      BY <2>1
    <3>2. ASSUME NEW n \in ToSet(list), n # list[1] PROVE n \in ToSet(Tail(list))
      <4>1. PICK k \in 1..Len(list) : n = list[k]
        BY <2>2 DEF ToSet
      <4>2. k - 1 \in 1..(Len(list) - 1) /\ n = Tail(list)[k - 1]
        BY <3>1, <3>2, <4>1
      <4>. QED
        BY <2>2, <4>2 DEF ToSet
    <3>3. list[1] \in ToSet(list)
      BY <2>1, <2>2 DEF ToSet
    <3>4. ASSUME NEW n \in ToSet(Tail(list)) PROVE n \in ToSet(list)
      <4>1. PICK k \in 1..(Len(list) - 1) : n = Tail(list)[k]
        BY <2>2 DEF ToSet
      <4>2. k + 1 \in 1..Len(list) /\ n = list[k + 1]
        BY <2>1, <4>1
      <4>. QED
        BY <2>2, <4>2 DEF ToSet
    <3>. QED
      BY <3>2, <3>3, <3>4
  <2>4. IsInjective(list) => IsInjective(Tail(list)) /\ list[1] \notin ToSet(Tail(list))
    BY <2>1, <2>2 DEF IsInjective, ToSet
  <2>. QED
    BY <2>1, <2>3, <2>4 DEF list
<1>5. /\ Advanced(found) \in Seq(CallFrame)
      /\ Len(Advanced(found)) = Depth
      /\ \A i \in 1..(Depth - 1) : Advanced(found)[i] = frames[i]
      /\ Advanced(found)[Depth] = [Top EXCEPT !.left = Tail(@), !.found = @ \/ found]
  BY <1>1, <1>2, <1>3 DEF Depth
<1>6. /\ Advanced(found)[Depth].left = Tail(Top.left)
      /\ Advanced(found)[Depth].found = (Top.found \/ found)
      /\ Advanced(found)[Depth].node = Top.node
  BY <1>1, <1>5 DEF CallFrame
<1>7. \A i \in 1..Depth : Advanced(found)[i].node = NodeAt(i)
  <2>1. \A i \in 1..Depth : i = Depth \/ i \in 1..(Depth - 1)
    BY <1>1
  <2>. QED
    BY <1>5, <1>6, <2>1 DEF NodeAt, Top, Depth
<1>. QED
  BY <1>1, <1>4, <1>5, <1>6, <1>7

(***************************************************************************)
(* What a step keeps that is done with an edge of the call on top.         *)
(***************************************************************************)
LEMMA AdvanceKeeps ==
    ASSUME CycleInv, frames # <<>>, Following, NEW found \in BOOLEAN, frames' = Advanced(found),
           UNCHANGED <<adjacency, nodeToProcess, component, blocked, dependents>>
    PROVE  /\ frames' \in Seq(CallFrame) /\ frames' # <<>>
           /\ Depth' = Depth /\ OnPath' = OnPath
           /\ \A i \in 1..Depth : NodeAt(i)' = NodeAt(i) /\ Upto(i)' = Upto(i)
           /\ SearchOK' /\ PathOK' /\ StuckOK'
<1>1. /\ frames' \in Seq(CallFrame)
      /\ Depth \in Nat /\ Depth >= 1 /\ Depth' = Depth
      /\ \A i \in 1..Depth : NodeAt(i)' = NodeAt(i)
      /\ \A i \in 1..(Depth - 1) : frames'[i] = frames[i]
      /\ frames'[Depth].left = Tail(Top.left)
      /\ ToSet(Top.left) = {Head(Top.left)} \cup ToSet(Tail(Top.left))
      /\ IsInjective(Top.left) => IsInjective(Tail(Top.left))
  BY AdvancedFrames DEF CycleInv, Types, Depth, NodeAt
<1>2. frames' # <<>>
  BY <1>1 DEF Depth
<1>3. \A i \in 1..Depth : Upto(i)' = Upto(i)
  BY <1>1 DEF Upto
<1>4. OnPath' = OnPath
  BY <1>1, <1>3 DEF OnPath
<1>5. SearchOK'
  BY <1>1, <1>2 DEF CycleInv, SearchOK
<1>6. PathOK'
  <2>1. \A i \in 1..Depth : IsInjective(frames[i].left)
    BY DEF CycleInv, PathOK
  <2>2. \A i \in 1..Depth : /\ ToSet(frames'[i].left) \subseteq ToSet(frames[i].left)
                            /\ IsInjective(frames'[i].left)
    <3>1. \A i \in 1..Depth : i = Depth \/ i \in 1..(Depth - 1)
      BY <1>1
    <3>. QED
      BY <1>1, <2>1, <3>1 DEF Top, Depth
  <2>3. \A i \in 1..Depth : /\ NodeAt(i)' \in (component \cap blocked)'
                            /\ ToSet(frames'[i].left) \subseteq Targets(NodeAt(i))'
    <3>1. \A i \in 1..Depth : /\ NodeAt(i)' \in component' \cap blocked'
                              /\ Targets(NodeAt(i))' = Targets(NodeAt(i))
      BY <1>1 DEF CycleInv, PathOK, Targets
    <3>2. \A i \in 1..Depth : ToSet(frames[i].left) \subseteq Targets(NodeAt(i))
      BY DEF CycleInv, PathOK
    <3>. QED
      BY <2>2, <3>1, <3>2
  <2>4. \A i \in 1..(Depth - 1) : /\ NodeAt(i + 1)' \in Targets(NodeAt(i))'
                                  /\ NodeAt(i + 1)' \notin ToSet(frames'[i].left)
    <3>1. \A i \in 1..(Depth - 1) : i \in 1..Depth /\ i + 1 \in 1..Depth
      BY <1>1
    <3>. QED
      BY <1>1, <2>2, <3>1 DEF CycleInv, PathOK, Targets
  <2>5. \A i, j \in 1..Depth : NodeAt(i)' = NodeAt(j)' => i = j
    BY <1>1 DEF CycleInv, PathOK
  <2>. QED
    BY <1>1, <2>2, <2>3, <2>4, <2>5 DEF PathOK
<1>7. StuckOK'
  <2>1. \A n \in Nodes : TargetsInside(n)' = TargetsInside(n)
    BY DEF TargetsInside, Targets
  <2>2. \A m \in Nodes : \A n \in dependents[m] : n \in Nodes
    BY DEF CycleInv, Types
  <2>3. \A i \in 1..Depth, T \in SUBSET Nodes : StuckSet(i, T) => StuckSet(i, T)'
    BY <1>1, <1>3, <1>4, <2>1 DEF StuckSet
  <2>. QED
    BY <1>1, <2>1, <2>2, <2>3 DEF CycleInv, StuckOK
<1>. QED
  BY <1>1, <1>2, <1>3, <1>4, <1>5, <1>6, <1>7

(***************************************************************************)
(* A call returns.  If it found a cycle, unblocking its node frees nothing *)
(* of the path: S is closed under what unblock follows.                    *)
(***************************************************************************)
LEMMA ReturnKeeps == CycleInv /\ Return => CycleInv'
<1>. SUFFICES ASSUME CycleInv, Return PROVE CycleInv'
  OBVIOUS
<1>. DEFINE node == Top.node
            freed == Unblocked(node)
<1>1. /\ Depth \in Nat /\ Depth >= 1
      /\ \A i \in 1..Depth : frames[i] \in CallFrame /\ NodeAt(i) \in Nodes
      /\ Top \in CallFrame /\ Top.left = <<>> /\ NodeAt(Depth) = node
      /\ node \in Nodes /\ node \in component /\ node \in blocked
  <2>1. Depth \in Nat /\ Depth >= 1
    BY DEF Return, CycleInv, Types, Depth
  <2>2. \A i \in 1..Depth : frames[i] \in CallFrame
    BY DEF CycleInv, Types, Depth
  <2>3. Top = frames[Depth] /\ Depth \in 1..Depth
    BY <2>1 DEF Top, Depth
  <2>4. \A i \in 1..Depth : NodeAt(i) \in component \cap blocked /\ NodeAt(i) \in Nodes
    BY DEF CycleInv, PathOK, Types
  <2>. QED
    BY <2>1, <2>2, <2>3, <2>4 DEF NodeAt, Return, Following
<1>2. /\ frames' \in Seq(CallFrame) /\ Depth' = Depth - 1
      /\ \A i \in 1..(Depth - 1) : /\ frames'[i].node = frames[i].node
                                   /\ frames'[i].left = frames[i].left
                                   /\ i < Depth - 1 => frames'[i] = frames[i]
                                   /\ i = Depth - 1 => frames'[i].found = (frames[i].found \/ Top.found)
  <2>. DEFINE Popped == [i \in 1..(Depth - 1) |->
                            IF i = Depth - 1 THEN [frames[i] EXCEPT !.found = @ \/ Top.found]
                            ELSE frames[i]]
  <2>1. frames' = IF Depth - 1 = 0 THEN <<>> ELSE Popped
    BY DEF Return, Depth
  <2>2. \A i \in 1..(Depth - 1) : Popped[i] \in CallFrame
    <3>1. \A i \in 1..(Depth - 1) : frames[i] \in CallFrame
      BY <1>1
    <3>2. \A i \in 1..(Depth - 1) : (frames[i].found \/ Top.found) \in BOOLEAN
      BY Zenon
    <3>3. \A f \in CallFrame, v \in BOOLEAN : [f EXCEPT !.found = v] \in CallFrame
      BY DEF CallFrame
    <3>. QED
      BY <3>1, <3>2, <3>3
  <2>3. \A i \in 1..(Depth - 1) : /\ Popped[i].node = frames[i].node
                                  /\ Popped[i].left = frames[i].left
                                  /\ i < Depth - 1 => Popped[i] = frames[i]
    BY <1>1 DEF CallFrame
  <2>4. \A i \in 1..(Depth - 1) : i = Depth - 1 => Popped[i].found = (frames[i].found \/ Top.found)
    BY <1>1 DEF CallFrame
  <2>5. CASE Depth - 1 = 0
    <3>1. frames' = <<>> /\ 1..(Depth - 1) = {}
      BY <2>1, <2>5
    <3>. HIDE DEF Popped
    <3>2. frames' \in Seq(CallFrame) /\ Len(frames') = 0
      BY <3>1
    <3>. QED
      BY <2>5, <3>1, <3>2 DEF Depth
  <2>6. CASE Depth - 1 # 0
    <3>1. frames' = Popped
      BY <2>1, <2>6
    <3>2. Popped \in Seq(CallFrame) /\ Len(Popped) = Depth - 1
      <4>. HIDE DEF Popped
      <4>1. Popped \in [1..(Depth - 1) -> CallFrame]
        BY <2>2 DEF Popped
      <4>. QED
        BY <1>1, <4>1
    <3>. QED
      BY <2>3, <2>4, <3>1, <3>2 DEF Depth
  <2>. QED
    BY <2>5, <2>6
<1>. HIDE DEF node, freed
<1>3. /\ \A i \in 1..(Depth - 1) : NodeAt(i)' = NodeAt(i) /\ Upto(i)' = Upto(i)
      /\ OnPath' = Upto(Depth - 1)
      /\ OnPath = Upto(Depth - 1) \cup {node} /\ node \notin Upto(Depth - 1)
  <2>1. \A i \in 1..(Depth - 1) : NodeAt(i)' = NodeAt(i)
    BY <1>2 DEF NodeAt
  <2>2. \A i \in 0..(Depth - 1) : Upto(i)' = Upto(i)
    <3>1. \A i \in 0..(Depth - 1) : \A j \in 1..i : j \in 1..(Depth - 1)
      BY <1>1
    <3>. QED
      BY <2>1, <3>1 DEF Upto
  <2>3. Depth - 1 \in 0..(Depth - 1) /\ \A i \in 1..(Depth - 1) : i \in 0..(Depth - 1)
    BY <1>1
  <2>4. OnPath' = Upto(Depth - 1)
    BY <1>2, <2>2, <2>3 DEF OnPath
  <2>5. node \notin Upto(Depth - 1)
    BY <1>1 DEF Upto, CycleInv, PathOK
  <2>6. OnPath = Upto(Depth - 1) \cup {node}
    <3>1. \A i \in 1..Depth : i = Depth \/ i \in 1..(Depth - 1)
      BY <1>1
    <3>2. Depth \in 1..Depth /\ \A i \in 1..(Depth - 1) : i \in 1..Depth
      BY <1>1
    <3>. QED
      BY <1>1, <3>1, <3>2 DEF OnPath, Upto
  <2>. QED
    BY <2>1, <2>2, <2>3, <2>4, <2>5, <2>6
<1>4. /\ UNCHANGED <<adjacency, maxCycles, nodeToProcess, component, cycles, maxReached, finished>>
      /\ \A n \in Nodes : Targets(n)' = Targets(n) /\ TargetsInside(n)' = TargetsInside(n)
      /\ \A n \in Nodes : dependents[n] \subseteq Nodes
      /\ \/ /\ Top.found /\ blocked' = blocked \ freed
            /\ dependents' = [n \in Nodes |-> IF n \in freed THEN {} ELSE dependents[n]]
         \/ /\ ~Top.found /\ blocked' = blocked
            /\ dependents' = [n \in Nodes |-> IF n \in TargetsInside(node)
                                              THEN dependents[n] \cup {node} ELSE dependents[n]]
  <2>1. UNCHANGED <<adjacency, maxCycles, nodeToProcess, component, cycles, maxReached, finished>>
    BY DEF Return
  <2>2. \A n \in Nodes : Targets(n)' = Targets(n) /\ TargetsInside(n)' = TargetsInside(n)
    BY <2>1 DEF Targets, TargetsInside
  <2>3. \A n \in Nodes : dependents[n] \subseteq Nodes
    BY DEF CycleInv, Types
  <2>. QED
    BY <2>1, <2>2, <2>3 DEF Return, node, freed, TargetsInside
<1>5. ASSUME NEW i \in 1..(Depth - 1), NEW T \in SUBSET Nodes, StuckSet(i, T)
      PROVE  /\ node \notin T /\ T \subseteq blocked
             /\ \A n \in T : TargetsInside(n) \subseteq T \cup Upto(Depth - 1)
             /\ \A m \in Nodes : NodeAt(i) \in dependents[m] => m \in T \cup Upto(Depth - 1)
  <2>1. Upto(i) \subseteq Upto(Depth - 1)
    BY <1>1 DEF Upto
  <2>. QED
    BY <1>1, <1>3, <1>5, <2>1 DEF StuckSet
<1>6. /\ freed \subseteq blocked /\ node \in freed
      /\ \A m \in freed : dependents[m] \cap blocked \subseteq freed
      /\ freed \cap Upto(Depth - 1) = {}
      /\ \A i \in 1..(Depth - 1), T \in SUBSET Nodes : StuckSet(i, T) => freed \cap T = {}
  <2>. DEFINE Stuck == UNION {T \in SUBSET Nodes : \E i \in 1..(Depth - 1) : StuckSet(i, T)}
              S == blocked \ (Stuck \cup Upto(Depth - 1))
  <2>1. node \in S
    BY <1>1, <1>3, <1>5
  <2>2. ASSUME NEW m \in S, NEW d \in dependents[m] \cap blocked PROVE d \in S
    <3>1. m \in Nodes /\ m \in TargetsInside(d) /\ d \in Nodes
      BY DEF CycleInv, StuckOK, Types
    <3>2. d \notin Upto(Depth - 1)
      <4>1. SUFFICES ASSUME NEW j \in 1..(Depth - 1), d = NodeAt(j) PROVE FALSE
        BY DEF Upto
      <4>2. PICK T \in SUBSET Nodes : StuckSet(j, T)
        BY <1>1, <4>1 DEF CycleInv, StuckOK
      <4>3. m \in T \cup Upto(Depth - 1)
        BY <1>5, <3>1, <4>1, <4>2
      <4>. QED
        BY <4>2, <4>3
    <3>3. d \notin Stuck
      <4>1. SUFFICES ASSUME NEW i \in 1..(Depth - 1), NEW T \in SUBSET Nodes, StuckSet(i, T), d \in T
                     PROVE  FALSE
        OBVIOUS
      <4>2. m \in T \cup Upto(Depth - 1)
        BY <1>5, <3>1, <4>1
      <4>. QED
        BY <4>1, <4>2
    <3>. QED
      BY <3>2, <3>3
  <2>3. freed \subseteq S
    <3>1. S \in SUBSET blocked /\ \A m \in S : dependents[m] \cap blocked \subseteq S
      BY <2>2
    <3>. HIDE DEF S
    <3>. QED
      BY <1>1, <2>1, <3>1, FreedFacts DEF freed
  <2>. QED
    BY <1>1, <2>3, FreedFacts DEF freed
<1>7. Types'
  <2>1. blocked' \in SUBSET Nodes
    BY <1>4 DEF CycleInv, Types
  <2>2. dependents' \in [Nodes -> SUBSET Nodes]
    BY <1>1, <1>4
  <2>. QED
    BY <1>2, <1>4, <2>1, <2>2 DEF CycleInv, Types
<1>8. SearchOK'
  <2>1. CASE Depth = 1
    BY <1>2, <2>1 DEF SearchOK, Depth, CallFrame
  <2>2. CASE Depth # 1
    <3>1. frames # <<>> /\ 1 \in 1..(Depth - 1) /\ 1 \in 1..Depth
      BY <1>1, <2>2 DEF Return
    <3>2. NodeAt(1)' = NodeAt(1) /\ Least(component)' = Least(component)
      BY <1>3, <1>4, <3>1 DEF Least
    <3>3. component # {} /\ NodeAt(1) = Least(component) /\ nodeToProcess = Least(component) + 1
      BY <3>1 DEF CycleInv, SearchOK
    <3>. QED
      BY <1>4, <3>2, <3>3 DEF SearchOK
  <2>. QED
    BY <2>1, <2>2
<1>9. PathOK'
  <2>1. \A i \in 1..(Depth - 1) : i \in 1..Depth
    BY <1>1
  <2>2. \A i \in 1..(Depth - 1) : NodeAt(i)' \in component \cap blocked'
    <3>1. \A i \in 1..(Depth - 1) : NodeAt(i) \in Upto(Depth - 1)
      BY DEF Upto
    <3>. QED
      BY <1>3, <1>4, <1>6, <2>1, <3>1 DEF CycleInv, PathOK
  <2>3. \A i \in 1..(Depth - 1) : /\ ToSet(frames'[i].left) \subseteq Targets(NodeAt(i))'
                                  /\ IsInjective(frames'[i].left)
    BY <1>1, <1>2, <1>3, <1>4, <2>1 DEF CycleInv, PathOK
  <2>4. \A i \in 1..(Depth - 1 - 1) : /\ NodeAt(i + 1)' \in Targets(NodeAt(i))'
                                      /\ NodeAt(i + 1)' \notin ToSet(frames'[i].left)
    <3>1. \A i \in 1..(Depth - 1 - 1) : i \in 1..(Depth - 1) /\ i + 1 \in 1..(Depth - 1)
      BY <1>1
    <3>2. \A i \in 1..(Depth - 1) : Targets(NodeAt(i)') = Targets(NodeAt(i)) /\ Targets(NodeAt(i))' = Targets(NodeAt(i))
      BY <1>1, <1>3, <1>4, <2>1 DEF Targets
    <3>. QED
      BY <1>2, <1>3, <3>1, <3>2 DEF CycleInv, PathOK
  <2>5. \A i, j \in 1..(Depth - 1) : NodeAt(i)' = NodeAt(j)' => i = j
    BY <1>3, <2>1 DEF CycleInv, PathOK
  <2>. QED
    BY <1>2, <1>4, <2>2, <2>3, <2>4, <2>5 DEF PathOK
<1>10. StuckOK'
  <2>1. ASSUME NEW m \in Nodes, NEW n \in dependents'[m] PROVE m \in TargetsInside(n)'
    <3>1. n \in Nodes
      BY <1>1, <1>4, <2>1
    <3>2. CASE n \in dependents[m]
      BY <1>4, <3>1, <3>2 DEF CycleInv, StuckOK
    <3>3. CASE n = node /\ m \in TargetsInside(node)
      BY <1>1, <1>4, <3>3
    <3>. QED
      BY <1>4, <2>1, <3>2, <3>3
  <2>2. ASSUME NEW i \in 1..(Depth - 1) PROVE \E T \in SUBSET Nodes : StuckSet(i, T)'
    <3>1. i \in 1..Depth /\ NodeAt(i) \in Nodes
      BY <1>1
    <3>2. PICK T \in SUBSET Nodes : StuckSet(i, T)
      BY <3>1 DEF CycleInv, StuckOK
    <3>3. T \subseteq blocked' \ OnPath'
      BY <1>3, <1>4, <1>6, <3>2 DEF StuckSet
    <3>4. \A n \in T : TargetsInside(n)' \subseteq T \cup Upto(i)'
      BY <1>3, <1>4, <3>2 DEF StuckSet
    <3>5. ASSUME NEW m \in Nodes, NodeAt(i)' \in dependents'[m] PROVE m \in T \cup Upto(i)'
      <4>1. NodeAt(i)' = NodeAt(i) /\ NodeAt(i) # node
        BY <1>3 DEF Upto
      <4>2. NodeAt(i) \in dependents[m]
        BY <1>4, <3>5, <4>1
      <4>. QED
        BY <1>3, <3>2, <4>2 DEF StuckSet
    <3>. QED
      BY <3>3, <3>4, <3>5 DEF StuckSet
  <2>. QED
    BY <1>2, <2>1, <2>2 DEF StuckOK
<1>11. WaitOK'
  <2>. SUFFICES ASSUME ~maxReached PROVE WaitOK'
    BY <1>4 DEF WaitOK
  <2>1. blocked' \subseteq component'
    BY <1>4 DEF CycleInv, WaitOK
  <2>2. ASSUME NEW n \in blocked' \ OnPath', NEW t \in TargetsInside(n)'
        PROVE  t \in blocked' /\ t # Least(component)' /\ n \in dependents'[t]
    <3>1. n \in Nodes /\ t \in TargetsInside(n) /\ t \in Nodes /\ Least(component)' = Least(component)
      BY <1>4 DEF CycleInv, Types, TargetsInside, Least
    <3>2. CASE n # node
      <4>1. n \in blocked \ OnPath
        BY <1>3, <1>4, <3>2
      <4>2. t \in blocked /\ t # Least(component) /\ n \in dependents[t]
        BY <3>1, <4>1 DEF CycleInv, WaitOK
      <4>3. CASE Top.found
        <5>1. t \notin freed
          BY <1>4, <1>6, <4>1, <4>2, <4>3, <2>2
        <5>. QED
          BY <1>4, <3>1, <4>2, <4>3, <5>1
      <4>. QED
        BY <1>4, <3>1, <4>2, <4>3
    <3>3. CASE n = node
      <4>1. ~Top.found /\ blocked' = blocked
        BY <1>4, <1>6, <3>3, <2>2
      <4>2. t \in blocked /\ t # Least(component)
        <5>1. \A j \in Depth..Depth : ~frames[j].found
          BY <1>1, <4>1 DEF Top, Depth
        <5>2. frames[Depth].left = <<>> /\ Depth \in 1..Depth
          BY <1>1 DEF Top, Depth
        <5>3. ToSet(frames[Depth].left) = {}
          BY <5>2 DEF ToSet
        <5>. QED
          BY <1>1, <3>1, <3>3, <5>1, <5>2, <5>3 DEF CycleInv, WaitOK
      <4>. QED
        BY <1>4, <3>1, <3>3, <4>1, <4>2
    <3>. QED
      BY <3>2, <3>3
  <2>3. ASSUME NEW m \in Nodes \ blocked' PROVE dependents'[m] = {}
    <3>1. CASE Top.found
      BY <1>4, <3>1 DEF CycleInv, WaitOK
    <3>2. CASE ~Top.found
      <4>1. m \notin blocked /\ dependents[m] = {}
        BY <1>4, <3>2 DEF CycleInv, WaitOK
      <4>2. m \notin TargetsInside(node)
        <5>1. \A j \in Depth..Depth : ~frames[j].found
          BY <1>1, <3>2 DEF Top, Depth
        <5>2. frames[Depth].left = <<>> /\ Depth \in 1..Depth
          BY <1>1 DEF Top, Depth
        <5>3. ToSet(frames[Depth].left) = {}
          BY <5>2 DEF ToSet
        <5>. QED
          BY <1>1, <4>1, <5>1, <5>2, <5>3 DEF CycleInv, WaitOK
      <4>. QED
        BY <1>4, <3>2, <4>1, <4>2
    <3>. QED
      BY <3>1, <3>2
  <2>4. ASSUME NEW i \in 1..(Depth - 1), \A j \in i..(Depth - 1) : ~frames'[j].found,
               NEW t \in TargetsInside(NodeAt(i))' \ ToSet(frames'[i].left)
        PROVE  t \in blocked' /\ t # Least(component)'
    <3>1. i \in 1..Depth /\ NodeAt(i) \in Nodes /\ Depth - 1 \in i..(Depth - 1)
      BY <1>1
    <3>2. ~frames[Depth - 1].found /\ ~Top.found
      <4>1. Depth - 1 \in 1..(Depth - 1) /\ ~frames'[Depth - 1].found
        BY <1>1, <2>4, <3>1
      <4>2. frames'[Depth - 1].found = (frames[Depth - 1].found \/ Top.found)
        BY <1>2, <4>1
      <4>. QED
        BY <4>1, <4>2, Zenon
    <3>3. \A j \in i..Depth : ~frames[j].found
      <4>1. \A j \in i..Depth : j = Depth \/ j = Depth - 1 \/ (j \in i..(Depth - 1) /\ j \in 1..(Depth - 1) /\ j < Depth - 1)
        BY <1>1
      <4>2. Top = frames[Depth]
        BY DEF Top, Depth
      <4>. QED
        BY <1>2, <2>4, <3>2, <4>1, <4>2
    <3>4. t \in TargetsInside(NodeAt(i)) \ ToSet(frames[i].left)
      BY <1>2, <1>3, <1>4, <3>1
    <3>. QED
      BY <1>4, <3>1, <3>2, <3>3, <3>4 DEF CycleInv, WaitOK, Least
  <2>. QED
    BY <1>2, <2>1, <2>2, <2>3, <2>4 DEF WaitOK
<1>12. CyclesOK'
  <2>1. CyclesAreReal'
    BY <1>4 DEF CycleInv, CyclesOK, CyclesAreReal, IsElementary, After, Targets
  <2>2. ASSUME NEW n \in DOMAIN cycles', frames' # <<>>, cycles'[n][1] = Least(component)'
        PROVE  LeftBehind(n)'
    <3>. DEFINE c == cycles[n]
    <3>1. cycles' = cycles /\ n \in DOMAIN cycles /\ LeftBehind(n) /\ Depth - 1 >= 1
      BY <1>1, <1>2, <1>4, <2>2 DEF CycleInv, CyclesOK, Least, Depth
    <3>2. c \in Seq(Nodes) /\ Len(c) \in Nat
      BY <3>1 DEF CycleInv, Types
    <3>. HIDE DEF c
    <3>3. PICK k \in 1..Depth : /\ k <= Len(c)
                                /\ \A i \in 1..k : c[i] = NodeAt(i)
                                /\ After(c, k) \notin ToSet(frames[k].left)
                                /\ k < Depth => After(c, k) # NodeAt(k + 1)
      BY <3>1 DEF LeftBehind, c
    <3>6. ASSUME NEW l \in 1..Depth', l <= Len(c), \A i \in 1..l : c[i] = NodeAt(i)',
                 After(c, l) \notin ToSet(frames'[l].left),
                 l < Depth' => After(c, l) # NodeAt(l + 1)'
          PROVE  LeftBehind(n)'
      <4>1. cycles'[n] = c
        BY <3>1 DEF c
      <4>2. After(cycles'[n], l) = After(c, l)
        BY <4>1
      <4>. QED
        BY <3>6, <4>1, <4>2 DEF LeftBehind, After
    <3>4. CASE k < Depth
      <4>1. k \in 1..(Depth - 1) /\ \A i \in 1..k : i \in 1..(Depth - 1)
        BY <1>1, <3>4
      <4>2. k < Depth - 1 => k + 1 \in 1..(Depth - 1)
        BY <1>1
      <4>3. \A i \in 1..k : c[i] = NodeAt(i)'
        BY <1>3, <3>3, <4>1
      <4>4. After(c, k) \notin ToSet(frames'[k].left)
        BY <1>2, <3>3, <4>1
      <4>5. k < Depth - 1 => After(c, k) # NodeAt(k + 1)'
        BY <1>3, <3>3, <3>4, <4>2
      <4>. QED
        BY <1>2, <3>3, <3>6, <4>1, <4>3, <4>4, <4>5
    <3>5. CASE k = Depth
      <4>1. After(c, Depth - 1) = NodeAt(Depth)
        BY <1>1, <3>2, <3>3, <3>5 DEF After
      <4>2. NodeAt(Depth) \notin ToSet(frames[Depth - 1].left)
        BY <1>1, <3>1 DEF CycleInv, PathOK
      <4>3. Depth - 1 \in 1..(Depth - 1) /\ Depth - 1 <= Len(c) /\ \A i \in 1..(Depth - 1) : c[i] = NodeAt(i)'
        BY <1>1, <1>3, <3>1, <3>2, <3>3, <3>5
      <4>4. After(c, Depth - 1) \notin ToSet(frames'[Depth - 1].left)
        BY <1>2, <4>1, <4>2, <4>3
      <4>. QED
        BY <1>1, <1>2, <3>6, <4>3, <4>4
    <3>. QED
      BY <1>1, <3>4, <3>5
  <2>. QED
    <3>1. \A n \in DOMAIN cycles' : cycles'[n][1] < nodeToProcess'
      BY <1>4 DEF CycleInv, CyclesOK
    <3>. QED
      BY <2>1, <2>2, <3>1 DEF CyclesOK
<1>. QED
  BY <1>7, <1>8, <1>9, <1>10, <1>11, <1>12 DEF CycleInv

(***************************************************************************)
(* What a step keeps that changes nothing but finished.                    *)
(***************************************************************************)
LEMMA StutterKeeps ==
    ASSUME CycleInv, finished' \in BOOLEAN,
           UNCHANGED <<adjacency, maxCycles, nodeToProcess, component, frames, blocked,
                       dependents, cycles, maxReached>>
    PROVE  CycleInv'
<1>1. Types' /\ SearchOK'
  BY DEF CycleInv, Types, SearchOK, NodeAt, Least
<1>2. PathOK'
  BY DEF CycleInv, PathOK, Depth, NodeAt, Targets
<1>3. StuckOK'
  <2>1. Depth' = Depth /\ OnPath' = OnPath
    BY DEF Depth, OnPath, Upto, NodeAt
  <2>2. \A i \in 1..Depth : NodeAt(i)' = NodeAt(i) /\ Upto(i)' = Upto(i)
    BY DEF Upto, NodeAt
  <2>3. \A n \in Nodes : TargetsInside(n)' = TargetsInside(n)
    BY DEF TargetsInside, Targets
  <2>4. \A m \in Nodes : \A n \in dependents[m] : n \in Nodes
    BY DEF CycleInv, Types
  <2>5. \A i \in 1..Depth, T \in SUBSET Nodes : StuckSet(i, T) => StuckSet(i, T)'
    BY <2>1, <2>2, <2>3 DEF StuckSet
  <2>. QED
    BY <2>1, <2>3, <2>4, <2>5 DEF CycleInv, StuckOK
<1>4. WaitOK'
  BY DEF CycleInv, WaitOK, Depth, NodeAt, OnPath, Upto, TargetsInside, Targets, Least
<1>5. CyclesAreReal'
  BY DEF CycleInv, CyclesOK, CyclesAreReal, IsElementary, After, Targets
<1>6. CyclesOK'
  BY <1>5 DEF CycleInv, CyclesOK, LeftBehind, Depth, NodeAt, Least, After
<1>. QED
  BY <1>1, <1>2, <1>3, <1>4, <1>6 DEF CycleInv

(***************************************************************************)
(* A round starts: the lower bound has passed every start before it.       *)
(***************************************************************************)
LEMMA NextRoundKeeps == CycleInv /\ NextRound => CycleInv'
<1>. SUFFICES ASSUME CycleInv, NextRound PROVE CycleInv'
  OBVIOUS
<1>0. \A n \in Nodes : adjacency[n] \in Seq(Nodes) /\ IsInjective(adjacency[n])
  BY CycleAssumption DEF CycleInv, Types
<1>1. CASE finished' = TRUE /\ UNCHANGED <<nodeToProcess, component, frames, blocked, dependents>>
  BY <1>1, StutterKeeps DEF NextRound, CycleInv, Types
<1>2. ASSUME NEW comp \in NextComponents(nodeToProcess),
             nodeToProcess' = Least(comp) + 1, component' = comp,
             dependents' = [n \in Nodes |-> {}],
             IF maxReached
             THEN frames' = <<>> /\ blocked' = {}
             ELSE frames' = <<Frame(Least(comp))>> /\ blocked' = {Least(comp)}
      PROVE  CycleInv'
  <2>. DEFINE start == Least(comp)
  <2>1. /\ comp \in SUBSET Nodes /\ start \in comp /\ start \in Nodes /\ start \in Nat
        /\ \A n \in comp : start <= n
        /\ nodeToProcess <= start /\ Least(component)' = start
    <3>1. comp \in SUBSET Nodes /\ comp # {} /\ \A n \in comp : nodeToProcess <= n
      BY ComponentsAbove DEF CycleInv, Types
    <3>2. comp \in SUBSET Nat /\ Nodes \subseteq Nat
      BY <3>1 DEF Nodes
    <3>. QED
      BY <1>2, <3>1, <3>2, LeastIsLeast DEF Least
  <2>. HIDE DEF start
  <2>2. UNCHANGED <<adjacency, maxCycles, cycles, maxReached>> /\ finished' \in BOOLEAN
    <3>1. UNCHANGED <<adjacency, maxCycles, cycles, maxReached>>
      BY DEF NextRound
    <3>2. finished' = TRUE \/ finished' = finished
      BY DEF NextRound
    <3>. QED
      BY <3>1, <3>2 DEF CycleInv, Types
  <2>3. Frame(start) \in CallFrame /\ Frame(start).node = start /\ Frame(start).left = adjacency[start]
    BY <1>0, <2>1 DEF Frame, CallFrame
  <2>4. frames' = <<>> \/ frames' = <<Frame(start)>>
    BY <1>2 DEF start
  <2>5. frames' \in Seq(CallFrame) /\ Depth' \in {0, 1}
    <3>1. CASE frames' = <<>>
      BY <3>1 DEF Depth
    <3>2. CASE frames' = <<Frame(start)>>
      <4>. DEFINE frame == Frame(start)
      <4>1. frames' = <<frame>> /\ frame \in CallFrame
        BY <2>3, <3>2
      <4>. HIDE DEF frame
      <4>. QED
        BY <4>1 DEF Depth
    <3>. QED
      BY <2>4, <3>1, <3>2
  <2>6. \A i \in 1..Depth' : /\ i = 1 /\ ~maxReached /\ blocked' = {start}
                             /\ NodeAt(i)' = start /\ frames'[i].left = adjacency[start]
                             /\ Depth' = 1
    <3>1. CASE frames' = <<>>
      BY <3>1 DEF Depth
    <3>2. CASE frames' # <<>>
      <4>. DEFINE frame == Frame(start)
      <4>1. ~maxReached /\ blocked' = {start} /\ frames' = <<frame>>
        BY <1>2, <3>2 DEF start
      <4>2. frame.node = start /\ frame.left = adjacency[start]
        BY <2>3
      <4>. HIDE DEF frame
      <4>3. Len(frames') = 1 /\ frames'[1] = frame
        BY <4>1
      <4>. QED
        BY <4>1, <4>2, <4>3 DEF Depth, NodeAt
    <3>. QED
      BY <3>1, <3>2
  <2>7. Types'
    <3>1. blocked' \in SUBSET Nodes
      BY <1>2, <2>1 DEF start
    <3>2. dependents' \in [Nodes -> SUBSET Nodes]
      BY <1>2
    <3>. QED
      BY <1>2, <2>1, <2>2, <2>5, <3>1, <3>2 DEF CycleInv, Types, start
  <2>8. SearchOK'
    <3>1. frames' # <<>> => 1 \in 1..Depth'
      BY <2>4, <2>5 DEF Depth
    <3>. QED
      BY <1>2, <2>1, <2>6, <3>1 DEF SearchOK, start
  <2>9. Targets(start)' = ToSet(adjacency[start])
    BY <2>2 DEF Targets
  <2>10. PathOK'
    <3>1. 1..(Depth' - 1) = {}
      <4>1. \A d \in {0, 1} : 1..(d - 1) = {}
        OBVIOUS
      <4>. QED
        BY <2>5, <4>1
    <3>2. \A i \in 1..Depth' : /\ NodeAt(i)' \in component' \cap blocked'
                               /\ ToSet(frames'[i].left) \subseteq Targets(NodeAt(i))'
                               /\ IsInjective(frames'[i].left)
      BY <1>0, <1>2, <2>1, <2>6, <2>9 DEF Targets
    <3>. QED
      BY <2>6, <3>1, <3>2 DEF PathOK
  <2>11. StuckOK'
    <3>1. \A m \in Nodes : dependents'[m] = {}
      BY <1>2
    <3>2. \A i \in 1..Depth' : StuckSet(i, {})'
      BY <3>1 DEF StuckSet
    <3>. QED
      BY <3>1, <3>2 DEF StuckOK
  <2>12. WaitOK'
    <3>. SUFFICES ASSUME ~maxReached PROVE WaitOK'
      BY <2>2 DEF WaitOK
    <3>1. Depth' = 1 /\ blocked' = {start} /\ 1 \in 1..Depth'
      BY <1>2 DEF Depth, start
    <3>2. start \in OnPath'
      BY <2>6, <3>1 DEF OnPath, Upto
    <3>3. \A i \in 1..Depth' : TargetsInside(NodeAt(i))' \ ToSet(frames'[i].left) = {}
      BY <2>6, <2>9 DEF TargetsInside, Targets
    <3>. QED
      BY <1>2, <2>1, <3>1, <3>2, <3>3 DEF WaitOK
  <2>13. CyclesOK'
    <3>1. CyclesAreReal'
      BY <2>2 DEF CycleInv, CyclesOK, CyclesAreReal, IsElementary, After, Targets
    <3>2. \A n \in DOMAIN cycles : cycles[n][1] \in Nat /\ cycles[n][1] < nodeToProcess
      <4>1. ASSUME NEW n \in DOMAIN cycles PROVE cycles[n][1] \in Nat
        <5>1. cycles[n] \in Seq(Nodes) /\ cycles[n] # <<>>
          BY DEF CycleInv, Types, CyclesOK, CyclesAreReal, IsElementary
        <5>2. cycles[n][1] \in Nodes
          BY <5>1
        <5>. QED
          BY <5>2 DEF Nodes
      <4>. QED
        BY <4>1 DEF CycleInv, CyclesOK
    <3>3. nodeToProcess \in Nat
      BY DEF CycleInv, Types
    <3>4. \A n \in DOMAIN cycles' : cycles'[n][1] < nodeToProcess' /\ cycles'[n][1] # start
      BY <1>2, <2>1, <2>2, <3>2, <3>3 DEF start
    <3>. QED
      BY <2>1, <3>1, <3>4 DEF CyclesOK
  <2>. QED
    BY <2>7, <2>8, <2>10, <2>11, <2>12, <2>13 DEF CycleInv
<1>. QED
  BY <1>1, <1>2 DEF NextRound

(***************************************************************************)
(* A cycle the path has left stays left: edges to take only get fewer, and *)
(* the one the path goes on by was still to take.                          *)
(***************************************************************************)
LEMMA StaysBehind ==
    ASSUME NEW n \in DOMAIN cycles, cycles'[n] = cycles[n], LeftBehind(n),
           Depth \in Nat, Depth' \in Nat, Depth <= Depth',
           \A i \in 1..Depth : /\ NodeAt(i)' = NodeAt(i)
                               /\ ToSet(frames'[i].left) \subseteq ToSet(frames[i].left),
           Depth < Depth' => frames'[Depth + 1].node \in ToSet(frames[Depth].left)
    PROVE  LeftBehind(n)'
<1>1. PICK k \in 1..Depth : /\ k <= Len(cycles[n])
                            /\ \A i \in 1..k : cycles[n][i] = NodeAt(i)
                            /\ After(cycles[n], k) \notin ToSet(frames[k].left)
                            /\ k < Depth => After(cycles[n], k) # NodeAt(k + 1)
  BY DEF LeftBehind
<1>2. /\ k \in 1..Depth'
      /\ \A i \in 1..k : i \in 1..Depth
      /\ k < Depth => k + 1 \in 1..Depth
      /\ k = Depth \/ k < Depth
  OBVIOUS
<1>3. k < Depth' => After(cycles[n], k) # NodeAt(k + 1)'
  <2>1. CASE k = Depth
    BY <1>1, <2>1 DEF NodeAt
  <2>2. CASE k < Depth
    BY <1>1, <1>2, <2>2
  <2>. QED
    BY <1>2, <2>1, <2>2
<1>4. /\ k <= Len(cycles'[n])
      /\ \A i \in 1..k : cycles'[n][i] = NodeAt(i)'
      /\ After(cycles'[n], k) \notin ToSet(frames'[k].left)
      /\ k < Depth' => After(cycles'[n], k) # NodeAt(k + 1)'
  BY <1>1, <1>2, <1>3
<1>. QED
  BY <1>2, <1>4 DEF LeftBehind, After

(***************************************************************************)
(* The path an edge closes is an elementary cycle, and none found before:  *)
(* those that begin with a part of the path have left it.                  *)
(***************************************************************************)
LEMMA ClosedPathIsNew ==
    ASSUME CycleInv, frames # <<>>, Following, Head(Top.left) = Least(component)
    PROVE  /\ Path \in Seq(Nodes) /\ Len(Path) = Depth /\ DOMAIN Path = 1..Depth
           /\ \A i \in 1..Depth : Path[i] = NodeAt(i)
           /\ component \in SUBSET Nat /\ component # {} /\ NodeAt(1) = Least(component)
           /\ nodeToProcess = Least(component) + 1
           /\ Least(component) \in Nat /\ \A n \in component : Least(component) <= n
           /\ Head(Top.left) \in Targets(NodeAt(Depth))
           /\ Head(Top.left) \notin ToSet(Tail(Top.left))
           /\ Top = frames[Depth]
           /\ IsElementary(Path)
           /\ \A n \in DOMAIN cycles : cycles[n] # Path
<1>1. /\ frames # <<>> /\ Following /\ frames \in Seq(CallFrame)
      /\ Head(Top.left) = Least(component)
  BY DEF CycleInv, Types
<1>3. /\ Depth \in Nat /\ Depth >= 1
      /\ Head(Top.left) \in ToSet(Top.left)
      /\ ToSet(Top.left) = {Head(Top.left)} \cup ToSet(Tail(Top.left))
      /\ IsInjective(Top.left) => Head(Top.left) \notin ToSet(Tail(Top.left))
  BY <1>1, AdvancedFrames
<1>4. /\ Path \in Seq(Nodes) /\ Len(Path) = Depth /\ DOMAIN Path = 1..Depth
      /\ \A i \in 1..Depth : Path[i] = NodeAt(i)
  <2>1. DOMAIN frames = 1..Depth
    BY <1>1 DEF Depth
  <2>2. \A i \in 1..Depth : frames[i] \in CallFrame
    BY <1>1 DEF Depth
  <2>3. \A i \in 1..Depth : frames[i].node \in Nodes
    BY <2>2 DEF CallFrame
  <2>4. Path \in [1..Depth -> Nodes] /\ \A i \in 1..Depth : Path[i] = NodeAt(i)
    BY <2>1, <2>3 DEF Path, NodeAt
  <2>. QED
    BY <1>3, <2>4
<1>5. component \in SUBSET Nat /\ component # {} /\ NodeAt(1) = Least(component)
      /\ nodeToProcess = Least(component) + 1
      /\ Least(component) \in Nat /\ \A n \in component : Least(component) <= n
  <2>1. component \in SUBSET Nat /\ component # {} /\ NodeAt(1) = Least(component)
        /\ nodeToProcess = Least(component) + 1
    BY <1>1 DEF CycleInv, Types, SearchOK, Nodes
  <2>. QED
    BY <2>1, LeastIsLeast
<1>6. /\ Head(Top.left) \in Targets(NodeAt(Depth))
      /\ Head(Top.left) \notin ToSet(Tail(Top.left))
      /\ Top = frames[Depth]
  BY <1>3 DEF CycleInv, PathOK, Top, Depth
<1>7. IsElementary(Path)
  <2>1. Path # <<>> /\ Path[1] = Least(component)
    BY <1>3, <1>4, <1>5
  <2>2. IsInjective(Path)
    BY <1>4 DEF IsInjective, CycleInv, PathOK
  <2>3. \A i \in 1..Depth : Path[1] <= Path[i]
    <3>1. \A i \in 1..Depth : NodeAt(i) \in component
      BY DEF CycleInv, PathOK
    <3>. QED
      BY <1>4, <1>5, <2>1, <3>1
  <2>4. ASSUME NEW i \in 1..Depth PROVE After(Path, i) \in Targets(Path[i])
    <3>1. CASE i = Depth
      BY <1>1, <1>4, <1>6, <2>1, <3>1 DEF After
    <3>2. CASE i # Depth
      <4>1. i \in 1..(Depth - 1) /\ i + 1 \in 1..Depth
        BY <1>3, <3>2
      <4>. QED
        BY <1>4, <3>2, <4>1 DEF After, CycleInv, PathOK
    <3>. QED
      BY <3>1, <3>2
  <2>. QED
    BY <1>4, <2>1, <2>2, <2>3, <2>4 DEF IsElementary
<1>8. ASSUME NEW n \in DOMAIN cycles PROVE cycles[n] # Path
  <2>. SUFFICES ASSUME cycles[n] = Path PROVE FALSE
    OBVIOUS
  <2>1. LeftBehind(n)
    BY <1>1, <1>3, <1>4, <1>5 DEF CycleInv, CyclesOK
  <2>2. PICK k \in 1..Depth : /\ After(Path, k) \notin ToSet(frames[k].left)
                              /\ k < Depth => After(Path, k) # NodeAt(k + 1)
    BY <2>1 DEF LeftBehind
  <2>3. CASE k = Depth
    BY <1>1, <1>3, <1>4, <1>5, <1>6, <2>2, <2>3 DEF After
  <2>4. CASE k # Depth
    <3>1. k < Depth /\ k + 1 \in 1..Depth
      BY <1>3, <2>4
    <3>. QED
      BY <1>4, <2>2, <3>1 DEF After
  <2>. QED
    BY <2>3, <2>4
<1>. QED
  BY <1>4, <1>5, <1>6, <1>7, <1>8

(***************************************************************************)
(* An edge closes a cycle, which has then left the path.                   *)
(***************************************************************************)
LEMMA CloseCycleKeeps == CycleInv /\ CloseCycle => CycleInv'
<1>. SUFFICES ASSUME CycleInv, CloseCycle PROVE CycleInv'
  OBVIOUS
<1>1. /\ frames # <<>> /\ Following /\ frames \in Seq(CallFrame)
      /\ frames' = Advanced(TRUE) /\ Head(Top.left) = Least(component)
      /\ UNCHANGED <<adjacency, maxCycles, nodeToProcess, component, blocked, dependents, finished>>
  BY DEF CloseCycle, CycleInv, Types
<1>2. /\ frames' \in Seq(CallFrame) /\ frames' # <<>>
      /\ Depth' = Depth /\ OnPath' = OnPath
      /\ \A i \in 1..Depth : NodeAt(i)' = NodeAt(i)
      /\ SearchOK' /\ PathOK' /\ StuckOK'
  BY <1>1, AdvanceKeeps
<1>3. /\ Depth \in Nat /\ Depth >= 1
      /\ \A i \in 1..(Depth - 1) : frames'[i] = frames[i]
      /\ frames'[Depth].left = Tail(Top.left)
      /\ frames'[Depth].found = (Top.found \/ TRUE)
      /\ Head(Top.left) \in ToSet(Top.left)
      /\ ToSet(Top.left) = {Head(Top.left)} \cup ToSet(Tail(Top.left))
      /\ IsInjective(Top.left) => Head(Top.left) \notin ToSet(Tail(Top.left))
  BY <1>1, AdvancedFrames
<1>4. /\ Path \in Seq(Nodes) /\ Len(Path) = Depth /\ DOMAIN Path = 1..Depth
      /\ \A i \in 1..Depth : Path[i] = NodeAt(i)
  BY <1>1, ClosedPathIsNew
<1>5. component \in SUBSET Nat /\ component # {} /\ NodeAt(1) = Least(component)
      /\ nodeToProcess = Least(component) + 1
      /\ Least(component) \in Nat /\ \A n \in component : Least(component) <= n
  BY <1>1, ClosedPathIsNew
<1>6. /\ Head(Top.left) \in Targets(NodeAt(Depth))
      /\ Head(Top.left) \notin ToSet(Tail(Top.left))
      /\ Top = frames[Depth]
  BY <1>1, ClosedPathIsNew
<1>7. IsElementary(Path)
  BY <1>1, ClosedPathIsNew
<1>8. \A n \in DOMAIN cycles : cycles[n] # Path
  BY <1>1, ClosedPathIsNew
<1>9. ASSUME NEW n \in DOMAIN cycles, n \in DOMAIN cycles', cycles'[n] = cycles[n], LeftBehind(n)
      PROVE  LeftBehind(n)'
  <2>1. \A i \in 1..Depth : i = Depth \/ i \in 1..(Depth - 1)
    BY <1>3
  <2>2. \A i \in 1..Depth : ToSet(frames'[i].left) \subseteq ToSet(frames[i].left)
    BY <1>3, <1>6, <2>1
  <2>. QED
    BY <1>2, <1>3, <1>9, <2>2, StaysBehind
<1>10. /\ cycles' = cycles \/ cycles' = Append(cycles, Path)
       /\ maxReached' \in BOOLEAN /\ (~maxReached' => ~maxReached)
       /\ cycles \in Seq(Seq(Nodes))
  BY DEF CloseCycle, CycleInv, Types
<1>11. Types'
  <2>1. cycles' \in Seq(Seq(Nodes))
    BY <1>4, <1>10
  <2>. QED
    BY <1>1, <1>2, <1>10, <2>1 DEF CycleInv, Types
<1>12. WaitOK'
  <2>1. frames'[Depth].found
    BY <1>3, Zenon
  <2>2. \A i \in 1..Depth : Depth \in i..Depth
    BY <1>3
  <2>3. \A n \in Nodes : TargetsInside(n)' = TargetsInside(n)
    BY <1>1 DEF TargetsInside, Targets
  <2>. SUFFICES ASSUME ~maxReached PROVE WaitOK'
    BY <1>10 DEF WaitOK
  <2>4. \A n \in blocked : n \in Nodes
    BY DEF CycleInv, Types
  <2>5. /\ blocked' \subseteq component'
        /\ \A n \in blocked' \ OnPath' : \A t \in TargetsInside(n)' :
              t \in blocked' /\ t # Least(component)' /\ n \in dependents'[t]
        /\ \A m \in Nodes \ blocked' : dependents'[m] = {}
    BY <1>1, <1>2, <2>3, <2>4 DEF CycleInv, WaitOK, Least
  <2>. QED
    BY <1>2, <2>1, <2>2, <2>5 DEF WaitOK
<1>13. CyclesOK'
  <2>1. /\ \A n \in DOMAIN cycles : cycles'[n] = cycles[n] /\ n \in DOMAIN cycles'
        /\ \A n \in DOMAIN cycles' : n \notin DOMAIN cycles => cycles'[n] = Path /\ n = Len(cycles) + 1
        /\ DOMAIN cycles = 1..Len(cycles) /\ Len(cycles) \in Nat
    <3>. DEFINE p == Path
    <3>1. p \in Seq(Nodes) /\ (cycles' = cycles \/ cycles' = Append(cycles, p))
      BY <1>4, <1>10
    <3>. HIDE DEF p
    <3>2. DOMAIN cycles = 1..Len(cycles) /\ Len(cycles) \in Nat
      BY <1>10
    <3>3. CASE cycles' = cycles
      BY <3>2, <3>3
    <3>4. CASE cycles' = Append(cycles, p)
      <4>1. /\ Len(cycles') = Len(cycles) + 1 /\ DOMAIN cycles' = 1..(Len(cycles) + 1)
            /\ \A n \in 1..Len(cycles) : cycles'[n] = cycles[n]
            /\ cycles'[Len(cycles) + 1] = p
        BY <1>10, <3>1, <3>4
      <4>2. \A n \in 1..(Len(cycles) + 1) : n \notin 1..Len(cycles) => n = Len(cycles) + 1
        BY <3>2
      <4>3. 1..Len(cycles) \subseteq 1..(Len(cycles) + 1)
        BY <3>2
      <4>. QED
        BY <3>2, <4>1, <4>2, <4>3 DEF p
    <3>. QED
      BY <3>1, <3>3, <3>4
  <2>3. CyclesAreReal'
    <3>1. \A n \in DOMAIN cycles : IsElementary(cycles[n])
      BY DEF CycleInv, CyclesOK, CyclesAreReal
    <3>2. ASSUME NEW n \in DOMAIN cycles'
          PROVE  /\ cycles'[n] # <<>> /\ IsInjective(cycles'[n])
                 /\ \A i \in DOMAIN cycles'[n] : cycles'[n][1] <= cycles'[n][i]
                 /\ \A i \in DOMAIN cycles'[n] :
                       After(cycles'[n], i) \in ToSet(adjacency'[cycles'[n][i]])
      <4>1. PICK c : cycles'[n] = c /\ IsElementary(c)
        BY <1>7, <2>1, <3>1
      <4>. QED
        BY <1>1, <4>1 DEF IsElementary, Targets
    <3>3. IsInjective(cycles')
      <4>1. IsInjective(cycles)
        BY DEF CycleInv, CyclesOK, CyclesAreReal
      <4>. QED
        BY <1>8, <2>1, <4>1 DEF IsInjective
    <3>. QED
      BY <3>2, <3>3 DEF CyclesAreReal, IsElementary, After, Targets
  <2>4. Least(component)' = Least(component) /\ nodeToProcess' = nodeToProcess
    BY <1>1 DEF Least
  <2>5. ASSUME NEW n \in DOMAIN cycles', n \in DOMAIN cycles
        PROVE  /\ cycles'[n][1] < nodeToProcess'
               /\ frames' # <<>> /\ cycles'[n][1] = Least(component)' => LeftBehind(n)'
    BY <1>1, <1>9, <2>1, <2>4, <2>5 DEF CycleInv, CyclesOK
  <2>6. ASSUME NEW n \in DOMAIN cycles', n \notin DOMAIN cycles
        PROVE  cycles'[n][1] < nodeToProcess' /\ LeftBehind(n)'
    <3>1. cycles'[n] = Path
      BY <2>1, <2>6
    <3>2. cycles'[n][1] < nodeToProcess'
      BY <1>3, <1>4, <1>5, <2>4, <3>1
    <3>3. /\ Depth \in 1..Depth' /\ Depth <= Len(Path)
          /\ \A i \in 1..Depth : Path[i] = NodeAt(i)'
          /\ After(Path, Depth) \notin ToSet(frames'[Depth].left)
          /\ ~(Depth < Depth')
      <4>1. After(Path, Depth) = Head(Top.left)
        BY <1>1, <1>3, <1>4, <1>5 DEF After
      <4>2. After(Path, Depth) \notin ToSet(frames'[Depth].left)
        BY <1>3, <1>6, <4>1
      <4>. QED
        BY <1>2, <1>3, <1>4, <4>2
    <3>. QED
      BY <3>1, <3>2, <3>3 DEF LeftBehind, After
  <2>. QED
    BY <2>3, <2>5, <2>6 DEF CyclesOK
<1>. QED
  BY <1>2, <1>11, <1>12, <1>13 DEF CycleInv

(***************************************************************************)
(* An edge is followed: the node entered was not blocked, and so nothing   *)
(* that is blocked waits for it but through the path.                      *)
(***************************************************************************)
LEMMA FollowEdgeKeeps == CycleInv /\ FollowEdge => CycleInv'
<1>. SUFFICES ASSUME CycleInv, FollowEdge PROVE CycleInv'
  OBVIOUS
<1>. DEFINE target == Head(Top.left)
            above == Advanced(FALSE)
<1>0. PICK d : d = Depth + 1
  OBVIOUS
<1>1. /\ frames # <<>> /\ Following /\ frames \in Seq(CallFrame)
      /\ target \in component /\ target # Least(component) /\ target \notin blocked /\ ~maxReached
      /\ frames' = Append(above, Frame(target)) /\ blocked' = blocked \cup {target}
      /\ UNCHANGED <<adjacency, maxCycles, nodeToProcess, component, dependents, cycles,
                     maxReached, finished>>
  BY DEF FollowEdge, CycleInv, Types
<1>2. /\ above \in Seq(CallFrame) /\ Len(above) = Depth
      /\ Depth \in Nat /\ Depth >= 1
      /\ \A i \in 1..Depth : above[i].node = NodeAt(i)
      /\ \A i \in 1..(Depth - 1) : above[i] = frames[i]
      /\ above[Depth].left = Tail(Top.left)
      /\ above[Depth].found = (Top.found \/ FALSE)
      /\ target \in ToSet(Top.left)
      /\ ToSet(Top.left) = {target} \cup ToSet(Tail(Top.left))
      /\ IsInjective(Top.left) => IsInjective(Tail(Top.left)) /\ target \notin ToSet(Tail(Top.left))
  BY <1>1, AdvancedFrames
<1>3. /\ target \in Nodes /\ adjacency[target] \in Seq(Nodes) /\ IsInjective(adjacency[target])
      /\ Targets(target) = ToSet(adjacency[target])
      /\ Frame(target) \in CallFrame /\ Frame(target).node = target
      /\ Frame(target).left = adjacency[target]
  <2>1. target \in Nodes
    BY <1>1 DEF CycleInv, Types
  <2>2. adjacency[target] \in Seq(Nodes) /\ IsInjective(adjacency[target])
    BY <2>1, CycleAssumption DEF CycleInv, Types
  <2>. QED
    BY <2>1, <2>2 DEF Frame, CallFrame, Targets
<1>. HIDE DEF target, above
<1>4. /\ frames' \in Seq(CallFrame) /\ Depth' = d /\ frames' # <<>>
      /\ \A i \in 1..Depth : frames'[i] = above[i]
      /\ frames'[d] = Frame(target)
  <2>. DEFINE frame == Frame(target)
  <2>1. above \in Seq(CallFrame) /\ frame \in CallFrame /\ frames' = Append(above, frame)
    BY <1>1, <1>2, <1>3
  <2>. HIDE DEF frame
  <2>2. /\ frames' \in Seq(CallFrame) /\ Len(frames') = Len(above) + 1 /\ frames' # <<>>
        /\ \A i \in 1..Len(above) : frames'[i] = above[i]
        /\ frames'[Len(above) + 1] = frame
    BY <2>1
  <2>. QED
    BY <1>0, <1>2, <2>2 DEF Depth, frame
<1>5. /\ \A i \in 1..Depth : NodeAt(i)' = NodeAt(i)
      /\ NodeAt(d)' = target
      /\ \A i \in 1..Depth : Upto(i)' = Upto(i)
      /\ OnPath' = OnPath \cup {target}
      /\ OnPath \subseteq blocked /\ OnPath = Upto(Depth)
  <2>1. \A i \in 1..Depth : NodeAt(i)' = NodeAt(i)
    BY <1>2, <1>4 DEF NodeAt
  <2>2. NodeAt(d)' = target
    BY <1>3, <1>4 DEF NodeAt
  <2>3. \A i \in 1..Depth : Upto(i)' = Upto(i)
    <3>1. \A i \in 1..Depth : \A j \in 1..i : j \in 1..Depth
      BY <1>2
    <3>. QED
      BY <2>1, <3>1 DEF Upto
  <2>4. OnPath' = OnPath \cup {target}
    <3>1. /\ \A i \in 1..d : i = d \/ i \in 1..Depth
          /\ d \in 1..d /\ \A i \in 1..Depth : i \in 1..d
      BY <1>0, <1>2
    <3>2. OnPath' = {NodeAt(j)' : j \in 1..d}
      BY <1>4 DEF OnPath, Upto
    <3>. QED
      BY <2>1, <2>2, <3>1, <3>2 DEF OnPath, Upto
  <2>5. OnPath \subseteq blocked
    BY DEF OnPath, Upto, CycleInv, PathOK
  <2>. QED
    BY <2>1, <2>2, <2>3, <2>4, <2>5 DEF OnPath
<1>6. /\ \A i \in 1..d : i = d \/ i \in 1..Depth
      /\ d \in Nat /\ d = Depth + 1 /\ d \notin 1..Depth
      /\ \A i \in 1..Depth : i = Depth \/ i \in 1..(Depth - 1)
      /\ Depth \in 1..Depth /\ 1 \in 1..Depth
      /\ Top = frames[Depth]
  BY <1>0, <1>2 DEF Top, Depth
<1>7. \A i \in 1..Depth : /\ ToSet(frames'[i].left) \subseteq ToSet(frames[i].left)
                          /\ IsInjective(frames'[i].left)
                          /\ ~frames'[i].found => ~frames[i].found
  <2>1. \A i \in 1..Depth : IsInjective(frames[i].left)
    BY DEF CycleInv, PathOK
  <2>2. \A i \in 1..Depth : /\ ToSet(frames'[i].left) \subseteq ToSet(frames[i].left)
                            /\ IsInjective(frames'[i].left)
    BY <1>2, <1>4, <1>6, <2>1
  <2>3. above[Depth].found = Top.found
    <3>1. Top.found \in BOOLEAN
      <4>1. \A i \in 1..Depth : frames[i] \in CallFrame
        BY <1>1 DEF Depth
      <4>2. Top \in CallFrame
        BY <1>6, <4>1
      <4>. QED
        BY <4>2 DEF CallFrame
    <3>2. above[Depth].found = (Top.found \/ FALSE)
      BY <1>2
    <3>. QED
      BY <3>1, <3>2
  <2>4. \A i \in 1..Depth : ~frames'[i].found => ~frames[i].found
    BY <1>2, <1>4, <1>6, <2>3
  <2>. QED
    BY <2>2, <2>4
<1>8. /\ \A n \in Nodes : Targets(n)' = Targets(n) /\ TargetsInside(n)' = TargetsInside(n)
      /\ Least(component)' = Least(component)
  BY <1>1 DEF Targets, TargetsInside, Least
<1>9. Types'
  BY <1>1, <1>3, <1>4 DEF CycleInv, Types
<1>10. SearchOK'
  BY <1>1, <1>5, <1>6, <1>8 DEF CycleInv, SearchOK
<1>11. /\ ToSet(frames[Depth].left) \subseteq Targets(NodeAt(Depth))
       /\ target \in Targets(NodeAt(Depth)) /\ target \notin ToSet(frames'[Depth].left)
       /\ \A i \in 1..Depth : NodeAt(i) \in Nodes
  <2>1. \A i \in 1..Depth : NodeAt(i) \in component /\ NodeAt(i) \in Nodes
    BY DEF CycleInv, PathOK, Types
  <2>2. ToSet(frames[Depth].left) \subseteq Targets(NodeAt(Depth)) /\ IsInjective(frames[Depth].left)
    BY <1>6 DEF CycleInv, PathOK
  <2>. QED
    BY <1>2, <1>4, <1>6, <2>1, <2>2
<1>12. PathOK'
  <2>1. \A i \in 1..d : NodeAt(i)' \in component' \cap blocked'
    <3>1. \A i \in 1..Depth : NodeAt(i) \in component \cap blocked
      BY DEF CycleInv, PathOK
    <3>. QED
      BY <1>1, <1>5, <1>6, <3>1
  <2>2. \A i \in 1..d : /\ ToSet(frames'[i].left) \subseteq Targets(NodeAt(i))'
                                  /\ IsInjective(frames'[i].left)
    <3>1. ASSUME NEW i \in 1..Depth
          PROVE  ToSet(frames'[i].left) \subseteq Targets(NodeAt(i))' /\ IsInjective(frames'[i].left)
      <4>1. Targets(NodeAt(i))' = Targets(NodeAt(i))
        BY <1>1, <1>5 DEF Targets
      <4>. QED
        BY <1>7, <4>1 DEF CycleInv, PathOK
    <3>2. Targets(NodeAt(d))' = ToSet(adjacency[target])
      BY <1>1, <1>5 DEF Targets
    <3>. QED
      BY <1>3, <1>4, <1>6, <3>1, <3>2
  <2>3. \A i \in 1..Depth : /\ NodeAt(i + 1)' \in Targets(NodeAt(i))'
                            /\ NodeAt(i + 1)' \notin ToSet(frames'[i].left)
    <3>1. ASSUME NEW i \in 1..(Depth - 1)
          PROVE  /\ NodeAt(i + 1)' \in Targets(NodeAt(i))'
                 /\ NodeAt(i + 1)' \notin ToSet(frames'[i].left)
      <4>1. i \in 1..Depth /\ i + 1 \in 1..Depth
        BY <1>2
      <4>2. Targets(NodeAt(i))' = Targets(NodeAt(i))
        BY <1>1, <1>5, <4>1 DEF Targets
      <4>. QED
        BY <1>5, <1>7, <4>1, <4>2 DEF CycleInv, PathOK
    <3>2. ASSUME NEW i \in 1..Depth, i = Depth
          PROVE  /\ NodeAt(i + 1)' \in Targets(NodeAt(i))'
                 /\ NodeAt(i + 1)' \notin ToSet(frames'[i].left)
      <4>1. Targets(NodeAt(i))' = Targets(NodeAt(i))
        BY <1>1, <1>5 DEF Targets
      <4>2. i + 1 = d
        BY <1>6, <3>2
      <4>. QED
        BY <1>5, <1>11, <3>2, <4>1, <4>2
    <3>. QED
      BY <1>6, <3>1, <3>2
  <2>4. ASSUME NEW i \in 1..d, NEW j \in 1..d, NodeAt(i)' = NodeAt(j)'
        PROVE  i = j
    <3>1. \A k \in 1..Depth : NodeAt(k)' # target
      BY <1>1, <1>5 DEF CycleInv, PathOK
    <3>2. \A k, l \in 1..Depth : NodeAt(k) = NodeAt(l) => k = l
      BY DEF CycleInv, PathOK
    <3>. QED
      BY <1>5, <1>6, <2>4, <3>1, <3>2
  <2>5. Depth' = d /\ Depth' - 1 = Depth
    BY <1>2, <1>4, <1>6
  <2>. QED
    BY <2>1, <2>2, <2>3, <2>4, <2>5 DEF PathOK
<1>13. StuckOK'
  <2>1. \A m \in Nodes : \A n \in dependents[m] : n \in Nodes /\ m \in TargetsInside(n)
    BY DEF CycleInv, StuckOK, Types
  <2>2. ASSUME NEW i \in 1..Depth PROVE \E T \in SUBSET Nodes : StuckSet(i, T)'
    <3>1. PICK T \in SUBSET Nodes : StuckSet(i, T)
      BY DEF CycleInv, StuckOK
    <3>2. StuckSet(i, T)'
      BY <1>1, <1>5, <1>8, <3>1 DEF StuckSet
    <3>. QED
      BY <3>2
  <2>3. \E T \in SUBSET Nodes : StuckSet(d, T)'
    <3>. DEFINE T == blocked \ OnPath
    <3>1. blocked' \ OnPath' = T /\ Upto(d)' = OnPath' /\ T \in SUBSET Nodes
      BY <1>1, <1>4, <1>5 DEF OnPath, CycleInv, Types
    <3>2. \A n \in T : TargetsInside(n)' \subseteq T \cup Upto(d)'
      BY <1>1, <1>5, <1>8, <3>1 DEF CycleInv, WaitOK
    <3>3. \A m \in Nodes : target \in dependents[m] => m \in T \cup Upto(d)'
      BY <1>1, <1>5, <3>1 DEF CycleInv, WaitOK
    <3>. HIDE DEF T
    <3>. QED
      BY <1>1, <1>5, <3>1, <3>2, <3>3 DEF StuckSet
  <2>. QED
    <3>1. \A m \in Nodes : \A n \in dependents'[m] : m \in TargetsInside(n)'
      BY <1>1, <1>8, <2>1
    <3>2. \A i \in 1..d : \E T \in SUBSET Nodes : StuckSet(i, T)'
      BY <1>6, <2>2, <2>3
    <3>. QED
      BY <1>4, <3>1, <3>2 DEF StuckOK
<1>14. WaitOK'
  <2>1. blocked' \ OnPath' = blocked \ OnPath /\ \A n \in blocked \ OnPath : n \in Nodes
    BY <1>1, <1>5 DEF CycleInv, Types
  <2>2. /\ blocked' \subseteq component'
        /\ \A n \in blocked' \ OnPath' : \A t \in TargetsInside(n)' :
              t \in blocked' /\ t # Least(component)' /\ n \in dependents'[t]
        /\ \A m \in Nodes \ blocked' : dependents'[m] = {}
    BY <1>1, <1>8, <2>1 DEF CycleInv, WaitOK
  <2>3. ASSUME NEW i \in 1..d, \A j \in i..d : ~frames'[j].found,
               NEW t \in TargetsInside(NodeAt(i))' \ ToSet(frames'[i].left)
        PROVE  t \in blocked' /\ t # Least(component)'
    <3>1. CASE i \in 1..Depth
      <4>1. t \in TargetsInside(NodeAt(i))
        <5>1. TargetsInside(NodeAt(i))' = TargetsInside(NodeAt(i))
          BY <1>1, <1>5, <3>1 DEF TargetsInside, Targets
        <5>. QED
          BY <2>3, <5>1
      <4>2. \A j \in i..Depth : ~frames[j].found
        <5>1. \A j \in i..Depth : j \in 1..Depth /\ j \in i..d
          BY <1>2, <1>6, <3>1
        <5>. QED
          BY <1>7, <2>3, <5>1
      <4>3. CASE t \notin ToSet(frames[i].left)
        BY <1>1, <1>8, <3>1, <4>1, <4>2, <4>3 DEF CycleInv, WaitOK
      <4>4. CASE t \in ToSet(frames[i].left)
        <5>1. t = target
          BY <1>2, <1>4, <1>6, <2>3, <3>1, <4>4
        <5>. QED
          BY <1>1, <1>8, <5>1
      <4>. QED
        BY <4>3, <4>4
    <3>2. CASE i = d
      <4>1. TargetsInside(NodeAt(i))' \subseteq ToSet(adjacency[target])
        BY <1>1, <1>5, <3>2 DEF TargetsInside, Targets
      <4>. QED
        BY <1>3, <1>4, <2>3, <3>2, <4>1
    <3>. QED
      BY <1>6, <3>1, <3>2
  <2>. QED
    BY <1>4, <2>2, <2>3 DEF WaitOK
<1>15. CyclesOK'
  <2>1. CyclesAreReal'
    BY <1>1 DEF CycleInv, CyclesOK, CyclesAreReal, IsElementary, After, Targets
  <2>2. ASSUME NEW n \in DOMAIN cycles
        PROVE  /\ cycles'[n][1] < nodeToProcess'
               /\ frames' # <<>> /\ cycles'[n][1] = Least(component)' => LeftBehind(n)'
    <3>1. Depth' \in Nat /\ Depth <= Depth' /\ frames'[Depth + 1].node \in ToSet(frames[Depth].left)
      BY <1>2, <1>4, <1>5, <1>6 DEF NodeAt
    <3>2. LeftBehind(n) => LeftBehind(n)'
      BY <1>1, <1>2, <1>5, <1>7, <3>1, StaysBehind
    <3>. QED
      BY <1>1, <1>8, <3>2 DEF CycleInv, CyclesOK
  <2>. QED
    BY <1>1, <2>1, <2>2 DEF CyclesOK
<1>. QED
  BY <1>9, <1>10, <1>12, <1>13, <1>14, <1>15 DEF CycleInv

(***************************************************************************)
(* An edge is skipped: until the limit is reached its target is blocked    *)
(* and not the start, or outside the component.                            *)
(***************************************************************************)
LEMMA SkipEdgeKeeps == CycleInv /\ SkipEdge => CycleInv'
<1>. SUFFICES ASSUME CycleInv, SkipEdge PROVE CycleInv'
  OBVIOUS
<1>1. /\ frames # <<>> /\ Following /\ frames \in Seq(CallFrame)
      /\ frames' = Advanced(FALSE) /\ Head(Top.left) # Least(component)
      /\ Head(Top.left) \notin component \/ Head(Top.left) \in blocked \/ maxReached
      /\ UNCHANGED <<adjacency, maxCycles, nodeToProcess, component, blocked, dependents, cycles,
                     maxReached, finished>>
  BY DEF SkipEdge, CycleInv, Types
<1>2. /\ frames' \in Seq(CallFrame) /\ frames' # <<>>
      /\ Depth' = Depth /\ OnPath' = OnPath
      /\ \A i \in 1..Depth : NodeAt(i)' = NodeAt(i)
      /\ SearchOK' /\ PathOK' /\ StuckOK'
  BY <1>1, AdvanceKeeps
<1>3. /\ Depth \in Nat /\ Depth >= 1
      /\ \A i \in 1..(Depth - 1) : frames'[i] = frames[i]
      /\ frames'[Depth].left = Tail(Top.left)
      /\ frames'[Depth].found = (Top.found \/ FALSE)
      /\ ToSet(Top.left) = {Head(Top.left)} \cup ToSet(Tail(Top.left))
  BY <1>1, AdvancedFrames
<1>4. /\ \A i \in 1..Depth : i = Depth \/ i \in 1..(Depth - 1)
      /\ Depth \in 1..Depth /\ Top = frames[Depth]
  BY <1>3 DEF Top, Depth
<1>5. \A i \in 1..Depth :
         /\ ToSet(frames'[i].left) \subseteq ToSet(frames[i].left)
         /\ \A t \in ToSet(frames[i].left) \ ToSet(frames'[i].left) : t = Head(Top.left)
  BY <1>3, <1>4
<1>6. \A i \in 1..Depth : ~frames'[i].found => ~frames[i].found
  <2>1. frames'[Depth].found = Top.found
    <3>1. Top.found \in BOOLEAN
      <4>1. \A i \in 1..Depth : frames[i] \in CallFrame
        BY <1>1 DEF Depth
      <4>2. Top \in CallFrame
        BY <1>4, <4>1
      <4>. QED
        BY <4>2 DEF CallFrame
    <3>. QED
      BY <1>3, <3>1
  <2>. QED
    BY <1>3, <1>4, <2>1
<1>7. /\ \A n \in Nodes : TargetsInside(n)' = TargetsInside(n)
      /\ Least(component)' = Least(component)
  BY <1>1 DEF Targets, TargetsInside, Least
<1>8. Types'
  BY <1>1, <1>2 DEF CycleInv, Types
<1>9. WaitOK'
  <2>. SUFFICES ASSUME ~maxReached PROVE WaitOK'
    BY <1>1 DEF WaitOK
  <2>1. \A n \in blocked : n \in Nodes
    BY DEF CycleInv, Types
  <2>2. /\ blocked' \subseteq component'
        /\ \A n \in blocked' \ OnPath' : \A t \in TargetsInside(n)' :
              t \in blocked' /\ t # Least(component)' /\ n \in dependents'[t]
        /\ \A m \in Nodes \ blocked' : dependents'[m] = {}
    BY <1>1, <1>2, <1>7, <2>1 DEF CycleInv, WaitOK
  <2>3. ASSUME NEW i \in 1..Depth, \A j \in i..Depth : ~frames'[j].found,
               NEW t \in TargetsInside(NodeAt(i))' \ ToSet(frames'[i].left)
        PROVE  t \in blocked' /\ t # Least(component)'
    <3>1. t \in TargetsInside(NodeAt(i)) /\ t \in component
      <4>1. TargetsInside(NodeAt(i))' = TargetsInside(NodeAt(i))
        BY <1>1, <1>2 DEF TargetsInside, Targets
      <4>. QED
        BY <2>3, <4>1 DEF TargetsInside
    <3>2. \A j \in i..Depth : ~frames[j].found
      <4>1. \A j \in i..Depth : j \in 1..Depth
        BY <1>3
      <4>. QED
        BY <1>6, <2>3, <4>1
    <3>3. CASE t \notin ToSet(frames[i].left)
      BY <1>1, <1>7, <3>1, <3>2, <3>3 DEF CycleInv, WaitOK
    <3>4. CASE t \in ToSet(frames[i].left)
      BY <1>1, <1>5, <1>7, <2>3, <3>1, <3>4
    <3>. QED
      BY <3>3, <3>4
  <2>. QED
    BY <1>2, <2>2, <2>3 DEF WaitOK
<1>10. CyclesOK'
  <2>1. CyclesAreReal'
    BY <1>1 DEF CycleInv, CyclesOK, CyclesAreReal, IsElementary, After, Targets
  <2>2. ASSUME NEW n \in DOMAIN cycles
        PROVE  /\ cycles'[n][1] < nodeToProcess'
               /\ frames' # <<>> /\ cycles'[n][1] = Least(component)' => LeftBehind(n)'
    <3>1. LeftBehind(n) => LeftBehind(n)'
      <4>1. Depth' \in Nat /\ Depth <= Depth' /\ ~(Depth < Depth')
        BY <1>2, <1>3
      <4>. QED
        BY <1>1, <1>2, <1>3, <1>5, <4>1, StaysBehind
    <3>. QED
      BY <1>1, <1>7, <3>1 DEF CycleInv, CyclesOK
  <2>. QED
    BY <1>1, <2>1, <2>2 DEF CyclesOK
<1>. QED
  BY <1>2, <1>8, <1>9, <1>10 DEF CycleInv

LEMMA InitIsOK == Init => CycleInv
<1>. SUFFICES ASSUME Init PROVE CycleInv
  OBVIOUS
<1>1. Depth = 0 /\ 1..Depth = {} /\ 1..(Depth - 1) = {} /\ OnPath = {}
  BY DEF Init, Depth, OnPath, Upto
<1>2. Types
  <2>1. frames \in Seq(CallFrame)
    BY DEF Init
  <2>2. cycles \in Seq(Seq(Nodes))
    BY DEF Init
  <2>. QED
    BY <2>1, <2>2 DEF Init, Types
<1>3. SearchOK /\ PathOK /\ StuckOK /\ WaitOK
  BY <1>1 DEF Init, SearchOK, PathOK, StuckOK, WaitOK
<1>4. CyclesOK
  BY DEF Init, CyclesOK, CyclesAreReal, IsInjective
<1>. QED
  BY <1>2, <1>3, <1>4 DEF CycleInv

LEMMA CycleInvStep == CycleInv /\ [Next]_vars => CycleInv'
<1>. SUFFICES ASSUME CycleInv, [Next]_vars PROVE CycleInv'
  OBVIOUS
<1>1. CASE UNCHANGED vars
  <2>1. /\ UNCHANGED <<adjacency, maxCycles, nodeToProcess, component, frames, blocked,
                       dependents, cycles, maxReached>>
        /\ finished' \in BOOLEAN
    BY <1>1 DEF vars, CycleInv, Types
  <2>. QED
    BY <2>1, StutterKeeps
<1>. QED
  BY <1>1, NextRoundKeeps, CloseCycleKeeps, FollowEdgeKeeps, SkipEdgeKeeps, ReturnKeeps DEF Next

(***************************************************************************)
(* The invariant of the search.                                            *)
(***************************************************************************)
LEMMA CycleInvHolds == Spec => []CycleInv
<1>1. Init => CycleInv
  BY InitIsOK
<1>2. CycleInv /\ [Next]_vars => CycleInv'
  BY CycleInvStep
<1>. QED
  BY <1>1, <1>2, PTL DEF Spec

-----------------------------------------------------------------------------
(***************************************************************************)
(* What record_cycle records in find_cycles_from, on every graph and under *)
(* every limit: closed walks of the graph that meet no node twice, none of *)
(* them twice, although unblocked nodes are searched again.                *)
(***************************************************************************)
THEOREM RecordedCyclesAreReal == Spec => []CyclesAreReal
<1>1. CycleInv => CyclesAreReal
  BY DEF CycleInv, CyclesOK
<1>. QED
  BY <1>1, CycleInvHolds, PTL

(***************************************************************************)
(* What is_not_blocked may skip, on every graph: until the limit is        *)
(* reached a blocked node off the path leads to the start of the search    *)
(* only across the path, so no cycle that extends the path is lost.        *)
(***************************************************************************)
THEOREM BlockedNodesAreHopeless == Spec => []BlockedIsHopeless
<1>1. CycleInv => BlockedIsHopeless
  <2>. SUFFICES ASSUME CycleInv, frames # <<>>, ~maxReached
                PROVE  /\ ToSet(Path) \subseteq blocked
                       /\ \A n \in (blocked \cap component) \ ToSet(Path) :
                             Least(component) \notin ReachAvoiding(n, ToSet(Path) \ {Least(component)})
    BY DEF BlockedIsHopeless
  <2>1. ToSet(Path) = OnPath /\ OnPath \subseteq blocked /\ Least(component) \in OnPath
    <3>1. /\ DOMAIN frames = 1..Depth /\ 1 \in 1..Depth
      BY DEF CycleInv, Types, Depth
    <3>2. ToSet(Path) = OnPath
      BY <3>1 DEF ToSet, Path, OnPath, Upto, NodeAt
    <3>. QED
      BY <3>1, <3>2 DEF OnPath, Upto, CycleInv, PathOK, SearchOK
  <2>2. ASSUME NEW n \in (blocked \cap component) \ OnPath
        PROVE  Least(component) \notin ReachAvoiding(n, OnPath \ {Least(component)})
    <3>. DEFINE S == blocked \ OnPath
    <3>1. S \in SUBSET component /\ n \in S /\ Least(component) \notin S
      BY <2>1 DEF CycleInv, WaitOK
    <3>2. \A m \in S : (Targets(m) \cap component) \ (OnPath \ {Least(component)}) \subseteq S
      BY DEF CycleInv, WaitOK, TargetsInside
    <3>. HIDE DEF S
    <3>. QED
      BY <3>1, <3>2 DEF ReachAvoiding
  <2>. QED
    BY <2>1, <2>2
<1>. QED
  BY <1>1, CycleInvHolds, PTL

-----------------------------------------------------------------------------
(***************************************************************************)
(* What a node reaches: the least set that holds the node and, with a      *)
(* node, the targets from the lower bound on.                              *)
(***************************************************************************)
LeadsFrom(W, low) == \A n \in W : \A m \in Targets(n) : m >= low => m \in W

LEMMA TargetsAreNodes ==
    ASSUME adjacency \in Graphs, NEW n \in Nodes
    PROVE  Targets(n) \subseteq Nodes /\ adjacency[n] \in Seq(Nodes)
BY CycleAssumption DEF Targets, ToSet

LEMMA ReachIsLeast ==
    ASSUME adjacency \in Graphs, NEW node \in Nodes, NEW low \in Nat
    PROVE  /\ node \in Reach(node, low) /\ Reach(node, low) \subseteq Nodes
           /\ LeadsFrom(Reach(node, low), low)
           /\ \A W \in SUBSET Nodes : node \in W /\ LeadsFrom(W, low) => Reach(node, low) \subseteq W
<1> DEFINE G == {e \in Nodes \X Nodes : e[2] \in Targets(e[1]) /\ e[2] >= low}
           Round(X) == UNION {{n} \cup {m \in Targets(n) : m >= low} : n \in X}
           Is(f) == f = [k \in 0 .. Size |-> IF k = 0 THEN {node} ELSE Round(f[k - 1])]
           Within == CHOOSE f : Is(f)
           A == {node}
<1>1. Reach(node, low) = Within[Size]
  BY DEF Reach
<1>2. Size \in Nat /\ IsFiniteSet(Nodes) /\ Cardinality(Nodes) = Size
  <2>1. Size \in Nat /\ Size > 0
    BY CycleAssumption DEF Nodes
  <2>2. IsFiniteSet(0 .. (Size - 1)) /\ Cardinality(0 .. (Size - 1)) = Size
    BY <2>1, FS_Interval
  <2> QED
    BY <2>1, <2>2 DEF Nodes
<1>3. G \in SUBSET (Nodes \X Nodes) /\ A \in SUBSET Nodes /\ A # {}
  OBVIOUS
<1>4. ASSUME NEW X \in SUBSET Nodes PROVE Round(X) = Follow(G, X) /\ Follow(G, X) \in SUBSET Nodes
  <2>1. \A n \in X : n \in Nodes /\ Targets(n) \subseteq Nodes
    BY TargetsAreNodes
  <2>2. ASSUME NEW m \in Round(X) PROVE m \in Follow(G, X)
    <3>1. PICK n \in X : m = n \/ (m \in Targets(n) /\ m >= low)
      OBVIOUS
    <3>2. CASE m # n
      <4>1. <<n, m>> \in G
        BY <2>1, <3>1, <3>2
      <4> HIDE DEF G
      <4> QED
        BY <4>1 DEF Follow
    <3> HIDE DEF G
    <3> QED
      BY <3>1, <3>2 DEF Follow
  <2>3. Follow(G, X) \subseteq Round(X)
    BY DEF Follow
  <2>4. Follow(G, X) \in SUBSET Nodes
    BY DEF Follow
  <2> QED
    BY <2>2, <2>3, <2>4
<1> HIDE DEF G, Round, A
<1>5. ASSUME NEW f, Is(f) \/ AreRounds(f, Size, G, A)
      PROVE  Is(f) /\ AreRounds(f, Size, G, A)
  <2> DEFINE S == {k \in 0 .. Size : f[k] \in SUBSET Nodes}
  <2>1. f[0] = A /\ 0 \in S
    BY <1>2, <1>3, <1>5 DEF AreRounds, A
  <2>2. ASSUME NEW k \in 1 .. Size, k - 1 \in S PROVE k \in S /\ f[k] = Round(f[k - 1]) /\ f[k] = Follow(G, f[k - 1])
    <3>1. f[k] = Round(f[k - 1]) \/ f[k] = Follow(G, f[k - 1])
      BY <1>2, <1>5 DEF AreRounds
    <3> QED
      BY <1>2, <1>4, <2>2, <3>1
  <2> HIDE DEF S
  <2>3. \A k \in 0 .. Size : k \in S
    BY <1>2, <2>1, <2>2, OneAfterTheOther
  <2>4. \A k \in 1 .. Size : k - 1 \in 0 .. Size
    BY <1>2
  <2>5. \A k \in 0 .. Size : k # 0 => f[k] = Round(f[k - 1]) /\ f[k] = Follow(G, f[k - 1])
    BY <1>2, <2>2, <2>3, <2>4
  <2>6. f = [k \in 0 .. Size |-> f[k]]
    BY <1>5 DEF AreRounds
  <2> QED
    BY <2>1, <2>5, <2>6 DEF AreRounds, A
<1> HIDE DEF Is
<1>6. \E f : Is(f)
  <2>1. \E f : AreRounds(f, Size, G, A)
    BY <1>2, RoundsExist
  <2> QED
    BY <1>5, <2>1
<1>7. Is(Within)
  BY <1>6
<1> HIDE DEF Within
<1>8. AreRounds(Within, Size, G, A)
  BY <1>5, <1>7
<1>9. LET found == Within[Size] IN
      /\ A \subseteq found /\ found \subseteq Nodes
      /\ \A e \in G : e[1] \in found => e[2] \in found
      /\ \A W : A \subseteq W /\ (\A e \in G : e[1] \in W => e[2] \in W) => found \subseteq W
  <2>1. AreRounds(Within, Cardinality(Nodes), G, A)
    BY <1>2, <1>8
  <2>2. LET found == Within[Cardinality(Nodes)] IN
        /\ A \subseteq found /\ found \subseteq Nodes
        /\ \A e \in G : e[1] \in found => e[2] \in found
        /\ \A W : A \subseteq W /\ (\A e \in G : e[1] \in W => e[2] \in W) => found \subseteq W
    <3>1. IsFiniteSet(Nodes) /\ A # {}
      BY <1>2, <1>3
    <3>2. G \in SUBSET (Nodes \X Nodes)
      BY <1>3
    <3>3. A \in SUBSET Nodes
      BY <1>3
    <3> QED
      BY ONLY <2>1, <3>1, <3>2, <3>3, RoundsFindAll
  <2> QED
    BY <1>2, <2>2
<1>10. ASSUME NEW n \in Reach(node, low), NEW m \in Targets(n), m >= low
       PROVE  m \in Reach(node, low)
  <2>1. n \in Nodes /\ m \in Nodes
    BY <1>1, <1>9, TargetsAreNodes
  <2>2. <<n, m>> \in G
    BY <1>10, <2>1 DEF G
  <2> QED
    BY <1>1, <1>9, <2>2
<1>11. ASSUME NEW W \in SUBSET Nodes, node \in W, LeadsFrom(W, low)
       PROVE  Reach(node, low) \subseteq W
  <2>1. \A e \in G : e[1] \in W => e[2] \in W
    BY <1>11 DEF G, LeadsFrom
  <2> QED
    BY <1>1, <1>9, <1>11, <2>1 DEF A
<1> QED
  BY <1>1, <1>9, <1>10, <1>11 DEF A, LeadsFrom

LEMMA ElementaryFacts ==
    ASSUME NEW c \in ElementaryCycles
    PROVE  /\ Len(c) \in Nat /\ Len(c) >= 1 /\ DOMAIN c = 1 .. Len(c)
           /\ c \in [1 .. Len(c) -> Nodes] /\ Len(c) \in 1 .. Size /\ c[1] \in Nodes
           /\ \A i \in 1 .. Len(c) : c[i] \in Nodes /\ c[1] <= c[i] /\ After(c, i) \in Targets(c[i])
           /\ \A i, j \in 1 .. Len(c) : c[i] = c[j] => i = j
<1>1. PICK k \in 1 .. Size : c \in [1 .. k -> Nodes]
  BY DEF ElementaryCycles
<1>2. k \in Nat /\ k >= 1 /\ c \in Seq(Nodes) /\ Len(c) = k
  BY <1>1, CycleAssumption
<1>3. IsElementary(c)
  BY DEF ElementaryCycles
<1> QED
  BY <1>1, <1>2, <1>3 DEF IsElementary, IsInjective

(***************************************************************************)
(* A cycle lies in the component of its lowest node.                       *)
(***************************************************************************)
LEMMA CyclesStayInside ==
    ASSUME adjacency \in Graphs, NEW low \in Nat, NEW n \in low .. (Size - 1),
           NEW c \in ElementaryCycles, c[1] \in ComponentOf(n, low)
    PROVE  ToSet(c) \subseteq ComponentOf(n, low)
<1>1. /\ Len(c) \in Nat /\ Len(c) >= 1 /\ DOMAIN c = 1 .. Len(c)
      /\ \A i \in 1 .. Len(c) : c[i] \in Nodes /\ c[1] <= c[i] /\ After(c, i) \in Targets(c[i])
  BY ElementaryFacts
<1>2. c[1] \in low .. (Size - 1) /\ c[1] \in Reach(n, low) /\ n \in Reach(c[1], low)
  BY DEF ComponentOf
<1>3. \A i \in 1 .. Len(c) : c[i] \in low .. (Size - 1) /\ c[i] \in Nodes
  <2>1. \A i \in 1 .. Len(c) : c[i] \in 0 .. (Size - 1)
    BY <1>1 DEF Nodes
  <2>2. \A i \in 1 .. Len(c) : low <= c[i]
    BY <1>1, <1>2, <2>1
  <2> QED
    BY <1>1, <2>1, <2>2
<1>4. n \in Nodes /\ LeadsFrom(Reach(n, low), low)
  <2>1. n \in Nodes
    BY DEF Nodes
  <2> QED
    BY <2>1, ReachIsLeast
<1>7. \A g \in Nat : \A k \in 1 .. (g - 1) :
         /\ k \in 1 .. g /\ k + 1 \in 1 .. g /\ k # g /\ (k - 1) + 1 = k
         /\ g - k \in 1 .. g /\ g - k # g /\ (g - k) + 1 = g - (k - 1) /\ (g - k) + 1 \in 1 .. g
  OBVIOUS
<1>5. \A i \in 1 .. Len(c) : c[i] \in Reach(n, low)
  <2> DEFINE S == {k \in 0 .. (Len(c) - 1) : c[k + 1] \in Reach(n, low)}
  <2>1. 0 \in S
    BY <1>1, <1>2
  <2>2. ASSUME NEW k \in 1 .. (Len(c) - 1), k - 1 \in S PROVE k \in S
    <3>1. k \in 1 .. Len(c) /\ k + 1 \in 1 .. Len(c) /\ k # Len(c) /\ (k - 1) + 1 = k
      BY ONLY <1>1, <1>7, k \in 1 .. (Len(c) - 1)
    <3>2. c[k] \in Reach(n, low) /\ c[k + 1] \in Targets(c[k])
      BY <1>1, <2>2, <3>1 DEF After
    <3>3. c[k + 1] >= low
      BY <1>3, <3>1
    <3> QED
      BY <1>4, <3>1, <3>2, <3>3 DEF LeadsFrom
  <2>3. Len(c) - 1 \in Nat
    BY <1>1
  <2> HIDE DEF S
  <2>4. \A k \in 0 .. (Len(c) - 1) : k \in S
    BY <2>1, <2>2, <2>3, OneAfterTheOther
  <2>5. \A i \in 1 .. Len(c) : i - 1 \in 0 .. (Len(c) - 1) /\ (i - 1) + 1 = i
    BY <1>1
  <2>6. \A i \in 1 .. Len(c) : c[(i - 1) + 1] \in Reach(n, low)
    BY <2>4, <2>5 DEF S
  <2> QED
    BY <2>5, <2>6
<1>6. \A i \in 1 .. Len(c) : n \in Reach(c[i], low)
  <2>1. ASSUME NEW i \in 1 .. Len(c), n \in Reach(After(c, i), low), After(c, i) \in Nodes, After(c, i) >= low
        PROVE  n \in Reach(c[i], low)
    <3>1. After(c, i) \in Reach(c[i], low) /\ Reach(c[i], low) \in SUBSET Nodes
      BY <1>1, <2>1, ReachIsLeast DEF LeadsFrom
    <3>2. LeadsFrom(Reach(c[i], low), low)
      BY <1>1, ReachIsLeast
    <3>3. Reach(After(c, i), low) \subseteq Reach(c[i], low)
      BY <2>1, <3>1, <3>2, ReachIsLeast
    <3> QED
      BY <2>1, <3>3
  <2> DEFINE S == {k \in 0 .. (Len(c) - 1) : n \in Reach(c[Len(c) - k], low)}
  <2>2. 0 \in S
    <3>1. Len(c) \in 1 .. Len(c) /\ 1 \in 1 .. Len(c) /\ Len(c) - 0 = Len(c) /\ 0 \in 0 .. (Len(c) - 1)
      BY <1>1
    <3>2. After(c, Len(c)) = c[1] /\ c[1] \in Nodes /\ c[1] >= low
      BY <1>2, <1>3, <3>1 DEF After
    <3>3. n \in Reach(c[Len(c)], low)
      BY <1>2, <2>1, <3>1, <3>2
    <3> QED
      BY <3>1, <3>3
  <2>3. ASSUME NEW k \in 1 .. (Len(c) - 1), k - 1 \in S PROVE k \in S
    <3>1. /\ Len(c) - k \in 1 .. Len(c) /\ Len(c) - k # Len(c)
          /\ (Len(c) - k) + 1 = Len(c) - (k - 1) /\ (Len(c) - k) + 1 \in 1 .. Len(c)
      BY ONLY <1>1, <1>7, k \in 1 .. (Len(c) - 1)
    <3>2. After(c, Len(c) - k) = c[Len(c) - (k - 1)]
      BY <3>1 DEF After
    <3>3. n \in Reach(c[Len(c) - (k - 1)], low)
      BY <2>3
    <3>4. c[Len(c) - (k - 1)] \in Nodes /\ c[Len(c) - (k - 1)] >= low
      BY <1>3, <3>1
    <3>5. n \in Reach(c[Len(c) - k], low)
      BY <2>1, <3>1, <3>2, <3>3, <3>4
    <3> QED
      BY <1>1, <3>5
  <2>4. Len(c) - 1 \in Nat
    BY <1>1
  <2> HIDE DEF S
  <2>5. \A k \in 0 .. (Len(c) - 1) : k \in S
    BY <2>2, <2>3, <2>4, OneAfterTheOther
  <2>6. \A i \in 1 .. Len(c) : Len(c) - i \in 0 .. (Len(c) - 1) /\ Len(c) - (Len(c) - i) = i
    BY <1>1
  <2>7. \A i \in 1 .. Len(c) : n \in Reach(c[Len(c) - (Len(c) - i)], low)
    BY <2>5, <2>6 DEF S
  <2> QED
    BY <2>6, <2>7
<1> QED
  BY <1>1, <1>3, <1>5, <1>6 DEF ComponentOf, ToSet

-----------------------------------------------------------------------------
(***************************************************************************)
(* A cycle that is still ahead begins with a part of the path, and the     *)
(* edge it goes on by is left to take.  No step of a search loses one but  *)
(* by recording it.                                                        *)
(***************************************************************************)
BeginsTo(c, k) == k <= Len(c) /\ \A i \in 1 .. k : c[i] = NodeAt(i)

StillAhead(c) ==
    \E k \in 1 .. Depth : BeginsTo(c, k) /\ After(c, k) \in ToSet(frames[k].left)

IsRecorded(c) == c \in ToSet(cycles)

\* The cycles that the search under way is to find.
Sought(c) ==
    c \in ElementaryCycles /\ component # {} /\ c[1] = Least(component) /\ ToSet(c) \subseteq component

(***************************************************************************)
(* What is ahead further up the path is not touched.                       *)
(***************************************************************************)
LEMMA AheadStaysAbove ==
    ASSUME Depth \in Nat, Depth' \in Nat, NEW c, NEW k \in 1 .. Depth, k \in 1 .. Depth',
           \A i \in 1 .. k : NodeAt(i)' = NodeAt(i),
           BeginsTo(c, k), After(c, k) \in ToSet(frames'[k].left)
    PROVE  StillAhead(c)'
<1>1. BeginsTo(c, k)'
  BY DEF BeginsTo
<1> QED
  BY <1>1 DEF StillAhead, After

(***************************************************************************)
(* A cycle that begins with the whole path goes on behind it, or is it.    *)
(***************************************************************************)
LEMMA GoesOnOrCloses ==
    ASSUME CycleInv, frames # <<>>, NEW c, Sought(c), BeginsTo(c, Depth)
    PROVE  /\ Depth \in 1 .. Len(c)
           /\ After(c, Depth) = Least(component) <=> Depth = Len(c)
           /\ Depth # Len(c) => Depth + 1 \in 1 .. Len(c) /\ After(c, Depth) = c[Depth + 1]
           /\ \A i \in 1 .. Len(c) : i > Depth => c[i] \in component /\ c[i] \notin OnPath
<1>1. Depth \in Nat /\ Depth >= 1 /\ Depth <= Len(c)
  BY DEF CycleInv, Types, Depth, BeginsTo
<1>2. /\ Len(c) \in Nat /\ Len(c) >= 1 /\ DOMAIN c = 1 .. Len(c)
      /\ \A i, j \in 1 .. Len(c) : c[i] = c[j] => i = j
  BY ElementaryFacts DEF Sought
<1>3. Depth \in 1 .. Len(c) /\ (Depth # Len(c) => Depth + 1 \in 1 .. Len(c) /\ Depth + 1 # 1)
  <2>1. \A d, l \in Nat : d >= 1 /\ d <= l => d \in 1 .. l /\ (d # l => d + 1 \in 1 .. l /\ d + 1 # 1)
    OBVIOUS
  <2> QED
    BY ONLY <1>1, <1>2, <2>1
<1>4. c[1] = Least(component) /\ 1 \in 1 .. Len(c)
  BY <1>2 DEF Sought
<1>5. After(c, Depth) = Least(component) <=> Depth = Len(c)
  BY <1>2, <1>3, <1>4 DEF After
<1>6. ASSUME NEW i \in 1 .. Len(c), i > Depth PROVE c[i] \in component /\ c[i] \notin OnPath
  <2>1. c[i] \in component
    BY <1>2 DEF Sought, ToSet
  <2>2. ASSUME NEW j \in 1 .. Depth PROVE c[i] # NodeAt(j)
    <3>1. c[j] = NodeAt(j) /\ j \in 1 .. Len(c) /\ i # j
      BY <1>1, <1>2, <1>6 DEF BeginsTo
    <3> QED
      BY <1>2, <3>1
  <2> QED
    BY <2>1, <2>2 DEF OnPath, Upto
<1>7. Depth # Len(c) => After(c, Depth) = c[Depth + 1]
  BY DEF After
<1> QED
  BY <1>3, <1>5, <1>6, <1>7

LEMMA ClosingLosesNone ==
    ASSUME CycleInv, CloseCycle, ~maxReached', NEW c, Sought(c), IsRecorded(c) \/ StillAhead(c)
    PROVE  IsRecorded(c)' \/ StillAhead(c)'
<1>1. /\ frames # <<>> /\ Following /\ frames \in Seq(CallFrame)
      /\ frames' = Advanced(TRUE) /\ Head(Top.left) = Least(component)
      /\ cycles' = Append(cycles, Path) /\ cycles \in Seq(Seq(Nodes))
      /\ UNCHANGED <<adjacency, nodeToProcess, component, blocked, dependents>>
  BY DEF CloseCycle, CycleInv, Types
<1>2. Depth' = Depth /\ \A i \in 1 .. Depth : NodeAt(i)' = NodeAt(i)
  BY <1>1, AdvanceKeeps
<1>3. /\ Depth \in Nat /\ Depth >= 1
      /\ \A i \in 1 .. (Depth - 1) : frames'[i] = frames[i]
      /\ frames'[Depth].left = Tail(Top.left)
      /\ ToSet(Top.left) = {Head(Top.left)} \cup ToSet(Tail(Top.left))
  BY <1>1, AdvancedFrames
<1>4. /\ Path \in Seq(Nodes) /\ Len(Path) = Depth /\ DOMAIN Path = 1 .. Depth
      /\ \A i \in 1 .. Depth : Path[i] = NodeAt(i)
      /\ Top = frames[Depth]
  BY <1>1, ClosedPathIsNew
<1>5. ToSet(cycles') = ToSet(cycles) \cup {Path}
  <2> DEFINE p == Path
  <2>1. p \in Seq(Nodes) /\ cycles' = Append(cycles, p)
    BY <1>1, <1>4
  <2> HIDE DEF p
  <2>2. /\ Len(cycles) \in Nat /\ DOMAIN cycles = 1 .. Len(cycles) /\ DOMAIN cycles' = 1 .. (Len(cycles) + 1)
        /\ \A i \in 1 .. Len(cycles) : cycles'[i] = cycles[i]
        /\ cycles'[Len(cycles) + 1] = p
    BY <1>1, <2>1
  <2>3. \A g \in Nat : \A i \in 1 .. (g + 1) : i \in 1 .. g \/ i = g + 1
    OBVIOUS
  <2>4. \A g \in Nat : g + 1 \in 1 .. (g + 1) /\ \A i \in 1 .. g : i \in 1 .. (g + 1)
    OBVIOUS
  <2>5. \A i \in DOMAIN cycles' : cycles'[i] \in ToSet(cycles) \/ cycles'[i] = p
    BY <2>2, <2>3 DEF ToSet
  <2>6. \A i \in DOMAIN cycles : cycles[i] \in ToSet(cycles')
    BY <2>2, <2>4 DEF ToSet
  <2>7. p \in ToSet(cycles')
    BY <2>2, <2>4 DEF ToSet
  <2>8. ToSet(cycles') = ToSet(cycles) \cup {p}
    BY <2>5, <2>6, <2>7 DEF ToSet
  <2> QED
    BY <2>8 DEF p
<1>6. IsRecorded(c) => IsRecorded(c)'
  BY <1>5 DEF IsRecorded
<1>7. ASSUME NEW k \in 1 .. Depth, BeginsTo(c, k), After(c, k) \in ToSet(frames[k].left)
      PROVE  IsRecorded(c)' \/ StillAhead(c)'
  <2>1. CASE k = Depth /\ After(c, k) = Least(component)
    <3>1. Len(c) = Depth /\ DOMAIN c = 1 .. Depth /\ c \in [1 .. Depth -> Nodes]
      BY <1>1, <1>7, <2>1, GoesOnOrCloses, ElementaryFacts DEF Sought
    <3>2. \A i \in 1 .. Depth : c[i] = Path[i]
      BY <1>4, <1>7, <2>1 DEF BeginsTo
    <3>3. Path \in [1 .. Depth -> Nodes]
      <4> DEFINE p == Path
      <4>1. p \in Seq(Nodes) /\ Len(p) = Depth
        BY <1>4
      <4> HIDE DEF p
      <4>2. p \in [1 .. Depth -> Nodes]
        BY <4>1
      <4> QED
        BY <4>2 DEF p
    <3>4. c = Path
      BY <3>1, <3>2, <3>3
    <3> QED
      BY <1>5, <3>4 DEF IsRecorded
  <2>2. CASE ~(k = Depth /\ After(c, k) = Least(component))
    <3>1. k # Depth => k \in 1 .. (Depth - 1)
      BY <1>3
    <3>2. After(c, k) \in ToSet(frames'[k].left)
      BY <1>1, <1>3, <1>4, <1>7, <2>2, <3>1
    <3>3. \A i \in 1 .. k : NodeAt(i)' = NodeAt(i)
      <4>1. \A i \in 1 .. k : i \in 1 .. Depth
        BY <1>3
      <4> QED
        BY <1>2, <4>1
    <3>4. Depth' \in Nat /\ k \in 1 .. Depth'
      BY <1>2, <1>3
    <3> QED
      BY <1>3, <1>7, <3>2, <3>3, <3>4, AheadStaysAbove
  <2> QED
    BY <2>1, <2>2
<1> QED
  BY <1>6, <1>7 DEF StillAhead

LEMMA FollowingLosesNone ==
    ASSUME CycleInv, FollowEdge, NEW c, Sought(c), IsRecorded(c) \/ StillAhead(c)
    PROVE  IsRecorded(c)' \/ StillAhead(c)'
<1> DEFINE target == Head(Top.left)
           above == Advanced(FALSE)
<1>1. /\ frames # <<>> /\ Following /\ frames \in Seq(CallFrame)
      /\ target \in component /\ target # Least(component) /\ target \in Nodes
      /\ frames' = Append(above, Frame(target))
      /\ UNCHANGED <<adjacency, nodeToProcess, component, cycles>>
  BY DEF FollowEdge, CycleInv, Types
<1>2. /\ above \in Seq(CallFrame) /\ Len(above) = Depth
      /\ Depth \in Nat /\ Depth >= 1
      /\ \A i \in 1 .. Depth : above[i].node = NodeAt(i)
      /\ \A i \in 1 .. (Depth - 1) : above[i] = frames[i]
      /\ above[Depth].left = Tail(Top.left)
      /\ ToSet(Top.left) = {target} \cup ToSet(Tail(Top.left))
  BY <1>1, AdvancedFrames
<1>3. /\ Targets(target) = ToSet(adjacency[target])
      /\ Frame(target) \in CallFrame /\ Frame(target).node = target
      /\ Frame(target).left = adjacency[target]
  <2>1. adjacency[target] \in Seq(Nodes)
    BY <1>1, CycleAssumption DEF CycleInv, Types
  <2> HIDE DEF target
  <2> QED
    BY <1>1, <2>1 DEF Frame, CallFrame, Targets
<1> HIDE DEF target, above
<1>4. /\ frames' \in Seq(CallFrame) /\ Depth' = Depth + 1
      /\ \A i \in 1 .. Depth : frames'[i] = above[i]
      /\ frames'[Depth + 1] = Frame(target)
  <2> DEFINE frame == Frame(target)
  <2>1. above \in Seq(CallFrame) /\ frame \in CallFrame /\ frames' = Append(above, frame)
    BY <1>1, <1>2, <1>3
  <2> HIDE DEF frame
  <2>2. /\ frames' \in Seq(CallFrame) /\ Len(frames') = Len(above) + 1
        /\ \A i \in 1 .. Len(above) : frames'[i] = above[i]
        /\ frames'[Len(above) + 1] = frame
    BY <2>1
  <2> QED
    BY <1>2, <2>2 DEF Depth, frame
<1>0. PICK d : d = Depth + 1
  OBVIOUS
<1>5. (\A i \in 1 .. Depth : NodeAt(i)' = NodeAt(i)) /\ NodeAt(d)' = target
  BY <1>0, <1>2, <1>3, <1>4 DEF NodeAt
<1>6. IsRecorded(c) => IsRecorded(c)'
  BY <1>1 DEF IsRecorded
<1>7. \A g \in Nat : \A k \in 1 .. g :
         /\ k \in 1 .. (g + 1) /\ g + 1 \in 1 .. (g + 1)
         /\ (k # g => k \in 1 .. (g - 1)) /\ \A i \in 1 .. k : i \in 1 .. g
  OBVIOUS
<1>8. ASSUME NEW k \in 1 .. Depth, BeginsTo(c, k), After(c, k) \in ToSet(frames[k].left)
      PROVE  StillAhead(c)'
  <2>1. CASE k = Depth /\ After(c, k) = target
    <3>1. d \in 1 .. Len(c) /\ c[d] = target
      BY <1>0, <1>1, <1>8, <2>1, GoesOnOrCloses
    <3>2. d <= Len(c) /\ \A i \in 1 .. d : i \in 1 .. Depth \/ i = d
      BY <1>0, <1>2, <3>1
    <3>3. BeginsTo(c, d)'
      BY <1>5, <1>8, <2>1, <3>1, <3>2 DEF BeginsTo
    <3>4. After(c, d) \in Targets(c[d])
      BY <3>1, ElementaryFacts DEF Sought
    <3>5. After(c, d) \in ToSet(frames'[d].left)
      BY <1>0, <1>3, <1>4, <3>1, <3>4
    <3>6. d \in 1 .. Depth'
      BY <1>0, <1>2, <1>4, <1>7
    <3> QED
      BY <3>3, <3>5, <3>6 DEF StillAhead, After
  <2>2. CASE ~(k = Depth /\ After(c, k) = target)
    <3>1. k # Depth => k \in 1 .. (Depth - 1)
      BY <1>2, <1>7
    <3>2. Top = frames[Depth]
      BY DEF Top, Depth
    <3>3. After(c, k) \in ToSet(frames'[k].left)
      BY <1>2, <1>4, <1>8, <2>2, <3>1, <3>2
    <3>4. \A i \in 1 .. k : NodeAt(i)' = NodeAt(i)
      BY <1>2, <1>5, <1>7
    <3>5. Depth' \in Nat /\ k \in 1 .. Depth'
      BY <1>2, <1>4, <1>7
    <3> QED
      BY <1>2, <1>8, <3>3, <3>4, <3>5, AheadStaysAbove
  <2> QED
    BY <2>1, <2>2
<1> QED
  BY <1>6, <1>8 DEF StillAhead

(***************************************************************************)
(* A skipped edge: from a blocked node off the path, every edge in the     *)
(* component leads to one that is blocked too, and none to the start; so a *)
(* cycle cannot go on by it and come back.                                 *)
(***************************************************************************)
LEMMA NoCycleThroughBlocked ==
    ASSUME CycleInv, frames # <<>>, ~maxReached, NEW c, Sought(c), BeginsTo(c, Depth),
           After(c, Depth) # Least(component), After(c, Depth) \in blocked
    PROVE  FALSE
<1> DEFINE L == Len(c)
           start == Least(component)
<1>1. /\ Depth \in 1 .. L /\ Depth # L /\ c[Depth + 1] \in blocked
      /\ \A i \in 1 .. L : i > Depth => c[i] \in component /\ c[i] \notin OnPath
  BY GoesOnOrCloses
<1>2. /\ L \in Nat /\ L >= 1 /\ c[1] = start
      /\ \A i \in 1 .. L : c[i] \in Nodes /\ After(c, i) \in Targets(c[i])
  BY ElementaryFacts DEF Sought
<1>3. \A n \in blocked \ OnPath : \A t \in TargetsInside(n) : t \in blocked /\ t # start
  BY DEF CycleInv, WaitOK
<1> HIDE DEF L, start
<1> DEFINE N == L - (Depth + 1)
           S == {k \in 0 .. N : c[(Depth + 1) + k] \in blocked}
<1>4. /\ Depth \in Nat /\ N \in Nat /\ (Depth + 1) + N = L /\ 0 \in 0 .. N /\ (Depth + 1) + 0 = Depth + 1
      /\ \A k \in 0 .. N : (Depth + 1) + k \in 1 .. L /\ (Depth + 1) + k > Depth
  BY <1>1, <1>2
<1>5. \A k \in 1 .. N : k - 1 \in 0 .. N /\ k \in 0 .. N /\ (Depth + 1) + (k - 1) # L
                        /\ ((Depth + 1) + (k - 1)) + 1 = (Depth + 1) + k
  BY <1>4
<1>6. 0 \in S
  BY <1>1, <1>4
<1>7. ASSUME NEW k \in 1 .. N, k - 1 \in S PROVE k \in S
  <2> DEFINE i == (Depth + 1) + (k - 1)
             j == (Depth + 1) + k
  <2>1. i \in 1 .. L /\ i > Depth /\ i # L /\ j = i + 1 /\ j \in 1 .. L /\ j > Depth /\ c[i] \in blocked
    BY <1>4, <1>5, <1>7
  <2> HIDE DEF i, j
  <2>2. After(c, i) = c[j]
    BY <2>1 DEF After, L
  <2>3. c[j] \in TargetsInside(c[i])
    BY <1>1, <1>2, <2>1, <2>2 DEF TargetsInside
  <2>4. c[j] \in blocked
    BY <1>1, <1>3, <2>1, <2>3
  <2> QED
    BY <1>5, <2>4 DEF j
<1> HIDE DEF S
<1>8. \A k \in 0 .. N : k \in S
  BY <1>4, <1>6, <1>7, OneAfterTheOther
<1>9. N \in 0 .. N
  BY <1>4
<1>10. c[L] \in blocked /\ L \in 1 .. L /\ L > Depth
  BY <1>4, <1>8, <1>9 DEF S
<1>11. After(c, L) = start
  BY <1>2 DEF After, L
<1>12. start \in component
  <2>1. 1 \in DOMAIN c /\ ToSet(c) \subseteq component
    BY ElementaryFacts DEF Sought
  <2> QED
    BY <1>2, <2>1 DEF ToSet
<1>13. start \in TargetsInside(c[L])
  BY <1>2, <1>10, <1>11, <1>12 DEF TargetsInside
<1> QED
  BY <1>1, <1>3, <1>10, <1>13

LEMMA SkippingLosesNone ==
    ASSUME CycleInv, SkipEdge, ~maxReached, NEW c, Sought(c), IsRecorded(c) \/ StillAhead(c)
    PROVE  IsRecorded(c)' \/ StillAhead(c)'
<1>1. /\ frames # <<>> /\ Following /\ frames \in Seq(CallFrame)
      /\ frames' = Advanced(FALSE) /\ Head(Top.left) # Least(component)
      /\ Head(Top.left) \notin component \/ Head(Top.left) \in blocked
      /\ UNCHANGED <<adjacency, nodeToProcess, component, blocked, dependents, cycles>>
  BY DEF SkipEdge, CycleInv, Types
<1>2. Depth' = Depth /\ \A i \in 1 .. Depth : NodeAt(i)' = NodeAt(i)
  BY <1>1, AdvanceKeeps
<1>3. /\ Depth \in Nat /\ Depth >= 1
      /\ \A i \in 1 .. (Depth - 1) : frames'[i] = frames[i]
      /\ frames'[Depth].left = Tail(Top.left)
      /\ ToSet(Top.left) = {Head(Top.left)} \cup ToSet(Tail(Top.left))
      /\ Top = frames[Depth]
  BY <1>1, AdvancedFrames DEF Top, Depth
<1>4. IsRecorded(c) => IsRecorded(c)'
  BY <1>1 DEF IsRecorded
<1>5. ASSUME NEW k \in 1 .. Depth, BeginsTo(c, k), After(c, k) \in ToSet(frames[k].left)
      PROVE  StillAhead(c)'
  <2>1. ASSUME k = Depth, After(c, k) = Head(Top.left) PROVE FALSE
    <3>1. Depth + 1 \in 1 .. Len(c) /\ After(c, Depth) = c[Depth + 1]
      BY <1>1, <1>5, <2>1, GoesOnOrCloses
    <3>2. After(c, Depth) \in component
      BY <3>1, ElementaryFacts DEF Sought, ToSet
    <3> QED
      BY <1>1, <1>5, <2>1, <3>2, NoCycleThroughBlocked
  <2>2. k # Depth => k \in 1 .. (Depth - 1)
    BY <1>3
  <2>3. After(c, k) \in ToSet(frames'[k].left)
    BY <1>3, <1>5, <2>1, <2>2
  <2>4. \A i \in 1 .. k : i \in 1 .. Depth
    BY <1>3
  <2>5. Depth' \in Nat /\ k \in 1 .. Depth'
    BY <1>2, <1>3
  <2> QED
    BY <1>2, <1>3, <1>5, <2>3, <2>4, <2>5, AheadStaysAbove
<1> QED
  BY <1>4, <1>5 DEF StillAhead

LEMMA ReturningLosesNone ==
    ASSUME CycleInv, Return, NEW c, Sought(c), IsRecorded(c) \/ StillAhead(c)
    PROVE  IsRecorded(c)' \/ StillAhead(c)'
<1>1. Depth \in Nat /\ Depth >= 1 /\ Top = frames[Depth] /\ Top.left = <<>> /\ cycles' = cycles
  BY DEF Return, Following, CycleInv, Types, Depth, Top
<1>2. /\ Depth' \in Nat /\ Depth' = Depth - 1
      /\ \A i \in 1 .. (Depth - 1) : NodeAt(i)' = NodeAt(i) /\ frames'[i].left = frames[i].left
  <2>1. \A i \in 1 .. Depth : frames[i] \in CallFrame
    BY DEF CycleInv, Types, Depth
  <2>2. CASE Depth = 1
    <3>1. frames' = <<>>
      BY <2>2 DEF Return, Depth
    <3>2. 1 .. (Depth - 1) = {}
      BY <2>2
    <3> QED
      BY <2>2, <3>1, <3>2 DEF Depth
  <2>3. CASE Depth # 1
    <3> DEFINE popped == [i \in 1 .. (Depth - 1) |->
                            IF i = Depth - 1 THEN [frames[i] EXCEPT !.found = @ \/ Top.found]
                            ELSE frames[i]]
    <3>1. frames' = popped
      BY <1>1, <2>3 DEF Return, Depth
    <3>2. \A i \in 1 .. (Depth - 1) : popped[i].node = frames[i].node /\ popped[i].left = frames[i].left
      BY <1>1, <2>1 DEF CallFrame
    <3>3. DOMAIN popped = 1 .. (Depth - 1)
      OBVIOUS
    <3>4. frames' \in Seq(CallFrame)
      BY ReturnKeeps DEF CycleInv, Types
    <3> HIDE DEF popped
    <3>5. Len(frames') \in Nat /\ 1 .. Len(frames') = 1 .. (Depth - 1)
      BY <3>1, <3>3, <3>4
    <3>6. \A g, h \in Nat : 1 .. g = 1 .. h => g = h
      <4> SUFFICES ASSUME NEW g \in Nat, NEW h \in Nat, 1 .. g = 1 .. h PROVE g = h
        OBVIOUS
      <4>1. g \in 1 .. h \/ g = 0
        OBVIOUS
      <4>2. h \in 1 .. g \/ h = 0
        OBVIOUS
      <4> QED
        BY <4>1, <4>2
    <3>7. Depth - 1 \in Nat
      BY <1>1
    <3>8. Len(frames') = Depth - 1
      BY ONLY <3>5, <3>6, <3>7
    <3> QED
      BY <3>1, <3>2, <3>7, <3>8 DEF Depth, NodeAt
  <2> QED
    BY <2>2, <2>3
<1>3. IsRecorded(c) => IsRecorded(c)'
  BY <1>1 DEF IsRecorded
<1>4. ASSUME NEW k \in 1 .. Depth, BeginsTo(c, k), After(c, k) \in ToSet(frames[k].left)
      PROVE  StillAhead(c)'
  <2>1. k # Depth
    <3>1. DOMAIN <<>> = {}
      OBVIOUS
    <3> QED
      BY <1>1, <1>4, <3>1 DEF ToSet
  <2>2. k \in 1 .. (Depth - 1) /\ \A i \in 1 .. k : i \in 1 .. (Depth - 1)
    BY <1>1, <2>1
  <2>3. After(c, k) \in ToSet(frames'[k].left) /\ \A i \in 1 .. k : NodeAt(i)' = NodeAt(i)
    BY <1>2, <1>4, <2>2
  <2>4. k \in 1 .. Depth'
    BY <1>2, <2>2
  <2> QED
    BY <1>1, <1>2, <1>4, <2>3, <2>4, AheadStaysAbove
<1> QED
  BY <1>3, <1>4 DEF StillAhead

LEMMA SameCycles ==
    ASSUME adjacency' = adjacency
    PROVE  ElementaryCycles' = ElementaryCycles
BY DEF ElementaryCycles, IsElementary, Targets, After

(***************************************************************************)
(* What a search has not recorded is ahead of it.                          *)
(***************************************************************************)
CyclesAreInside ==
    component # {} => \A c \in ElementaryCycles : c[1] = Least(component) => ToSet(c) \subseteq component

NoneIsLost == ~maxReached => \A c : Sought(c) => IsRecorded(c) \/ StillAhead(c)

LEMMA NextComponentFacts ==
    ASSUME NEW low \in Nat, NEW comp \in NextComponents(low)
    PROVE  /\ comp \in SUBSET Nodes /\ comp \in SUBSET Nat /\ comp # {}
           /\ Least(comp) \in comp /\ Least(comp) \in Nodes
           /\ \E n \in low .. (Size - 1) : comp = ComponentOf(n, low)
<1>1. comp \in SUBSET Nodes /\ comp # {}
  BY ComponentsAbove
<1>2. comp \in SUBSET Nat
  BY <1>1 DEF Nodes
<1>3. comp \in Components(low)
  BY DEF NextComponents, Lowest, FirstTree
<1>4. Least(comp) \in comp
  BY <1>1, <1>2, LeastIsLeast
<1> QED
  BY <1>1, <1>2, <1>3, <1>4 DEF Components

LEMMA NextRoundIsInside == CycleInv /\ CyclesAreInside /\ NoneIsLost /\ NextRound
                              => CyclesAreInside' /\ NoneIsLost'
<1> SUFFICES ASSUME CycleInv, CyclesAreInside, NoneIsLost, NextRound
             PROVE  CyclesAreInside' /\ NoneIsLost'
  OBVIOUS
<1>1. /\ adjacency' = adjacency /\ cycles' = cycles /\ maxReached' = maxReached
      /\ ElementaryCycles' = ElementaryCycles /\ adjacency \in Graphs /\ nodeToProcess \in Nat
  BY SameCycles DEF NextRound, CycleInv, Types
<1>2. CASE component' = component /\ frames' = frames
  <2>1. CyclesAreInside'
    BY <1>1, <1>2 DEF CyclesAreInside, Least
  <2>2. \A c : Sought(c)' => Sought(c)
    BY <1>1, <1>2 DEF Sought, Least
  <2>3. \A c : StillAhead(c) => StillAhead(c)'
    BY <1>2 DEF StillAhead, BeginsTo, NodeAt, Depth, After
  <2> QED
    BY <1>1, <2>1, <2>2, <2>3 DEF NoneIsLost, IsRecorded
<1>3. ASSUME NEW comp \in NextComponents(nodeToProcess), component' = comp,
             ~maxReached => frames' = <<Frame(Least(comp))>>
      PROVE  CyclesAreInside' /\ NoneIsLost'
  <2>1. PICK n \in nodeToProcess .. (Size - 1) : comp = ComponentOf(n, nodeToProcess)
    BY <1>1, NextComponentFacts
  <2>2. Least(comp) \in comp /\ Least(comp) \in Nodes
    BY <1>1, NextComponentFacts
  <2>3. Least(component') = Least(comp)
    BY <1>3
  <2>4. CyclesAreInside'
    <3>1. \A c \in ElementaryCycles : c[1] = Least(comp) => ToSet(c) \subseteq comp
      BY <1>1, <2>1, <2>2, CyclesStayInside
    <3> QED
      BY <1>1, <1>3, <3>1 DEF CyclesAreInside, Least
  <2>5. ASSUME ~maxReached, NEW c, Sought(c)' PROVE StillAhead(c)'
    <3> DEFINE start == Least(comp)
               frame == Frame(start)
    <3>1. c \in ElementaryCycles /\ c[1] = start
      BY <1>1, <1>3, <2>5 DEF Sought, Least
    <3>2. /\ Len(c) \in Nat /\ Len(c) >= 1
          /\ \A i \in 1 .. Len(c) : After(c, i) \in Targets(c[i])
      BY <3>1, ElementaryFacts
    <3>3. frame.node = start /\ Targets(start) = ToSet(frame.left)
      BY DEF Frame, Targets
    <3> HIDE DEF frame, start
    <3>4. frames' = <<frame>>
      BY <1>3, <2>5 DEF frame, start
    <3>5. Depth' = 1 /\ frames'[1] = frame /\ 1 \in 1 .. Depth'
      BY <3>4 DEF Depth
    <3>6. BeginsTo(c, 1)'
      BY <3>1, <3>2, <3>3, <3>5 DEF BeginsTo, NodeAt
    <3>7. After(c, 1) \in ToSet(frames'[1].left)
      BY <3>1, <3>2, <3>3, <3>5
    <3> QED
      BY <3>5, <3>6, <3>7 DEF StillAhead, After
  <2> QED
    BY <1>1, <2>4, <2>5 DEF NoneIsLost
<1> QED
  BY <1>2, <1>3 DEF NextRound

LEMMA SearchStepIsInside ==
    CycleInv /\ CyclesAreInside /\ NoneIsLost /\ (CloseCycle \/ FollowEdge \/ SkipEdge \/ Return)
        => CyclesAreInside' /\ NoneIsLost'
<1> SUFFICES ASSUME CycleInv, CyclesAreInside, NoneIsLost, CloseCycle \/ FollowEdge \/ SkipEdge \/ Return
             PROVE  CyclesAreInside' /\ NoneIsLost'
  OBVIOUS
<1>1. adjacency' = adjacency /\ component' = component /\ (maxReached => maxReached')
  <2>1. CASE CloseCycle
    BY <2>1 DEF CloseCycle
  <2>2. CASE FollowEdge
    BY <2>2 DEF FollowEdge
  <2>3. CASE SkipEdge
    BY <2>3 DEF SkipEdge
  <2>4. CASE Return
    BY <2>4 DEF Return
  <2> QED
    BY <2>1, <2>2, <2>3, <2>4
<1>2. ElementaryCycles' = ElementaryCycles /\ Least(component)' = Least(component)
  BY <1>1, SameCycles DEF Least
<1>3. CyclesAreInside'
  BY <1>1, <1>2 DEF CyclesAreInside
<1>4. \A c : Sought(c)' => Sought(c)
  BY <1>1, <1>2 DEF Sought
<1>5. ASSUME ~maxReached', NEW c, Sought(c) PROVE IsRecorded(c)' \/ StillAhead(c)'
  <2>1. ~maxReached /\ (IsRecorded(c) \/ StillAhead(c))
    BY <1>1, <1>5 DEF NoneIsLost
  <2> QED
    BY <1>5, <2>1, ClosingLosesNone, FollowingLosesNone, SkippingLosesNone, ReturningLosesNone
<1> QED
  BY <1>3, <1>4, <1>5 DEF NoneIsLost

CompleteInv == CycleInv /\ CyclesAreInside /\ NoneIsLost

LEMMA CompleteInit == Init => CompleteInv
BY InitIsOK DEF Init, CompleteInv, CyclesAreInside, NoneIsLost, Sought

LEMMA CompleteStep == CompleteInv /\ [Next]_vars => CompleteInv'
<1> SUFFICES ASSUME CompleteInv, [Next]_vars PROVE CompleteInv'
  OBVIOUS
<1>1. CASE UNCHANGED vars
  <2>1. CycleInv'
    BY <1>1, StutterKeeps DEF vars, CompleteInv, CycleInv, Types
  <2>2. CyclesAreInside'
    BY <1>1, SameCycles DEF vars, CompleteInv, CyclesAreInside, Least
  <2>3. \A c : /\ Sought(c)' => Sought(c)
               /\ StillAhead(c) => StillAhead(c)'
               /\ IsRecorded(c) => IsRecorded(c)'
    BY <1>1, SameCycles DEF vars, Sought, Least, StillAhead, BeginsTo, NodeAt, Depth, After, IsRecorded
  <2>4. maxReached' = maxReached
    BY <1>1 DEF vars
  <2>5. NoneIsLost'
    BY <2>3, <2>4 DEF CompleteInv, NoneIsLost
  <2> QED
    BY <2>1, <2>2, <2>5 DEF CompleteInv
<1>2. CASE NextRound
  BY <1>2, NextRoundKeeps, NextRoundIsInside DEF CompleteInv
<1>3. CASE CloseCycle \/ FollowEdge \/ SkipEdge \/ Return
  BY <1>3, CloseCycleKeeps, FollowEdgeKeeps, SkipEdgeKeeps, ReturnKeeps, SearchStepIsInside DEF CompleteInv
<1> QED
  BY <1>1, <1>2, <1>3 DEF Next

(***************************************************************************)
(* The frames of one search of find_cycles_from are all gone and the limit *)
(* was not reached: every elementary cycle of the graph whose lowest node  *)
(* the search started from is recorded, whichever nodes were blocked and   *)
(* unblocked on the way.                                                   *)
(***************************************************************************)
SearchIsComplete ==
    frames = <<>> /\ component # {} /\ ~maxReached =>
        \A c \in ElementaryCycles : c[1] = Least(component) => c \in ToSet(cycles)

THEOREM EverySearchIsComplete == Spec => []SearchIsComplete
<1>1. Init => CompleteInv
  BY CompleteInit
<1>2. CompleteInv => SearchIsComplete
  <2> SUFFICES ASSUME CompleteInv, frames = <<>>, component # {}, ~maxReached,
                      NEW c \in ElementaryCycles, c[1] = Least(component)
               PROVE  c \in ToSet(cycles)
    BY DEF SearchIsComplete
  <2>1. Sought(c)
    BY DEF Sought, CompleteInv, CyclesAreInside
  <2>2. ~StillAhead(c)
    BY DEF StillAhead, Depth
  <2> QED
    BY <2>1, <2>2 DEF CompleteInv, NoneIsLost, IsRecorded
<1> QED
  BY <1>1, <1>2, CompleteStep, PTL DEF Spec

-----------------------------------------------------------------------------
(***************************************************************************)
(* The whole result.  The finder is to find the component with the lowest  *)
(* node, as its name says; it does on every graph of up to four nodes, and *)
(* where one tree reaches all components.  Its callers have no self-loops. *)
(***************************************************************************)
FindsTheLowest == \A low \in 0 .. Size : NextComponents(low) \subseteq Lowest(Components(low))

HasNoLoops == \A n \in Nodes : n \notin Targets(n)

LEMMA CyclesHaveComponents ==
    ASSUME adjacency \in Graphs, HasNoLoops, NEW low \in Nat,
           NEW c \in ElementaryCycles, low <= c[1]
    PROVE  /\ ComponentOf(c[1], low) \in Components(low)
           /\ c[1] \in ComponentOf(c[1], low)
<1> DEFINE comp == ComponentOf(c[1], low)
<1>1. /\ Len(c) \in Nat /\ Len(c) >= 1 /\ DOMAIN c = 1 .. Len(c) /\ c[1] \in Nodes
      /\ \A i \in 1 .. Len(c) : After(c, i) \in Targets(c[i])
      /\ \A i, j \in 1 .. Len(c) : c[i] = c[j] => i = j
  BY ElementaryFacts
<1>2. c[1] \in low .. (Size - 1)
  <2>1. c[1] \in 0 .. (Size - 1)
    BY <1>1 DEF Nodes
  <2> QED
    BY <2>1
<1>3. c[1] \in comp
  BY <1>1, <1>2, ReachIsLeast DEF ComponentOf
<1>4. ToSet(c) \subseteq comp
  BY <1>2, <1>3, CyclesStayInside
<1>5. 2 \in 1 .. Len(c) /\ c[2] # c[1]
  <2>1. Len(c) # 1
    <3>1. Len(c) = 1 => After(c, 1) = c[1]
      BY DEF After
    <3>2. 1 \in 1 .. Len(c)
      BY <1>1
    <3> QED
      BY <1>1, <3>1, <3>2 DEF HasNoLoops
  <2>2. 2 \in 1 .. Len(c) /\ 1 \in 1 .. Len(c)
    BY <1>1, <2>1
  <2> QED
    BY <1>1, <2>2
<1>6. c[2] \in comp
  BY <1>1, <1>4, <1>5 DEF ToSet
<1>7. comp \in {ComponentOf(n, low) : n \in low .. (Size - 1)}
  BY <1>2
<1>8. IsFiniteSet(comp)
  <2>1. low \in Int /\ Size - 1 \in Int
    BY CycleAssumption
  <2>2. IsFiniteSet(low .. (Size - 1))
    BY <2>1, FS_Interval
  <2>3. comp \subseteq low .. (Size - 1)
    BY DEF ComponentOf
  <2> QED
    BY <2>2, <2>3, FS_Subset
<1> HIDE DEF comp
<1>9. Cardinality(comp) > 1
  <2> DEFINE a == c[1]
             b == c[2]
  <2>1. a \in comp /\ b \in comp /\ a # b
    BY <1>3, <1>5, <1>6
  <2> HIDE DEF a, b
  <2>2. IsFiniteSet(comp \ {a}) /\ Cardinality(comp \ {a}) = Cardinality(comp) - 1
    BY <1>8, <2>1, FS_RemoveElement
  <2>3. Cardinality(comp \ {a}) # 0
    BY <2>1, <2>2, FS_EmptySet
  <2>4. Cardinality(comp) \in Nat /\ Cardinality(comp \ {a}) \in Nat
    BY <1>8, <2>2, FS_CardinalityType
  <2> QED
    BY <2>2, <2>3, <2>4
<1> QED
  BY <1>3, <1>7, <1>9 DEF comp, Components

(***************************************************************************)
(* The finder finds one as long as there is any.                           *)
(***************************************************************************)
LEMMA FinderFindsOne ==
    ASSUME adjacency \in Graphs, NEW low \in Nat, Components(low) # {}
    PROVE  NextComponents(low) # {}
<1> DEFINE comps == Components(low)
           Reached(root) == \E d \in comps : d \subseteq Reach(root, low)
           Roots == {root \in low .. (Size - 1) : Reached(root)}
           found == FirstTree(comps, low)
<1>1. \A d \in comps : /\ d # {} /\ d \in SUBSET Nat
                       /\ \E n \in low .. (Size - 1) : d \subseteq Reach(n, low)
  <2> TAKE d \in comps
  <2>1. PICK n \in low .. (Size - 1) : d = ComponentOf(n, low) /\ Cardinality(d) > 1
    BY DEF Components
  <2>2. d # {}
    BY <2>1, FS_EmptySet
  <2> QED
    BY <2>1, <2>2 DEF ComponentOf
<1>2. Roots # {} /\ Roots \in SUBSET Nat
  BY <1>1
<1> HIDE DEF comps
<1>3. PICK root \in Roots : \A k \in Roots : root <= k
  <2> HIDE DEF Roots
  <2> QED
    BY <1>2, LeastExists
<1>4. root \in low .. (Size - 1) /\ root \in Nat /\ Reached(root)
  BY <1>2, <1>3
<1>5. \A k \in low .. (root - 1) : ~Reached(k)
  <2> SUFFICES ASSUME NEW k \in low .. (root - 1), Reached(k) PROVE FALSE
    OBVIOUS
  <2>1. \A s \in Nat : root \in low .. (s - 1) => k \in low .. (s - 1) /\ ~(root <= k)
    BY <1>4
  <2>2. k \in low .. (Size - 1) /\ ~(root <= k)
    BY <1>4, <2>1, CycleAssumption
  <2> QED
    BY <1>3, <2>2
<1>6. PICK d \in comps : d \subseteq Reach(root, low)
  BY <1>4
<1>7. d \in found
  BY <1>4, <1>5, <1>6 DEF FirstTree
<1>8. found \subseteq comps
  BY DEF FirstTree
<1> HIDE DEF found
<1> DEFINE Leasts == {Least(e) : e \in found}
<1>9. \A e \in found : Least(e) \in Nat
  BY <1>1, <1>8, LeastIsLeast DEF comps
<1>10. Leasts \in SUBSET Nat /\ Leasts # {}
  BY <1>7, <1>9
<1>11. PICK l \in Leasts : \A k \in Leasts : l <= k
  <2> HIDE DEF Leasts
  <2> QED
    BY <1>10, LeastExists
<1>12. PICK e \in found : l = Least(e)
  BY <1>11
<1>13. e \in Lowest(found)
  BY <1>11, <1>12 DEF Lowest
<1>14. NextComponents(low) = Lowest(found)
  BY DEF NextComponents, found, comps
<1> QED
  BY <1>13, <1>14

-----------------------------------------------------------------------------
(***************************************************************************)
(* The limit.  A graph has finitely many elementary cycles.                *)
(***************************************************************************)
LEMMA CyclesAreFinite == IsFiniteSet(ElementaryCycles) /\ Cardinality(ElementaryCycles) \in Nat
<1> DEFINE Pairs == (1 .. Size) \X Nodes
           Graph(c) == {<<i, c[i]>> : i \in 1 .. Len(c)}
           graph == [c \in ElementaryCycles |-> Graph(c)]
<1>1. IsFiniteSet(SUBSET Pairs)
  <2>1. Size \in Int /\ Size - 1 \in Int /\ 0 \in Int /\ 1 \in Int
    BY CycleAssumption
  <2>2. IsFiniteSet(1 .. Size) /\ IsFiniteSet(Nodes)
    BY <2>1, FS_Interval DEF Nodes
  <2>3. IsFiniteSet(Pairs)
    BY <2>2, FS_Product
  <2> HIDE DEF Pairs
  <2> QED
    BY <2>3, FS_SUBSET
<1>2. ASSUME NEW c \in ElementaryCycles
      PROVE  /\ Graph(c) \in SUBSET Pairs
             /\ Len(c) \in Nat /\ Len(c) >= 1 /\ c \in [1 .. Len(c) -> Nodes]
             /\ \A i, v : <<i, v>> \in Graph(c) <=> i \in 1 .. Len(c) /\ v = c[i]
  <2>1. /\ Len(c) \in Nat /\ Len(c) >= 1 /\ c \in [1 .. Len(c) -> Nodes] /\ Len(c) \in 1 .. Size
        /\ \A i \in 1 .. Len(c) : c[i] \in Nodes
    BY ElementaryFacts
  <2>2. \A i \in 1 .. Len(c) : i \in 1 .. Size
    BY <2>1, CycleAssumption
  <2> QED
    BY <2>1, <2>2
<1>3. ASSUME NEW c \in ElementaryCycles, NEW d \in ElementaryCycles, Graph(c) = Graph(d)
      PROVE  c = d
  <2>1. \A i : i \in 1 .. Len(c) <=> i \in 1 .. Len(d)
    BY <1>2, <1>3
  <2>2. \A i \in 1 .. Len(c) : c[i] = d[i]
    BY <1>2, <1>3
  <2>3. 1 .. Len(c) = 1 .. Len(d)
    BY <2>1
  <2>4. c \in [1 .. Len(c) -> Nodes] /\ d \in [1 .. Len(c) -> Nodes]
    BY <1>2, <2>3
  <2> QED
    BY <2>2, <2>4
<1> HIDE DEF Graph, Pairs
<1>4. graph \in Injection(ElementaryCycles, SUBSET Pairs)
  BY <1>2, <1>3 DEF Injection, IsInjective
<1>5. IsFiniteSet(ElementaryCycles)
  <2> HIDE DEF graph
  <2> QED
    BY <1>1, <1>4, FS_Injection
<1> QED
  BY <1>5, FS_CardinalityType

LEMMA CountingNumbers ==
    ASSUME NEW n \in Nat
    PROVE  IsFiniteSet(1 .. n) /\ Cardinality(1 .. n) = n
<1>1. n \in Int /\ 1 \in Int /\ (IF 1 > n THEN 0 ELSE n - 1 + 1) = n
  OBVIOUS
<1> QED
  BY <1>1, FS_Interval

(***************************************************************************)
(* No elementary cycle is longer than there are nodes.                     *)
(***************************************************************************)
LEMMA ElementaryAreListed ==
    ASSUME NEW c \in Seq(Nodes), IsElementary(c)
    PROVE  c \in ElementaryCycles
<1>2. /\ Len(c) \in Nat /\ DOMAIN c = 1 .. Len(c) /\ c \in [1 .. Len(c) -> Nodes] /\ Len(c) # 0
      /\ \A i, j \in 1 .. Len(c) : c[i] = c[j] => i = j
  BY DEF IsElementary, IsInjective
<1>3. Len(c) \in 1 .. Size
  <2>1. Size \in Nat /\ IsFiniteSet(Nodes) /\ Cardinality(Nodes) = Size
    <3>1. c[1] \in Nodes
      BY <1>2
    <3>2. Size \in Nat /\ Size > 0
      BY <3>1, CycleAssumption DEF Nodes
    <3>3. IsFiniteSet(0 .. (Size - 1)) /\ Cardinality(0 .. (Size - 1)) = Size
      BY <3>2, FS_Interval
    <3> QED
      BY <3>2, <3>3 DEF Nodes
  <2>2. IsFiniteSet(1 .. Len(c)) /\ Cardinality(1 .. Len(c)) = Len(c)
    <3>1. Len(c) \in Nat
      BY <1>2
    <3> QED
      BY ONLY <3>1, CountingNumbers
  <2>3. c \in Injection(1 .. Len(c), Nodes)
    BY <1>2 DEF Injection, IsInjective
  <2>4. Cardinality(1 .. Len(c)) <= Cardinality(Nodes)
    BY <2>1, <2>3, FS_Injection
  <2> QED
    BY <1>2, <2>1, <2>2, <2>4
<1>4. c \in ElementaryCycles
  BY <1>2, <1>3 DEF ElementaryCycles
<1> QED
  BY <1>4

(***************************************************************************)
(* There are as many recorded as the list is long.                         *)
(***************************************************************************)
LEMMA RecordedAreCounted ==
    ASSUME CycleInv
    PROVE  /\ ToSet(cycles) \subseteq ElementaryCycles
           /\ IsFiniteSet(ToSet(cycles)) /\ Cardinality(ToSet(cycles)) = Len(cycles)
           /\ Len(cycles) \in Nat
<1>1. /\ Len(cycles) \in Nat /\ DOMAIN cycles = 1 .. Len(cycles)
      /\ \A n \in 1 .. Len(cycles) : cycles[n] \in Seq(Nodes)
  BY DEF CycleInv, Types
<1>2. \A n \in 1 .. Len(cycles) : IsElementary(cycles[n])
  BY <1>1 DEF CycleInv, CyclesOK, CyclesAreReal
<1>3. \A n, k \in 1 .. Len(cycles) : cycles[n] = cycles[k] => n = k
  BY <1>1 DEF CycleInv, CyclesOK, CyclesAreReal, IsInjective
<1>4. \A n \in 1 .. Len(cycles) : cycles[n] \in ElementaryCycles
  BY <1>1, <1>2, ElementaryAreListed
<1>5. ToSet(cycles) \subseteq ElementaryCycles
  BY <1>1, <1>4 DEF ToSet
<1>6. IsFiniteSet(ToSet(cycles))
  BY <1>5, CyclesAreFinite, FS_Subset
<1>7. Cardinality(ToSet(cycles)) = Len(cycles)
  <2> DEFINE T == ToSet(cycles)
             record == [n \in 1 .. Len(cycles) |-> cycles[n]]
  <2>1. T = {cycles[n] : n \in 1 .. Len(cycles)}
    BY <1>1 DEF ToSet
  <2>2. record \in [1 .. Len(cycles) -> T] /\ record \in Injection(1 .. Len(cycles), T)
    BY <1>3, <2>1 DEF Injection, IsInjective
  <2>3. record \in Surjection(1 .. Len(cycles), T)
    BY <2>1, <2>2 DEF Surjection
  <2>4. Cardinality(1 .. Len(cycles)) = Len(cycles)
    BY <1>1, CountingNumbers
  <2>5. IsFiniteSet(T)
    BY <1>6
  <2> HIDE DEF T, record
  <2>6. Cardinality(1 .. Len(cycles)) = Cardinality(T)
    BY <2>2, <2>3, <2>5, FS_Injection
  <2> QED
    BY <2>4, <2>6 DEF T
<1> QED
  BY <1>1, <1>5, <1>6, <1>7

(***************************************************************************)
(* The limit is reported only where a cycle is left out, and then as many  *)
(* are recorded as it allows.                                              *)
(***************************************************************************)
Cut ==
    /\ Len(cycles) <= maxCycles
    /\ maxReached => Len(cycles) = maxCycles /\ \E c \in ElementaryCycles : ~IsRecorded(c)

LEMMA CutStep == CycleInv /\ Cut /\ [Next]_vars => Cut'
<1> SUFFICES ASSUME CycleInv, Cut, [Next]_vars PROVE Cut'
  OBVIOUS
<1>1. CASE UNCHANGED <<adjacency, maxCycles, cycles, maxReached>>
  <2>1. ElementaryCycles' = ElementaryCycles
    BY <1>1, SameCycles
  <2> QED
    BY <1>1, <2>1 DEF Cut, IsRecorded
<1>2. CASE CloseCycle
  <2>1. /\ frames # <<>> /\ Following /\ Head(Top.left) = Least(component)
        /\ adjacency' = adjacency /\ maxCycles' = maxCycles
        /\ cycles \in Seq(Seq(Nodes)) /\ maxCycles \in Nat /\ Len(cycles) \in Nat
    BY <1>2, CycleAssumption DEF CloseCycle, CycleInv, Types
  <2>2. Path \in Seq(Nodes) /\ IsElementary(Path) /\ \A n \in DOMAIN cycles : cycles[n] # Path
    BY <2>1, ClosedPathIsNew
  <2>3. Path \in ElementaryCycles /\ ~IsRecorded(Path)
    BY <2>2, ElementaryAreListed DEF IsRecorded, ToSet
  <2>4. ElementaryCycles' = ElementaryCycles
    BY <2>1, SameCycles
  <2>5. CASE maxReached' = TRUE /\ cycles' = cycles /\ (maxReached \/ Len(cycles) >= maxCycles)
    <3>1. Len(cycles) = maxCycles
      BY <2>1, <2>5 DEF Cut
    <3>2. \E c \in ElementaryCycles' : ~IsRecorded(c)'
      BY <2>3, <2>4, <2>5 DEF IsRecorded
    <3> QED
      BY <2>1, <2>5, <3>1, <3>2 DEF Cut
  <2>6. CASE ~maxReached' /\ cycles' = Append(cycles, Path) /\ Len(cycles) < maxCycles
    <3> DEFINE p == Path
    <3>1. p \in Seq(Nodes) /\ cycles' = Append(cycles, p)
      BY <2>2, <2>6
    <3> HIDE DEF p
    <3>2. Len(cycles') = Len(cycles) + 1
      BY <2>1, <3>1
    <3> QED
      BY <2>1, <2>6, <3>2 DEF Cut
  <2>7. \/ (maxReached \/ Len(cycles) >= maxCycles) /\ maxReached' = TRUE /\ cycles' = cycles
        \/ ~maxReached /\ Len(cycles) < maxCycles /\ cycles' = Append(cycles, Path) /\ maxReached' = maxReached
    BY <1>2 DEF CloseCycle
  <2>8. ~maxReached /\ maxReached' = maxReached => ~maxReached'
    OBVIOUS
  <2> QED
    BY <2>5, <2>6, <2>7, <2>8
<1>3. CASE NextRound \/ FollowEdge \/ SkipEdge \/ Return \/ UNCHANGED vars
  <2>1. CASE NextRound
    BY <1>1, <2>1 DEF NextRound
  <2>2. CASE FollowEdge
    BY <1>1, <2>2 DEF FollowEdge
  <2>3. CASE SkipEdge
    BY <1>1, <2>3 DEF SkipEdge
  <2>4. CASE Return
    BY <1>1, <2>4 DEF Return
  <2>5. CASE UNCHANGED vars
    BY <1>1, <2>5 DEF vars
  <2> QED
    BY <1>3, <2>1, <2>2, <2>3, <2>4, <2>5
<1> QED
  BY <1>2, <1>3 DEF Next

(***************************************************************************)
(* What record_cycle and set_max_number_of_cycles_reached leave behind, on *)
(* every graph, at every step: no more cycles than the limit, and the      *)
(* limit is said to be reached only if it is and the graph has more.       *)
(***************************************************************************)
LimitIsReal ==
    /\ Len(cycles) <= maxCycles
    /\ maxReached => Len(cycles) = maxCycles /\ Cardinality(ElementaryCycles) > maxCycles

LEMMA CutIsReal == ASSUME CycleInv, Cut PROVE LimitIsReal
<1> SUFFICES ASSUME maxReached PROVE Cardinality(ElementaryCycles) > maxCycles
  BY DEF Cut, LimitIsReal
<1>1. PICK c \in ElementaryCycles : c \notin ToSet(cycles)
  BY DEF Cut, IsRecorded
<1>2. /\ ToSet(cycles) \subseteq ElementaryCycles /\ Cardinality(ToSet(cycles)) = Len(cycles)
      /\ Len(cycles) \in Nat /\ Len(cycles) = maxCycles
  BY RecordedAreCounted DEF Cut
<1>3. /\ Cardinality(ToSet(cycles)) <= Cardinality(ElementaryCycles)
      /\ Cardinality(ElementaryCycles) = Cardinality(ToSet(cycles)) => ElementaryCycles = ToSet(cycles)
  BY <1>2, CyclesAreFinite, FS_Subset
<1> QED
  BY <1>1, <1>2, <1>3, CyclesAreFinite

THEOREM TheLimitIsReal == Spec => []LimitIsReal
<1>1. Init => CycleInv /\ Cut
  <2> SUFFICES ASSUME Init PROVE Cut
    BY InitIsOK
  <2>1. Len(cycles) = 0 /\ maxCycles \in Nat /\ ~maxReached
    BY CycleAssumption DEF Init
  <2> QED
    BY <2>1 DEF Cut
<1>2. (CycleInv /\ Cut) /\ [Next]_vars => (CycleInv /\ Cut)'
  BY CycleInvStep, CutStep
<1>3. CycleInv /\ Cut => LimitIsReal
  BY CutIsReal
<1> QED
  BY <1>1, <1>2, <1>3, PTL DEF Spec

-----------------------------------------------------------------------------
(***************************************************************************)
(* The finder sees nothing but the graph.                                  *)
(***************************************************************************)
ReachIn(graph, node, low) ==
    LET Within[k \in 0..Size] ==
          IF k = 0 THEN {node}
          ELSE UNION {{n} \cup {m \in ToSet(graph[n]) : m >= low} : n \in Within[k - 1]}
    IN Within[Size]

LEMMA SameComponents ==
    ASSUME adjacency' = adjacency
    PROVE  FindsTheLowest' = FindsTheLowest
<1>1. \A n : Targets(n)' = Targets(n)
  BY DEF Targets
<1>2. \A n, low : Reach(n, low)' = Reach(n, low)
  <2>1. \A n, low : Reach(n, low) = ReachIn(adjacency, n, low)
    BY DEF Reach, ReachIn, Targets
  <2>2. \A n, low : Reach(n, low)' = ReachIn(adjacency', n, low)
    BY DEF Reach, ReachIn, Targets
  <2> QED
    BY <2>1, <2>2
<1>3. \A n, low : ComponentOf(n, low)' = ComponentOf(n, low)
  BY <1>2 DEF ComponentOf
<1>4. \A low : Components(low)' = Components(low)
  BY <1>3 DEF Components
<1>5. \A S : Least(S)' = Least(S)
  BY DEF Least
<1>6. \A comps : Lowest(comps)' = Lowest(comps)
  BY <1>5 DEF Lowest
<1>7. \A comps, low : FirstTree(comps, low)' = FirstTree(comps, low)
  BY <1>2 DEF FirstTree
<1>8. \A low : NextComponents(low)' = NextComponents(low)
  BY <1>4, <1>6, <1>7 DEF NextComponents
<1> QED
  BY <1>4, <1>6, <1>8 DEF FindsTheLowest

(***************************************************************************)
(* The cycles from nodes below the next lower bound are recorded, but for  *)
(* those that the search under way is to find; at the end these are all.   *)
(***************************************************************************)
AllBelow ==
    ~maxReached =>
        \A c \in ElementaryCycles : c[1] < nodeToProcess =>
            IsRecorded(c) \/ (frames # <<>> /\ c[1] = Least(component))

Ended == finished => frames = <<>> /\ \A c \in ElementaryCycles : c[1] < nodeToProcess

WholeInv ==
    /\ CompleteInv /\ Cut
    /\ FindsTheLowest /\ HasNoLoops
    /\ nodeToProcess \in 0 .. Size
    /\ AllBelow /\ Ended

LEMMA NextRoundFinds == WholeInv /\ NextRound => nodeToProcess' \in 0 .. Size /\ AllBelow' /\ Ended'
<1> SUFFICES ASSUME WholeInv, NextRound
             PROVE  nodeToProcess' \in 0 .. Size /\ AllBelow' /\ Ended'
  OBVIOUS
<1>1. /\ adjacency' = adjacency /\ cycles' = cycles /\ maxReached' = maxReached
      /\ ElementaryCycles' = ElementaryCycles /\ adjacency \in Graphs
      /\ nodeToProcess \in 0 .. Size /\ nodeToProcess \in Nat /\ Size \in Nat
      /\ frames = <<>> /\ ~finished
  BY SameCycles, CycleAssumption DEF NextRound, WholeInv, CompleteInv, CycleInv, Types
<1>2. \A c : IsRecorded(c)' = IsRecorded(c)
  BY <1>1 DEF IsRecorded
<1>3. \A c \in ElementaryCycles : c[1] \in Nat
  <2>1. \A c \in ElementaryCycles : c[1] \in Nodes
    BY ElementaryFacts
  <2> QED
    BY <2>1 DEF Nodes
<1>4. ~maxReached => \A c \in ElementaryCycles : c[1] < nodeToProcess => IsRecorded(c)
  BY <1>1 DEF WholeInv, AllBelow
<1>5. CASE NextComponents(nodeToProcess) = {} /\ finished' = TRUE
           /\ UNCHANGED <<nodeToProcess, component, frames>>
  <2>1. Components(nodeToProcess) = {}
    BY <1>1, <1>5, FinderFindsOne
  <2>2. \A c \in ElementaryCycles : ~(nodeToProcess <= c[1])
    BY <1>1, <2>1, CyclesHaveComponents DEF WholeInv
  <2>3. \A c \in ElementaryCycles : c[1] < nodeToProcess
    BY <1>1, <1>3, <2>2
  <2> QED
    BY <1>1, <1>2, <1>4, <1>5, <2>3 DEF AllBelow, Ended
<1>6. ASSUME NEW comp \in NextComponents(nodeToProcess), nodeToProcess' = Least(comp) + 1,
             component' = comp, ~maxReached => frames' = <<Frame(Least(comp))>>,
             finished' = finished
      PROVE  nodeToProcess' \in 0 .. Size /\ AllBelow' /\ Ended'
  <2>1. Least(comp) \in Nodes /\ Least(comp) \in Nat
    BY <1>1, NextComponentFacts DEF Nodes
  <2>2. nodeToProcess' \in 0 .. Size
    <3>1. \A s \in Nat : \A l \in 0 .. (s - 1) : l + 1 \in 0 .. s
      OBVIOUS
    <3> QED
      BY <1>1, <1>6, <2>1, <3>1 DEF Nodes
  <2>3. comp \in Lowest(Components(nodeToProcess))
    BY <1>1 DEF WholeInv, FindsTheLowest
  <2>4. ASSUME ~maxReached, NEW c \in ElementaryCycles, c[1] < Least(comp) + 1, ~IsRecorded(c)
        PROVE  c[1] = Least(comp)
    <3> DEFINE other == ComponentOf(c[1], nodeToProcess)
    <3>1. c[1] \in Nat /\ nodeToProcess <= c[1]
      BY <1>1, <1>3, <1>4, <2>4
    <3>2. other \in Components(nodeToProcess) /\ c[1] \in other
      BY <1>1, <3>1, CyclesHaveComponents DEF WholeInv
    <3>3. other \in SUBSET Nat
      BY <1>1 DEF ComponentOf
    <3> HIDE DEF other
    <3>4. Least(comp) <= Least(other)
      BY <2>3, <3>2 DEF Lowest
    <3>5. Least(other) \in Nat /\ Least(other) <= c[1]
      BY <3>2, <3>3, LeastIsLeast
    <3> QED
      BY <2>1, <2>4, <3>1, <3>4, <3>5
  <2>5. ~maxReached => frames' # <<>>
    <3> DEFINE frame == Frame(Least(comp))
    <3>1. ~maxReached => frames' = <<frame>>
      BY <1>6
    <3> HIDE DEF frame
    <3> QED
      BY <3>1
  <2>6. Least(component)' = Least(comp)
    BY <1>6 DEF Least
  <2>7. AllBelow'
    BY <1>1, <1>2, <1>6, <2>4, <2>5, <2>6 DEF AllBelow
  <2> QED
    BY <1>1, <1>6, <2>2, <2>7 DEF Ended
<1> QED
  BY <1>5, <1>6 DEF NextRound

LEMMA SearchStepFinds ==
    WholeInv /\ CompleteInv' /\ (CloseCycle \/ FollowEdge \/ SkipEdge \/ Return)
        => nodeToProcess' \in 0 .. Size /\ AllBelow' /\ Ended'
<1> SUFFICES ASSUME WholeInv, CompleteInv', CloseCycle \/ FollowEdge \/ SkipEdge \/ Return
             PROVE  nodeToProcess' \in 0 .. Size /\ AllBelow' /\ Ended'
  OBVIOUS
<1>1. /\ UNCHANGED <<adjacency, nodeToProcess, component, finished>> /\ frames # <<>>
      /\ (maxReached => maxReached') /\ (cycles' = cycles \/ cycles' = Append(cycles, Path))
  <2>1. CASE CloseCycle
    BY <2>1 DEF CloseCycle
  <2>2. CASE FollowEdge
    BY <2>2 DEF FollowEdge
  <2>3. CASE SkipEdge
    BY <2>3 DEF SkipEdge
  <2>4. CASE Return
    BY <2>4 DEF Return
  <2> QED
    BY <2>1, <2>2, <2>3, <2>4
<1>2. ElementaryCycles' = ElementaryCycles /\ Least(component)' = Least(component)
  BY <1>1, SameCycles DEF Least
<1>3. nodeToProcess' \in 0 .. Size
  BY <1>1 DEF WholeInv
<1>4. Ended'
  BY <1>1 DEF WholeInv, Ended
<1>5. ASSUME NEW c, IsRecorded(c) PROVE IsRecorded(c)'
  <2>1. PICK n \in DOMAIN cycles : cycles[n] = c
    BY <1>5 DEF IsRecorded, ToSet
  <2>2. cycles \in Seq(Seq(Nodes))
    BY DEF WholeInv, CompleteInv, CycleInv, Types
  <2> DEFINE p == Path
  <2>3. cycles' = cycles \/ cycles' = Append(cycles, p)
    BY <1>1
  <2> HIDE DEF p
  <2>4. n \in DOMAIN cycles' /\ cycles'[n] = c
    <3>1. CASE cycles' = Append(cycles, p)
      <4>1. /\ DOMAIN cycles' = 1 .. (Len(cycles) + 1) /\ DOMAIN cycles = 1 .. Len(cycles)
            /\ Len(cycles) \in Nat
            /\ \A i \in 1 .. Len(cycles) : cycles'[i] = cycles[i]
        BY <2>2, <3>1
      <4>2. \A g \in Nat : \A i \in 1 .. g : i \in 1 .. (g + 1)
        OBVIOUS
      <4> QED
        BY <2>1, <4>1, <4>2
    <3> QED
      BY <2>1, <2>3, <3>1
  <2> QED
    BY <2>4 DEF IsRecorded, ToSet
<1>6. ASSUME ~maxReached', NEW c \in ElementaryCycles, c[1] < nodeToProcess
      PROVE  IsRecorded(c)' \/ (frames' # <<>> /\ c[1] = Least(component))
  <2>1. IsRecorded(c) \/ c[1] = Least(component)
    BY <1>1, <1>6 DEF WholeInv, AllBelow
  <2>2. CASE c[1] = Least(component) /\ frames' = <<>>
    <3>1. component # {}
      BY <1>1 DEF WholeInv, CompleteInv, CycleInv, SearchOK
    <3>2. Sought(c)'
      BY <1>1, <1>2, <2>2, <3>1 DEF CompleteInv, CyclesAreInside, Sought
    <3>3. ~StillAhead(c)'
      BY <2>2 DEF StillAhead, Depth
    <3> QED
      BY <1>6, <3>2, <3>3 DEF CompleteInv, NoneIsLost
  <2> QED
    BY <1>5, <2>1, <2>2
<1> QED
  BY <1>1, <1>2, <1>3, <1>4, <1>6 DEF AllBelow

LEMMA WholeStep == WholeInv /\ [Next]_vars => WholeInv'
<1> SUFFICES ASSUME WholeInv, [Next]_vars PROVE WholeInv'
  OBVIOUS
<1>1. CompleteInv' /\ Cut'
  BY CompleteStep, CutStep DEF WholeInv, CompleteInv
<1>2. adjacency' = adjacency
  <2>1. CASE NextRound
    BY <2>1 DEF NextRound
  <2>2. CASE CloseCycle
    BY <2>2 DEF CloseCycle
  <2>3. CASE FollowEdge
    BY <2>3 DEF FollowEdge
  <2>4. CASE SkipEdge
    BY <2>4 DEF SkipEdge
  <2>5. CASE Return
    BY <2>5 DEF Return
  <2>6. CASE UNCHANGED vars
    BY <2>6 DEF vars
  <2> QED
    BY <2>1, <2>2, <2>3, <2>4, <2>5, <2>6 DEF Next
<1>3. FindsTheLowest' /\ HasNoLoops'
  BY <1>2, SameComponents DEF WholeInv, HasNoLoops, Targets
<1>4. nodeToProcess' \in 0 .. Size /\ AllBelow' /\ Ended'
  <2>1. CASE UNCHANGED vars
    <3>1. ElementaryCycles' = ElementaryCycles
      BY <1>2, SameCycles
    <3> QED
      BY <2>1, <3>1 DEF vars, WholeInv, AllBelow, Ended, IsRecorded, Least
  <2>2. CASE NextRound
    BY <2>2, NextRoundFinds
  <2>3. CASE CloseCycle \/ FollowEdge \/ SkipEdge \/ Return
    BY <1>1, <2>3, SearchStepFinds
  <2> QED
    BY <2>1, <2>2, <2>3 DEF Next
<1> QED
  BY <1>1, <1>3, <1>4 DEF WholeInv

(***************************************************************************)
(* What detect_cycles returns for a graph without self-loops on which the  *)
(* finder finds the component with the lowest node: all elementary cycles, *)
(* or as many as the limit allows, and whether some are left out.          *)
(***************************************************************************)
THEOREM ResultIsExact == Spec /\ FindsTheLowest /\ HasNoLoops => []LimitExact
<1>1. Init /\ FindsTheLowest /\ HasNoLoops => WholeInv
  <2> SUFFICES ASSUME Init, FindsTheLowest, HasNoLoops PROVE WholeInv
    OBVIOUS
  <2>1. CompleteInv
    BY CompleteInit
  <2>2. Len(cycles) = 0 /\ maxCycles \in Nat /\ ~maxReached /\ ~finished
    BY CycleAssumption DEF Init
  <2>3. Cut /\ Ended
    BY <2>2 DEF Cut, Ended
  <2>4. nodeToProcess = 0 /\ nodeToProcess \in 0 .. Size
    BY CycleAssumption DEF Init
  <2>5. \A c \in ElementaryCycles : ~(c[1] < 0)
    <3>1. \A c \in ElementaryCycles : c[1] \in Nodes
      BY ElementaryFacts
    <3> QED
      BY <3>1 DEF Nodes
  <2>6. AllBelow
    BY <2>4, <2>5 DEF AllBelow
  <2> QED
    BY <2>1, <2>3, <2>4, <2>6 DEF WholeInv
<1>2. WholeInv => LimitExact
  <2> SUFFICES ASSUME WholeInv, finished
               PROVE  /\ Len(cycles) = (IF Cardinality(ElementaryCycles) <= maxCycles
                                        THEN Cardinality(ElementaryCycles) ELSE maxCycles)
                      /\ maxReached <=> Cardinality(ElementaryCycles) > maxCycles
    BY DEF LimitExact
  <2> DEFINE total == Cardinality(ElementaryCycles)
  <2>1. /\ total \in Nat /\ maxCycles \in Nat /\ Len(cycles) \in Nat /\ Len(cycles) <= maxCycles
        /\ maxReached => Len(cycles) = maxCycles /\ total > maxCycles
    BY CyclesAreFinite, RecordedAreCounted, CutIsReal, CycleAssumption
       DEF WholeInv, CompleteInv, CycleInv, Types, LimitIsReal
  <2>2. ASSUME ~maxReached PROVE total = Len(cycles)
    <3>1. ElementaryCycles \subseteq ToSet(cycles)
      BY <2>2 DEF WholeInv, AllBelow, Ended, IsRecorded
    <3>2. ToSet(cycles) \subseteq ElementaryCycles /\ Cardinality(ToSet(cycles)) = Len(cycles)
      BY RecordedAreCounted DEF WholeInv, CompleteInv
    <3>3. ElementaryCycles = ToSet(cycles)
      BY <3>1, <3>2
    <3> QED
      BY <3>2, <3>3
  <2>3. maxReached \in BOOLEAN
    BY DEF WholeInv, CompleteInv, CycleInv, Types
  <2> HIDE DEF total
  <2>4. Len(cycles) = (IF total <= maxCycles THEN total ELSE maxCycles)
    BY <2>1, <2>2
  <2>5. maxReached <=> total > maxCycles
    BY <2>1, <2>2
  <2> QED
    BY <2>4, <2>5 DEF total
<1> QED
  BY <1>1, <1>2, WholeStep, PTL DEF Spec

-----------------------------------------------------------------------------
(***************************************************************************)
(* The finder.  A graph is here a function from the nodes to the sets of   *)
(* their targets from the lower bound on; reached[n] is the least set that *)
(* holds n and, with a node, its targets.                                  *)
(***************************************************************************)
IsReached(edges, reached) ==
    /\ edges \in [Nodes -> SUBSET Nodes] /\ reached \in [Nodes -> SUBSET Nodes]
    /\ \A n \in Nodes : n \in reached[n]
    /\ \A n \in Nodes : \A y \in reached[n] : edges[y] \subseteq reached[n]
    /\ \A n \in Nodes, W \in SUBSET Nodes :
          n \in W /\ (\A y \in W : edges[y] \subseteq W) => reached[n] \subseteq W

(***************************************************************************)
(* A depth-first search with low links: num are the numbers of the nodes   *)
(* seen, stacked the nodes on the stack, calling those whose calls are     *)
(* under way, left[n] the targets that n has yet to take.                  *)
(***************************************************************************)
Numbered(num, stacked, calling, link, left) ==
    /\ num \in [DOMAIN num -> Nat] /\ DOMAIN num \subseteq Nodes
    /\ \A n, m \in DOMAIN num : num[n] = num[m] => n = m
    /\ stacked \subseteq DOMAIN num /\ calling \subseteq stacked
    /\ link \in [Nodes -> Nat] /\ left \in [Nodes -> SUBSET Nodes]

\* Edges taken lead to nodes seen; calls that have returned have taken theirs.
Taken(num, calling, left, edges) ==
    /\ \A n \in DOMAIN num : edges[n] \subseteq DOMAIN num \cup left[n]
    /\ \A n \in DOMAIN num \ calling : left[n] = {}

\* No edge leads out of what has left the stack.
Sealed(num, stacked, edges) ==
    \A n \in DOMAIN num \ stacked : edges[n] \subseteq DOMAIN num \ stacked

\* A node that calls reaches what has been stacked since; so it reaches the
\* node of its low link, and a node that has returned one stacked earlier.
Reaching(num, stacked, calling, reached) ==
    \A g \in calling, y \in stacked : num[g] <= num[y] => y \in reached[g]

Linked(num, stacked, calling, link, reached) ==
    \A g \in calling : \E z \in stacked :
        num[z] = link[g] /\ num[z] <= num[g] /\ z \in reached[g]

Returning(num, stacked, calling, reached) ==
    \A y \in stacked \ calling : \E z \in stacked : num[z] < num[y] /\ z \in reached[y]

\* The nodes whose low link is g's to account for: stacked since g, and not
\* since a later call.
Accounts(num, calling, g, y) ==
    num[g] <= num[y] /\ \A h \in calling : ~(num[g] < num[h] /\ num[h] <= num[y])

Accounted(num, stacked, calling, link, left, edges) ==
    \A g \in calling, y \in stacked : Accounts(num, calling, g, y) =>
        \A z \in (stacked \cap edges[y]) \ left[y] : link[g] <= num[z]

Rooted(num, stacked, calling) == \A y \in stacked : \E g \in calling : num[g] <= num[y]

DepthFirst(num, stacked, calling, link, left, edges, reached) ==
    /\ Numbered(num, stacked, calling, link, left)
    /\ Taken(num, calling, left, edges)
    /\ Sealed(num, stacked, edges)
    /\ Reaching(num, stacked, calling, reached)
    /\ Linked(num, stacked, calling, link, reached)
    /\ Returning(num, stacked, calling, reached)
    /\ Accounted(num, stacked, calling, link, left, edges)
    /\ Rooted(num, stacked, calling)

-----------------------------------------------------------------------------
(***************************************************************************)
(* The states of the finder, and its invariant.                            *)
(***************************************************************************)
FinderStates ==
    [visited : UNION {[S -> Nat] : S \in SUBSET Nodes}, lowLink : [Nodes -> Nat], next : Nat,
     stack : Seq(Nodes), calls : Seq(Nodes), left : [Nodes -> Seq(Nodes)], root : Nat,
     comps : SUBSET (SUBSET Nodes)]

Stacked(s) == ToSet(s.stack)
Calling(s) == ToSet(s.calls)
LeftOf(s) == [n \in Nodes |-> ToSet(s.left[n])]
EdgesFrom(low) == [n \in Nodes |-> {m \in Targets(n) : m >= low}]
ReachedFrom(low) == [n \in Nodes |-> Reach(n, low)]

Rising(q, num) ==
    /\ ToSet(q) \subseteq DOMAIN num
    /\ \A i, j \in DOMAIN q : i < j => num[q[i]] < num[q[j]]

Ordered(s, low) ==
    /\ \A n \in DOMAIN s.visited : low <= n /\ s.visited[n] < s.next
    /\ Rising(s.stack, s.visited) /\ Rising(s.calls, s.visited)

LeftToTake(s) ==
    \A n \in Nodes : /\ n \notin DOMAIN s.visited => s.left[n] = adjacency[n]
                     /\ ToSet(s.left[n]) \subseteq Targets(n)
                     /\ Len(s.left[n]) <= Len(adjacency[n])

Searched(s, low) == DepthFirst(s.visited, Stacked(s), Calling(s), s.lowLink, LeftOf(s),
                               EdgesFrom(low), ReachedFrom(low))

\* What has been found: the components that have left the stack, in the tree
\* under way; there is none in the trees before.
Found(s, low) ==
    /\ s.comps = {c \in Components(low) : c \subseteq DOMAIN s.visited \ Stacked(s)}
    /\ \A c \in s.comps : c \subseteq Reach(s.root - 1, low)

Trees(s, low) ==
    /\ low <= s.root
    /\ s.root <= Size \/ s.root = low
    /\ DOMAIN s.visited # {} => low < s.root
    /\ \A k \in low .. (s.root - 1) : k \in DOMAIN s.visited
    /\ \A g \in Calling(s) : g \in Reach(s.root - 1, low)
    /\ s.calls # <<>> \/ s.comps # {} =>
          \A k \in low .. (s.root - 2), d \in Components(low) : ~(d \subseteq Reach(k, low))

FinderInv(s, low) ==
    Ordered(s, low) /\ LeftToTake(s) /\ Searched(s, low) /\ Found(s, low) /\ Trees(s, low)

\* What is left to do, out of all that there is.
Jobs == UNION {{n} \X (0 .. Len(adjacency[n]) + 1) : n \in Nodes}

Todo(s) ==
    {job \in Jobs :
        LET n == job[1]
            j == job[2]
        IN  \/ j = 0 /\ (n \notin DOMAIN s.visited \/ n \in Calling(s))
            \/ j \in 1 .. Len(s.left[n])
            \/ j = Len(adjacency[n]) + 1 /\ s.root <= n}

(***************************************************************************)
(* An edge not entered: it leads below the bound, to what has left the     *)
(* stack, or to a node on the stack, whose number the low link then takes. *)
(***************************************************************************)
IsTop(num, G, x) == x \in G /\ \A g \in G : num[g] <= num[x]

Passes(num, K, link, link2, L, L2, E, x, t) ==
    /\ \A n \in Nodes : L2[n] \subseteq L[n] /\ L[n] \subseteq L2[n] \cup {t}
    /\ \A n \in Nodes : n # x => L2[n] = L[n] /\ link2[n] = link[n]
    /\ t \in E[x] => t \in DOMAIN num
    /\ \/ link2[x] = link[x] /\ (t \in E[x] => t \notin K)
       \/ t \in K /\ t \in E[x] /\ link2[x] = Smaller(link[x], num[t])

LEMMA EdgePassed ==
    ASSUME NEW S \in SUBSET Nodes, NEW num \in [S -> Nat],
           NEW K \in SUBSET Nodes, NEW G \in SUBSET Nodes,
           NEW link \in [Nodes -> Nat], NEW L \in [Nodes -> SUBSET Nodes],
           NEW E \in [Nodes -> SUBSET Nodes], NEW R \in [Nodes -> SUBSET Nodes],
           IsReached(E, R), DepthFirst(num, K, G, link, L, E, R),
           NEW x \in Nodes, IsTop(num, G, x), NEW t \in Nodes,
           NEW L2 \in [Nodes -> SUBSET Nodes], NEW link2 \in [Nodes -> Nat],
           Passes(num, K, link, link2, L, L2, E, x, t)
    PROVE  DepthFirst(num, K, G, link2, L2, E, R)
<1>7. /\ x \in G /\ \A g \in G : num[g] <= num[x]
      /\ \A n \in Nodes : L2[n] \subseteq L[n] /\ L[n] \subseteq L2[n] \cup {t}
      /\ \A n \in Nodes : n # x => L2[n] = L[n]
      /\ \A n \in Nodes : n # x => link2[n] = link[n]
      /\ t \in E[x] => t \in DOMAIN num
      /\ \/ link2[x] = link[x] /\ (t \in E[x] => t \notin K)
         \/ t \in K /\ t \in E[x] /\ link2[x] = Smaller(link[x], num[t])
  BY DEF IsTop, Passes
<1> USE <1>7
<1>1. /\ num \in [DOMAIN num -> Nat] /\ DOMAIN num \subseteq Nodes
      /\ \A n, m \in DOMAIN num : num[n] = num[m] => n = m
      /\ K \subseteq DOMAIN num /\ G \subseteq K
      /\ link \in [Nodes -> Nat] /\ L \in [Nodes -> SUBSET Nodes]
  BY DEF DepthFirst, Numbered
<1>2. x \in Nodes /\ \A n \in Nodes : link2[n] <= link[n]
  BY <1>1 DEF Smaller
<1>3. Numbered(num, K, G, link2, L2)
  BY <1>1 DEF Numbered
<1>4. Taken(num, G, L2, E)
  <2>1. \A n \in DOMAIN num : E[n] \subseteq DOMAIN num \cup L[n]
    BY DEF DepthFirst, Taken
  <2>2. \A n \in DOMAIN num \ G : L[n] = {}
    BY DEF DepthFirst, Taken
  <2>3. ASSUME NEW n \in DOMAIN num PROVE E[n] \subseteq DOMAIN num \cup L2[n]
    BY <1>1, <2>1
  <2>4. \A n \in DOMAIN num \ G : L2[n] = {}
    BY <1>1, <2>2
  <2> QED
    BY <2>3, <2>4 DEF Taken
<1>5. Linked(num, K, G, link2, R)
  <2> SUFFICES ASSUME NEW g \in G
               PROVE  \E z \in K : num[z] = link2[g] /\ num[z] <= num[g] /\ z \in R[g]
    BY DEF Linked
  <2>1. PICK z \in K : num[z] = link[g] /\ num[z] <= num[g] /\ z \in R[g]
    BY DEF DepthFirst, Linked
  <2>2. CASE link2[g] = link[g]
    BY <2>1, <2>2
  <2>3. CASE link2[g] # link[g]
    <3>1. g = x /\ t \in K /\ t \in E[x] /\ link2[x] = num[t] /\ num[t] <= link[x]
      BY <1>1, <2>3 DEF Smaller
    <3>2. t \in R[x]
      BY <1>2, <3>1 DEF IsReached
    <3> QED
      BY <1>1, <2>1, <3>1, <3>2
  <2> QED
    BY <2>2, <2>3
<1>6. Accounted(num, K, G, link2, L2, E)
  <2> SUFFICES ASSUME NEW g \in G, NEW y \in K, Accounts(num, G, g, y),
                      NEW z \in (K \cap E[y]) \ L2[y]
               PROVE  link2[g] <= num[z]
    BY DEF Accounted
  <2>1. g \in Nodes /\ y \in Nodes /\ z \in Nodes
    BY <1>1
  <2>2. CASE z \notin L[y]
    <3>1. link[g] <= num[z]
      BY <2>2 DEF DepthFirst, Accounted
    <3>2. link2[g] <= link[g] /\ link[g] \in Nat /\ link2[g] \in Nat /\ num[z] \in Nat
      BY <1>1, <1>2
    <3> QED
      BY <3>1, <3>2
  <2>3. CASE z \in L[y]
    <3>1. y = x /\ z = t
      BY <2>1, <2>3
    <3>2. g = x
      BY <1>1, <3>1 DEF Accounts
    <3>3. link2[x] = Smaller(link[x], num[t])
      BY <3>1
    <3> QED
      BY <1>1, <3>1, <3>2, <3>3 DEF Smaller
  <2> QED
    BY <2>2, <2>3
<1> QED
  BY <1>3, <1>4, <1>5, <1>6 DEF DepthFirst

(***************************************************************************)
(* A call of find_components: the node is numbered and stacked; the calls  *)
(* under way lead to it.                                                   *)
(***************************************************************************)
Enters(num, num2, G, link, link2, L, L2, E, R, t, next) ==
    /\ t \notin DOMAIN num /\ \A g \in G : t \in R[g]
    /\ \A n \in DOMAIN num : num[n] < next /\ num2[n] = num[n]
    /\ num2[t] = next /\ link2[t] = next
    /\ \A n \in Nodes : n # t => link2[n] = link[n]
    /\ \A n \in Nodes : L2[n] \subseteq L[n] /\ L[n] \subseteq L2[n] \cup {t}
    /\ E[t] \subseteq L2[t]

LEMMA NodeEntered ==
    ASSUME NEW S \in SUBSET Nodes, NEW num \in [S -> Nat],
           NEW K \in SUBSET Nodes, NEW G \in SUBSET Nodes,
           NEW link \in [Nodes -> Nat], NEW L \in [Nodes -> SUBSET Nodes],
           NEW E \in [Nodes -> SUBSET Nodes], NEW R \in [Nodes -> SUBSET Nodes],
           IsReached(E, R), DepthFirst(num, K, G, link, L, E, R),
           NEW t \in Nodes, NEW next \in Nat, NEW num2 \in [S \cup {t} -> Nat],
           NEW L2 \in [Nodes -> SUBSET Nodes], NEW link2 \in [Nodes -> Nat],
           Enters(num, num2, G, link, link2, L, L2, E, R, t, next)
    PROVE  DepthFirst(num2, K \cup {t}, G \cup {t}, link2, L2, E, R)
<1>12. /\ t \notin DOMAIN num /\ \A g \in G : t \in R[g]
       /\ \A n \in DOMAIN num : num[n] < next
       /\ \A n \in DOMAIN num : num2[n] = num[n]
       /\ num2[t] = next /\ link2[t] = next
       /\ \A n \in Nodes : n # t => link2[n] = link[n]
       /\ \A n \in Nodes : L2[n] \subseteq L[n] /\ L[n] \subseteq L2[n] \cup {t}
       /\ E[t] \subseteq L2[t]
  BY DEF Enters
<1> USE <1>12
<1>1. /\ num \in [DOMAIN num -> Nat] /\ DOMAIN num \subseteq Nodes
      /\ \A n, m \in DOMAIN num : num[n] = num[m] => n = m
      /\ K \subseteq DOMAIN num /\ G \subseteq K
      /\ link \in [Nodes -> Nat] /\ L \in [Nodes -> SUBSET Nodes]
  BY DEF DepthFirst, Numbered
<1>2. DOMAIN num2 = (DOMAIN num) \cup {t} /\ t \notin K /\ t \notin G
  BY <1>1
<1>3. \A n \in DOMAIN num : num2[n] \in Nat /\ num[n] \in Nat /\ num2[n] < next
  BY <1>1
<1>4. Numbered(num2, K \cup {t}, G \cup {t}, link2, L2)
  <2>1. \A n, m \in DOMAIN num2 : num2[n] = num2[m] => n = m
    BY <1>1, <1>2, <1>3
  <2> QED
    BY <1>1, <1>2, <2>1 DEF Numbered
<1>5. Taken(num2, G \cup {t}, L2, E)
  <2>1. \A n \in DOMAIN num : E[n] \subseteq DOMAIN num \cup L[n]
    BY DEF DepthFirst, Taken
  <2>2. \A n \in DOMAIN num \ G : L[n] = {}
    BY DEF DepthFirst, Taken
  <2>3. ASSUME NEW n \in DOMAIN num2 PROVE E[n] \subseteq DOMAIN num2 \cup L2[n]
    <3>1. CASE n = t
      BY <3>1
    <3>2. CASE n # t
      <4>1. n \in DOMAIN num /\ n \in Nodes
        BY <1>1, <1>2, <3>2
      <4>2. E[n] \subseteq DOMAIN num \cup L[n] /\ L[n] \subseteq L2[n] \cup {t}
        BY <2>1, <4>1
      <4> QED
        BY <1>2, <4>2
    <3> QED
      BY <3>1, <3>2
  <2>4. \A n \in DOMAIN num2 \ (G \cup {t}) : L2[n] = {}
    BY <1>1, <1>2, <2>2
  <2> QED
    BY <2>3, <2>4 DEF Taken
<1>6. Sealed(num2, K \cup {t}, E)
  <2>1. DOMAIN num2 \ (K \cup {t}) = DOMAIN num \ K
    BY <1>2
  <2> QED
    BY <2>1 DEF DepthFirst, Sealed
<1>7. Reaching(num2, K \cup {t}, G \cup {t}, R)
  <2> SUFFICES ASSUME NEW g \in G \cup {t}, NEW y \in K \cup {t}, num2[g] <= num2[y]
               PROVE  y \in R[g]
    BY DEF Reaching
  <2>1. CASE y = t
    <3>1. t \in R[t]
      BY DEF IsReached
    <3> QED
      BY <2>1, <3>1
  <2>2. CASE y # t /\ g = t
    <3>1. y \in DOMAIN num /\ num2[y] < next /\ num2[y] \in Nat
      BY <1>1, <1>3, <2>2
    <3> QED
      BY <2>2, <3>1
  <2>3. CASE y # t /\ g # t
    <3>1. g \in G /\ y \in K /\ num[g] <= num[y]
      BY <1>1, <2>3
    <3> QED
      BY <3>1 DEF DepthFirst, Reaching
  <2> QED
    BY <2>1, <2>2, <2>3
<1>8. Linked(num2, K \cup {t}, G \cup {t}, link2, R)
  <2> SUFFICES ASSUME NEW g \in G \cup {t}
               PROVE  \E z \in K \cup {t} : num2[z] = link2[g] /\ num2[z] <= num2[g] /\ z \in R[g]
    BY DEF Linked
  <2>1. CASE g = t
    <3>1. t \in R[t] /\ num2[t] <= num2[t]
      BY DEF IsReached
    <3> QED
      BY <2>1, <3>1
  <2>2. CASE g # t
    <3>1. PICK z \in K : num[z] = link[g] /\ num[z] <= num[g] /\ z \in R[g]
      BY <2>2 DEF DepthFirst, Linked
    <3>2. z \in DOMAIN num /\ g \in DOMAIN num /\ g \in Nodes
      BY <1>1, <2>2
    <3> QED
      BY <2>2, <3>1, <3>2
  <2> QED
    BY <2>1, <2>2
<1>9. Returning(num2, K \cup {t}, G \cup {t}, R)
  <2> SUFFICES ASSUME NEW y \in (K \cup {t}) \ (G \cup {t})
               PROVE  \E z \in K \cup {t} : num2[z] < num2[y] /\ z \in R[y]
    BY DEF Returning
  <2>1. y \in K \ G
    OBVIOUS
  <2>2. PICK z \in K : num[z] < num[y] /\ z \in R[y]
    BY <2>1 DEF DepthFirst, Returning
  <2>3. num2[z] = num[z] /\ num2[y] = num[y]
    BY <1>1, <2>1
  <2> QED
    BY <2>2, <2>3
<1>10. Accounted(num2, K \cup {t}, G \cup {t}, link2, L2, E)
  <2> SUFFICES ASSUME NEW g \in G \cup {t}, NEW y \in K \cup {t}, Accounts(num2, G \cup {t}, g, y),
                      NEW z \in ((K \cup {t}) \cap E[y]) \ L2[y]
               PROVE  link2[g] <= num2[z]
    BY DEF Accounted
  <2>1. y # t
    <3>1. SUFFICES ASSUME y = t PROVE FALSE
      OBVIOUS
    <3>2. g # t
      BY <3>1
    <3>3. g \in DOMAIN num /\ num2[g] < next
      BY <1>1, <1>3, <3>2
    <3> QED
      BY <3>1, <3>3 DEF Accounts
  <2>2. y \in K /\ y \in DOMAIN num /\ num2[y] < next /\ num2[y] = num[y] /\ num[y] \in Nat
    BY <1>1, <1>3, <2>1
  <2>3. g # t
    BY <2>2 DEF Accounts
  <2>4. g \in G /\ g \in K /\ g \in DOMAIN num /\ num2[g] = num[g] /\ num[g] \in Nat /\ num[g] < next /\ link2[g] = link[g]
    BY <1>1, <1>3, <2>3
  <2>5. CASE z = t
    <3>1. PICK w \in K : num[w] = link[g] /\ num[w] <= num[g]
      BY <2>4 DEF DepthFirst, Linked
    <3>2. num[w] \in Nat
      BY <1>1
    <3> QED
      BY <2>4, <2>5, <3>1, <3>2
  <2>6. CASE z # t
    <3>1. z \in K /\ z \in E[y] /\ num2[z] = num[z]
      BY <1>1, <2>6
    <3>2. z \notin L[y]
      BY <1>1, <2>2, <2>6
    <3>3. Accounts(num, G, g, y)
      <4>1. num[g] <= num[y]
        BY <2>2, <2>4 DEF Accounts
      <4>2. ASSUME NEW h \in G PROVE ~(num[g] < num[h] /\ num[h] <= num[y])
        <5>1. num2[h] = num[h] /\ ~(num2[g] < num2[h] /\ num2[h] <= num2[y])
          BY <1>1 DEF Accounts
        <5> QED
          BY <2>2, <2>4, <5>1
      <4> QED
        BY <4>1, <4>2 DEF Accounts
    <3>4. link[g] <= num[z]
      BY <2>2, <2>4, <3>1, <3>2, <3>3 DEF DepthFirst, Accounted
    <3> QED
      BY <2>4, <3>1, <3>4
  <2> QED
    BY <2>5, <2>6
<1>11. Rooted(num2, K \cup {t}, G \cup {t})
  <2> SUFFICES ASSUME NEW y \in K \cup {t} PROVE \E g \in G \cup {t} : num2[g] <= num2[y]
    BY DEF Rooted
  <2>1. CASE y = t
    BY <2>1
  <2>2. CASE y # t
    <3>1. PICK g \in G : num[g] <= num[y]
      BY <2>2 DEF DepthFirst, Rooted
    <3>2. num2[g] = num[g] /\ num2[y] = num[y]
      BY <1>1, <2>2
    <3> QED
      BY <3>1, <3>2
  <2> QED
    BY <2>1, <2>2
<1> QED
  BY <1>4, <1>5, <1>6, <1>7, <1>8, <1>9, <1>10, <1>11 DEF DepthFirst

(***************************************************************************)
(* A call that returns with a lower low link: the caller takes it, and the *)
(* node stays on the stack.                                                *)
(***************************************************************************)
IsCaller(num, G, x, c) == c \in G /\ c # x /\ \A g \in G : g # x => num[g] <= num[c]

LEMMA NodeLeft ==
    ASSUME NEW S \in SUBSET Nodes, NEW num \in [S -> Nat],
           NEW K \in SUBSET Nodes, NEW G \in SUBSET Nodes,
           NEW link \in [Nodes -> Nat], NEW L \in [Nodes -> SUBSET Nodes],
           NEW E \in [Nodes -> SUBSET Nodes], NEW R \in [Nodes -> SUBSET Nodes],
           IsReached(E, R), DepthFirst(num, K, G, link, L, E, R),
           NEW x \in Nodes, IsTop(num, G, x), L[x] = {}, link[x] # num[x],
           NEW c \in Nodes, IsCaller(num, G, x, c)
    PROVE  DepthFirst(num, K, G \ {x}, [link EXCEPT ![c] = Smaller(link[c], link[x])], L, E, R)
<1> DEFINE link2 == [link EXCEPT ![c] = Smaller(link[c], link[x])]
<1>14. /\ x \in G /\ \A g \in G : num[g] <= num[x]
       /\ c \in G /\ c # x /\ \A g \in G : g # x => num[g] <= num[c]
  BY DEF IsTop, IsCaller
<1>15. /\ link2 \in [Nodes -> Nat]
       /\ link2[c] = Smaller(link[c], link[x]) /\ \A n \in Nodes : n # c => link2[n] = link[n]
  BY DEF Smaller
<1> USE <1>14, <1>15
<1> HIDE DEF link2
<1>1. /\ num \in [DOMAIN num -> Nat] /\ DOMAIN num \subseteq Nodes
      /\ \A n, m \in DOMAIN num : num[n] = num[m] => n = m
      /\ K \subseteq DOMAIN num /\ G \subseteq K
      /\ link \in [Nodes -> Nat] /\ L \in [Nodes -> SUBSET Nodes]
  BY DEF DepthFirst, Numbered
<1>2. PICK w \in K : num[w] = link[x] /\ num[w] <= num[x] /\ w \in R[x]
  BY DEF DepthFirst, Linked
<1>3. num[w] < num[x] /\ num[c] < num[x] /\ x \in K /\ c \in K /\ \A n \in K : num[n] \in Nat
  BY <1>1, <1>2
<1>4. x \in R[c] /\ x \in Nodes /\ c \in Nodes /\ w \in Nodes
  BY <1>1, <1>3 DEF DepthFirst, Reaching
<1>5. R[x] \subseteq R[c]
  <2>1. R[c] \in SUBSET Nodes /\ \A y \in R[c] : E[y] \subseteq R[c]
    BY <1>4 DEF IsReached
  <2> QED
    BY <1>4, <2>1 DEF IsReached
<1>6. link2[c] <= link[c] /\ link2[c] <= link[x] /\ (link2[c] = link[c] \/ link2[c] = link[x])
  BY <1>1, <1>4 DEF Smaller
<1>7. Numbered(num, K, G \ {x}, link2, L)
  BY <1>1 DEF Numbered
<1>8. Taken(num, G \ {x}, L, E)
  <2>1. \A n \in DOMAIN num \ G : L[n] = {}
    BY DEF DepthFirst, Taken
  <2>2. \A n \in DOMAIN num \ (G \ {x}) : L[n] = {}
    BY <2>1
  <2> QED
    BY <2>2 DEF DepthFirst, Taken
<1>9. Reaching(num, K, G \ {x}, R)
  BY DEF DepthFirst, Reaching
<1>10. Linked(num, K, G \ {x}, link2, R)
  <2> SUFFICES ASSUME NEW g \in G \ {x}
               PROVE  \E z \in K : num[z] = link2[g] /\ num[z] <= num[g] /\ z \in R[g]
    BY DEF Linked
  <2>1. PICK z \in K : num[z] = link[g] /\ num[z] <= num[g] /\ z \in R[g]
    BY DEF DepthFirst, Linked
  <2>2. g \in Nodes /\ g \in K
    BY <1>1
  <2>3. CASE link2[g] = link[g]
    BY <2>1, <2>3
  <2>4. CASE link2[g] # link[g]
    <3>1. g = c /\ link2[c] = link[x]
      BY <1>6, <2>2, <2>4
    <3>2. num[w] <= num[c]
      BY <1>1, <1>2, <1>3, <1>6, <2>1, <3>1
    <3> QED
      BY <1>2, <1>5, <3>1, <3>2
  <2> QED
    BY <2>3, <2>4
<1>11. Returning(num, K, G \ {x}, R)
  <2> SUFFICES ASSUME NEW y \in K \ (G \ {x}) PROVE \E z \in K : num[z] < num[y] /\ z \in R[y]
    BY DEF Returning
  <2>1. CASE y = x
    BY <1>2, <1>3, <2>1
  <2>2. CASE y # x
    BY <2>2 DEF DepthFirst, Returning
  <2> QED
    BY <2>1, <2>2
<1>12. Accounted(num, K, G \ {x}, link2, L, E)
  <2> SUFFICES ASSUME NEW g \in G \ {x}, NEW y \in K, Accounts(num, G \ {x}, g, y),
                      NEW z \in (K \cap E[y]) \ L[y]
               PROVE  link2[g] <= num[z]
    BY DEF Accounted
  <2>1. g \in Nodes /\ g \in K /\ link[g] \in Nat /\ link2[g] \in Nat /\ link[x] \in Nat
    BY <1>1, <1>4
  <2>2. \A h \in G : h # x => ~(num[g] < num[h] /\ num[h] <= num[y])
    BY DEF Accounts
  <2>3. num[g] <= num[y]
    BY DEF Accounts
  <2>4. CASE num[x] <= num[y]
    <3>1. Accounts(num, G, x, y)
      BY <1>1, <1>3, <2>4 DEF Accounts
    <3>2. link[x] <= num[z]
      BY <3>1 DEF DepthFirst, Accounted
    <3>3. g = c
      BY <1>1, <1>3, <2>1, <2>2, <2>4
    <3> QED
      BY <1>3, <1>6, <2>1, <3>2, <3>3
  <2>5. CASE ~(num[x] <= num[y])
    <3>1. Accounts(num, G, g, y)
      BY <2>2, <2>3, <2>5 DEF Accounts
    <3>2. link[g] <= num[z]
      BY <3>1 DEF DepthFirst, Accounted
    <3>3. link2[g] <= link[g] /\ num[z] \in Nat
      BY <1>3, <1>6, <2>1
    <3> QED
      BY <2>1, <3>2, <3>3
  <2> QED
    BY <2>4, <2>5
<1>13. Rooted(num, K, G \ {x})
  <2> SUFFICES ASSUME NEW y \in K PROVE \E g \in G \ {x} : num[g] <= num[y]
    BY DEF Rooted
  <2>1. PICK g \in G : num[g] <= num[y]
    BY DEF DepthFirst, Rooted
  <2>2. num[g] \in Nat /\ num[y] \in Nat
    BY <1>1, <1>3
  <2> QED
    BY <1>3, <2>1, <2>2
<1> QED
  BY <1>7, <1>8, <1>9, <1>10, <1>11, <1>12, <1>13 DEF DepthFirst, Sealed, link2

(***************************************************************************)
(* A call that returns with its own number as low link: what is stacked    *)
(* from its node on is the component of the node, and leaves the stack.    *)
(***************************************************************************)
KeepsLinks(link, link2, G, x) ==
    \A g \in G : g # x => link2[g] = link[g] \/ link2[g] = Smaller(link[g], link[x])

IsBelow(num, K, x, K2) == K2 = {y \in K : num[y] < num[x]}

AboveIsComponent(num, K, x, R) ==
    \A n \in Nodes : n \in K /\ num[x] <= num[n] <=> n \in R[x] /\ x \in R[n]

LEMMA NodeClosed ==
    ASSUME NEW S \in SUBSET Nodes, NEW num \in [S -> Nat],
           NEW K \in SUBSET Nodes, NEW G \in SUBSET Nodes,
           NEW link \in [Nodes -> Nat], NEW L \in [Nodes -> SUBSET Nodes],
           NEW E \in [Nodes -> SUBSET Nodes], NEW R \in [Nodes -> SUBSET Nodes],
           IsReached(E, R), DepthFirst(num, K, G, link, L, E, R),
           NEW x \in Nodes, IsTop(num, G, x), L[x] = {}, link[x] = num[x],
           NEW link2 \in [Nodes -> Nat], KeepsLinks(link, link2, G, x),
           NEW K2 \in SUBSET Nodes, IsBelow(num, K, x, K2)
    PROVE  /\ DepthFirst(num, K2, G \ {x}, link2, L, E, R)
           /\ AboveIsComponent(num, K, x, R)
<1> DEFINE P == {y \in K : num[x] <= num[y]}
<1>13. /\ K2 = {y \in K : num[y] < num[x]} /\ P = {y \in K : num[x] <= num[y]}
       /\ x \in G /\ \A g \in G : num[g] <= num[x]
       /\ \A g \in G : g # x => link2[g] = Smaller(link[g], link[x]) \/ link2[g] = link[g]
  BY DEF IsTop, KeepsLinks, IsBelow
<1> USE <1>13
<1> HIDE DEF P
<1>1. /\ num \in [DOMAIN num -> Nat] /\ DOMAIN num \subseteq Nodes
      /\ \A n, m \in DOMAIN num : num[n] = num[m] => n = m
      /\ K \subseteq DOMAIN num /\ G \subseteq K
      /\ link \in [Nodes -> Nat] /\ L \in [Nodes -> SUBSET Nodes]
  BY DEF DepthFirst, Numbered
<1>2. /\ K2 \subseteq K /\ P \subseteq K /\ K = K2 \cup P /\ K2 \cap P = {} /\ x \in P
      /\ \A n \in K : num[n] \in Nat /\ n \in Nodes /\ n \in DOMAIN num
      /\ \A n \in K2 : num[n] < num[x]
  BY <1>1
<1>3. G \ {x} \subseteq K2
  BY <1>1
<1>4. \A g \in G \ {x} : link2[g] = link[g]
  <2> TAKE g \in G \ {x}
  <2>1. PICK z \in K : num[z] = link[g] /\ num[z] <= num[g]
    BY DEF DepthFirst, Linked
  <2>2. num[g] < num[x] /\ link[g] < link[x] /\ link[g] \in Nat /\ link[x] \in Nat
    BY <1>1, <1>2, <1>3, <2>1
  <2> QED
    BY <2>2 DEF Smaller
<1> DEFINE Gone == DOMAIN num \ K
<1>5. ASSUME NEW y \in P PROVE E[y] \subseteq P \cup Gone
  <2>1. L[y] = {}
    BY <1>1, <1>2 DEF DepthFirst, Taken
  <2>2. E[y] \subseteq DOMAIN num
    BY <1>2, <2>1 DEF DepthFirst, Taken
  <2>3. Accounts(num, G, x, y)
    BY <1>1, <1>2 DEF Accounts
  <2>4. ASSUME NEW m \in E[y], m \in K PROVE m \in P
    <3>1. link[x] <= num[m]
      BY <1>2, <2>1, <2>3, <2>4 DEF DepthFirst, Accounted
    <3> QED
      BY <2>4, <3>1
  <2> QED
    BY <2>2, <2>4
<1>6. \A y \in Gone : E[y] \subseteq Gone
  BY DEF DepthFirst, Sealed
<1>7. ASSUME NEW y \in P PROVE R[y] \subseteq P \cup Gone
  <2>1. P \cup Gone \in SUBSET Nodes /\ y \in Nodes
    BY <1>1, <1>2
  <2>2. \A m \in P \cup Gone : E[m] \subseteq P \cup Gone
    BY <1>5, <1>6
  <2> HIDE DEF Gone
  <2> QED
    BY <2>1, <2>2 DEF IsReached
<1>8. ASSUME NEW y \in Gone PROVE R[y] \subseteq Gone
  <2>1. Gone \in SUBSET Nodes /\ y \in Nodes
    BY <1>1
  <2> HIDE DEF Gone
  <2> QED
    BY <1>6, <2>1 DEF IsReached
<1>9. DepthFirst(num, K2, G \ {x}, link2, L, E, R)
  <2>1. Numbered(num, K2, G \ {x}, link2, L)
    BY <1>1, <1>2, <1>3 DEF Numbered
  <2>2. Taken(num, G \ {x}, L, E)
    <3>1. \A n \in DOMAIN num \ G : L[n] = {}
      BY DEF DepthFirst, Taken
    <3>2. \A n \in DOMAIN num \ (G \ {x}) : L[n] = {}
      BY <3>1
    <3> QED
      BY <3>2 DEF DepthFirst, Taken
  <2>3. Sealed(num, K2, E)
    <3>1. DOMAIN num \ K2 = P \cup Gone
      BY <1>1, <1>2
    <3>2. \A m \in P \cup Gone : E[m] \subseteq P \cup Gone
      BY <1>5, <1>6
    <3> QED
      BY <3>1, <3>2 DEF Sealed
  <2>4. Reaching(num, K2, G \ {x}, R)
    BY <1>2 DEF DepthFirst, Reaching
  <2>5. Linked(num, K2, G \ {x}, link2, R)
    <3> SUFFICES ASSUME NEW g \in G \ {x}
                 PROVE  \E z \in K2 : num[z] = link2[g] /\ num[z] <= num[g] /\ z \in R[g]
      BY DEF Linked
    <3>1. PICK z \in K : num[z] = link[g] /\ num[z] <= num[g] /\ z \in R[g]
      BY DEF DepthFirst, Linked
    <3>2. num[g] < num[x] /\ num[z] \in Nat /\ num[g] \in Nat /\ num[x] \in Nat
      BY <1>2, <1>3
    <3>3. z \in K2
      BY <3>1, <3>2
    <3> QED
      BY <1>4, <3>1, <3>3
  <2>6. Returning(num, K2, G \ {x}, R)
    <3> SUFFICES ASSUME NEW y \in K2 \ (G \ {x}) PROVE \E z \in K2 : num[z] < num[y] /\ z \in R[y]
      BY DEF Returning
    <3>1. y \in K \ G
      BY <1>2
    <3>2. PICK z \in K : num[z] < num[y] /\ z \in R[y]
      BY <3>1 DEF DepthFirst, Returning
    <3>3. z \in K2
      BY <1>2, <3>2
    <3> QED
      BY <3>2, <3>3
  <2>7. Accounted(num, K2, G \ {x}, link2, L, E)
    <3> SUFFICES ASSUME NEW g \in G \ {x}, NEW y \in K2, Accounts(num, G \ {x}, g, y),
                        NEW z \in (K2 \cap E[y]) \ L[y]
                 PROVE  link2[g] <= num[z]
      BY DEF Accounted
    <3>1. y \in K /\ num[y] < num[x] /\ num[y] \in Nat /\ num[x] \in Nat
      BY <1>2
    <3>2. Accounts(num, G, g, y)
      BY <3>1 DEF Accounts
    <3>3. link[g] <= num[z]
      BY <1>2, <3>2 DEF DepthFirst, Accounted
    <3> QED
      BY <1>4, <3>3
  <2>8. Rooted(num, K2, G \ {x})
    <3> SUFFICES ASSUME NEW y \in K2 PROVE \E g \in G \ {x} : num[g] <= num[y]
      BY DEF Rooted
    <3>1. PICK g \in G : num[g] <= num[y]
      BY <1>2 DEF DepthFirst, Rooted
    <3>2. num[y] < num[x] /\ num[y] \in Nat /\ num[x] \in Nat
      BY <1>2
    <3> QED
      BY <3>1, <3>2
  <2> QED
    BY <2>1, <2>2, <2>3, <2>4, <2>5, <2>6, <2>7, <2>8 DEF DepthFirst
<1>10. ASSUME NEW n \in P PROVE n \in R[x]
  BY <1>10 DEF DepthFirst, Reaching
<1>11. ASSUME NEW n \in P PROVE x \in R[n]
  <2> DEFINE Lost == {m \in P : x \notin R[m]}
             Numbers == {num[m] : m \in Lost}
  <2>1. SUFFICES ASSUME Lost # {} PROVE FALSE
    BY <1>11
  <2>2. Numbers \in SUBSET Nat /\ Numbers # {}
    BY <1>2, <2>1
  <2>3. PICK l \in Numbers : \A k \in Numbers : l <= k
    <3> HIDE DEF Numbers
    <3> QED
      BY <2>2, LeastExists
  <2>4. PICK y \in Lost : num[y] = l
    OBVIOUS
  <2>5. y \in P /\ x \notin R[y] /\ y \in Nodes /\ y # x
    <3>1. x \in R[x]
      BY <1>2 DEF IsReached
    <3> QED
      BY <1>2, <3>1
  <2>6. y \in K \ G
    BY <1>2, <1>3, <2>5
  <2>7. PICK z \in K : num[z] < num[y] /\ z \in R[y]
    BY <2>6 DEF DepthFirst, Returning
  <2>8. z \in P /\ z \in Nodes
    BY <1>2, <1>7, <2>5, <2>7
  <2>9. num[z] \in Nat /\ num[y] \in Nat
    BY <1>2, <2>5
  <2>10. z \notin Lost
    <3>1. \A m \in Lost : num[y] <= num[m]
      BY <2>3, <2>4
    <3> HIDE DEF Lost
    <3> QED
      BY <2>7, <2>9, <3>1
  <2>11. x \in R[z]
    BY <2>8, <2>10
  <2>12. R[z] \subseteq R[y]
    <3>1. R[y] \in SUBSET Nodes /\ \A m \in R[y] : E[m] \subseteq R[y]
      BY <2>5 DEF IsReached
    <3> QED
      BY <2>7, <2>8, <3>1 DEF IsReached
  <2> QED
    BY <2>5, <2>11, <2>12
<1>12. ASSUME NEW n \in Nodes, n \in R[x], x \in R[n] PROVE n \in P
  <2>1. n \in P \cup Gone
    BY <1>2, <1>7, <1>12
  <2>2. n \notin Gone
    BY <1>2, <1>8, <1>12
  <2> QED
    BY <2>1, <2>2
<1> QED
  <2>1. ASSUME NEW n \in Nodes PROVE n \in K /\ num[x] <= num[n] <=> n \in R[x] /\ x \in R[n]
    <3>1. n \in K /\ num[x] <= num[n] <=> n \in P
      BY <1>13
    <3> QED
      BY <1>10, <1>11, <1>12, <3>1
  <2> QED
    BY <1>9, <2>1 DEF AboveIsComponent

-----------------------------------------------------------------------------
(***************************************************************************)
(* Sequences of nodes with rising numbers: a node numbered last is pushed, *)
(* the nodes from one on are popped.                                       *)
(***************************************************************************)
LEMMA NodesOf == \A q \in Seq(Nodes) : ToSet(q) \in SUBSET Nodes
BY DEF ToSet

LEMMA PushedSet ==
    ASSUME NEW q \in Seq(Nodes), NEW t \in Nodes
    PROVE  ToSet(Append(q, t)) = ToSet(q) \cup {t}
<1> DEFINE p == Append(q, t)
<1>1. /\ Len(p) = Len(q) + 1 /\ Len(q) \in Nat
      /\ DOMAIN p = 1 .. (Len(q) + 1) /\ DOMAIN q = 1 .. Len(q)
      /\ p[Len(q) + 1] = t /\ \A i \in 1 .. Len(q) : p[i] = q[i]
  OBVIOUS
<1> HIDE DEF p
<1>2. ToSet(p) = ToSet(q) \cup {t}
  BY <1>1 DEF ToSet
<1> QED
  BY <1>2 DEF p

LEMMA RisingPushed ==
    ASSUME NEW S \in SUBSET Nodes, NEW num \in [S -> Nat], NEW q \in Seq(Nodes), Rising(q, num),
           NEW t \in Nodes, NEW num2 \in [S \cup {t} -> Nat], t \notin DOMAIN num,
           \A n \in DOMAIN num : num2[n] = num[n] /\ num[n] < num2[t]
    PROVE  Rising(Append(q, t), num2)
<1> DEFINE p == Append(q, t)
<1>1. /\ p \in Seq(Nodes) /\ Len(p) = Len(q) + 1 /\ Len(q) \in Nat
      /\ DOMAIN p = 1 .. (Len(q) + 1) /\ DOMAIN q = 1 .. Len(q)
      /\ p[Len(q) + 1] = t /\ \A i \in 1 .. Len(q) : p[i] = q[i]
  OBVIOUS
<1> HIDE DEF p
<1>2. ToSet(p) = ToSet(q) \cup {t}
  BY PushedSet DEF p
<1>3. \A i \in 1 .. Len(q) : q[i] \in DOMAIN num
  BY <1>1 DEF Rising, ToSet
<1>4. ASSUME NEW i \in DOMAIN p, NEW j \in DOMAIN p, i < j PROVE num2[p[i]] < num2[p[j]]
  <2>1. i \in 1 .. Len(q) /\ p[i] = q[i]
    BY <1>1, <1>4
  <2>2. CASE j = Len(q) + 1
    BY <1>1, <1>3, <2>1, <2>2
  <2>3. CASE j # Len(q) + 1
    <3>1. j \in 1 .. Len(q) /\ p[j] = q[j]
      BY <1>1, <2>3
    <3>2. num[q[i]] < num[q[j]]
      BY <1>1, <1>4, <2>1, <3>1 DEF Rising
    <3> QED
      BY <1>3, <2>1, <3>1, <3>2
  <2> QED
    BY <2>2, <2>3
<1>5. Rising(p, num2)
  BY <1>2, <1>4 DEF Rising
<1> QED
  BY <1>5 DEF p

LEMMA RisingPopped ==
    ASSUME NEW num, num \in [DOMAIN num -> Nat], NEW q \in Seq(Nodes), Rising(q, num),
           NEW k \in 1 .. Len(q)
    PROVE  /\ SubSeq(q, 1, k - 1) \in Seq(Nodes) /\ Rising(SubSeq(q, 1, k - 1), num)
           /\ ToSet(SubSeq(q, 1, k - 1)) = {y \in ToSet(q) : num[y] < num[q[k]]}
           /\ ToSet(SubSeq(q, k, Len(q))) = {y \in ToSet(q) : num[q[k]] <= num[y]}
           /\ SubSeq(q, 1, k - 1) # <<>> <=> k # 1
<1> DEFINE below == SubSeq(q, 1, k - 1)
           above == SubSeq(q, k, Len(q))
<1>1. Len(q) \in Nat /\ DOMAIN q = 1 .. Len(q) /\ k \in Nat /\ k - 1 \in 0 .. Len(q)
  OBVIOUS
<1>2. below \in Seq(Nodes) /\ DOMAIN below = 1 .. (k - 1) /\ \A i \in 1 .. (k - 1) : below[i] = q[i]
  BY <1>1
<1>3. DOMAIN above = 1 .. (Len(q) - k + 1) /\ \A i \in 1 .. (Len(q) - k + 1) : above[i] = q[k + i - 1]
  BY <1>1
<1>4. below # <<>> <=> k # 1
  BY <1>1, <1>2
<1>5. \A i \in 1 .. Len(q) : q[i] \in DOMAIN num /\ num[q[i]] \in Nat
  BY <1>1 DEF Rising, ToSet
<1>6. \A i, j \in 1 .. Len(q) : i < j => num[q[i]] < num[q[j]]
  BY <1>1 DEF Rising
<1>7. \A i \in 1 .. Len(q) : i < k <=> num[q[i]] < num[q[k]]
  BY <1>1, <1>5, <1>6
<1> HIDE DEF below, above
<1>8. ToSet(below) = {y \in ToSet(q) : num[y] < num[q[k]]}
  <2>1. ASSUME NEW y \in ToSet(below) PROVE y \in ToSet(q) /\ num[y] < num[q[k]]
    <3>1. PICK i \in 1 .. (k - 1) : y = below[i]
      BY <1>2 DEF ToSet
    <3>2. i \in 1 .. Len(q) /\ i < k /\ y = q[i]
      BY <1>1, <1>2, <3>1
    <3> QED
      BY <1>1, <1>7, <3>2 DEF ToSet
  <2>2. ASSUME NEW y \in ToSet(q), num[y] < num[q[k]] PROVE y \in ToSet(below)
    <3>1. PICK i \in 1 .. Len(q) : y = q[i]
      BY <1>1 DEF ToSet
    <3>2. i \in 1 .. (k - 1)
      BY <1>1, <1>7, <2>2, <3>1
    <3> QED
      BY <1>2, <3>1, <3>2 DEF ToSet
  <2> QED
    BY <2>1, <2>2
<1>9. ToSet(above) = {y \in ToSet(q) : num[q[k]] <= num[y]}
  <2>1. ASSUME NEW y \in ToSet(above) PROVE y \in ToSet(q) /\ num[q[k]] <= num[y]
    <3>1. PICK i \in 1 .. (Len(q) - k + 1) : y = above[i]
      BY <1>3 DEF ToSet
    <3>2. k + i - 1 \in 1 .. Len(q) /\ ~(k + i - 1 < k) /\ y = q[k + i - 1]
      BY <1>1, <1>3, <3>1
    <3>3. ~(num[y] < num[q[k]]) /\ num[y] \in Nat /\ num[q[k]] \in Nat
      BY <1>5, <1>7, <3>2
    <3> QED
      BY <1>1, <3>2, <3>3 DEF ToSet
  <2>2. ASSUME NEW y \in ToSet(q), num[q[k]] <= num[y] PROVE y \in ToSet(above)
    <3>1. PICK i \in 1 .. Len(q) : y = q[i]
      BY <1>1 DEF ToSet
    <3>2. ~(i < k)
      BY <1>5, <1>7, <2>2, <3>1
    <3>3. i - k + 1 \in 1 .. (Len(q) - k + 1) /\ k + (i - k + 1) - 1 = i
      BY <1>1, <3>2
    <3>4. above[i - k + 1] = q[i]
      BY <1>3, <3>3
    <3> QED
      BY <1>3, <3>1, <3>3, <3>4 DEF ToSet
  <2> QED
    BY <2>1, <2>2
<1>10. Rising(below, num)
  <2>1. ToSet(below) \subseteq DOMAIN num
    BY <1>8 DEF Rising
  <2>2. \A i, j \in DOMAIN below : i < j => num[below[i]] < num[below[j]]
    BY <1>1, <1>2, <1>6
  <2> QED
    BY <2>1, <2>2 DEF Rising
<1> QED
  BY <1>2, <1>4, <1>8, <1>9, <1>10 DEF below, above

(***************************************************************************)
(* The call on top, and its caller.                                        *)
(***************************************************************************)
LEMMA CallsOnTop ==
    ASSUME NEW num, num \in [DOMAIN num -> Nat], NEW q \in Seq(Nodes), Rising(q, num), q # <<>>,
           \A n, m \in DOMAIN num : num[n] = num[m] => n = m
    PROVE  LET x == q[Len(q)]
               depth == Len(q) - 1
               rest == SubSeq(q, 1, depth)
           IN  /\ x \in ToSet(q) /\ x \in Nodes /\ depth \in Nat
               /\ \A g \in ToSet(q) : num[g] <= num[x]
               /\ rest \in Seq(Nodes) /\ Rising(rest, num)
               /\ ToSet(rest) = ToSet(q) \ {x}
               /\ depth = 0 => ToSet(q) = {x}
               /\ depth # 0 => /\ q[depth] \in ToSet(q) /\ q[depth] # x /\ q[depth] \in Nodes
                               /\ \A g \in ToSet(q) : g # x => num[g] <= num[q[depth]]
<1>1. /\ Len(q) \in Nat /\ DOMAIN q = 1 .. Len(q) /\ Len(q) \in 1 .. Len(q) /\ Len(q) - 1 \in Nat
      /\ \A i \in 1 .. Len(q) : q[i] \in Nodes
  OBVIOUS
<1>2. \A i \in 1 .. Len(q) : q[i] \in DOMAIN num /\ num[q[i]] \in Nat /\ q[i] \in ToSet(q)
  BY <1>1 DEF Rising, ToSet
<1>3. \A i, j \in 1 .. Len(q) : i < j => num[q[i]] < num[q[j]]
  BY <1>1 DEF Rising
<1>4. \A g \in ToSet(q) : \E i \in 1 .. Len(q) : g = q[i]
  BY <1>1 DEF ToSet
<1> DEFINE x == q[Len(q)]
           depth == Len(q) - 1
           rest == SubSeq(q, 1, depth)
<1>5. x \in ToSet(q) /\ x \in Nodes /\ depth \in Nat
  BY <1>1, <1>2
<1>6. ASSUME NEW g \in ToSet(q) PROVE num[g] <= num[x] /\ (g # x => num[g] < num[x])
  <2>1. PICK i \in 1 .. Len(q) : g = q[i]
    BY <1>4
  <2>2. i = Len(q) \/ i < Len(q)
    BY <1>1
  <2> QED
    BY <1>1, <1>2, <1>3, <2>1, <2>2
<1>7. /\ rest \in Seq(Nodes) /\ Rising(rest, num)
      /\ ToSet(rest) = {y \in ToSet(q) : num[y] < num[x]}
  BY <1>1, RisingPopped
<1>8. ToSet(rest) = ToSet(q) \ {x}
  <2>1. num[x] \in Nat
    BY <1>1, <1>2
  <2> HIDE DEF rest, x
  <2> QED
    BY <1>6, <1>7, <2>1
<1>9. ASSUME depth = 0 PROVE ToSet(q) = {x}
  <2>1. Len(q) = 1
    <3>1. \A l \in Nat : l - 1 = 0 => l = 1
      OBVIOUS
    <3> QED
      BY <1>1, <1>9, <3>1
  <2>2. \A g \in ToSet(q) : g = x
    BY <1>4, <2>1
  <2> QED
    BY <1>5, <2>2
<1>10. ASSUME depth # 0
       PROVE  /\ q[depth] \in ToSet(q) /\ q[depth] # x /\ q[depth] \in Nodes
              /\ \A g \in ToSet(q) : g # x => num[g] <= num[q[depth]]
  <2>1. depth \in 1 .. Len(q) /\ depth < Len(q)
    BY <1>1, <1>10
  <2>2. q[depth] \in ToSet(q) /\ q[depth] \in Nodes /\ num[q[depth]] < num[x] /\ num[x] \in Nat
    BY <1>1, <1>2, <1>3, <2>1
  <2>3. ASSUME NEW g \in ToSet(q), g # x PROVE num[g] <= num[q[depth]]
    <3>1. PICK i \in 1 .. Len(q) : g = q[i]
      BY <1>4
    <3>2. i = depth \/ i < depth
      BY <1>1, <2>3, <3>1
    <3> QED
      BY <1>2, <1>3, <2>1, <3>1, <3>2
  <2> QED
    BY <2>2, <2>3
<1> QED
  BY <1>5, <1>6, <1>7, <1>8, <1>9, <1>10

-----------------------------------------------------------------------------
(***************************************************************************)
(* The graph above the lower bound, and its components.                    *)
(***************************************************************************)
LEMMA GraphIsReached ==
    ASSUME adjacency \in Graphs, NEW low \in Nat
    PROVE  IsReached(EdgesFrom(low), ReachedFrom(low))
<1> DEFINE E == EdgesFrom(low)
           R == ReachedFrom(low)
<1>1. E \in [Nodes -> SUBSET Nodes] /\ \A n \in Nodes : E[n] = {m \in Targets(n) : m >= low}
  BY TargetsAreNodes DEF EdgesFrom
<1>2. R \in [Nodes -> SUBSET Nodes] /\ \A n \in Nodes : R[n] = Reach(n, low)
  BY ReachIsLeast DEF ReachedFrom
<1>3. \A n \in Nodes : n \in R[n]
  BY <1>2, ReachIsLeast
<1>4. \A W \in SUBSET Nodes : LeadsFrom(W, low) <=> \A y \in W : E[y] \subseteq W
  BY <1>1 DEF LeadsFrom
<1>5. \A n \in Nodes : \A y \in R[n] : E[y] \subseteq R[n]
  BY <1>2, <1>4, ReachIsLeast
<1>6. \A n \in Nodes, W \in SUBSET Nodes :
          n \in W /\ (\A y \in W : E[y] \subseteq W) => R[n] \subseteq W
  BY <1>2, <1>4, ReachIsLeast
<1> QED
  BY <1>1, <1>2, <1>3, <1>5, <1>6 DEF IsReached

LEMMA ReachGoesOn ==
    ASSUME adjacency \in Graphs, NEW low \in Nat, NEW n \in Nodes, NEW m \in Reach(n, low)
    PROVE  Reach(m, low) \subseteq Reach(n, low)
BY ReachIsLeast

LEMMA ReachStaysAbove ==
    ASSUME adjacency \in Graphs, NEW low \in Nat, NEW n \in Nodes, low <= n
    PROVE  Reach(n, low) \subseteq low .. (Size - 1)
<1> DEFINE W == {m \in Nodes : low <= m}
<1>1. W \in SUBSET Nodes /\ n \in W
  OBVIOUS
<1>2. LeadsFrom(W, low)
  BY TargetsAreNodes DEF LeadsFrom
<1>3. Reach(n, low) \subseteq W
  BY <1>1, <1>2, ReachIsLeast
<1>4. W \subseteq low .. (Size - 1)
  BY CycleAssumption DEF Nodes
<1> QED
  BY <1>3, <1>4

LEMMA ComponentIs ==
    ASSUME adjacency \in Graphs, NEW low \in Nat, NEW x \in Nodes, low <= x
    PROVE  /\ \A n : n \in ComponentOf(x, low) <=>
                        n \in Nodes /\ n \in Reach(x, low) /\ x \in Reach(n, low)
           /\ x \in low .. (Size - 1) /\ x \in ComponentOf(x, low)
<1>1. low .. (Size - 1) \subseteq Nodes
  BY CycleAssumption DEF Nodes
<1>2. x \in low .. (Size - 1)
  BY CycleAssumption DEF Nodes
<1>3. \A n : n \in ComponentOf(x, low) <=> n \in Nodes /\ n \in Reach(x, low) /\ x \in Reach(n, low)
  BY <1>1, ReachStaysAbove DEF ComponentOf
<1> QED
  BY <1>2, <1>3, ReachIsLeast

LEMMA SameComponentOf ==
    ASSUME adjacency \in Graphs, NEW low \in Nat, NEW x \in Nodes, low <= x,
           NEW n \in ComponentOf(x, low)
    PROVE  n \in Nodes /\ low <= n /\ ComponentOf(n, low) = ComponentOf(x, low)
<1>1. n \in Nodes /\ low <= n /\ n \in Reach(x, low) /\ x \in Reach(n, low)
  BY ComponentIs DEF ComponentOf
<1>2. Reach(n, low) = Reach(x, low)
  BY <1>1, ReachGoesOn
<1>3. ASSUME NEW m \in Nodes, m \in Reach(x, low) PROVE x \in Reach(m, low) <=> n \in Reach(m, low)
  BY <1>1, <1>3, ReachGoesOn
<1> QED
  BY <1>1, <1>2, <1>3, ComponentIs

LEMMA ComponentFacts ==
    ASSUME adjacency \in Graphs, NEW low \in Nat, NEW c \in Components(low)
    PROVE  /\ c \in SUBSET Nodes /\ c # {} /\ c \subseteq low .. (Size - 1) /\ c \in SUBSET Nat
           /\ Cardinality(c) > 1
           /\ \A n \in c : n \in low .. (Size - 1) /\ c = ComponentOf(n, low)
<1>1. PICK x \in low .. (Size - 1) : c = ComponentOf(x, low) /\ Cardinality(c) > 1
  BY DEF Components
<1>2. x \in Nodes /\ low <= x /\ low .. (Size - 1) \subseteq Nodes /\ low .. (Size - 1) \subseteq Nat
  BY CycleAssumption DEF Nodes
<1>3. c \subseteq low .. (Size - 1)
  BY <1>1 DEF ComponentOf
<1>4. x \in c
  BY <1>1, <1>2, ComponentIs
<1>5. ASSUME NEW n \in c PROVE c = ComponentOf(n, low)
  BY <1>1, <1>2, SameComponentOf
<1> QED
  BY <1>1, <1>2, <1>3, <1>4, <1>5

-----------------------------------------------------------------------------
(***************************************************************************)
(* The finder's steps.  What the invariant says of its state, and what its *)
(* operators make of it.                                                   *)
(***************************************************************************)
LEMMA FinderTypes ==
    ASSUME NEW s \in FinderStates
    PROVE  /\ s.visited \in [DOMAIN s.visited -> Nat] /\ DOMAIN s.visited \subseteq Nodes
           /\ s.lowLink \in [Nodes -> Nat] /\ s.next \in Nat
           /\ s.stack \in Seq(Nodes) /\ s.calls \in Seq(Nodes) /\ s.left \in [Nodes -> Seq(Nodes)]
           /\ s.root \in Nat /\ s.comps \in SUBSET (SUBSET Nodes)
<1>1. s.visited \in UNION {[S -> Nat] : S \in SUBSET Nodes}
  BY DEF FinderStates
<1>2. PICK S \in SUBSET Nodes : s.visited \in [S -> Nat]
  BY <1>1
<1> QED
  BY <1>2 DEF FinderStates

LEMMA FinderNumbers ==
    ASSUME NEW low, NEW s \in FinderStates, Searched(s, low)
    PROVE  /\ \A n, m \in DOMAIN s.visited : s.visited[n] = s.visited[m] => n = m
           /\ Stacked(s) \subseteq DOMAIN s.visited /\ Calling(s) \subseteq Stacked(s)
BY DEF Searched, DepthFirst, Numbered

LEMMA EnterMakes ==
    ASSUME NEW s \in FinderStates, NEW t \in Nodes
    PROVE  /\ Enter(s, t) \in FinderStates
           /\ Enter(s, t).visited = [n \in (DOMAIN s.visited) \cup {t} |->
                                        IF n = t THEN s.next ELSE s.visited[n]]
           /\ Enter(s, t).lowLink = [s.lowLink EXCEPT ![t] = s.next]
           /\ Enter(s, t).next = s.next + 1
           /\ Enter(s, t).stack = Append(s.stack, t) /\ Enter(s, t).calls = Append(s.calls, t)
           /\ Enter(s, t).left = s.left /\ Enter(s, t).root = s.root /\ Enter(s, t).comps = s.comps
<1> DEFINE num == [n \in (DOMAIN s.visited) \cup {t} |-> IF n = t THEN s.next ELSE s.visited[n]]
           e == [visited |-> num, lowLink |-> [s.lowLink EXCEPT ![t] = s.next], next |-> s.next + 1,
                 stack |-> Append(s.stack, t), calls |-> Append(s.calls, t), left |-> s.left,
                 root |-> s.root, comps |-> s.comps]
<1>1. Enter(s, t) = e
  <2>1. s = [visited |-> s.visited, lowLink |-> s.lowLink, next |-> s.next, stack |-> s.stack,
             calls |-> s.calls, left |-> s.left, root |-> s.root, comps |-> s.comps]
    BY DEF FinderStates
  <2>2. Enter(s, t) = [s EXCEPT !.visited = num, !.lowLink = [s.lowLink EXCEPT ![t] = s.next],
                                !.next = s.next + 1, !.stack = Append(s.stack, t),
                                !.calls = Append(s.calls, t)]
    BY <2>1 DEF Enter
  <2> HIDE DEF num
  <2> QED
    BY <2>1, <2>2
<1>2. num \in UNION {[S -> Nat] : S \in SUBSET Nodes}
  <2>1. (DOMAIN s.visited) \cup {t} \in SUBSET Nodes
    BY FinderTypes
  <2>2. num \in [(DOMAIN s.visited) \cup {t} -> Nat]
    BY FinderTypes
  <2> QED
    BY <2>1, <2>2
<1>3. Append(s.stack, t) \in Seq(Nodes) /\ Append(s.calls, t) \in Seq(Nodes)
  BY FinderTypes
<1>4. [s.lowLink EXCEPT ![t] = s.next] \in [Nodes -> Nat] /\ s.next + 1 \in Nat
  BY FinderTypes
<1> HIDE DEF num
<1>5. e \in FinderStates
  BY <1>2, <1>3, <1>4, FinderTypes DEF FinderStates
<1> QED
  BY <1>1, <1>5 DEF num

LEMMA RootPassedMakes ==
    ASSUME NEW s \in FinderStates
    PROVE  LET w == [s EXCEPT !.root = s.root + 1] IN
           /\ w \in FinderStates /\ w.root = s.root + 1 /\ w.visited = s.visited
           /\ w.lowLink = s.lowLink /\ w.next = s.next /\ w.stack = s.stack /\ w.calls = s.calls
           /\ w.left = s.left /\ w.comps = s.comps
<1> DEFINE w == [s EXCEPT !.root = s.root + 1]
           r == [visited |-> s.visited, lowLink |-> s.lowLink, next |-> s.next, stack |-> s.stack,
                 calls |-> s.calls, left |-> s.left, root |-> s.root + 1, comps |-> s.comps]
<1>1. w = r
  <2>1. s = [visited |-> s.visited, lowLink |-> s.lowLink, next |-> s.next, stack |-> s.stack,
             calls |-> s.calls, left |-> s.left, root |-> s.root, comps |-> s.comps]
    BY DEF FinderStates
  <2> QED
    BY <2>1
<1>2. s.visited \in UNION {[S -> Nat] : S \in SUBSET Nodes}
  BY DEF FinderStates
<1>3. r \in FinderStates
  BY <1>2, FinderTypes DEF FinderStates
<1> QED
  BY <1>1, <1>3

(***************************************************************************)
(* A node is entered, from a root or by an edge.                           *)
(***************************************************************************)
\* w is s but for the root, and for edges to t that have been taken.
IsLeftBut(s, n, left, t) ==
    /\ n \notin DOMAIN s.visited => left = s.left[n]
    /\ ToSet(left) \subseteq ToSet(s.left[n]) /\ ToSet(s.left[n]) \subseteq ToSet(left) \cup {t}
    /\ Len(left) <= Len(s.left[n])

IsAbout(s, w, t) ==
    /\ w.visited = s.visited /\ w.lowLink = s.lowLink /\ w.next = s.next
    /\ w.stack = s.stack /\ w.calls = s.calls /\ w.comps = s.comps
    /\ \A n \in Nodes : IsLeftBut(s, n, w.left[n], t)

HasEntered(s, e, t, root) ==
    /\ DOMAIN e.visited = DOMAIN s.visited \cup {t}
    /\ Stacked(e) = Stacked(s) \cup {t} /\ Calling(e) = Calling(s) \cup {t}
    /\ e.comps = s.comps /\ e.root = root

LEMMA EnterKeeps ==
    ASSUME adjacency \in Graphs, NEW low \in Nat, NEW s \in FinderStates, FinderInv(s, low),
           NEW t \in Nodes, low <= t, t \notin DOMAIN s.visited, \A g \in Calling(s) : t \in Reach(g, low),
           NEW w \in FinderStates, IsAbout(s, w, t)
    PROVE  /\ Enter(w, t) \in FinderStates
           /\ Ordered(Enter(w, t), low) /\ LeftToTake(Enter(w, t)) /\ Searched(Enter(w, t), low)
           /\ HasEntered(s, Enter(w, t), t, w.root)
<1> DEFINE e == Enter(w, t)
           num == s.visited
           num2 == e.visited
<1>13. /\ w.visited = s.visited /\ w.lowLink = s.lowLink /\ w.next = s.next
       /\ w.stack = s.stack /\ w.calls = s.calls /\ w.comps = s.comps
  BY DEF IsAbout
<1>15. ASSUME NEW n \in Nodes
       PROVE  /\ n \notin DOMAIN s.visited => w.left[n] = s.left[n]
              /\ ToSet(w.left[n]) \subseteq ToSet(s.left[n])
              /\ ToSet(s.left[n]) \subseteq ToSet(w.left[n]) \cup {t}
              /\ Len(w.left[n]) <= Len(s.left[n])
  <2>1. IsLeftBut(s, n, w.left[n], t)
    BY DEF IsAbout
  <2> QED
    BY ONLY <2>1 DEF IsLeftBut
<1>1. /\ e \in FinderStates
      /\ num2 = [n \in (DOMAIN num) \cup {t} |-> IF n = t THEN s.next ELSE num[n]]
      /\ e.lowLink = [s.lowLink EXCEPT ![t] = s.next] /\ e.next = s.next + 1
      /\ e.stack = Append(s.stack, t) /\ e.calls = Append(s.calls, t)
      /\ e.left = w.left /\ e.root = w.root /\ e.comps = s.comps
  <2>1. /\ e \in FinderStates
        /\ num2 = [n \in (DOMAIN w.visited) \cup {t} |-> IF n = t THEN w.next ELSE w.visited[n]]
        /\ e.lowLink = [w.lowLink EXCEPT ![t] = w.next] /\ e.next = w.next + 1
        /\ e.stack = Append(w.stack, t) /\ e.calls = Append(w.calls, t)
        /\ e.left = w.left /\ e.root = w.root /\ e.comps = w.comps
    BY EnterMakes
  <2> HIDE DEF e, num2
  <2> QED
    BY <1>13, <2>1
<1>2. /\ num \in [DOMAIN num -> Nat] /\ DOMAIN num \subseteq Nodes
      /\ s.lowLink \in [Nodes -> Nat] /\ s.next \in Nat
      /\ s.stack \in Seq(Nodes) /\ s.calls \in Seq(Nodes)
      /\ s.left \in [Nodes -> Seq(Nodes)] /\ w.left \in [Nodes -> Seq(Nodes)]
  BY FinderTypes
<1> HIDE DEF e, num, num2
<1>3. /\ DOMAIN num2 = (DOMAIN num) \cup {t} /\ num2[t] = s.next /\ t \notin DOMAIN num
      /\ \A n \in DOMAIN num : num2[n] = num[n] /\ num[n] < s.next /\ low <= n
  <2>1. \A n \in DOMAIN num : num[n] < s.next /\ low <= n
    BY DEF FinderInv, Ordered, num
  <2> QED
    BY <1>1, <2>1 DEF num
<1>4. num2 \in [(DOMAIN num) \cup {t} -> Nat]
  BY <1>1, <1>2
<1>5. Rising(s.stack, num) /\ Rising(s.calls, num)
  BY DEF FinderInv, Ordered, num
<1>6. \A n \in DOMAIN num : num2[n] = num[n] /\ num[n] < num2[t]
  BY <1>3
<1>14. ASSUME NEW q \in Seq(Nodes), Rising(q, num) PROVE Rising(Append(q, t), num2)
  <2>1. DOMAIN num \in SUBSET Nodes /\ num \in [DOMAIN num -> Nat]
    BY <1>2
  <2>2. num2 \in [(DOMAIN num) \cup {t} -> Nat] /\ t \notin DOMAIN num
    BY <1>3, <1>4
  <2> QED
    BY <1>6, <1>14, <2>1, <2>2, RisingPushed
<1>7. Rising(e.stack, num2) /\ Stacked(e) = Stacked(s) \cup {t}
  BY <1>1, <1>2, <1>5, <1>14, PushedSet DEF Stacked
<1>8. Rising(e.calls, num2) /\ Calling(e) = Calling(s) \cup {t}
  BY <1>1, <1>2, <1>5, <1>14, PushedSet DEF Calling
<1>9. Ordered(e, low)
  <2>1. \A n \in DOMAIN num2 : low <= n /\ num2[n] < s.next + 1
    BY <1>2, <1>3
  <2> QED
    BY <1>1, <1>7, <1>8, <2>1 DEF Ordered, num2
<1>10. LeftToTake(e)
  <2> SUFFICES ASSUME NEW n \in Nodes
               PROVE  /\ n \notin DOMAIN num2 => w.left[n] = adjacency[n]
                      /\ ToSet(w.left[n]) \subseteq Targets(n)
                      /\ Len(w.left[n]) <= Len(adjacency[n])
    BY <1>1 DEF LeftToTake, num2
  <2>1. /\ n \notin DOMAIN num => s.left[n] = adjacency[n]
        /\ ToSet(s.left[n]) \subseteq Targets(n) /\ Len(s.left[n]) <= Len(adjacency[n])
    BY DEF FinderInv, LeftToTake, num
  <2>2. adjacency[n] \in Seq(Nodes) /\ s.left[n] \in Seq(Nodes) /\ w.left[n] \in Seq(Nodes)
    BY <1>2, TargetsAreNodes
  <2>3. n \notin DOMAIN num2 => w.left[n] = adjacency[n]
    BY <1>3, <1>15, <2>1 DEF num
  <2>4. /\ ToSet(w.left[n]) \subseteq ToSet(s.left[n]) /\ Len(w.left[n]) <= Len(s.left[n])
    BY <1>15
  <2>5. Len(w.left[n]) \in Nat /\ Len(s.left[n]) \in Nat /\ Len(adjacency[n]) \in Nat
    BY <2>2
  <2> QED
    BY <2>1, <2>3, <2>4, <2>5
<1>11. Searched(e, low)
  <2> DEFINE E == EdgesFrom(low)
             R == ReachedFrom(low)
             L == LeftOf(s)
             L2 == LeftOf(e)
             K == Stacked(s)
             G == Calling(s)
  <2>1. IsReached(E, R)
    BY GraphIsReached
  <2>2. DepthFirst(num, K, G, s.lowLink, L, E, R)
    BY DEF FinderInv, Searched, num
  <2>3. G \subseteq Nodes /\ \A g \in G : t \in R[g]
    <3>1. G \subseteq Nodes
      BY <1>2 DEF Calling, ToSet
    <3> QED
      BY <3>1 DEF ReachedFrom
  <2>4. L2 \in [Nodes -> SUBSET Nodes] /\ \A n \in Nodes : L2[n] \subseteq L[n] /\ L[n] \subseteq L2[n] \cup {t}
    <3>1. \A n \in Nodes : L2[n] = ToSet(w.left[n]) /\ L[n] = ToSet(s.left[n])
      BY <1>1 DEF LeftOf
    <3>2. \A n \in Nodes : ToSet(w.left[n]) \in SUBSET Nodes
      BY <1>2, NodesOf
    <3>3. L2 \in [Nodes -> SUBSET Nodes]
      BY <1>1, <3>2 DEF LeftOf
    <3> QED
      BY <1>15, <3>1, <3>3
  <2>5. E[t] \subseteq L2[t]
    <3>1. w.left[t] = adjacency[t]
      BY <1>15 DEF FinderInv, LeftToTake
    <3>2. L2[t] = Targets(t)
      BY <1>1, <3>1 DEF LeftOf, Targets
    <3> QED
      BY <3>2 DEF EdgesFrom
  <2>6. e.lowLink \in [Nodes -> Nat] /\ e.lowLink[t] = s.next
        /\ \A n \in Nodes : n # t => e.lowLink[n] = s.lowLink[n]
    BY <1>1, <1>2
  <2> DEFINE link2 == e.lowLink
             next == s.next
  <2> HIDE DEF E, R, L, L2, K, G, link2, next
  <2>7. DepthFirst(num2, K \cup {t}, G \cup {t}, e.lowLink, L2, E, R)
    <3>1. DepthFirst(num, K, G, s.lowLink, L, E, R)
      BY <2>2
    <3>2. link2 \in [Nodes -> Nat] /\ next \in Nat /\ L2 \in [Nodes -> SUBSET Nodes]
      BY <1>2, <2>4, <2>6 DEF link2, next
    <3>3. Enters(num, num2, G, s.lowLink, link2, L, L2, E, R, t, next)
      BY <1>3, <2>3, <2>4, <2>5, <2>6 DEF Enters, link2, next
    <3>4. /\ DOMAIN num \in SUBSET Nodes /\ num \in [DOMAIN num -> Nat]
          /\ K \in SUBSET Nodes /\ G \in SUBSET Nodes /\ s.lowLink \in [Nodes -> Nat]
          /\ L \in [Nodes -> SUBSET Nodes]
          /\ E \in [Nodes -> SUBSET Nodes] /\ R \in [Nodes -> SUBSET Nodes]
      <4>1. K \in SUBSET Nodes /\ G \in SUBSET Nodes /\ L \in [Nodes -> SUBSET Nodes]
        BY <2>2 DEF DepthFirst, Numbered
      <4> QED
        BY <1>2, <2>1, <4>1 DEF IsReached
    <3>5. DepthFirst(num2, K \cup {t}, G \cup {t}, link2, L2, E, R)
      BY <1>4, <2>1, <3>1, <3>2, <3>3, <3>4, NodeEntered
    <3> QED
      BY <3>5 DEF link2
  <2> QED
    BY <1>7, <1>8, <2>7 DEF Searched, num2, E, R, L2, K, G
<1>12. HasEntered(s, e, t, w.root)
  BY <1>1, <1>3, <1>7, <1>8 DEF HasEntered, num, num2
<1> QED
  BY <1>1, <1>9, <1>10, <1>11, <1>12 DEF e

LEMMA GoneStays ==
    ASSUME adjacency \in Graphs, NEW low \in Nat, NEW s \in FinderStates, Searched(s, low),
           NEW n \in Nodes, n \in DOMAIN s.visited \ Stacked(s)
    PROVE  Reach(n, low) \subseteq DOMAIN s.visited \ Stacked(s)
<1> DEFINE W == DOMAIN s.visited \ Stacked(s)
<1>1. W \in SUBSET Nodes /\ n \in W
  BY FinderTypes
<1>2. \A y \in W : EdgesFrom(low)[y] \subseteq W
  BY DEF Searched, DepthFirst, Sealed
<1>3. \A y \in W : y \in Nodes /\ EdgesFrom(low)[y] = {m \in Targets(y) : m >= low}
  BY <1>1 DEF EdgesFrom
<1> HIDE DEF W
<1>4. LeadsFrom(W, low)
  BY <1>2, <1>3 DEF LeadsFrom
<1>5. Reach(n, low) \subseteq W
  BY <1>1, <1>4, ReachIsLeast
<1> QED
  BY <1>5 DEF W

LEMMA NothingCalls ==
    ASSUME NEW low, NEW s \in FinderStates, Searched(s, low), s.calls = <<>>
    PROVE  Calling(s) = {} /\ Stacked(s) = {}
<1>1. Calling(s) = {}
  BY DEF Calling, ToSet
<1> QED
  BY <1>1 DEF Searched, DepthFirst, Rooted

LEMMA NextRootKeeps ==
    ASSUME adjacency \in Graphs, NEW low \in Nat, NEW s \in FinderStates, FinderInv(s, low),
           s.calls = <<>>, ~HasFound(s)
    PROVE  NextRoot(s) \in FinderStates /\ FinderInv(NextRoot(s), low)
<1> DEFINE w == [s EXCEPT !.root = s.root + 1]
           root == s.root
<1>1. /\ w \in FinderStates /\ w.root = root + 1 /\ w.visited = s.visited /\ w.lowLink = s.lowLink
      /\ w.next = s.next /\ w.stack = s.stack /\ w.calls = s.calls /\ w.left = s.left /\ w.comps = s.comps
  BY RootPassedMakes
<1>2. NextRoot(s) = IF root \in DOMAIN s.visited THEN w ELSE Enter(w, root)
  BY DEF NextRoot
<1>3. s.comps = {} /\ root < Size /\ root \in Nat /\ low <= root /\ root \in Nodes /\ Size \in Nat
  BY FinderTypes, CycleAssumption DEF HasFound, FinderInv, Trees, Nodes
<1>4. Ordered(s, low) /\ LeftToTake(s) /\ Searched(s, low) /\ Found(s, low) /\ Trees(s, low)
  BY DEF FinderInv
<1>5. Calling(s) = {} /\ Stacked(s) = {}
  BY <1>4, NothingCalls
<1>6. \A k \in low .. (root - 1) : k \in DOMAIN s.visited
  BY <1>4 DEF Trees
<1> HIDE DEF w
<1>7. CASE root \in DOMAIN s.visited
  <2>1. Ordered(w, low) /\ LeftToTake(w) /\ Searched(w, low)
    BY <1>1, <1>4 DEF Ordered, LeftToTake, Searched, Stacked, Calling, LeftOf
  <2>2. Found(w, low)
    BY <1>1, <1>3, <1>4 DEF Found, Stacked
  <2>3. \A k \in low .. (w.root - 1) : k \in DOMAIN w.visited
    <3> SUFFICES ASSUME NEW k \in low .. (w.root - 1) PROVE k \in DOMAIN s.visited
      BY <1>1
    <3>1. k \in low .. (root - 1) \/ k = root
      BY <1>1, <1>3
    <3> QED
      BY <1>6, <1>7, <3>1
  <2>4. low <= w.root /\ w.root <= Size /\ low < w.root
    BY <1>1, <1>3
  <2>5. Trees(w, low)
    <3>1. Calling(w) = {} /\ ~(w.calls # <<>> \/ w.comps # {})
      BY <1>1, <1>3, <1>5 DEF Calling
    <3> QED
      BY <2>3, <2>4, <3>1 DEF Trees
  <2> QED
    BY <1>1, <1>2, <1>7, <2>1, <2>2, <2>5 DEF FinderInv
<1>8. CASE root \notin DOMAIN s.visited
  <2> DEFINE e == Enter(w, root)
  <2>1. /\ e \in FinderStates
        /\ Ordered(e, low) /\ LeftToTake(e) /\ Searched(e, low)
        /\ DOMAIN e.visited = DOMAIN s.visited \cup {root}
        /\ Stacked(e) = Stacked(s) \cup {root} /\ Calling(e) = Calling(s) \cup {root}
        /\ e.comps = s.comps /\ e.root = w.root
    <3>1. IsAbout(s, w, root)
      <4>1. ASSUME NEW n \in Nodes PROVE IsLeftBut(s, n, w.left[n], root)
        <5>1. w.left[n] = s.left[n] /\ s.left[n] \in Seq(Nodes)
          BY <1>1, FinderTypes
        <5>2. Len(s.left[n]) <= Len(s.left[n])
          BY <5>1
        <5> QED
          BY <5>1, <5>2 DEF IsLeftBut
      <4> QED
        BY <1>1, <4>1 DEF IsAbout
    <3>2. \A g \in Calling(s) : root \in Reach(g, low)
      BY <1>5
    <3>3. /\ e \in FinderStates
          /\ Ordered(e, low) /\ LeftToTake(e) /\ Searched(e, low) /\ HasEntered(s, e, root, w.root)
      BY <1>1, <1>3, <1>8, <3>1, <3>2, EnterKeeps
    <3> QED
      BY <3>3 DEF HasEntered
  <2> HIDE DEF e
  <2>2. Found(e, low)
    <3>1. DOMAIN e.visited \ Stacked(e) = DOMAIN s.visited \ Stacked(s)
      BY <1>5, <1>8, <2>1
    <3> QED
      BY <1>3, <1>4, <2>1, <3>1 DEF Found
  <2>3. \A k \in low .. (e.root - 1) : k \in DOMAIN e.visited
    <3> SUFFICES ASSUME NEW k \in low .. (e.root - 1) PROVE k \in DOMAIN e.visited
      OBVIOUS
    <3>1. k \in low .. (root - 1) \/ k = root
      BY <1>1, <1>3, <2>1
    <3> QED
      BY <1>6, <2>1, <3>1
  <2>4. low <= e.root /\ e.root <= Size /\ low < e.root
    BY <1>1, <1>3, <2>1
  <2>5. \A g \in Calling(e) : g \in Reach(e.root - 1, low)
    <3>1. e.root - 1 = root /\ root \in Reach(root, low)
      BY <1>1, <1>3, <2>1, ReachIsLeast
    <3> QED
      BY <1>5, <2>1, <3>1
  <2>6. \A k \in low .. (e.root - 2), d \in Components(low) : ~(d \subseteq Reach(k, low))
    <3> SUFFICES ASSUME NEW k \in low .. (e.root - 2), NEW d \in Components(low),
                        d \subseteq Reach(k, low)
                 PROVE  FALSE
      OBVIOUS
    <3>1. k \in low .. (root - 1)
      BY <1>1, <1>3, <2>1
    <3>2. k \in Nodes /\ k \in DOMAIN s.visited \ Stacked(s)
      BY <1>5, <1>6, <3>1, FinderTypes
    <3>3. d \subseteq DOMAIN s.visited \ Stacked(s)
      BY <1>4, <3>2, GoneStays
    <3> QED
      BY <1>3, <1>4, <3>3 DEF Found
  <2>7. Trees(e, low)
    BY <2>3, <2>4, <2>5, <2>6 DEF Trees
  <2> QED
    BY <1>2, <1>8, <2>1, <2>2, <2>7 DEF FinderInv, e
<1> QED
  BY <1>7, <1>8

(***************************************************************************)
(* The call on top takes its next edge.                                    *)
(***************************************************************************)
LEMMA HeadTaken ==
    ASSUME NEW q \in Seq(Nodes), q # <<>>
    PROVE  /\ Head(q) \in Nodes /\ Head(q) \in ToSet(q) /\ Tail(q) \in Seq(Nodes)
           /\ Len(q) \in Nat /\ Len(Tail(q)) = Len(q) - 1
           /\ ToSet(Tail(q)) \subseteq ToSet(q) /\ ToSet(q) \subseteq ToSet(Tail(q)) \cup {Head(q)}
<1> DEFINE r == Tail(q)
<1>1. /\ Len(q) \in Nat /\ Len(q) >= 1 /\ DOMAIN q = 1 .. Len(q) /\ Head(q) = q[1] /\ 1 \in 1 .. Len(q)
      /\ r \in Seq(Nodes) /\ Len(r) = Len(q) - 1 /\ DOMAIN r = 1 .. (Len(q) - 1)
      /\ \A i \in 1 .. (Len(q) - 1) : r[i] = q[i + 1]
  OBVIOUS
<1> HIDE DEF r
<1>2. Head(q) \in Nodes /\ Head(q) \in ToSet(q)
  BY <1>1 DEF ToSet
<1>3. ASSUME NEW m \in ToSet(r) PROVE m \in ToSet(q)
  <2>1. PICK i \in 1 .. (Len(q) - 1) : m = r[i]
    BY <1>1 DEF ToSet
  <2>2. i + 1 \in 1 .. Len(q) /\ m = q[i + 1]
    BY <1>1, <2>1
  <2> QED
    BY <1>1, <2>2 DEF ToSet
<1>4. ASSUME NEW m \in ToSet(q) PROVE m \in ToSet(r) \cup {Head(q)}
  <2>1. PICK i \in 1 .. Len(q) : m = q[i]
    BY <1>1 DEF ToSet
  <2>2. CASE i = 1
    BY <1>1, <2>1, <2>2
  <2>3. CASE i # 1
    <3>1. i - 1 \in 1 .. (Len(q) - 1) /\ (i - 1) + 1 = i
      BY <1>1, <2>3
    <3>2. r[i - 1] = m
      BY <1>1, <2>1, <3>1
    <3> QED
      BY <1>1, <3>1, <3>2 DEF ToSet
  <2> QED
    BY <2>2, <2>3
<1> QED
  BY <1>1, <1>2, <1>3, <1>4 DEF r

LEMMA TopOfCalls ==
    ASSUME adjacency \in Graphs, NEW low \in Nat, NEW s \in FinderStates, FinderInv(s, low),
           s.calls # <<>>, NEW x, x = s.calls[Len(s.calls)]
    PROVE  /\ x \in Nodes /\ IsTop(s.visited, Calling(s), x) /\ x \in DOMAIN s.visited
           /\ low <= x /\ low < s.root /\ s.root - 1 \in Nodes /\ x \in Reach(s.root - 1, low)
           /\ \A g \in Calling(s) : g \in Nodes /\ x \in Reach(g, low)
<1>1. Ordered(s, low) /\ Searched(s, low) /\ Trees(s, low)
  BY DEF FinderInv
<1> DEFINE num == s.visited
           q == s.calls
<1>2. /\ num \in [DOMAIN num -> Nat] /\ q \in Seq(Nodes) /\ Rising(q, num)
      /\ \A n, m \in DOMAIN num : num[n] = num[m] => n = m
  BY <1>1, FinderTypes, FinderNumbers DEF Ordered
<1> HIDE DEF num, q
<1>3. LET y == q[Len(q)] IN y \in ToSet(q) /\ y \in Nodes /\ \A g \in ToSet(q) : num[g] <= num[y]
  <2>1. q # <<>>
    BY DEF q
  <2> QED
    BY <1>2, <2>1, CallsOnTop
<1>4. x \in Nodes /\ x \in Calling(s) /\ \A g \in Calling(s) : num[g] <= num[x]
  BY <1>3 DEF Calling, q
<1>5. x \in Stacked(s) /\ x \in DOMAIN s.visited
  BY <1>1, <1>4, FinderNumbers
<1>6. low < s.root /\ s.root - 1 \in Nodes /\ x \in Reach(s.root - 1, low) /\ low <= x
  <2>1. low < s.root /\ s.root <= Size /\ s.root \in Nat /\ Size \in Nat
    BY <1>1, <1>5, FinderTypes, CycleAssumption DEF Trees
  <2>2. s.root - 1 \in Nodes
    BY <2>1 DEF Nodes
  <2> QED
    BY <1>1, <1>4, <1>5, <2>1, <2>2 DEF Trees, Ordered
<1>7. ASSUME NEW g \in Calling(s) PROVE g \in Nodes /\ x \in Reach(g, low)
  <2>1. g \in Nodes
    BY <1>1, FinderNumbers, FinderTypes
  <2>2. x \in ReachedFrom(low)[g]
    BY <1>1, <1>4, <1>5 DEF Searched, DepthFirst, Reaching, num
  <2> QED
    BY <2>1, <2>2 DEF ReachedFrom
<1> QED
  BY <1>4, <1>5, <1>6, <1>7 DEF IsTop, num

\* t is s after an edge of x that is not entered.
HasPassed(s, t, x, low) ==
    /\ t.visited = s.visited /\ t.next = s.next /\ t.stack = s.stack
    /\ t.calls = s.calls /\ t.root = s.root /\ t.comps = s.comps
    /\ t.left = [s.left EXCEPT ![x] = Tail(s.left[x])]
    /\ \A n \in Nodes : n # x => t.lowLink[n] = s.lowLink[n]
    /\ LET m == Head(s.left[x]) IN
         \/ m < low /\ t.lowLink[x] = s.lowLink[x]
         \/ m \in DOMAIN s.visited /\ m \notin Stacked(s) /\ t.lowLink[x] = s.lowLink[x]
         \/ m >= low /\ m \in Stacked(s) /\ t.lowLink[x] = Smaller(s.lowLink[x], s.visited[m])

LEMMA PassedKeeps ==
    ASSUME adjacency \in Graphs, NEW low \in Nat, NEW s \in FinderStates, FinderInv(s, low),
           NEW x \in Nodes, IsTop(s.visited, Calling(s), x), x \in DOMAIN s.visited, s.left[x] # <<>>,
           NEW t \in FinderStates, HasPassed(s, t, x, low)
    PROVE  FinderInv(t, low)
<1> DEFINE m == Head(s.left[x])
           q == s.left[x]
<1>11. /\ t.visited = s.visited /\ t.next = s.next /\ t.stack = s.stack
       /\ t.calls = s.calls /\ t.root = s.root /\ t.comps = s.comps
       /\ t.left = [s.left EXCEPT ![x] = Tail(s.left[x])]
       /\ \A n \in Nodes : n # x => t.lowLink[n] = s.lowLink[n]
       /\ \/ m < low /\ t.lowLink[x] = s.lowLink[x]
          \/ m \in DOMAIN s.visited /\ m \notin Stacked(s) /\ t.lowLink[x] = s.lowLink[x]
          \/ m >= low /\ m \in Stacked(s) /\ t.lowLink[x] = Smaller(s.lowLink[x], s.visited[m])
  BY DEF HasPassed
<1> USE <1>11
<1>1. Ordered(s, low) /\ LeftToTake(s) /\ Searched(s, low) /\ Found(s, low) /\ Trees(s, low)
  BY DEF FinderInv
<1>2. /\ s.visited \in [DOMAIN s.visited -> Nat] /\ DOMAIN s.visited \in SUBSET Nodes
      /\ s.left \in [Nodes -> Seq(Nodes)] /\ q \in Seq(Nodes)
      /\ s.lowLink \in [Nodes -> Nat] /\ t.lowLink \in [Nodes -> Nat] /\ t.left \in [Nodes -> Seq(Nodes)]
  <2>1. /\ s.visited \in [DOMAIN s.visited -> Nat] /\ DOMAIN s.visited \subseteq Nodes
        /\ s.left \in [Nodes -> Seq(Nodes)] /\ s.lowLink \in [Nodes -> Nat]
    BY FinderTypes
  <2>2. t.lowLink \in [Nodes -> Nat]
    BY FinderTypes
  <2>3. t.left \in [Nodes -> Seq(Nodes)]
    BY FinderTypes
  <2> QED
    BY <2>1, <2>2, <2>3
<1>3. Ordered(t, low)
  BY <1>1 DEF Ordered
<1>4. Found(t, low)
  BY <1>1 DEF Found, Stacked
<1>5. Trees(t, low)
  BY <1>1 DEF Trees, Calling
<1>6. /\ m \in Nodes /\ m \in ToSet(q) /\ Tail(q) \in Seq(Nodes)
      /\ Len(q) \in Nat /\ Len(Tail(q)) = Len(q) - 1
      /\ ToSet(Tail(q)) \subseteq ToSet(q) /\ ToSet(q) \subseteq ToSet(Tail(q)) \cup {m}
  BY <1>2, HeadTaken
<1>7. t.left[x] = Tail(q) /\ \A n \in Nodes : n # x => t.left[n] = s.left[n]
  BY <1>2
<1>8. m \in Targets(x)
  BY <1>1, <1>6 DEF LeftToTake
<1>9. LeftToTake(t)
  <2> SUFFICES ASSUME NEW n \in Nodes
               PROVE  /\ n \notin DOMAIN t.visited => t.left[n] = adjacency[n]
                      /\ ToSet(t.left[n]) \subseteq Targets(n)
                      /\ Len(t.left[n]) <= Len(adjacency[n])
    BY DEF LeftToTake
  <2>1. /\ n \notin DOMAIN s.visited => s.left[n] = adjacency[n]
        /\ ToSet(s.left[n]) \subseteq Targets(n) /\ Len(s.left[n]) <= Len(adjacency[n])
    BY <1>1 DEF LeftToTake
  <2>2. CASE n # x
    BY <1>7, <2>1, <2>2
  <2>3. CASE n = x
    <3>1. Len(adjacency[x]) \in Nat
      BY TargetsAreNodes
    <3>2. Len(Tail(q)) <= Len(adjacency[x])
      <4>1. Len(q) <= Len(adjacency[x])
        BY <2>1, <2>3
      <4> QED
        BY <1>6, <3>1, <4>1
    <3> QED
      BY <1>6, <1>7, <2>1, <2>3, <3>2
  <2> QED
    BY <2>2, <2>3
<1>10. Searched(t, low)
  <2> DEFINE num == s.visited
             link == s.lowLink
             link2 == t.lowLink
             E == EdgesFrom(low)
             R == ReachedFrom(low)
             L == LeftOf(s)
             L2 == LeftOf(t)
             K == Stacked(s)
             G == Calling(s)
  <2>1. IsReached(E, R)
    BY GraphIsReached
  <2>2. DepthFirst(num, K, G, link, L, E, R)
    BY <1>1 DEF Searched
  <2>3. /\ \A n \in Nodes : L2[n] = ToSet(t.left[n]) /\ L[n] = ToSet(s.left[n])
        /\ L2 \in [Nodes -> SUBSET Nodes]
    <3>1. \A n \in Nodes : ToSet(t.left[n]) \in SUBSET Nodes
      <4> SUFFICES ASSUME NEW n \in Nodes PROVE ToSet(t.left[n]) \in SUBSET Nodes
        OBVIOUS
      <4>1. t.left[n] \in Seq(Nodes)
        BY <1>2
      <4> QED
        BY <4>1, NodesOf
    <3>2. L2 \in [Nodes -> SUBSET Nodes]
      BY <3>1 DEF LeftOf
    <3>3. \A n \in Nodes : L2[n] = ToSet(t.left[n]) /\ L[n] = ToSet(s.left[n])
      BY DEF LeftOf
    <3> QED
      BY <3>2, <3>3
  <2>4. m \in E[x] <=> m >= low
    BY <1>8 DEF EdgesFrom
  <2>5. K \subseteq DOMAIN num
    BY <1>1, FinderNumbers
  <2>6. Passes(num, K, link, link2, L, L2, E, x, m)
    <3>1. \A n \in Nodes : n # x => L2[n] = L[n] /\ link2[n] = link[n]
      BY <1>7, <2>3
    <3>2. L2[x] \subseteq L[x] /\ L[x] \subseteq L2[x] \cup {m}
      BY <1>6, <1>7, <2>3
    <3>3. \A n \in Nodes : L2[n] \subseteq L[n] /\ L[n] \subseteq L2[n] \cup {m}
      BY <3>1, <3>2
    <3>4. m \in Nat /\ (m < low => ~(m >= low))
      BY <1>6 DEF Nodes
    <3>5. m \in E[x] => m \in DOMAIN num
      BY <2>4, <2>5, <3>4
    <3>6. \/ link2[x] = link[x] /\ (m \in E[x] => m \notin K)
          \/ m \in K /\ m \in E[x] /\ link2[x] = Smaller(link[x], num[m])
      BY <2>4, <3>4
    <3> QED
      BY <3>1, <3>3, <3>5, <3>6 DEF Passes
  <2>7. /\ K \in SUBSET Nodes /\ G \in SUBSET Nodes /\ L \in [Nodes -> SUBSET Nodes]
        /\ E \in [Nodes -> SUBSET Nodes] /\ R \in [Nodes -> SUBSET Nodes]
    BY <2>1, <2>2 DEF DepthFirst, Numbered, IsReached
  <2>8. IsTop(num, G, x)
    OBVIOUS
  <2>9. num \in [DOMAIN num -> Nat] /\ DOMAIN num \in SUBSET Nodes /\ link \in [Nodes -> Nat]
        /\ link2 \in [Nodes -> Nat] /\ m \in Nodes
    BY <1>2, <1>6
  <2>10. Stacked(t) = K /\ Calling(t) = G /\ t.visited = num
    BY DEF Stacked, Calling
  <2> HIDE DEF E, R, L, L2, K, G, link2, link, num, m
  <2>11. DepthFirst(num, K, G, link2, L2, E, R)
    BY <2>1, <2>2, <2>3, <2>6, <2>7, <2>8, <2>9, EdgePassed
  <2> QED
    BY <2>10, <2>11 DEF Searched, E, R, L2, link2
<1> QED
  BY <1>3, <1>4, <1>5, <1>9, <1>10 DEF FinderInv

LEMMA LinkMakes ==
    ASSUME NEW s \in FinderStates, NEW n \in Nodes, NEW v \in Nat
    PROVE  LET t == Link(s, n, v) IN
           /\ t \in FinderStates /\ t.lowLink = [s.lowLink EXCEPT ![n] = Smaller(s.lowLink[n], v)]
           /\ t.visited = s.visited /\ t.next = s.next /\ t.stack = s.stack /\ t.calls = s.calls
           /\ t.left = s.left /\ t.root = s.root /\ t.comps = s.comps
<1> DEFINE link2 == [s.lowLink EXCEPT ![n] = Smaller(s.lowLink[n], v)]
           r == [visited |-> s.visited, lowLink |-> link2, next |-> s.next, stack |-> s.stack,
                 calls |-> s.calls, left |-> s.left, root |-> s.root, comps |-> s.comps]
<1>1. Link(s, n, v) = r
  <2>1. s = [visited |-> s.visited, lowLink |-> s.lowLink, next |-> s.next, stack |-> s.stack,
             calls |-> s.calls, left |-> s.left, root |-> s.root, comps |-> s.comps]
    BY DEF FinderStates
  <2>2. Link(s, n, v) = [s EXCEPT !.lowLink = link2]
    BY <2>1 DEF Link
  <2> HIDE DEF link2
  <2> QED
    BY <2>1, <2>2
<1>2. s.visited \in UNION {[S -> Nat] : S \in SUBSET Nodes}
  BY DEF FinderStates
<1>3. link2 \in [Nodes -> Nat]
  BY FinderTypes DEF Smaller
<1> HIDE DEF link2
<1>4. r \in FinderStates
  BY <1>2, <1>3, FinderTypes DEF FinderStates
<1> QED
  BY <1>1, <1>4 DEF link2

LEMMA EdgeMakes ==
    ASSUME NEW s \in FinderStates, NEW x \in Nodes, s.left[x] # <<>>
    PROVE  LET t == [s EXCEPT !.left[x] = Tail(@)] IN
           /\ t \in FinderStates /\ t.left = [s.left EXCEPT ![x] = Tail(s.left[x])]
           /\ t.visited = s.visited /\ t.lowLink = s.lowLink /\ t.next = s.next /\ t.stack = s.stack
           /\ t.calls = s.calls /\ t.root = s.root /\ t.comps = s.comps
<1> DEFINE left2 == [s.left EXCEPT ![x] = Tail(s.left[x])]
           r == [visited |-> s.visited, lowLink |-> s.lowLink, next |-> s.next, stack |-> s.stack,
                 calls |-> s.calls, left |-> left2, root |-> s.root, comps |-> s.comps]
<1>1. [s EXCEPT !.left[x] = Tail(@)] = r
  <2>1. s = [visited |-> s.visited, lowLink |-> s.lowLink, next |-> s.next, stack |-> s.stack,
             calls |-> s.calls, left |-> s.left, root |-> s.root, comps |-> s.comps]
    BY DEF FinderStates
  <2>2. [s EXCEPT !.left[x] = Tail(@)] = [s EXCEPT !.left = left2]
    BY <2>1
  <2> HIDE DEF left2
  <2> QED
    BY <2>1, <2>2
<1>2. s.visited \in UNION {[S -> Nat] : S \in SUBSET Nodes}
  BY DEF FinderStates
<1>3. left2 \in [Nodes -> Seq(Nodes)]
  <2>1. s.left \in [Nodes -> Seq(Nodes)] /\ s.left[x] \in Seq(Nodes)
    BY FinderTypes
  <2>2. Tail(s.left[x]) \in Seq(Nodes)
    BY <2>1, HeadTaken
  <2> QED
    BY <2>1, <2>2
<1> HIDE DEF left2
<1>4. r \in FinderStates
  BY <1>2, <1>3, FinderTypes DEF FinderStates
<1> QED
  BY <1>1, <1>4 DEF left2

LEMMA TakeEdgeKeeps ==
    ASSUME adjacency \in Graphs, NEW low \in Nat, NEW s \in FinderStates, FinderInv(s, low),
           s.calls # <<>>, NEW x, x = s.calls[Len(s.calls)], s.left[x] # <<>>
    PROVE  TakeEdge(s, x, low) \in FinderStates /\ FinderInv(TakeEdge(s, x, low), low)
<1> DEFINE m == Head(s.left[x])
           w == [s EXCEPT !.left[x] = Tail(@)]
           num == s.visited
<1>1. /\ x \in Nodes /\ IsTop(s.visited, Calling(s), x) /\ x \in DOMAIN s.visited
      /\ low <= x /\ low < s.root /\ s.root - 1 \in Nodes /\ x \in Reach(s.root - 1, low)
      /\ \A g \in Calling(s) : g \in Nodes /\ x \in Reach(g, low)
  BY TopOfCalls
<1>2. /\ w \in FinderStates /\ w.left = [s.left EXCEPT ![x] = Tail(s.left[x])]
      /\ w.visited = s.visited /\ w.lowLink = s.lowLink /\ w.next = s.next /\ w.stack = s.stack
      /\ w.calls = s.calls /\ w.root = s.root /\ w.comps = s.comps
  BY <1>1, EdgeMakes
<1>3. TakeEdge(s, x, low) =
          IF m < low THEN w
          ELSE IF m \notin DOMAIN s.visited THEN Enter(w, m)
          ELSE IF m \in Stacked(s) THEN Link(w, x, s.visited[m])
          ELSE w
  BY <1>2 DEF TakeEdge, Stacked
<1>4. s.left[x] \in Seq(Nodes) /\ s.left \in [Nodes -> Seq(Nodes)] /\ s.visited \in [DOMAIN s.visited -> Nat]
      /\ s.lowLink \in [Nodes -> Nat]
  BY <1>1, FinderTypes
<1>5. /\ m \in Nodes /\ m \in ToSet(s.left[x]) /\ Len(s.left[x]) \in Nat
      /\ Len(Tail(s.left[x])) = Len(s.left[x]) - 1
      /\ ToSet(Tail(s.left[x])) \subseteq ToSet(s.left[x])
      /\ ToSet(s.left[x]) \subseteq ToSet(Tail(s.left[x])) \cup {m}
  BY <1>4, HeadTaken
<1>6. Ordered(s, low) /\ LeftToTake(s) /\ Searched(s, low) /\ Found(s, low) /\ Trees(s, low)
  BY DEF FinderInv
<1>7. m \in Targets(x) /\ m \in Nat /\ (~(m < low) => m >= low)
  BY <1>1, <1>5, <1>6 DEF LeftToTake, Nodes
<1> HIDE DEF w, m
<1>8. CASE m < low \/ (m \in DOMAIN s.visited /\ m \notin Stacked(s))
  <2>1. TakeEdge(s, x, low) = w
    BY <1>3, <1>8
  <2>2. \/ m < low /\ w.lowLink[x] = s.lowLink[x]
        \/ m \in DOMAIN s.visited /\ m \notin Stacked(s) /\ w.lowLink[x] = s.lowLink[x]
    BY <1>2, <1>8
  <2>3. FinderInv(w, low)
    <3>1. HasPassed(s, w, x, low)
      BY <1>2, <2>2 DEF HasPassed, m
    <3> QED
      BY <1>1, <1>2, <3>1, PassedKeeps
  <2> QED
    BY <1>2, <2>1, <2>3
<1>9. CASE ~(m < low) /\ m \in DOMAIN s.visited /\ m \in Stacked(s)
  <2> DEFINE t == Link(w, x, s.visited[m])
  <2>1. TakeEdge(s, x, low) = t
    BY <1>3, <1>9
  <2>2. s.visited[m] \in Nat
    BY <1>4, <1>9
  <2>3. /\ t \in FinderStates /\ t.lowLink = [w.lowLink EXCEPT ![x] = Smaller(w.lowLink[x], s.visited[m])]
        /\ t.visited = w.visited /\ t.next = w.next /\ t.stack = w.stack /\ t.calls = w.calls
        /\ t.left = w.left /\ t.root = w.root /\ t.comps = w.comps
    BY <1>1, <1>2, <2>2, LinkMakes
  <2> HIDE DEF t
  <2>4. /\ t.lowLink[x] = Smaller(s.lowLink[x], s.visited[m])
        /\ \A n \in Nodes : n # x => t.lowLink[n] = s.lowLink[n]
    BY <1>1, <1>2, <1>4, <2>3
  <2>5. FinderInv(t, low)
    <3>1. m >= low /\ m \in Stacked(s) /\ t.lowLink[x] = Smaller(s.lowLink[x], s.visited[m])
      BY <1>7, <1>9, <2>4
    <3>2. /\ t.visited = s.visited /\ t.next = s.next /\ t.stack = s.stack /\ t.calls = s.calls
          /\ t.root = s.root /\ t.comps = s.comps /\ t.left = [s.left EXCEPT ![x] = Tail(s.left[x])]
      BY <1>2, <2>3
    <3>3. HasPassed(s, t, x, low)
      BY <2>4, <3>1, <3>2 DEF HasPassed, m
    <3> QED
      BY <1>1, <2>3, <3>3, PassedKeeps
  <2> QED
    BY <2>1, <2>3, <2>5
<1>10. CASE ~(m < low) /\ m \notin DOMAIN s.visited
  <2> DEFINE e == Enter(w, m)
  <2>1. TakeEdge(s, x, low) = e
    BY <1>3, <1>10
  <2>2. \A g \in Calling(s) : m \in Reach(g, low)
    <3> SUFFICES ASSUME NEW g \in Calling(s) PROVE m \in Reach(g, low)
      OBVIOUS
    <3>1. g \in Nodes /\ x \in Reach(g, low)
      BY <1>1
    <3>2. LeadsFrom(Reach(g, low), low)
      BY <3>1, ReachIsLeast
    <3> QED
      BY <1>7, <1>10, <3>1, <3>2 DEF LeadsFrom
  <2>3. IsAbout(s, w, m)
    <3>1. ASSUME NEW n \in Nodes PROVE IsLeftBut(s, n, w.left[n], m)
      <4>1. CASE n = x
        <5>1. w.left[n] = Tail(s.left[x])
          BY <1>1, <1>2, <1>4, <4>1
        <5>2. Len(Tail(s.left[x])) <= Len(s.left[x])
          BY <1>5
        <5> QED
          BY <1>1, <1>5, <4>1, <5>1, <5>2 DEF IsLeftBut
      <4>2. CASE n # x
        <5>1. w.left[n] = s.left[n]
          BY <1>2, <1>4, <4>2
        <5>2. Len(s.left[n]) <= Len(s.left[n])
          BY <1>4
        <5> QED
          BY <5>1, <5>2 DEF IsLeftBut
      <4> QED
        BY <4>1, <4>2
    <3> QED
      BY <1>2, <3>1 DEF IsAbout
  <2>4. low <= m
    BY <1>7, <1>10
  <2>5. /\ e \in FinderStates
        /\ Ordered(e, low) /\ LeftToTake(e) /\ Searched(e, low) /\ HasEntered(s, e, m, w.root)
    BY <1>2, <1>5, <1>10, <2>2, <2>3, <2>4, EnterKeeps
  <2> HIDE DEF e
  <2>6. /\ DOMAIN e.visited = DOMAIN s.visited \cup {m}
        /\ Stacked(e) = Stacked(s) \cup {m} /\ Calling(e) = Calling(s) \cup {m}
        /\ e.comps = s.comps /\ e.root = s.root
    BY <1>2, <2>5 DEF HasEntered
  <2>7. Found(e, low)
    <3>1. DOMAIN e.visited \ Stacked(e) = DOMAIN s.visited \ Stacked(s)
      BY <1>10, <2>6
    <3> QED
      BY <1>6, <2>6, <3>1 DEF Found
  <2>8. Trees(e, low)
    <3>1. low <= s.root /\ (s.root <= Size \/ s.root = low) /\ low < s.root
      BY <1>1, <1>6 DEF Trees
    <3>2. \A k \in low .. (s.root - 1) : k \in DOMAIN e.visited
      BY <1>6, <2>6 DEF Trees
    <3>3. m \in Reach(s.root - 1, low)
      <4>1. LeadsFrom(Reach(s.root - 1, low), low)
        BY <1>1, ReachIsLeast
      <4> QED
        BY <1>1, <1>7, <1>10, <4>1 DEF LeadsFrom
    <3>4. \A g \in Calling(e) : g \in Reach(s.root - 1, low)
      BY <1>6, <2>6, <3>3 DEF Trees
    <3>5. \A k \in low .. (s.root - 2), d \in Components(low) : ~(d \subseteq Reach(k, low))
      BY <1>6 DEF Trees
    <3> QED
      BY <2>6, <3>1, <3>2, <3>4, <3>5 DEF Trees
  <2> QED
    BY <2>1, <2>5, <2>7, <2>8 DEF FinderInv
<1> QED
  BY <1>8, <1>9, <1>10

(***************************************************************************)
(* The call on top returns.                                                *)
(***************************************************************************)
WithStack(s, stack, comps) == [s EXCEPT !.stack = stack, !.comps = comps]

IsWithStack(s, stack, comps, t) ==
    /\ t \in FinderStates /\ t.stack = stack /\ t.comps = comps /\ t.calls = s.calls
    /\ t.visited = s.visited /\ t.lowLink = s.lowLink /\ t.next = s.next
    /\ t.left = s.left /\ t.root = s.root

LEMMA WithStackIs ==
    ASSUME NEW s \in FinderStates, NEW stack \in Seq(Nodes), NEW comps \in SUBSET (SUBSET Nodes)
    PROVE  IsWithStack(s, stack, comps, WithStack(s, stack, comps))
<1> DEFINE t == [s EXCEPT !.stack = stack, !.comps = comps]
           a == [s EXCEPT !.stack = stack]
           r == [visited |-> s.visited, lowLink |-> s.lowLink, next |-> s.next, stack |-> stack,
                 calls |-> s.calls, left |-> s.left, root |-> s.root, comps |-> comps]
<1>1. s = [visited |-> s.visited, lowLink |-> s.lowLink, next |-> s.next, stack |-> s.stack,
           calls |-> s.calls, left |-> s.left, root |-> s.root, comps |-> s.comps]
  BY DEF FinderStates
<1>2. t = r
  <2>1. a = [visited |-> s.visited, lowLink |-> s.lowLink, next |-> s.next, stack |-> stack,
             calls |-> s.calls, left |-> s.left, root |-> s.root, comps |-> s.comps]
    BY ONLY <1>1
  <2>2. t = [a EXCEPT !.comps = comps]
    BY ONLY <1>1
  <2> HIDE DEF a
  <2>3. [a EXCEPT !.comps = comps] = r
    BY ONLY <2>1
  <2> QED
    BY ONLY <2>2, <2>3
<1>3. s.visited \in UNION {[S -> Nat] : S \in SUBSET Nodes}
  BY DEF FinderStates
<1>4. r \in FinderStates
  BY <1>3, FinderTypes DEF FinderStates
<1>5. t.stack = stack /\ t.comps = comps /\ t \in FinderStates
  BY <1>2, <1>4
<1>6. /\ t.calls = s.calls /\ t.visited = s.visited /\ t.lowLink = s.lowLink /\ t.next = s.next
      /\ t.left = s.left /\ t.root = s.root
  BY <1>2
<1>7. t = WithStack(s, stack, comps)
  BY DEF WithStack
<1> QED
  BY ONLY <1>5, <1>6, <1>7 DEF IsWithStack

IsAbove(q, num, k, comp) ==
    /\ SubSeq(q, 1, k - 1) \in Seq(Nodes)
    /\ comp = {y \in ToSet(q) : num[q[k]] <= num[y]}

LEMMA PoppedIsAbove ==
    ASSUME NEW num, num \in [DOMAIN num -> Nat], NEW q \in Seq(Nodes), Rising(q, num),
           NEW k \in 1 .. Len(q)
    PROVE  IsAbove(q, num, k, ToSet(SubSeq(q, k, Len(q))))
BY RisingPopped DEF IsAbove

LEMMA CallsMakes ==
    ASSUME NEW s \in FinderStates, NEW calls \in Seq(Nodes)
    PROVE  LET t == [s EXCEPT !.calls = calls] IN
           /\ t \in FinderStates /\ t.stack = s.stack /\ t.comps = s.comps /\ t.calls = calls
           /\ t.visited = s.visited /\ t.lowLink = s.lowLink /\ t.next = s.next
           /\ t.left = s.left /\ t.root = s.root
<1> DEFINE t == [s EXCEPT !.calls = calls]
           r == [visited |-> s.visited, lowLink |-> s.lowLink, next |-> s.next, stack |-> s.stack,
                 calls |-> calls, left |-> s.left, root |-> s.root, comps |-> s.comps]
<1>1. s = [visited |-> s.visited, lowLink |-> s.lowLink, next |-> s.next, stack |-> s.stack,
           calls |-> s.calls, left |-> s.left, root |-> s.root, comps |-> s.comps]
  BY DEF FinderStates
<1>2. t = r
  BY ONLY <1>1
<1>3. s.visited \in UNION {[S -> Nat] : S \in SUBSET Nodes}
  BY DEF FinderStates
<1>4. r \in FinderStates
  BY <1>3, FinderTypes DEF FinderStates
<1> QED
  BY <1>2, <1>4

\* t is s after the call on top, for x, has returned, its component closed or not.
HasReturned(s, t) ==
    /\ t.visited = s.visited /\ t.next = s.next /\ t.left = s.left /\ t.root = s.root
    /\ t.calls = SubSeq(s.calls, 1, Len(s.calls) - 1)

HasClosed(s, t, x) ==
    /\ HasReturned(s, t)
    /\ KeepsLinks(s.lowLink, t.lowLink, Calling(s), x)
    /\ \E k \in 1 .. Len(s.stack) :
          /\ s.stack[k] = x /\ t.stack = SubSeq(s.stack, 1, k - 1)
          /\ LET comp == ToSet(SubSeq(s.stack, k, Len(s.stack))) IN
             t.comps = IF Cardinality(comp) > 1 THEN s.comps \cup {comp} ELSE s.comps

LEMMA ClosingKeeps ==
    ASSUME adjacency \in Graphs, NEW low \in Nat, NEW s \in FinderStates, FinderInv(s, low),
           s.calls # <<>>, NEW x, x = s.calls[Len(s.calls)], s.left[x] = <<>>,
           s.lowLink[x] = s.visited[x], NEW t \in FinderStates, HasClosed(s, t, x)
    PROVE  FinderInv(t, low)
<1> DEFINE num == s.visited
           q == s.calls
           stack == s.stack
           E == EdgesFrom(low)
           R == ReachedFrom(low)
           L == LeftOf(s)
           K == Stacked(s)
           G == Calling(s)
           K2 == Stacked(t)
           link == s.lowLink
           link2 == t.lowLink
<1>1. /\ x \in Nodes /\ IsTop(num, G, x) /\ x \in DOMAIN num
      /\ low <= x /\ low < s.root /\ s.root - 1 \in Nodes /\ x \in Reach(s.root - 1, low)
  BY TopOfCalls
<1>2. Ordered(s, low) /\ LeftToTake(s) /\ Searched(s, low) /\ Found(s, low) /\ Trees(s, low)
  BY DEF FinderInv
<1>3. /\ t.visited = num /\ t.next = s.next /\ t.left = s.left /\ t.root = s.root
      /\ t.calls = SubSeq(q, 1, Len(q) - 1) /\ KeepsLinks(link, link2, G, x)
  BY DEF HasClosed, HasReturned
<1>4. PICK k \in 1 .. Len(stack) :
          /\ stack[k] = x /\ t.stack = SubSeq(stack, 1, k - 1)
          /\ LET comp == ToSet(SubSeq(stack, k, Len(stack))) IN
             t.comps = IF Cardinality(comp) > 1 THEN s.comps \cup {comp} ELSE s.comps
  BY DEF HasClosed
<1> DEFINE comp == ToSet(SubSeq(stack, k, Len(stack)))
<1>5. /\ num \in [DOMAIN num -> Nat] /\ DOMAIN num \in SUBSET Nodes
      /\ q \in Seq(Nodes) /\ Rising(q, num) /\ stack \in Seq(Nodes) /\ Rising(stack, num)
      /\ \A n, m \in DOMAIN num : num[n] = num[m] => n = m
      /\ link \in [Nodes -> Nat] /\ q # <<>> /\ K \subseteq DOMAIN num /\ G \subseteq K
  <2>1. /\ num \in [DOMAIN num -> Nat] /\ DOMAIN num \in SUBSET Nodes
        /\ q \in Seq(Nodes) /\ stack \in Seq(Nodes) /\ link \in [Nodes -> Nat]
    BY FinderTypes
  <2>2. Rising(q, num) /\ Rising(stack, num)
    BY <1>2 DEF Ordered
  <2> QED
    BY <1>2, <2>1, <2>2, FinderNumbers
<1>6. link2 \in [Nodes -> Nat]
  BY FinderTypes
<1> HIDE DEF num, q, stack, link, link2
<1>7. /\ Rising(t.stack, num) /\ K2 = {y \in K : num[y] < num[x]}
      /\ comp = {y \in K : num[x] <= num[y]}
  <2>1. /\ Rising(SubSeq(stack, 1, k - 1), num)
        /\ ToSet(SubSeq(stack, 1, k - 1)) = {y \in ToSet(stack) : num[y] < num[stack[k]]}
        /\ ToSet(SubSeq(stack, k, Len(stack))) = {y \in ToSet(stack) : num[stack[k]] <= num[y]}
    BY <1>5, RisingPopped
  <2> QED
    BY <1>4, <2>1 DEF Stacked, stack
<1>8. Rising(t.calls, num) /\ Calling(t) = G \ {x}
  <2>1. LET y == q[Len(q)]
            rest == SubSeq(q, 1, Len(q) - 1)
        IN  Rising(rest, num) /\ ToSet(rest) = ToSet(q) \ {y}
    BY <1>5, CallsOnTop
  <2> QED
    BY <1>3, <2>1 DEF Calling, q
<1>9. IsReached(E, R) /\ DepthFirst(num, K, G, link, L, E, R)
  BY <1>2, GraphIsReached DEF Searched, num, link
<1>10. /\ K \in SUBSET Nodes /\ G \in SUBSET Nodes /\ K2 \in SUBSET Nodes /\ L \in [Nodes -> SUBSET Nodes]
       /\ E \in [Nodes -> SUBSET Nodes] /\ R \in [Nodes -> SUBSET Nodes]
  BY <1>5, <1>7, <1>9 DEF DepthFirst, Numbered, IsReached
<1>11. L[x] = {} /\ link[x] = num[x]
  BY <1>1 DEF LeftOf, ToSet, link, num
<1>12. R = [n \in Nodes |-> Reach(n, low)] /\ LeftOf(t) = L
  BY <1>3 DEF ReachedFrom, LeftOf
<1> HIDE DEF E, R, L, K, G, K2, comp
<1>13. IsBelow(num, K, x, K2)
  BY <1>7 DEF IsBelow
<1>14. DepthFirst(num, K2, G \ {x}, link2, L, E, R) /\ AboveIsComponent(num, K, x, R)
  BY <1>1, <1>3, <1>5, <1>6, <1>9, <1>10, <1>11, <1>13, NodeClosed
<1>15. Searched(t, low)
  BY <1>3, <1>8, <1>12, <1>14 DEF Searched, E, R, K2, link2
<1>16. Ordered(t, low)
  BY <1>2, <1>3, <1>7, <1>8 DEF Ordered, num
<1>17. LeftToTake(t)
  BY <1>2, <1>3 DEF LeftToTake, num
<1>18. comp = ComponentOf(x, low)
  <2>1. \A n : n \in ComponentOf(x, low) <=> n \in Nodes /\ n \in Reach(x, low) /\ x \in Reach(n, low)
    BY <1>1, ComponentIs
  <2>2. \A n \in Nodes : n \in comp <=> n \in Reach(x, low) /\ x \in Reach(n, low)
    BY <1>1, <1>7, <1>12, <1>14 DEF AboveIsComponent
  <2>3. comp \subseteq Nodes
    BY <1>7, <1>10
  <2> QED
    BY <2>1, <2>2, <2>3
<1> DEFINE Gone == DOMAIN num \ K
<1>19. DOMAIN t.visited \ K2 = Gone \cup comp
  <2>1. \A y \in K : num[y] \in Nat /\ num[x] \in Nat
    BY <1>1, <1>5
  <2>2. \A y \in K : y \in K2 <=> y \notin comp
    BY <1>7, <2>1
  <2>3. comp \subseteq K /\ K2 \subseteq K /\ K \subseteq DOMAIN num
    BY <1>5, <1>7
  <2> QED
    BY <1>3, <2>2, <2>3
<1>20. s.comps = {c \in Components(low) : c \subseteq Gone}
  BY <1>2 DEF Found, K, num
<1>21. Cardinality(comp) > 1 => comp \in Components(low)
  <2>1. x \in low .. (Size - 1)
    BY <1>1, ComponentIs
  <2> QED
    BY <1>18, <2>1 DEF Components
<1>22. ASSUME NEW c \in Components(low), c \subseteq Gone \cup comp, ~(c \subseteq Gone) PROVE c = comp
  <2>1. PICK n \in c : n \in comp
    BY <1>22
  <2>2. c = ComponentOf(n, low)
    BY ComponentFacts
  <2>3. ComponentOf(n, low) = comp
    BY <1>1, <1>18, <2>1, SameComponentOf
  <2> QED
    BY <2>2, <2>3
<1>23. t.comps = {c \in Components(low) : c \subseteq Gone \cup comp}
  <2>1. CASE Cardinality(comp) > 1
    <3>1. t.comps = s.comps \cup {comp}
      BY <1>4, <2>1 DEF comp
    <3>2. ASSUME NEW c \in t.comps PROVE c \in Components(low) /\ c \subseteq Gone \cup comp
      BY <1>20, <1>21, <2>1, <3>1
    <3>3. ASSUME NEW c \in Components(low), c \subseteq Gone \cup comp PROVE c \in t.comps
      BY <1>20, <1>22, <3>1, <3>3
    <3> QED
      BY <3>2, <3>3
  <2>2. CASE ~(Cardinality(comp) > 1)
    <3>1. t.comps = s.comps
      BY <1>4, <2>2 DEF comp
    <3>2. ASSUME NEW c \in t.comps PROVE c \in Components(low) /\ c \subseteq Gone \cup comp
      BY <1>20, <3>1
    <3>3. ASSUME NEW c \in Components(low), c \subseteq Gone \cup comp PROVE c \in t.comps
      <4>1. c # comp
        BY <2>2, ComponentFacts
      <4> QED
        BY <1>20, <1>22, <3>1, <3>3, <4>1
    <3> QED
      BY <3>2, <3>3
  <2> QED
    BY <2>1, <2>2
<1>24. ASSUME NEW c \in t.comps PROVE c \subseteq Reach(s.root - 1, low)
  <2>1. CASE c \in s.comps
    BY <1>2, <2>1 DEF Found
  <2>2. CASE c \notin s.comps
    <3>1. c = comp
      BY <1>20, <1>22, <1>23, <2>2
    <3>2. comp \subseteq Reach(x, low)
      BY <1>1, <1>18, ComponentIs
    <3>3. Reach(x, low) \subseteq Reach(s.root - 1, low)
      BY <1>1, ReachGoesOn
    <3> QED
      BY <3>1, <3>2, <3>3
  <2> QED
    BY <2>1, <2>2
<1>25. Found(t, low)
  BY <1>3, <1>19, <1>23, <1>24 DEF Found, K2
<1>26. Trees(t, low)
  <2>1. \A g \in Calling(t) : g \in Reach(s.root - 1, low)
    BY <1>2, <1>8 DEF Trees, G
  <2>2. \A i \in low .. (s.root - 2), d \in Components(low) : ~(d \subseteq Reach(i, low))
    BY <1>2 DEF Trees
  <2>3. /\ low <= s.root /\ (s.root <= Size \/ s.root = low) /\ low < s.root
        /\ \A i \in low .. (s.root - 1) : i \in DOMAIN num
    BY <1>1, <1>2 DEF Trees, num
  <2> QED
    BY <1>3, <2>1, <2>2, <2>3 DEF Trees
<1> QED
  BY <1>15, <1>16, <1>17, <1>25, <1>26 DEF FinderInv

HasLeft(s, t, x, caller) ==
    /\ HasReturned(s, t) /\ t.stack = s.stack /\ t.comps = s.comps
    /\ t.lowLink = [s.lowLink EXCEPT ![caller] = Smaller(s.lowLink[caller], s.lowLink[x])]

LEMMA LeavingKeeps ==
    ASSUME adjacency \in Graphs, NEW low \in Nat, NEW s \in FinderStates, FinderInv(s, low),
           s.calls # <<>>, NEW x, x = s.calls[Len(s.calls)], s.left[x] = <<>>,
           s.lowLink[x] # s.visited[x],
           NEW caller, IsCaller(s.visited, Calling(s), x, caller),
           NEW t \in FinderStates, HasLeft(s, t, x, caller)
    PROVE  FinderInv(t, low)
<1> DEFINE num == s.visited
           q == s.calls
           E == EdgesFrom(low)
           R == ReachedFrom(low)
           L == LeftOf(s)
           K == Stacked(s)
           G == Calling(s)
           link == s.lowLink
           link2 == [link EXCEPT ![caller] = Smaller(link[caller], link[x])]
<1>1. /\ x \in Nodes /\ IsTop(num, G, x) /\ x \in DOMAIN num
      /\ low <= x /\ low < s.root /\ s.root - 1 \in Nodes /\ x \in Reach(s.root - 1, low)
  BY TopOfCalls
<1>2. Ordered(s, low) /\ LeftToTake(s) /\ Searched(s, low) /\ Found(s, low) /\ Trees(s, low)
  BY DEF FinderInv
<1>3. /\ t.visited = num /\ t.next = s.next /\ t.left = s.left /\ t.root = s.root
      /\ t.calls = SubSeq(q, 1, Len(q) - 1) /\ t.stack = s.stack /\ t.comps = s.comps
      /\ t.lowLink = link2
  BY DEF HasLeft, HasReturned
<1>4. /\ num \in [DOMAIN num -> Nat] /\ DOMAIN num \in SUBSET Nodes
      /\ q \in Seq(Nodes) /\ Rising(q, num)
      /\ \A n, m \in DOMAIN num : num[n] = num[m] => n = m
      /\ link \in [Nodes -> Nat] /\ q # <<>> /\ K \subseteq DOMAIN num /\ G \subseteq K
  <2>1. /\ num \in [DOMAIN num -> Nat] /\ DOMAIN num \in SUBSET Nodes
        /\ q \in Seq(Nodes) /\ link \in [Nodes -> Nat]
    BY FinderTypes
  <2>2. Rising(q, num)
    BY <1>2 DEF Ordered
  <2> QED
    BY <1>2, <2>1, <2>2, FinderNumbers
<1>5. caller \in Nodes
  BY <1>4 DEF IsCaller
<1> HIDE DEF num, q, link, link2
<1>6. Rising(t.calls, num) /\ Calling(t) = G \ {x}
  <2>1. LET y == q[Len(q)]
            rest == SubSeq(q, 1, Len(q) - 1)
        IN  Rising(rest, num) /\ ToSet(rest) = ToSet(q) \ {y}
    BY <1>4, CallsOnTop
  <2> QED
    BY <1>3, <2>1 DEF Calling, q
<1>7. IsReached(E, R) /\ DepthFirst(num, K, G, link, L, E, R)
  BY <1>2, GraphIsReached DEF Searched, num, link
<1>8. /\ K \in SUBSET Nodes /\ G \in SUBSET Nodes /\ L \in [Nodes -> SUBSET Nodes]
      /\ E \in [Nodes -> SUBSET Nodes] /\ R \in [Nodes -> SUBSET Nodes]
  BY <1>4, <1>7 DEF DepthFirst, Numbered, IsReached
<1>9. L[x] = {} /\ link[x] # num[x] /\ IsCaller(num, G, x, caller)
  BY <1>1 DEF LeftOf, ToSet, link, num
<1>10. LeftOf(t) = L /\ Stacked(t) = K
  BY <1>3 DEF LeftOf, Stacked
<1> HIDE DEF E, R, L, K, G
<1>11. DepthFirst(num, K, G \ {x}, link2, L, E, R)
  BY <1>1, <1>4, <1>5, <1>7, <1>8, <1>9, NodeLeft DEF link2
<1>12. Searched(t, low)
  BY <1>3, <1>6, <1>10, <1>11 DEF Searched, E, R
<1>13. Ordered(t, low)
  BY <1>2, <1>3, <1>6 DEF Ordered, num
<1>14. LeftToTake(t)
  BY <1>2, <1>3 DEF LeftToTake, num
<1>15. Found(t, low)
  BY <1>2, <1>3, <1>10 DEF Found, K, num
<1>16. Trees(t, low)
  <2>1. \A g \in Calling(t) : g \in Reach(s.root - 1, low)
    BY <1>2, <1>6 DEF Trees, G
  <2>2. \A i \in low .. (s.root - 2), d \in Components(low) : ~(d \subseteq Reach(i, low))
    BY <1>2 DEF Trees
  <2>3. /\ low <= s.root /\ (s.root <= Size \/ s.root = low) /\ low < s.root
        /\ \A i \in low .. (s.root - 1) : i \in DOMAIN num
    BY <1>1, <1>2 DEF Trees, num
  <2> QED
    BY <1>3, <2>1, <2>2, <2>3 DEF Trees
<1> QED
  BY <1>12, <1>13, <1>14, <1>15, <1>16 DEF FinderInv

LEMMA LeaveKeeps ==
    ASSUME adjacency \in Graphs, NEW low \in Nat, NEW s \in FinderStates, FinderInv(s, low),
           s.calls # <<>>, NEW x, x = s.calls[Len(s.calls)], s.left[x] = <<>>
    PROVE  /\ Leave(s, x) \in FinderStates /\ FinderInv(Leave(s, x), low)
           /\ HasReturned(s, Leave(s, x))
<1> DEFINE num == s.visited
           q == s.calls
           stack == s.stack
           G == Calling(s)
           depth == Len(q) - 1
           rest == SubSeq(q, 1, depth)
           c == q[depth]
<1>1. x \in Nodes /\ IsTop(num, G, x) /\ x \in DOMAIN num
  BY TopOfCalls
<1>2. Ordered(s, low) /\ LeftToTake(s) /\ Searched(s, low) /\ Found(s, low) /\ Trees(s, low)
  BY DEF FinderInv
<1>3. /\ num \in [DOMAIN num -> Nat] /\ q \in Seq(Nodes) /\ Rising(q, num)
      /\ stack \in Seq(Nodes) /\ Rising(stack, num)
      /\ \A n, m \in DOMAIN num : num[n] = num[m] => n = m
      /\ q # <<>> /\ G \subseteq Stacked(s) /\ Stacked(s) \subseteq DOMAIN num
      /\ s.lowLink \in [Nodes -> Nat] /\ s.comps \in SUBSET (SUBSET Nodes)
  <2>1. /\ num \in [DOMAIN num -> Nat] /\ q \in Seq(Nodes) /\ stack \in Seq(Nodes)
        /\ s.lowLink \in [Nodes -> Nat] /\ s.comps \in SUBSET (SUBSET Nodes)
    BY FinderTypes
  <2>2. Rising(q, num) /\ Rising(stack, num)
    BY <1>2 DEF Ordered
  <2> QED
    BY <1>2, <2>1, <2>2, FinderNumbers
<1> HIDE DEF num, q, stack
<1>4. /\ rest \in Seq(Nodes) /\ depth \in Nat
      /\ depth = 0 => ToSet(q) = {x}
      /\ depth # 0 => IsCaller(num, G, x, c) /\ c \in Nodes
  <2>1. LET y == q[Len(q)] IN
        /\ rest \in Seq(Nodes) /\ depth \in Nat
        /\ depth = 0 => ToSet(q) = {y}
        /\ depth # 0 => /\ c \in ToSet(q) /\ c # y /\ c \in Nodes
                        /\ \A g \in ToSet(q) : g # y => num[g] <= num[c]
    BY <1>3, CallsOnTop
  <2> QED
    BY <2>1 DEF IsCaller, Calling, q
<1>5. Leave(s, x) =
          LET closed == IF s.lowLink[x] = num[x] THEN CloseComponent(s, x) ELSE s
              left == [closed EXCEPT !.calls = SubSeq(closed.calls, 1, depth)]
          IN  IF depth = 0 THEN left ELSE Link(left, c, s.lowLink[x])
  BY DEF Leave, num, q
<1> HIDE DEF depth, rest, c
<1>6. s.lowLink[x] \in Nat
  BY <1>1, <1>3
<1>7. CASE s.lowLink[x] = num[x]
  <2>1. \E k \in DOMAIN stack : stack[k] = x
    BY <1>1, <1>3 DEF IsTop, Stacked, ToSet, stack
  <2> DEFINE k == CHOOSE k \in DOMAIN stack : stack[k] = x
             comp == ToSet(SubSeq(stack, k, Len(stack)))
             stack2 == SubSeq(stack, 1, k - 1)
             comps2 == IF Cardinality(comp) > 1 THEN s.comps \cup {comp} ELSE s.comps
             closed == [s EXCEPT !.stack = stack2, !.comps = comps2]
             left == [closed EXCEPT !.calls = SubSeq(closed.calls, 1, depth)]
  <2>2. k \in 1 .. Len(stack) /\ stack[k] = x
    BY <1>3, <2>1
  <2>3. CloseComponent(s, x) = closed
    BY DEF CloseComponent, stack
  <2> HIDE DEF k
  <2>4. stack2 \in Seq(Nodes) /\ comp = {y \in ToSet(stack) : num[stack[k]] <= num[y]}
    <3> HIDE DEF comp, stack2, comps2, closed, left
    <3>1. IsAbove(stack, num, k, ToSet(SubSeq(stack, k, Len(stack))))
      BY <1>3, <2>2, PoppedIsAbove
    <3> QED
      BY <3>1 DEF IsAbove, comp, stack2
  <2>5. comp \in SUBSET Nodes
    BY <1>3, <2>4, NodesOf
  <2> HIDE DEF comp, stack2
  <2>6. comps2 \in SUBSET (SUBSET Nodes)
    BY <1>3, <2>5
  <2> HIDE DEF comps2
  <2>7. /\ closed \in FinderStates /\ closed.stack = stack2 /\ closed.comps = comps2
        /\ closed.calls = s.calls /\ closed.visited = s.visited /\ closed.lowLink = s.lowLink
        /\ closed.next = s.next /\ closed.left = s.left /\ closed.root = s.root
    <3>1. stack2 \in Seq(Nodes) /\ closed = WithStack(s, stack2, comps2)
      BY <2>4 DEF WithStack
    <3> HIDE DEF closed, left
    <3>2. IsWithStack(s, stack2, comps2, closed)
      BY <2>6, <3>1, WithStackIs
    <3> QED
      BY <3>2 DEF IsWithStack
  <2> HIDE DEF closed
  <2>8. left = [closed EXCEPT !.calls = rest]
    BY <2>7 DEF rest, q
  <2>9. /\ left \in FinderStates /\ left.stack = stack2 /\ left.comps = comps2 /\ left.calls = rest
        /\ left.visited = s.visited /\ left.lowLink = s.lowLink
        /\ left.next = s.next /\ left.left = s.left /\ left.root = s.root
    <3>1. LET t == [closed EXCEPT !.calls = rest] IN
          /\ t \in FinderStates /\ t.stack = closed.stack /\ t.comps = closed.comps /\ t.calls = rest
          /\ t.visited = closed.visited /\ t.lowLink = closed.lowLink /\ t.next = closed.next
          /\ t.left = closed.left /\ t.root = closed.root
      BY <1>4, <2>7, CallsMakes
    <3> HIDE DEF left
    <3> QED
      BY <2>7, <2>8, <3>1
  <2>10. Leave(s, x) = IF depth = 0 THEN left ELSE Link(left, c, s.lowLink[x])
    BY <1>5, <1>7, <2>3
  <2> HIDE DEF left
  <2>11. ASSUME NEW t \in FinderStates, t.stack = stack2, t.comps = comps2, t.calls = rest,
                t.visited = s.visited, t.next = s.next, t.left = s.left, t.root = s.root,
                KeepsLinks(s.lowLink, t.lowLink, G, x)
         PROVE  FinderInv(t, low) /\ HasReturned(s, t)
    <3>1. HasReturned(s, t)
      BY <2>11 DEF HasReturned, rest, depth, q
    <3>2. HasClosed(s, t, x)
      BY <2>2, <2>11, <3>1 DEF HasClosed, comps2, stack2, comp, stack
    <3>3. s.lowLink[x] = s.visited[x]
      BY <1>7 DEF num
    <3> QED
      BY <3>1, <3>2, <3>3, ClosingKeeps
  <2>12. CASE depth = 0
    <3>1. Leave(s, x) = left /\ KeepsLinks(s.lowLink, left.lowLink, G, x)
      BY <2>9, <2>10, <2>12 DEF KeepsLinks
    <3> QED
      BY <2>9, <2>11, <3>1
  <2>13. CASE depth # 0
    <3> DEFINE t == Link(left, c, s.lowLink[x])
    <3>1. Leave(s, x) = t
      BY <2>10, <2>13
    <3>2. c \in Nodes
      BY <1>4, <2>13
    <3>3. /\ t \in FinderStates /\ t.lowLink = [left.lowLink EXCEPT ![c] = Smaller(left.lowLink[c], s.lowLink[x])]
          /\ t.visited = left.visited /\ t.next = left.next /\ t.stack = left.stack
          /\ t.calls = left.calls /\ t.left = left.left /\ t.root = left.root /\ t.comps = left.comps
      BY <1>6, <2>9, <3>2, LinkMakes
    <3> HIDE DEF t
    <3>4. KeepsLinks(s.lowLink, t.lowLink, G, x)
      <4>1. G \subseteq Nodes
        BY <1>3, FinderTypes DEF num
      <4> QED
        BY <1>3, <2>9, <3>2, <3>3, <4>1 DEF KeepsLinks
    <3> QED
      BY <2>9, <2>11, <3>1, <3>3, <3>4
  <2> QED
    BY <2>12, <2>13
<1>8. CASE s.lowLink[x] # num[x]
  <2>1. depth # 0
    <3> SUFFICES ASSUME depth = 0 PROVE FALSE
      OBVIOUS
    <3>1. G = {x}
      BY <1>4 DEF Calling, q
    <3>2. PICK z \in Stacked(s) : num[z] = s.lowLink[x] /\ num[z] <= num[x]
      BY <1>2, <3>1 DEF Searched, DepthFirst, Linked, num
    <3>3. PICK g \in G : num[g] <= num[z]
      BY <1>2 DEF Searched, DepthFirst, Rooted, num
    <3>4. num[x] \in Nat /\ num[z] \in Nat
      BY <1>1, <1>3
    <3> QED
      BY <1>8, <3>1, <3>2, <3>3, <3>4
  <2> DEFINE left == [s EXCEPT !.calls = rest]
             t == Link(left, c, s.lowLink[x])
  <2>2. c \in Nodes /\ IsCaller(num, G, x, c)
    BY <1>4, <2>1
  <2>3. Leave(s, x) = t
    BY <1>5, <1>8, <2>1 DEF rest, q
  <2>4. /\ left \in FinderStates /\ left.stack = s.stack /\ left.comps = s.comps /\ left.calls = rest
        /\ left.visited = s.visited /\ left.lowLink = s.lowLink
        /\ left.next = s.next /\ left.left = s.left /\ left.root = s.root
    BY <1>4, CallsMakes
  <2> HIDE DEF left
  <2>5. /\ t \in FinderStates /\ t.lowLink = [left.lowLink EXCEPT ![c] = Smaller(left.lowLink[c], s.lowLink[x])]
        /\ t.visited = left.visited /\ t.next = left.next /\ t.stack = left.stack
        /\ t.calls = left.calls /\ t.left = left.left /\ t.root = left.root /\ t.comps = left.comps
    BY <1>6, <2>2, <2>4, LinkMakes
  <2> HIDE DEF t
  <2>6. HasReturned(s, t)
    BY <2>4, <2>5 DEF HasReturned, rest, depth, q
  <2>7. HasLeft(s, t, x, c)
    BY <2>4, <2>5, <2>6 DEF HasLeft
  <2>8. FinderInv(t, low)
    <3>1. s.lowLink[x] # s.visited[x] /\ IsCaller(s.visited, Calling(s), x, c)
      BY <1>8, <2>2 DEF num
    <3> QED
      BY <2>5, <2>7, <3>1, LeavingKeeps
  <2> QED
    BY <2>3, <2>5, <2>6, <2>8
<1> QED
  BY <1>7, <1>8

(***************************************************************************)
(* Every step leaves less to do.                                           *)
(***************************************************************************)
LessToDo(s, t) ==
    /\ \A n \in Nodes : n \notin DOMAIN t.visited \/ n \in Calling(t) =>
                            n \notin DOMAIN s.visited \/ n \in Calling(s)
    /\ \A n \in Nodes : Len(t.left[n]) <= Len(s.left[n])
    /\ s.root <= t.root
    /\ \/ s.root \in Nodes /\ s.root < t.root
       \/ \E n \in Nodes : Len(t.left[n]) < Len(s.left[n])
       \/ \E n \in Calling(s) : n \in DOMAIN t.visited /\ n \notin Calling(t)

LEMMA LessIsTodo ==
    ASSUME adjacency \in Graphs, NEW s \in FinderStates, NEW t \in FinderStates,
           LeftToTake(s), LessToDo(s, t)
    PROVE  Todo(t) \subseteq Todo(s) /\ Todo(t) # Todo(s)
<1>1. /\ \A n \in Nodes : Len(s.left[n]) \in Nat /\ Len(t.left[n]) \in Nat
      /\ s.root \in Nat /\ t.root \in Nat /\ Nodes \subseteq Nat
      /\ s.calls \in Seq(Nodes) /\ Calling(s) \subseteq Nodes
  <2>1. s.left \in [Nodes -> Seq(Nodes)] /\ t.left \in [Nodes -> Seq(Nodes)]
    BY FinderTypes
  <2>2. s.root \in Nat /\ t.root \in Nat /\ Nodes \subseteq Nat
    BY FinderTypes, CycleAssumption DEF Nodes
  <2>3. s.calls \in Seq(Nodes)
    BY FinderTypes
  <2>4. Calling(s) \subseteq Nodes
    BY <2>3, NodesOf DEF Calling
  <2> QED
    BY <2>1, <2>2, <2>3, <2>4
<1>2. \A n \in Nodes : Len(adjacency[n]) \in Nat /\ Len(s.left[n]) <= Len(adjacency[n])
  <2>1. adjacency \in [Nodes -> Seq(Nodes)]
    BY CycleAssumption
  <2> QED
    BY <2>1 DEF LeftToTake
<1>3. ASSUME NEW n \in Nodes, NEW j \in 0 .. Len(adjacency[n]) + 1 PROVE <<n, j>> \in Jobs
  BY <1>3 DEF Jobs
<1>4. \A n \in Nodes, j \in Nat : <<n, j>> \in Jobs =>
        (<<n, j>> \in Todo(s) <=> \/ j = 0 /\ (n \notin DOMAIN s.visited \/ n \in Calling(s))
                                  \/ j \in 1 .. Len(s.left[n])
                                  \/ j = Len(adjacency[n]) + 1 /\ s.root <= n)
  BY DEF Todo
<1>5. \A n \in Nodes, j \in Nat : <<n, j>> \in Jobs =>
        (<<n, j>> \in Todo(t) <=> \/ j = 0 /\ (n \notin DOMAIN t.visited \/ n \in Calling(t))
                                  \/ j \in 1 .. Len(t.left[n])
                                  \/ j = Len(adjacency[n]) + 1 /\ t.root <= n)
  BY DEF Todo
<1>6. ASSUME NEW job \in Todo(t) PROVE job \in Todo(s)
  <2>1. job \in Jobs
    BY DEF Todo
  <2>2. PICK n \in Nodes : \E j \in 0 .. Len(adjacency[n]) + 1 : job = <<n, j>>
    BY <2>1 DEF Jobs
  <2>3. PICK j \in 0 .. Len(adjacency[n]) + 1 : job = <<n, j>>
    BY <2>2
  <2>4. j \in Nat
    BY <1>2
  <2>5. \/ j = 0 /\ (n \notin DOMAIN t.visited \/ n \in Calling(t))
        \/ j \in 1 .. Len(t.left[n])
        \/ j = Len(adjacency[n]) + 1 /\ t.root <= n
    BY <1>5, <2>1, <2>3, <2>4
  <2>6. /\ n \notin DOMAIN t.visited \/ n \in Calling(t) => n \notin DOMAIN s.visited \/ n \in Calling(s)
        /\ Len(t.left[n]) <= Len(s.left[n]) /\ s.root <= t.root
    BY DEF LessToDo
  <2>7. \/ j = 0 /\ (n \notin DOMAIN s.visited \/ n \in Calling(s))
        \/ j \in 1 .. Len(s.left[n])
        \/ j = Len(adjacency[n]) + 1 /\ s.root <= n
    <3>1. Len(t.left[n]) \in Nat /\ Len(s.left[n]) \in Nat /\ n \in Nat
      BY <1>1
    <3>2. s.root \in Nat /\ t.root \in Nat
      BY <1>1
    <3> QED
      BY <2>5, <2>6, <3>1, <3>2
  <2> QED
    BY <1>4, <2>1, <2>3, <2>4, <2>7
<1>7. CASE s.root \in Nodes /\ s.root < t.root
  <2> DEFINE n == s.root
             j == Len(adjacency[n]) + 1
  <2>1. n \in Nodes /\ j \in Nat /\ j \in 0 .. Len(adjacency[n]) + 1 /\ j # 0
    BY <1>2, <1>7
  <2>2. <<n, j>> \in Todo(s)
    BY <1>1, <1>3, <1>4, <2>1
  <2>3. <<n, j>> \notin Todo(t)
    <3>1. ~(t.root <= n) /\ j \notin 1 .. Len(t.left[n])
      <4>1. Len(t.left[n]) \in Nat /\ Len(s.left[n]) \in Nat /\ Len(adjacency[n]) \in Nat
        BY <1>1, <1>2, <2>1
      <4>2. Len(t.left[n]) <= Len(s.left[n]) /\ Len(s.left[n]) <= Len(adjacency[n])
        BY <1>2, <2>1 DEF LessToDo
      <4>3. \A a, b, c \in Nat : a <= b /\ b <= c => c + 1 \notin 1 .. a
        OBVIOUS
      <4>4. j \notin 1 .. Len(t.left[n])
        BY <4>1, <4>2, <4>3
      <4>5. ~(t.root <= n)
        BY <1>1, <1>7
      <4> QED
        BY <4>4, <4>5
    <3> QED
      BY <1>3, <1>5, <2>1, <3>1
  <2> QED
    BY <1>6, <2>2, <2>3
<1>8. ASSUME NEW n \in Nodes, Len(t.left[n]) < Len(s.left[n]) PROVE Todo(t) # Todo(s)
  <2> DEFINE j == Len(s.left[n])
  <2>1. /\ j \in Nat /\ j \in 0 .. Len(adjacency[n]) + 1 /\ j # 0 /\ j # Len(adjacency[n]) + 1
        /\ j \in 1 .. Len(s.left[n]) /\ j \notin 1 .. Len(t.left[n])
    BY <1>1, <1>2, <1>8
  <2>2. <<n, j>> \in Todo(s)
    BY <1>3, <1>4, <2>1
  <2>3. <<n, j>> \notin Todo(t)
    BY <1>3, <1>5, <2>1
  <2> QED
    BY <2>2, <2>3
<1>9. ASSUME NEW n \in Calling(s), n \in DOMAIN t.visited, n \notin Calling(t) PROVE Todo(t) # Todo(s)
  <2>1. n \in Nodes /\ 0 \in 0 .. Len(adjacency[n]) + 1 /\ 0 # Len(adjacency[n]) + 1
    BY <1>1, <1>2
  <2>2. <<n, 0>> \in Todo(s)
    BY <1>3, <1>4, <2>1
  <2>3. <<n, 0>> \notin Todo(t)
    <3>1. 0 \notin 1 .. Len(t.left[n])
      BY <1>1, <2>1
    <3> QED
      BY <1>3, <1>5, <1>9, <2>1, <3>1
  <2> QED
    BY <2>2, <2>3
<1>10. \/ s.root \in Nodes /\ s.root < t.root
       \/ \E n \in Nodes : Len(t.left[n]) < Len(s.left[n])
       \/ \E n \in Calling(s) : n \in DOMAIN t.visited /\ n \notin Calling(t)
  BY DEF LessToDo
<1>11. Todo(t) # Todo(s)
  BY <1>7, <1>8, <1>9, <1>10
<1> QED
  BY <1>6, <1>11

LEMMA NextRootDoes ==
    ASSUME NEW s \in FinderStates, s.calls = <<>>, s.root < Size
    PROVE  LessToDo(s, NextRoot(s))
<1> DEFINE w == [s EXCEPT !.root = s.root + 1]
<1>1. /\ w \in FinderStates /\ w.root = s.root + 1 /\ w.visited = s.visited
      /\ w.calls = s.calls /\ w.left = s.left
  BY RootPassedMakes
<1>2. NextRoot(s) = IF s.root \in DOMAIN s.visited THEN w ELSE Enter(w, s.root)
  BY DEF NextRoot
<1>3. s.root \in Nodes /\ s.root \in Nat
  BY FinderTypes, CycleAssumption DEF Nodes
<1>4. \A n \in Nodes : Len(s.left[n]) \in Nat
  <2>1. s.left \in [Nodes -> Seq(Nodes)]
    BY FinderTypes
  <2> QED
    BY <2>1
<1> HIDE DEF w
<1>5. CASE s.root \in DOMAIN s.visited
  <2>1. NextRoot(s) = w
    BY <1>2, <1>5
  <2> QED
    BY <1>1, <1>3, <1>4, <2>1 DEF LessToDo, Calling
<1>6. CASE s.root \notin DOMAIN s.visited
  <2> DEFINE t == Enter(w, s.root)
  <2>1. NextRoot(s) = t
    BY <1>2, <1>6
  <2>2. /\ t.visited = [n \in (DOMAIN w.visited) \cup {s.root} |->
                            IF n = s.root THEN w.next ELSE w.visited[n]]
        /\ t.calls = Append(w.calls, s.root) /\ t.left = w.left /\ t.root = w.root
    BY <1>1, <1>3, EnterMakes
  <2> HIDE DEF t
  <2>3. DOMAIN t.visited = DOMAIN s.visited \cup {s.root}
    BY <1>1, <2>2
  <2>4. Calling(t) = Calling(s) \cup {s.root}
    <3>1. s.calls \in Seq(Nodes)
      BY FinderTypes
    <3>2. ToSet(Append(s.calls, s.root)) = ToSet(s.calls) \cup {s.root}
      BY <1>3, <3>1, PushedSet
    <3> QED
      BY <1>1, <2>2, <3>2 DEF Calling
  <2>5. t.left = s.left /\ t.root = s.root + 1
    BY <1>1, <2>2
  <2>6. LessToDo(s, t)
    BY <1>3, <1>4, <1>6, <2>3, <2>4, <2>5 DEF LessToDo
  <2> QED
    BY <2>1, <2>6
<1> QED
  BY <1>5, <1>6

LEMMA TakeEdgeDoes ==
    ASSUME NEW low \in Nat, NEW s \in FinderStates, NEW x \in Nodes, s.left[x] # <<>>
    PROVE  LessToDo(s, TakeEdge(s, x, low))
<1> DEFINE m == Head(s.left[x])
           w == [s EXCEPT !.left[x] = Tail(@)]
<1>1. /\ w \in FinderStates /\ w.left = [s.left EXCEPT ![x] = Tail(s.left[x])]
      /\ w.visited = s.visited /\ w.lowLink = s.lowLink /\ w.next = s.next /\ w.stack = s.stack
      /\ w.calls = s.calls /\ w.root = s.root /\ w.comps = s.comps
  BY EdgeMakes
<1>2. /\ m \in Nodes /\ Len(s.left[x]) \in Nat /\ Len(Tail(s.left[x])) = Len(s.left[x]) - 1
      /\ s.left \in [Nodes -> Seq(Nodes)]
  <2>1. s.left \in [Nodes -> Seq(Nodes)]
    BY FinderTypes
  <2>2. s.left[x] \in Seq(Nodes)
    BY <2>1
  <2> QED
    BY <2>1, <2>2, HeadTaken
<1>3. \/ TakeEdge(s, x, low) = w
      \/ m \notin DOMAIN s.visited /\ TakeEdge(s, x, low) = Enter(w, m)
      \/ m \in DOMAIN s.visited /\ TakeEdge(s, x, low) = Link(w, x, s.visited[m])
  BY DEF TakeEdge
<1> HIDE DEF w, m
<1>4. \A n \in Nodes : Len(w.left[n]) <= Len(s.left[n])
  <2>1. \A n \in Nodes : Len(s.left[n]) \in Nat
    BY <1>2
  <2>2. \A n \in Nodes : n # x => w.left[n] = s.left[n]
    BY <1>1, <1>2
  <2>3. w.left[x] = Tail(s.left[x])
    BY <1>1, <1>2
  <2>4. Len(w.left[x]) <= Len(s.left[x])
    BY <1>2, <2>3
  <2> SUFFICES ASSUME NEW n \in Nodes PROVE Len(w.left[n]) <= Len(s.left[n])
    OBVIOUS
  <2>5. CASE n = x
    BY <2>4, <2>5
  <2>6. CASE n # x
    BY <2>1, <2>2, <2>6
  <2> QED
    BY <2>5, <2>6
<1>5. Len(w.left[x]) < Len(s.left[x])
  <2>1. w.left[x] = Tail(s.left[x])
    BY <1>1, <1>2
  <2> QED
    BY <1>2, <2>1
<1>6. s.root <= s.root
  BY FinderTypes
<1>7. ASSUME NEW t, t.left = w.left, t.root = s.root, t.visited = s.visited, t.calls = s.calls
      PROVE  LessToDo(s, t)
  BY <1>4, <1>5, <1>6, <1>7 DEF LessToDo, Calling
<1>8. CASE TakeEdge(s, x, low) = w
  BY <1>1, <1>7, <1>8
<1>9. CASE m \notin DOMAIN s.visited /\ TakeEdge(s, x, low) = Enter(w, m)
  <2> DEFINE t == Enter(w, m)
  <2>1. /\ t.visited = [n \in (DOMAIN w.visited) \cup {m} |-> IF n = m THEN w.next ELSE w.visited[n]]
        /\ t.calls = Append(w.calls, m) /\ t.left = w.left /\ t.root = w.root
    BY <1>1, <1>2, EnterMakes
  <2> HIDE DEF t
  <2>2. DOMAIN t.visited = DOMAIN s.visited \cup {m}
    BY <1>1, <2>1
  <2>3. Calling(t) = Calling(s) \cup {m}
    <3>1. s.calls \in Seq(Nodes)
      BY FinderTypes
    <3>2. ToSet(Append(s.calls, m)) = ToSet(s.calls) \cup {m}
      BY <1>2, <3>1, PushedSet
    <3> QED
      BY <1>1, <2>1, <3>2 DEF Calling
  <2>4. t.left = w.left /\ t.root = s.root
    BY <1>1, <2>1
  <2>5. LessToDo(s, t)
    BY <1>4, <1>5, <1>6, <1>9, <2>2, <2>3, <2>4 DEF LessToDo
  <2> QED
    BY <1>9, <2>5 DEF t
<1>10. CASE m \in DOMAIN s.visited /\ TakeEdge(s, x, low) = Link(w, x, s.visited[m])
  <2>1. PICK v \in Nat : v = s.visited[m]
    <3>1. s.visited \in [DOMAIN s.visited -> Nat]
      BY FinderTypes
    <3> QED
      BY <1>10, <3>1
  <2> DEFINE t == Link(w, x, v)
  <2>2. w \in FinderStates
    BY <1>1
  <2>3. t.visited = w.visited /\ t.calls = w.calls /\ t.left = w.left /\ t.root = w.root
    BY <2>2, LinkMakes
  <2> HIDE DEF t
  <2>4. LessToDo(s, t)
    BY <1>1, <1>7, <2>3
  <2> QED
    BY <1>10, <2>1, <2>4 DEF t
<1> QED
  BY <1>3, <1>8, <1>9, <1>10

LEMMA LeaveDoes ==
    ASSUME adjacency \in Graphs, NEW low \in Nat, NEW s \in FinderStates, FinderInv(s, low),
           s.calls # <<>>, NEW t \in FinderStates, HasReturned(s, t)
    PROVE  LessToDo(s, t)
<1> DEFINE x == s.calls[Len(s.calls)]
<1>1. x \in DOMAIN s.visited
  BY TopOfCalls
<1>2. x \in Calling(s) /\ Calling(t) = Calling(s) \ {x}
  <2>1. s.visited \in [DOMAIN s.visited -> Nat] /\ s.calls \in Seq(Nodes)
    BY FinderTypes
  <2>2. Rising(s.calls, s.visited)
    BY DEF FinderInv, Ordered
  <2>3. \A n, m \in DOMAIN s.visited : s.visited[n] = s.visited[m] => n = m
    BY FinderNumbers DEF FinderInv
  <2>4. LET y == s.calls[Len(s.calls)]
            rest == SubSeq(s.calls, 1, Len(s.calls) - 1)
        IN  y \in ToSet(s.calls) /\ ToSet(rest) = ToSet(s.calls) \ {y}
    BY <2>1, <2>2, <2>3, CallsOnTop
  <2> QED
    BY <2>4 DEF HasReturned, Calling
<1> HIDE DEF x
<1>3. s.root <= s.root /\ \A n \in Nodes : Len(s.left[n]) <= Len(s.left[n])
  <2>1. s.left \in [Nodes -> Seq(Nodes)] /\ s.root \in Nat
    BY FinderTypes
  <2> QED
    BY <2>1
<1>4. t.visited = s.visited /\ t.left = s.left /\ t.root = s.root
  BY DEF HasReturned
<1> QED
  BY <1>1, <1>2, <1>3, <1>4 DEF LessToDo

LEMMA StepKeeps ==
    ASSUME adjacency \in Graphs, NEW low \in Nat, NEW s \in FinderStates, FinderInv(s, low)
    PROVE  /\ FinderStep(s, low) \in FinderStates /\ FinderInv(FinderStep(s, low), low)
           /\ ~HasFound(s) => LessToDo(s, FinderStep(s, low))
<1> DEFINE x == s.calls[Len(s.calls)]
<1>1. CASE HasFound(s)
  BY <1>1 DEF FinderStep
<1>2. CASE ~HasFound(s) /\ s.calls = <<>>
  <2>1. FinderStep(s, low) = NextRoot(s)
    BY <1>2 DEF FinderStep
  <2>2. s.root < Size
    BY <1>2, FinderTypes, CycleAssumption DEF HasFound
  <2> QED
    BY <1>2, <2>1, <2>2, NextRootKeeps, NextRootDoes
<1>3. CASE ~HasFound(s) /\ s.calls # <<>> /\ s.left[x] = <<>>
  <2>1. FinderStep(s, low) = Leave(s, x)
    BY <1>3 DEF FinderStep
  <2>2. /\ Leave(s, x) \in FinderStates /\ FinderInv(Leave(s, x), low)
        /\ HasReturned(s, Leave(s, x))
    BY <1>3, LeaveKeeps
  <2>3. LessToDo(s, Leave(s, x))
    BY <1>3, <2>2, LeaveDoes
  <2> QED
    BY <2>1, <2>2, <2>3
<1>4. CASE ~HasFound(s) /\ s.calls # <<>> /\ s.left[x] # <<>>
  <2>1. FinderStep(s, low) = TakeEdge(s, x, low)
    BY <1>4 DEF FinderStep
  <2>2. TakeEdge(s, x, low) \in FinderStates /\ FinderInv(TakeEdge(s, x, low), low)
    BY <1>4, TakeEdgeKeeps
  <2>3. x \in Nodes
    BY <1>4, TopOfCalls
  <2>4. LessToDo(s, TakeEdge(s, x, low))
    BY <1>4, <2>3, TakeEdgeDoes
  <2> QED
    BY <2>1, <2>2, <2>4
<1> QED
  BY <1>1, <1>2, <1>3, <1>4

(***************************************************************************)
(* The start, and how many steps there are.                                *)
(***************************************************************************)
LEMMA StartIsRight ==
    ASSUME adjacency \in Graphs, NEW low \in Nat
    PROVE  Start(low) \in FinderStates /\ FinderInv(Start(low), low)
<1> DEFINE s == Start(low)
<1>1. /\ s.visited = <<>> /\ s.lowLink = [n \in Nodes |-> 0] /\ s.next = 0 /\ s.stack = <<>>
      /\ s.calls = <<>> /\ s.left = adjacency /\ s.root = low /\ s.comps = {}
  BY DEF Start
<1>2. s \in FinderStates
  <2>1. <<>> \in [{} -> Nat]
    OBVIOUS
  <2>2. <<>> \in UNION {[S -> Nat] : S \in SUBSET Nodes}
    BY <2>1
  <2>3. adjacency \in [Nodes -> Seq(Nodes)]
    BY CycleAssumption
  <2>4. [n \in Nodes |-> 0] \in [Nodes -> Nat] /\ {} \in SUBSET (SUBSET Nodes)
    OBVIOUS
  <2>5. <<>> \in Seq(Nodes) /\ 0 \in Nat
    OBVIOUS
  <2> QED
    BY <2>2, <2>3, <2>4, <2>5 DEF FinderStates, Start
<1> HIDE DEF s
<1>3. DOMAIN s.visited = {} /\ Stacked(s) = {} /\ Calling(s) = {}
  BY <1>1 DEF Stacked, Calling, ToSet
<1>4. Ordered(s, low)
  BY <1>1, <1>3 DEF Ordered, Rising, ToSet
<1>5. LeftToTake(s)
  <2>1. adjacency \in [Nodes -> Seq(Nodes)]
    BY CycleAssumption
  <2>2. \A n \in Nodes : Len(adjacency[n]) \in Nat
    BY <2>1
  <2> QED
    BY <1>1, <2>2 DEF LeftToTake, Targets
<1>6. Searched(s, low)
  <2>1. LeftOf(s) \in [Nodes -> SUBSET Nodes]
    BY <1>1, TargetsAreNodes DEF LeftOf, Targets
  <2>2. s.lowLink \in [Nodes -> Nat] /\ s.visited \in [DOMAIN s.visited -> Nat]
    BY <1>2, FinderTypes
  <2>3. Numbered(s.visited, {}, {}, s.lowLink, LeftOf(s))
    BY <1>3, <2>1, <2>2 DEF Numbered
  <2>4. /\ Taken(s.visited, {}, LeftOf(s), EdgesFrom(low)) /\ Sealed(s.visited, {}, EdgesFrom(low))
        /\ Reaching(s.visited, {}, {}, ReachedFrom(low))
        /\ Linked(s.visited, {}, {}, s.lowLink, ReachedFrom(low))
        /\ Returning(s.visited, {}, {}, ReachedFrom(low))
        /\ Accounted(s.visited, {}, {}, s.lowLink, LeftOf(s), EdgesFrom(low))
        /\ Rooted(s.visited, {}, {})
    BY <1>3 DEF Taken, Sealed, Reaching, Linked, Returning, Accounted, Rooted
  <2> QED
    BY <1>3, <2>3, <2>4 DEF Searched, DepthFirst
<1>7. Found(s, low)
  <2>1. \A c \in Components(low) : ~(c \subseteq {})
    BY ComponentFacts
  <2> QED
    BY <1>1, <1>3, <2>1 DEF Found
<1>8. Trees(s, low)
  BY <1>1, <1>3 DEF Trees
<1> QED
  BY <1>2, <1>4, <1>5, <1>6, <1>7, <1>8 DEF FinderInv, s

LEMMA JobsAreFinite ==
    ASSUME adjacency \in Graphs
    PROVE  IsFiniteSet(Jobs) /\ FinderSteps = Cardinality(Jobs) /\ FinderSteps \in Nat
<1> DEFINE JobsOf(n) == {n} \X (0 .. Len(adjacency[n]) + 1)
           Before(k) == UNION {JobsOf(n) : n \in 0 .. (k - 1)}
           S == {k \in 0 .. Size : IsFiniteSet(Before(k))}
<1>1. \A n \in Nodes : IsFiniteSet(JobsOf(n))
  <2> TAKE n \in Nodes
  <2>1. Len(adjacency[n]) + 1 \in Int
    <3>1. adjacency[n] \in Seq(Nodes)
      BY TargetsAreNodes
    <3>2. Len(adjacency[n]) \in Nat
      BY <3>1
    <3> QED
      BY <3>2
  <2>2. IsFiniteSet(0 .. Len(adjacency[n]) + 1)
    BY <2>1, FS_Interval
  <2>3. IsFiniteSet({n})
    BY FS_Singleton
  <2> QED
    BY <2>2, <2>3, FS_Product
<1> HIDE DEF JobsOf
<1>2. 0 \in S
  <2>1. Before(0) = {}
    OBVIOUS
  <2> HIDE DEF Before
  <2>2. IsFiniteSet(Before(0))
    BY <2>1, FS_EmptySet
  <2>3. 0 \in 0 .. Size
    BY CycleAssumption
  <2> QED
    BY <2>2, <2>3
<1>3. ASSUME NEW k \in 1 .. Size, k - 1 \in S PROVE k \in S
  <2>1. k - 1 \in Nodes /\ k \in 0 .. Size /\ \A n : n \in 0 .. (k - 1) <=> n \in 0 .. (k - 1 - 1) \/ n = k - 1
    BY CycleAssumption DEF Nodes
  <2>2. Before(k) = Before(k - 1) \cup JobsOf(k - 1)
    BY <2>1
  <2>3. IsFiniteSet(Before(k - 1)) /\ IsFiniteSet(JobsOf(k - 1))
    BY <1>1, <1>3, <2>1
  <2> HIDE DEF Before
  <2>4. IsFiniteSet(Before(k))
    <3>1. IsFiniteSet(Before(k - 1) \cup JobsOf(k - 1))
      BY ONLY <2>3, FS_Union
    <3> QED
      BY <2>2, <3>1
  <2> QED
    BY <2>1, <2>4
<1>4. Jobs = Before(Size) /\ FinderSteps = Cardinality(Jobs)
  BY DEF Jobs, Nodes, FinderSteps, JobsOf
<1>5. Size \in S
  <2> HIDE DEF S, Before
  <2>1. Size \in Nat
    BY CycleAssumption
  <2>2. \A k \in 0 .. Size : k \in S
    BY <1>2, <1>3, <2>1, OneAfterTheOther
  <2> QED
    BY <2>1, <2>2
<1>6. IsFiniteSet(Jobs)
  BY <1>4, <1>5
<1> QED
  BY <1>4, <1>6, FS_CardinalityType

LEMMA TodoCounts ==
    ASSUME adjacency \in Graphs, NEW s, NEW t, Todo(t) \subseteq Todo(s) /\ Todo(t) # Todo(s)
    PROVE  /\ Cardinality(Todo(s)) \in Nat /\ Cardinality(Todo(t)) \in Nat
           /\ Cardinality(Todo(t)) < Cardinality(Todo(s))
<1>1. Todo(s) \in SUBSET Jobs /\ Todo(t) \in SUBSET Todo(s)
  BY DEF Todo
<1>2. IsFiniteSet(Todo(s))
  BY <1>1, JobsAreFinite, FS_Subset
<1>3. /\ IsFiniteSet(Todo(t)) /\ Cardinality(Todo(t)) <= Cardinality(Todo(s))
      /\ Cardinality(Todo(s)) = Cardinality(Todo(t)) => Todo(s) = Todo(t)
  BY <1>1, <1>2, FS_Subset
<1>4. Cardinality(Todo(s)) \in Nat /\ Cardinality(Todo(t)) \in Nat
  BY <1>2, <1>3, FS_CardinalityType
<1> QED
  BY <1>3, <1>4

(***************************************************************************)
(* The run of the finder: it has found what there is when its steps are    *)
(* taken.                                                                  *)
(***************************************************************************)
IsRun(run, low) ==
    run = [k \in 0 .. FinderSteps |-> IF k = 0 THEN Start(low) ELSE FinderStep(run[k - 1], low)]

LEMMA RunExists ==
    ASSUME adjacency \in Graphs, NEW low \in Nat
    PROVE  \E run : IsRun(run, low)
<1> DEFINE D == {s \in FinderStates : FinderInv(s, low)}
           F == [q \in Nat \X D |-> FinderStep(q[2], low)]
           start == Start(low)
<1>1. \A s \in D : FinderStep(s, low) \in D
  BY StepKeeps
<1>2. start \in D
  BY StartIsRight
<1> HIDE DEF D
<1>3. F \in [Nat \X D -> D]
  BY <1>1
<1>4. \A k \in Nat : \A s \in D : F[<<k, s>>] = FinderStep(s, low)
  OBVIOUS
<1> HIDE DEF F, start
<1>5. FinderSteps \in Nat
  BY JobsAreFinite
<1>6. PICK f \in [0 .. FinderSteps -> D] : Solves(f, F, start, FinderSteps)
  BY <1>2, <1>3, <1>5, RecursionExists
<1>7. \A k \in 0 .. FinderSteps : f[k] = IF k = 0 THEN Start(low) ELSE FinderStep(f[k - 1], low)
  <2>1. f[0] = Start(low)
    BY <1>6 DEF Solves, start
  <2> SUFFICES ASSUME NEW k \in 0 .. FinderSteps, k # 0 PROVE f[k] = FinderStep(f[k - 1], low)
    BY <2>1
  <2>2. k \in 1 .. FinderSteps /\ k - 1 \in 0 .. FinderSteps /\ k \in Nat
    BY <1>5
  <2>3. f[k - 1] \in D
    BY <1>6, <2>2
  <2> QED
    BY <1>4, <1>6, <2>2, <2>3 DEF Solves
<1>8. IsRun(f, low)
  BY <1>6, <1>7 DEF IsRun
<1> QED
  BY <1>8

LEMMA RunEnds ==
    ASSUME adjacency \in Graphs, NEW low \in Nat, NEW run, IsRun(run, low)
    PROVE  LET s == run[FinderSteps] IN s \in FinderStates /\ FinderInv(s, low) /\ HasFound(s)
<1> DEFINE N == FinderSteps
           Rest(k) == Cardinality(Todo(run[k]))
           Right(k) == run[k] \in FinderStates /\ FinderInv(run[k], low)
           S == {k \in 0 .. N : Right(k) /\ (HasFound(run[k]) \/ (Rest(k) \in Nat /\ Rest(k) + k <= N))}
<1>1. N \in Nat /\ IsFiniteSet(Jobs) /\ N = Cardinality(Jobs)
  BY JobsAreFinite
<1> HIDE DEF N
<1>2. run[0] = Start(low) /\ \A k \in 1 .. N : run[k] = FinderStep(run[k - 1], low)
  BY <1>1 DEF IsRun, N
<1>3. 0 \in S
  <2>1. Right(0)
    BY <1>2, StartIsRight
  <2>2. Todo(run[0]) \in SUBSET Jobs
    BY DEF Todo
  <2>3. IsFiniteSet(Todo(run[0])) /\ Rest(0) <= N
    BY <1>1, <2>2, FS_Subset
  <2>4. Rest(0) \in Nat
    BY <2>3, FS_CardinalityType
  <2> HIDE DEF Rest, Right
  <2> QED
    BY <1>1, <2>1, <2>3, <2>4
<1>4. ASSUME NEW k \in 1 .. N, k - 1 \in S PROVE k \in S
  <2>1. Right(k - 1) /\ run[k] = FinderStep(run[k - 1], low) /\ k \in 0 .. N
    BY <1>2, <1>4
  <2>2. Right(k)
    BY <2>1, StepKeeps
  <2>3. CASE HasFound(run[k - 1])
    <3>1. run[k] = run[k - 1]
      BY <2>1, <2>3 DEF FinderStep
    <3> QED
      BY <2>1, <2>2, <2>3, <3>1
  <2>4. CASE ~HasFound(run[k - 1])
    <3>1. LessToDo(run[k - 1], run[k])
      BY <2>1, <2>4, StepKeeps
    <3>2. LeftToTake(run[k - 1])
      BY <2>1 DEF FinderInv
    <3>3. Todo(run[k]) \subseteq Todo(run[k - 1]) /\ Todo(run[k]) # Todo(run[k - 1])
      BY <2>1, <2>2, <3>1, <3>2, LessIsTodo
    <3>4. Rest(k) \in Nat /\ Rest(k - 1) \in Nat /\ Rest(k) < Rest(k - 1)
      BY <3>3, TodoCounts
    <3> HIDE DEF Rest, Right
    <3>5. Rest(k - 1) + (k - 1) <= N
      BY <1>4, <2>4
    <3>6. Rest(k) + k <= N
      BY <1>1, <3>4, <3>5
    <3> QED
      BY <2>1, <2>2, <3>4, <3>6
  <2> QED
    BY <2>3, <2>4
<1>5. N \in S
  <2> HIDE DEF S
  <2>1. \A k \in 0 .. N : k \in S
    BY <1>1, <1>3, <1>4, OneAfterTheOther
  <2> QED
    BY <1>1, <2>1
<1>6. Right(N) /\ (HasFound(run[N]) \/ (Rest(N) \in Nat /\ Rest(N) + N <= N))
  BY <1>5
<1>7. HasFound(run[N])
  <2> SUFFICES ASSUME ~HasFound(run[N]) PROVE FALSE
    OBVIOUS
  <2> DEFINE t == FinderStep(run[N], low)
  <2>1. t \in FinderStates /\ LessToDo(run[N], t) /\ LeftToTake(run[N])
    BY <1>6, StepKeeps DEF FinderInv
  <2> HIDE DEF t
  <2>2. Todo(t) \subseteq Todo(run[N]) /\ Todo(t) # Todo(run[N])
    BY <1>6, <2>1, LessIsTodo
  <2>3. Rest(N) \in Nat /\ Cardinality(Todo(t)) \in Nat /\ Cardinality(Todo(t)) < Rest(N)
    BY <2>2, TodoCounts
  <2> HIDE DEF Rest
  <2> QED
    BY <1>1, <1>6, <2>3
<1> QED
  BY <1>6, <1>7 DEF N

(***************************************************************************)
(* What the finder has found at the end: the components of the first tree  *)
(* that holds any; and it returns the lowest of them.                      *)
(***************************************************************************)
LEMMA FoundAtTheEnd ==
    ASSUME adjacency \in Graphs, NEW low \in Nat, NEW s \in FinderStates, FinderInv(s, low), HasFound(s)
    PROVE  FirstTree(Components(low), low) = s.comps
<1> DEFINE V == DOMAIN s.visited
           all == Components(low)
           root0 == s.root - 1
<1>1. s.calls = <<>> /\ (s.comps # {} \/ s.root >= Size)
  BY DEF HasFound
<1>2. Stacked(s) = {} /\ Searched(s, low)
  BY <1>1, NothingCalls DEF FinderInv
<1>3. s.comps = {c \in all : c \subseteq V} /\ \A c \in s.comps : c \subseteq Reach(root0, low)
  BY <1>2 DEF FinderInv, Found
<1>4. /\ low <= s.root /\ (s.root <= Size \/ s.root = low) /\ (V # {} => low < s.root)
      /\ \A k \in low .. (s.root - 1) : k \in V
      /\ s.comps # {} => \A k \in low .. (s.root - 2), d \in all : ~(d \subseteq Reach(k, low))
  BY DEF FinderInv, Trees
<1>5. s.root \in Nat /\ Size \in Nat
  BY FinderTypes, CycleAssumption
<1>6. \A c \in all : c # {} /\ c \subseteq low .. (Size - 1)
  BY ComponentFacts
<1>7. \A n \in Nodes : n \in V => Reach(n, low) \subseteq V
  BY <1>2, GoneStays
<1> HIDE DEF V, all
<1>8. CASE s.comps # {}
  <2>1. PICK e \in all : e \in s.comps /\ e \subseteq V /\ e \subseteq Reach(root0, low)
    BY <1>3, <1>8
  <2>2. low < s.root
    <3>1. V # {}
      BY <1>6, <2>1
    <3> QED
      BY <1>4, <3>1
  <2>3. root0 \in low .. (Size - 1) /\ root0 \in low .. (s.root - 1) /\ s.root - 2 = root0 - 1
    BY <1>4, <1>5, <2>2
  <2>4. root0 \in Nodes /\ root0 \in V
    BY <1>4, <2>3 DEF Nodes
  <2>5. Reach(root0, low) \subseteq V
    BY <1>7, <2>4
  <2>6. \A k \in low .. (root0 - 1), d \in all : ~(d \subseteq Reach(k, low))
    BY <1>4, <1>8, <2>3
  <2>7. ASSUME NEW c \in s.comps PROVE c \in FirstTree(all, low)
    <3>1. c \in all /\ c \subseteq Reach(root0, low)
      BY <1>3
    <3> HIDE DEF root0
    <3> QED
      BY <2>3, <2>6, <3>1 DEF FirstTree
  <2>8. ASSUME NEW c \in FirstTree(all, low) PROVE c \in s.comps
    <3>1. c \in all
      BY DEF FirstTree
    <3>2. PICK r \in low .. (Size - 1) :
             /\ c \subseteq Reach(r, low)
             /\ \A k \in low .. (r - 1), d \in all : ~(d \subseteq Reach(k, low))
      BY DEF FirstTree
    <3>3. r \notin low .. (root0 - 1)
      BY <2>6, <3>1, <3>2
    <3>4. root0 \notin low .. (r - 1)
      BY <2>1, <3>2
    <3>5. r = root0
      <4>1. \A l, m \in Nat : \A a, b \in l .. (m - 1) : a \notin l .. (b - 1) /\ b \notin l .. (a - 1) => a = b
        OBVIOUS
      <4>2. r \in low .. (Size - 1)
        OBVIOUS
      <4> HIDE DEF root0
      <4> QED
        BY <1>5, <2>3, <3>3, <3>4, <4>1, <4>2
    <3>6. c \subseteq V
      BY <2>5, <3>2, <3>5
    <3> QED
      BY <1>3, <3>1, <3>6
  <2>9. FirstTree(all, low) = s.comps
    BY <2>7, <2>8
  <2> QED
    BY <2>9 DEF all
<1>9. CASE s.comps = {}
  <2>1. s.root >= Size
    BY <1>1, <1>9
  <2>2. low .. (Size - 1) \subseteq V
    BY <1>4, <1>5, <2>1
  <2>3. all = {}
    BY <1>3, <1>6, <1>9, <2>2
  <2>4. FirstTree(all, low) = {}
    BY <2>3 DEF FirstTree
  <2> QED
    BY <1>9, <2>4 DEF all
<1> QED
  BY <1>8, <1>9

LEMMA LowestIsOne ==
    ASSUME adjacency \in Graphs, NEW low \in Nat, NEW comps \in SUBSET Components(low), comps # {}
    PROVE  Lowest(comps) = {CHOOSE c \in comps : \A d \in comps : Least(c) <= Least(d)}
<1> DEFINE Leasts == {Least(e) : e \in comps}
           c0 == CHOOSE c \in comps : \A d \in comps : Least(c) <= Least(d)
<1>1. \A e \in comps : e \in SUBSET Nat /\ e # {} /\ \A n \in e : e = ComponentOf(n, low)
  BY ComponentFacts
<1>2. \A e \in comps : Least(e) \in e /\ Least(e) \in Nat
  BY <1>1, LeastIsLeast
<1>3. Leasts \in SUBSET Nat /\ Leasts # {}
  BY <1>2
<1>4. PICK l \in Leasts : \A k \in Leasts : l <= k
  <2> HIDE DEF Leasts
  <2> QED
    BY <1>3, LeastExists
<1>5. c0 \in comps /\ \A d \in comps : Least(c0) <= Least(d)
  BY <1>4
<1> HIDE DEF c0
<1>6. c0 \in Lowest(comps)
  BY <1>5 DEF Lowest
<1>7. ASSUME NEW c \in Lowest(comps) PROVE c = c0
  <2>1. c \in comps /\ Least(c) <= Least(c0)
    BY <1>5 DEF Lowest
  <2>2. Least(c) = Least(c0)
    BY <1>2, <1>5, <2>1
  <2>3. c = ComponentOf(Least(c), low) /\ c0 = ComponentOf(Least(c0), low)
    BY <1>1, <1>2, <1>5, <2>1
  <2> QED
    BY <2>2, <2>3
<1>8. Lowest(comps) = {c0}
  BY <1>6, <1>7
<1> QED
  BY <1>8 DEF c0

LEMMA FinderReturnsTheLowest ==
    ASSUME adjacency \in Graphs, NEW low \in Nat
    PROVE  NextComponents(low) = {ComponentFrom(low)} \ {{}}
<1> DEFINE run == CHOOSE run : IsRun(run, low)
           found == run[FinderSteps].comps
           c0 == CHOOSE c \in found : \A d \in found : Least(c) <= Least(d)
<1>1. ComponentFrom(low) = IF found = {} THEN {} ELSE c0
  BY DEF ComponentFrom, IsRun
<1>2. IsRun(run, low)
  BY RunExists
<1> HIDE DEF run
<1>3. LET s == run[FinderSteps] IN s \in FinderStates /\ FinderInv(s, low) /\ HasFound(s)
  BY <1>2, RunEnds
<1>4. FirstTree(Components(low), low) = found
  BY <1>3, FoundAtTheEnd
<1> HIDE DEF found
<1>5. NextComponents(low) = Lowest(found)
  BY <1>4 DEF NextComponents
<1>6. CASE found = {}
  BY <1>1, <1>5, <1>6 DEF Lowest
<1>7. CASE found # {}
  <2>1. found \in SUBSET Components(low)
    BY <1>4 DEF FirstTree
  <2>2. Lowest(found) = {c0}
    BY <1>7, <2>1, LowestIsOne
  <2> HIDE DEF c0
  <2>3. c0 \in found
    BY <2>2 DEF Lowest
  <2>4. c0 # {}
    BY <2>1, <2>3, ComponentFacts
  <2> QED
    BY <1>1, <1>5, <1>7, <2>2, <2>4
<1> QED
  BY <1>6, <1>7

(***************************************************************************)
(* On every graph and from every lower bound, TarjanComponentFinder, run   *)
(* to its end as in find_non_trivial_component_with_lowest_node_index_     *)
(* above, returns the component that CycleDetector goes on with: of the    *)
(* strongly connected components of more than one node in the first        *)
(* depth-first tree that holds any, the one with the lowest node; and none *)
(* when there is none.                                                     *)
(***************************************************************************)
THEOREM FinderIsRight == Spec => []FinderFindsComponents
<1>1. CycleInv => FinderFindsComponents
  <2> SUFFICES ASSUME CycleInv, NEW low \in 0..Size
               PROVE  NextComponents(low) = {ComponentFrom(low)} \ {{}}
    BY DEF FinderFindsComponents
  <2>1. adjacency \in Graphs /\ low \in Nat
    BY CycleAssumption DEF CycleInv, Types
  <2> QED
    BY <2>1, FinderReturnsTheLowest
<1> QED
  BY <1>1, CycleInvHolds, PTL
=============================================================================
