-------------------------- MODULE MCCycleDetector --------------------------
(***************************************************************************)
(* Graphs for CycleDetector: the graphs over the nodes of at most, or of   *)
(* exactly, MaxEdges edges, without self-loops (slices and the library's   *)
(* own callers produce none), with ascending adjacency lists.              *)
(***************************************************************************)
EXTENDS TarjanComponents

CONSTANT MaxEdges

Edges == {<<n, k>> \in Nodes \X Nodes : n # k}

Ascending == [i \in 1..Size |-> i - 1]
Lists(edges) == [n \in Nodes |-> SelectSeq(Ascending, LAMBDA k : <<n, k>> \in edges)]

AllGraphs == {Lists(edges) : edges \in {e \in SUBSET Edges : Cardinality(e) <= MaxEdges}}

SparseGraphs == {Lists(edges) : edges \in kSubset(MaxEdges, Edges)}
=============================================================================
