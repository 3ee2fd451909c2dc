---------------------------- MODULE MCDeltaWalk ----------------------------
(* Four paths, in an order that references follow, and 3-bit sizes.        *)
EXTENDS DeltaWalk

AllPaths == 1..4

(* Every acyclic graph in which all paths are reached from the first one,  *)
(* with and without a self-reference.                                      *)
Graph(edges) == [p \in AllPaths |-> {q \in AllPaths : <<p, q>> \in edges}]
Edges == {e \in AllPaths \X AllPaths : e[1] < e[2]} \union {<<2, 2>>}
Reaching == {edges \in SUBSET Edges :
                \A q \in 2..4 : \E e \in edges : e[1] < e[2] /\ e[2] = q}
AllGraphs == {Graph(edges) : edges \in Reaching}

(* Each with bits of its own, and three that fill a 3-bit sum together.    *)
SomeSizes == {<<1, 2, 4, 0>>, <<2, 3, 4, 6>>}
=============================================================================
