--------------------------- MODULE MigrationGraph ---------------------------
(***************************************************************************)
(* The graph operations of the migrators: directed graphs of feedstocks    *)
(* with an edge <<d, n>> when n depends on d (records as in the community  *)
(* module Graphs: `node` and `edge`).                                      *)
(***************************************************************************)
EXTENDS FiniteSets, FiniteSetsExt

CONSTANT Pinning   \* conda-forge-pinning, which is below all others

Predecessors(G, n) == {e[1] : e \in {f \in G.edge : f[2] = n}}
Successors(G, n)   == {e[2] : e \in {f \in G.edge : f[1] = n}}

\* Is there a path, of at least one edge, with all its inner nodes in S?
\* (nx.ancestors, nx.descendants and nx.simple_cycles are used through it.)
PathThrough(G, S) ==
  LET C[N \in SUBSET S] ==
        IF N = {} THEN G.edge
        ELSE LET u == CHOOSE u \in N : TRUE
                 D == C[N \ {u}]
             IN  D \cup {e \in G.node \X G.node : <<e[1], u>> \in D /\ <<u, e[2]>> \in D}
  IN  C[S]

Ancestors(G, n) == {d \in G.node : <<d, n>> \in PathThrough(G, G.node)} \ {n}

\* The nodes of the simple cycles of the graph.
CyclicNodes(G) == {n \in G.node : <<n, n>> \in PathThrough(G, G.node)}

RemoveNode(G, n) ==
  [node |-> G.node \ {n}, edge |-> {e \in G.edge : n \notin {e[1], e[2]}}]

\* utils.pluck: remove a node and fuse its edges.
Pluck(G, n) ==
  LET new == (Predecessors(G, n) \ {n}) \X (Successors(G, n) \ {n})
  IN  IF n \in G.node
      THEN [RemoveNode(G, n) EXCEPT !.edge = @ \cup new]
      ELSE G

PluckAll(G, S) == FoldSet(LAMBDA n, H : Pluck(H, n), G, S)

WithoutSelfLoops(G) == [G EXCEPT !.edge = {e \in @ : e[1] # e[2]}]
=============================================================================
