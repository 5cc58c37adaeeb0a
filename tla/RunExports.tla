------------------------------- MODULE RunExports -------------------------------
(***************************************************************************)
(* What a feedstock requires.  bot-update-nodes and push events read it    *)
(* from its recipe and add the feedstocks with strong run exports that are *)
(* among its dependencies, which they know from the graph; bot-make-graph  *)
(* makes the graph from what is in the nodes.                              *)
(***************************************************************************)
EXTENDS FiniteSets, Integers

CONSTANTS
  Feedstocks,
  Packages,   \* names in requirements: outputs, feedstocks, compiler stubs
  Stubs,      \* COMPILER_STUBS_WITH_STRONG_EXPORTS
  Recipes,    \* of a feedstock: the contents its recipe may have
  First,      \* the contents it has at first
  MaxEdits    \* bound: changes of recipes

Sections == {"build", "host", "run", "test"}

Assumptions ==
  /\ Feedstocks \subseteq Packages /\ Stubs \subseteq Packages \ Feedstocks
  /\ First \in [Feedstocks -> UNION {Recipes[f] : f \in Feedstocks}]
  /\ \A f \in Feedstocks : First[f] \in Recipes[f]
  /\ \A f \in Feedstocks : \A r \in Recipes[f] : \A b \in r.blocks :
       b.reqs \in [Sections -> SUBSET Packages]
  /\ MaxEdits \in Nat

VARIABLES
  recipe,  \* the blocks of the recipe, and its outputs
  node,    \* node_attrs/<name>.json
  graph,   \* graph.json
  update,  \* a feedstock in bot-update-nodes: its clone of the graph, and its node
  make,    \* bot-make-graph: its clone of the nodes
  edits

vars == <<recipe, node, graph, update, make, edits>>

Nothing == [s \in Sections |-> {}]
All(reqs) == UNION {reqs[s] : s \in Sections}
Idle == [at |-> "idle"]

-----------------------------------------------------------------------------
(* _extract_requirements: a block is the recipe itself or an output, its requirements   *)
(* a list or sections.                                                                  *)

Sectioned(r) == {b \in r.blocks : ~b.list}

Extract(r) ==
  [s \in Sections |->
     (UNION {b.reqs[s] : b \in Sectioned(r)})
       \cup (IF s = "run" THEN UNION {b.reqs.run : b \in r.blocks \ Sectioned(r)} ELSE {})]

StrongExports(r) == \E b \in Sectioned(r) : b.strong

Populated(r) ==
  [requirements |-> Extract(r), strong |-> StrongExports(r), outputs |-> r.outputs]

NoNode == [requirements |-> Nothing, strong |-> FALSE, outputs |-> {}]

-----------------------------------------------------------------------------
(* The graph *)

\* make_outputs_lut_from_graph
OutputsLut(nodes) == [p \in Packages |-> {f \in Feedstocks : p \in nodes[f].outputs}]

\* get_deps_from_outputs_lut
Launder(lut, names) == UNION {IF lut[p] = {} THEN {p} ELSE lut[p] : p \in names}

\* _get_all_deps_for_node
Deps(a, lut) == Launder(lut, All(a.requirements))

Strong(nodes) == {f \in Feedstocks : nodes[f].strong} \cup Stubs

Edges ==
  UNION {Deps(make.nodes[f], OutputsLut(make.nodes)) \X {f} : f \in Feedstocks}

InHostAndRun(reqs, names) == [reqs EXCEPT !.host = @ \cup names, !.run = @ \cup names]

\* Mutant of AddRunExports: names of packages are compared with names of feedstocks.
AddWithoutLut(a, g) ==
  LET overlap == All(a.requirements) \cap g.strong
  IN  [a EXCEPT !.requirements = InHostAndRun(@, overlap)]

\* _add_run_exports_per_node
AddRunExports(a, g) ==
  LET overlap == Deps(a, g.lut) \cap g.strong
  IN  [a EXCEPT !.requirements = InHostAndRun(@, overlap)]

-----------------------------------------------------------------------------
Init ==
  /\ recipe = First
  /\ node = [f \in Feedstocks |-> NoNode]
  /\ graph = [nodes |-> {}, lut |-> [p \in Packages |-> {}], strong |-> Stubs, edges |-> {}]
  /\ update = [f \in Feedstocks |-> Idle] /\ make = Idle /\ edits = 0

Edit(f) ==
  /\ edits < MaxEdits /\ edits' = edits + 1
  /\ \E r \in Recipes[f] : recipe' = [recipe EXCEPT ![f] = r]
  /\ UNCHANGED <<node, graph, update, make>>

StartUpdate(f) ==
  /\ update[f].at = "idle"
  /\ update' = [update EXCEPT ![f] = [at |-> "cloned", graph |-> graph, node |-> node[f]]]
  /\ UNCHANGED <<recipe, node, graph, make, edits>>

\* Run exports are added to nodes of the graph, loaded or not.
Updated(f, a) ==
  /\ update[f].at = "cloned"
  /\ update' = [update EXCEPT ![f] =
       [at |-> "loaded",
        node |-> IF f \in update[f].graph.nodes THEN AddRunExports(a, update[f].graph) ELSE a]]
  /\ UNCHANGED <<recipe, node, graph, make, edits>>

\* try_load_feedstock
UpdateNode(f) == Updated(f, Populated(recipe[f]))

\* Only a share of the feedstocks is loaded, and what cannot be rendered leaves what was
\* there.
SkipNode(f) == Updated(f, update[f].node)

DeployNode(f) ==
  /\ update[f].at = "loaded"
  /\ node' = [node EXCEPT ![f] = update[f].node]
  /\ update' = [update EXCEPT ![f] = Idle]
  /\ UNCHANGED <<recipe, graph, make, edits>>

\* _react_to_push, on the files that are in the repository
React(f) ==
  /\ \E loaded \in {Populated(recipe[f]), node[f]} :
       node' = [node EXCEPT ![f] = AddRunExports(loaded, graph)]
  /\ UNCHANGED <<recipe, graph, update, make, edits>>

StartGraph ==
  /\ make.at = "idle" /\ make' = [at |-> "cloned", nodes |-> node]
  /\ UNCHANGED <<recipe, node, graph, update, edits>>

\* _add_graph_metadata, _create_edges
MakeGraph ==
  /\ make.at = "cloned" /\ make' = Idle
  /\ graph' = [nodes |-> Feedstocks, lut |-> OutputsLut(make.nodes),
               strong |-> Strong(make.nodes),
               edges |-> Edges]
  /\ UNCHANGED <<recipe, node, update, edits>>

Next ==
  \/ StartGraph \/ MakeGraph
  \/ \E f \in Feedstocks : \/ Edit(f) \/ StartUpdate(f) \/ UpdateNode(f) \/ SkipNode(f)
                           \/ DeployNode(f) \/ React(f)

\* The jobs are on a schedule, and some time render each feedstock.  Nothing is assumed of
\* the events.
Fairness ==
  /\ WF_vars(StartGraph \/ MakeGraph)
  /\ \A f \in Feedstocks :
       WF_vars(StartUpdate(f) \/ DeployNode(f)) /\ SF_vars(UpdateNode(f))

Spec == Init /\ [][Next]_vars /\ Fairness

-----------------------------------------------------------------------------

\* The feedstocks a package is an output of today, or the name itself.
Makers(p) ==
  LET made == {g \in Feedstocks : p \in recipe[g].outputs} IN IF made = {} THEN {p} ELSE made

Exporters == {g \in Feedstocks : StrongExports(recipe[g])} \cup Stubs

Wanted(f) ==
  LET exports == (UNION {Makers(p) : p \in All(Extract(recipe[f]))}) \cap Exporters
  IN  InHostAndRun(Extract(recipe[f]), exports)

Arrived ==
  /\ \A f \in Feedstocks : node[f].requirements = Wanted(f)
  /\ graph.edges = UNION {UNION {Makers(p) \X {f} : p \in All(Wanted(f))} : f \in Feedstocks}

\* The nodes come to hold what the recipes say and the run exports of today, none that was
\* exported before, and the graph the edges from the feedstocks that make them now,
\* whatever was loaded, failed or was pushed in between, and from which graph.
ExportsArrive == <>[]Arrived
=============================================================================
