--------------------------- MODULE MigrationScope ---------------------------
(***************************************************************************)
(* Which feedstocks a MigrationYaml rebuilds and in which order they have  *)
(* to wait for each other: MigrationYaml.__init__ cuts the graph to the    *)
(* allowlist, trims its edges to those that matter for the migration, adds *)
(* the pinning feedstock below all others and plucks the feedstocks that   *)
(* are not in the migration, one by one.                                   *)
(*                                                                         *)
(* The inputs are chosen by Init; every behaviour is one construction.     *)
(***************************************************************************)
EXTENDS MigrationGraph

CONSTANTS
  AllFeedstocks, \* the feedstocks, without the pinning
  Pinned,        \* excluded_pinned_feedstocks: those of the migrated packages
  Sections,      \* the sections considered
  DepPairs,      \* the pairs <<n, d>> with n possibly depending on d
  MaySections,   \* [DepPairs -> SUBSET Sections]: where n may require d
  MayKinds,      \* [AllFeedstocks -> the kinds considered for each]
  Allowlists     \* the possible allowlists, {} for none

ASSUME ScopeAssumption ==
  /\ Pinning \notin AllFeedstocks /\ IsFiniteSet(AllFeedstocks)
  /\ Pinned \subseteq AllFeedstocks
  /\ DepPairs \subseteq AllFeedstocks \X AllFeedstocks
  /\ Sections \subseteq {"build", "host", "run", "test"}

VARIABLES
  section,     \* [DepPairs -> Sections \cup {"none"}]: where n requires d
  kind,        \* [AllFeedstocks -> the kind of each]
  options,     \* the keys of __migrator
  stage, graph, toPluck, inMigration,
  trimmed      \* history: the graph before the plucking

scopeVars == <<section, kind, options, stage, graph, toPluck, inMigration, trimmed>>

AllNodes == AllFeedstocks \cup {Pinning}

\* The requirements of a feedstock in one section.
Reqs(n, s) == {d \in AllFeedstocks : <<n, d>> \in DepPairs /\ section[<<n, d>>] = s}

\* `host | build` with include_build, otherwise `host or build`.
BuildHost(n) ==
  IF options.build THEN Reqs(n, "host") \cup Reqs(n, "build")
  ELSE IF Reqs(n, "host") # {} THEN Reqs(n, "host") ELSE Reqs(n, "build")

\* all_noarch: every output that the migration is about is noarch.
AllNoarch(n) == kind[n] = "noarch"

\* filter_not_in_migration of Migrator, GraphMigrator and MigrationYaml.
\* "bad" stands for an archived, bad or unparsable feedstock or a recipe format
\* that the migrator does not support.
FilterNotInYaml(n) ==
  /\ n # Pinning
  /\ \/ kind[n] = "bad"
     \/ BuildHost(n) \cap Pinned = {}
     \/ AllNoarch(n) /\ ~options.noarch
     \/ kind[n] = "other_platform" /\ options.platforms
     \/ kind[n] = "excluded"
     \/ n \in Pinned /\ options.excludePinned

-----------------------------------------------------------------------------
\* A dependency of a feedstock is an edge, whatever the section (make_graph).
AllEdges == {<<p[2], p[1]>> : p \in {q \in DepPairs : section[q] # "none"}}

Labels == {f \in [DepPairs -> Sections \cup {"none"}] :
             \A p \in DepPairs : f[p] \in MaySections[p] \cup {"none"}}
KindsOf == {f \in [AllFeedstocks -> UNION {MayKinds[n] : n \in AllFeedstocks}] :
              \A n \in AllFeedstocks : f[n] \in MayKinds[n]}

ScopeInit ==
  /\ section \in Labels /\ kind \in KindsOf
  /\ options \in [build : BOOLEAN, noarch : {FALSE}, platforms : {TRUE},
                  excludePinned : {TRUE}, allow : Allowlists]
  /\ graph = [node |-> AllNodes, edge |-> AllEdges]
  /\ stage = "cut"
  /\ toPluck = IF options.allow = {} THEN {}
               ELSE AllFeedstocks \ UNION {Ancestors(graph, t) \cup {t} : t \in options.allow}
  /\ inMigration = {} /\ trimmed = graph

Input == <<section, kind, options>>

\* Mutant of PluckOne: the node goes with its edges.
RemoveOne ==
  /\ stage \in {"cut", "pluck"} /\ toPluck # {}
  /\ \E n \in toPluck : graph' = RemoveNode(graph, n) /\ toPluck' = toPluck \ {n}
  /\ UNCHANGED <<Input, stage, inMigration, trimmed>>

\* The loops over the nodes of cut_graph_to_target_packages and over the set
\* nodes_to_pluck of _make_migrator_graph: the order is that of a set.
PluckOne ==
  /\ stage \in {"cut", "pluck"} /\ toPluck # {}
  /\ \E n \in toPluck : graph' = Pluck(graph, n) /\ toPluck' = toPluck \ {n}
  /\ UNCHANGED <<Input, stage, inMigration, trimmed>>

\* The edges that _trim_edges_for_abi_rebuild keeps: what the feedstock runs
\* with, and for one in the migration what it is built or tested with.
RelevantReqs(n) ==
  Reqs(n, "run") \cup
    IF FilterNotInYaml(n) THEN {} ELSE Reqs(n, "test") \cup BuildHost(n)

\* The end of the cut; the edges are trimmed and the pinning put below all.
Trim ==
  /\ stage = "cut" /\ toPluck = {}
  /\ LET cut == WithoutSelfLoops(graph)
         kept == {e \in cut.edge : e[2] = Pinning \/ e[1] \in RelevantReqs(e[2])}
     IN  /\ graph' = [cut EXCEPT !.edge = kept \cup (cut.node \X {Pinning})]
         /\ toPluck' = {n \in cut.node : FilterNotInYaml(n)}
  /\ stage' = "pluck"
  /\ trimmed' = graph'
  /\ inMigration' = graph'.node \ toPluck'
  /\ UNCHANGED Input

\* _make_migrator_graph ends with the removal of the self loops.
Finish ==
  /\ stage = "pluck" /\ toPluck = {}
  /\ graph' = WithoutSelfLoops(graph)
  /\ stage' = "done"
  /\ UNCHANGED <<Input, toPluck, inMigration, trimmed>>

ScopeNext == PluckOne \/ Trim \/ Finish
ScopeSpec == ScopeInit /\ [][ScopeNext]_scopeVars

-----------------------------------------------------------------------------
(* Properties *)

\* The order of plucking does not matter and nothing is lost or invented by it:
\* in the end one feedstock of the migration waits for another one exactly if a
\* chain of relevant dependencies through feedstocks outside of it leads there.
PluckingKeepsOrder ==
  stage = "done" =>
    /\ graph.node = inMigration
    /\ graph.edge = {e \in PathThrough(trimmed, trimmed.node \ inMigration) :
                       {e[1], e[2]} \subseteq inMigration /\ e[1] # e[2]}
=============================================================================
