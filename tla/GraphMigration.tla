--------------------------- MODULE GraphMigration ---------------------------
(***************************************************************************)
(* One migration on the graph over many runs of the bot: make-migrators    *)
(* builds and dumps the migrator with its two graphs, auto-tick loads it   *)
(* and opens the pull requests of the feedstocks whose predecessors are    *)
(* done, people close them on GitHub, update-prs records it, and meanwhile *)
(* feedstocks are archived, break, and have their pull request rerun.      *)
(*                                                                         *)
(* What one run does on one feedstock is in AutoTick; here it opens the    *)
(* pull request and records it, or does neither.                           *)
(***************************************************************************)
EXTENDS MigrationGraph, Integers

CONSTANTS
  Feedstocks,     \* the feedstocks of the migration, without the pinning
  Depends,        \* the trimmed edges among the feedstocks
  IgnoredDeps,    \* ignored_deps_per_node: [Feedstocks -> SUBSET Feedstocks]
  WaitsFor,       \* wait_for_migrators names another migration
  MaxReruns,      \* bound: pull requests rerun
  MaxTroubles     \* bound: feedstocks archived, broken or repaired, entries lost

ASSUME GraphAssumption ==
  /\ IsFiniteSet(Feedstocks)
  /\ Pinning \notin Feedstocks
  /\ Depends \subseteq Feedstocks \X Feedstocks
  /\ IgnoredDeps \in [Feedstocks -> SUBSET Feedstocks]
  /\ WaitsFor \in BOOLEAN
  /\ MaxReruns \in Nat /\ MaxTroubles \in Nat

Nodes == Feedstocks \cup {Pinning}
Total == [node |-> Nodes, edge |-> Depends \cup (Nodes \X {Pinning})]

VARIABLES
  record,     \* [Nodes -> EntryState]: the PRed entry in the graph repository
  health,     \* [Nodes -> {"ok", "bad", "archived"}] in the graph repository
  github,     \* [Nodes -> {"none", "open", "closed"}]: the last pull request
  other,      \* [Nodes -> {"none", "open", "closed"}]: the migration waited for
  dumped,     \* the migrator object: its graph, effective graph and cycles
  phase, seen, seenHealth,   \* the job and its clone
  todo,       \* effective nodes the pass has not visited yet
  reruns, troubles

vars == <<record, health, github, other, dumped, phase, seen, seenHealth, todo,
          reruns, troubles>>

\* "lost": an entry without its PR, assumed to be open.
EntryState == {"none", "lost", "open", "closed"}

-----------------------------------------------------------------------------
(* The filters; `mig` is the migrator, `rec` and `hea` what the clone says. *)

\* Mutant of ActivePredecessors: the ignored dependencies are not ignored.
AllActivePredecessors(mig, hea, n) ==
  {d \in Predecessors(mig.graph, n) : hea[d] # "archived"}

\* _gen_active_feedstocks_payloads and ignored_deps_per_node.
ActivePredecessors(mig, hea, n) ==
  {d \in Predecessors(mig.graph, n) :
     /\ hea[d] # "archived"
     /\ ~(n \in Feedstocks /\ d \in IgnoredDeps[n])}

AllPredecessorsIssued(mig, rec, hea, n) ==
  \A d \in ActivePredecessors(mig, hea, n) : rec[d] # "none"

\* Mutant of PredecessorsNotYetBuilt: an entry without its PR counts as closed.
PredecessorsOpenOrMissing(mig, rec, hea, n) ==
  \E d \in ActivePredecessors(mig, hea, n) : rec[d] \in {"none", "open"}

PredecessorsNotYetBuilt(mig, rec, hea, n) ==
  \E d \in ActivePredecessors(mig, hea, n) : rec[d] # "closed"

\* Everything that is neither archived nor bad is in the migration; which
\* feedstocks these are is worked out in MigrationScope.
FilterNotInMigration(hea, n) == hea[n] # "ok"

IsReady(mig, rec, hea, n) ==
  \/ n \in mig.topLevel \cup mig.cycles
  \/ n = Pinning /\ AllPredecessorsIssued(mig, rec, hea, n)
  \/ n # Pinning /\ ~PredecessorsNotYetBuilt(mig, rec, hea, n)

\* An entry of the other migration is needed, and a closed one.
NeedToWait(n) == WaitsFor /\ other[n] # "closed"

FilterNodeMigrated(mig, rec, hea, n) ==
  NeedToWait(n) \/ ~IsReady(mig, rec, hea, n) \/ rec[n] # "none"

-----------------------------------------------------------------------------
(* The migrator object *)

\* _make_migrator_graph(total_graph, effective=False)
BuiltGraph(hea) ==
  WithoutSelfLoops(PluckAll(Total, {n \in Nodes : FilterNotInMigration(hea, n)}))

\* GraphMigrator.__init__ is called by MigrationYaml.__init__ without `cycles`
\* and sets them to the empty set. Where total_graph is given they are computed
\* again, but only after the effective graph; where the object is made from its
\* dumped form (and `graph`), they stay empty although `cycles` was dumped.
LoadedCycles(computed) == {}

\* The set over which top_level is computed has the iterators of the successors
\* for elements, not the successors: none of them is a node of the graph.
LoadedTopLevel == {}

\* The object as auto-tick loads it.
Migrator(rec, hea) ==
  LET G == BuiltGraph(hea)
      M == [graph |-> G, cycles |-> LoadedCycles(CyclicNodes(G)),
             topLevel |-> LoadedTopLevel, effective |-> {}]
  IN  [M EXCEPT !.effective =
         {n \in G.node : ~FilterNotInMigration(hea, n) /\ ~FilterNodeMigrated(M, rec, hea, n)}]

Init ==
  /\ record = [n \in Nodes |-> "none"] /\ github = record
  /\ health = [n \in Nodes |-> "ok"]
  /\ other = record
  /\ dumped = Migrator(record, health)
  /\ phase = "idle" /\ seen = record /\ seenHealth = health /\ todo = {}
  /\ reruns = 0 /\ troubles = 0

World == <<record, health, github, other, reruns, troubles>>

\* The make-migrators job; its clone is as old as its duration.
MakeMigrators ==
  /\ phase = "idle"
  /\ dumped' = Migrator(record, health)
  /\ UNCHANGED <<World, phase, seen, seenHealth, todo>>

-----------------------------------------------------------------------------
(* The auto-tick job *)

StartPass ==
  /\ phase = "idle"
  /\ phase' = "pass"
  /\ seen' = record /\ seenHealth' = health
  /\ todo' = dumped.effective
  /\ UNCHANGED <<World, dumped>>

\* migrator.filter, with the records of the clone.
Skipped(n) ==
  FilterNotInMigration(seenHealth, n) \/ FilterNodeMigrated(dumped, seen, seenHealth, n)

Skip ==
  /\ phase = "pass"
  /\ \E n \in todo : Skipped(n) /\ todo' = todo \ {n}
  /\ UNCHANGED <<World, dumped, phase, seen, seenHealth>>

\* The migration opens a pull request, records it in the clone and syncs it.
Issue(n) ==
  /\ phase = "pass" /\ n \in todo
  /\ ~Skipped(n)
  /\ todo' = todo \ {n}
  /\ seen' = [seen EXCEPT ![n] = "open"]
  /\ record' = [record EXCEPT ![n] = "open"]
  /\ github' = [github EXCEPT ![n] = "open"]
  /\ UNCHANGED <<health, other, dumped, phase, seenHealth, reruns, troubles>>

\* pr_limit or the time is used up, or nothing is left to do.
EndPass ==
  /\ phase = "pass"
  /\ phase' = "idle" /\ todo' = {}
  /\ UNCHANGED <<World, dumped, seen, seenHealth>>

-----------------------------------------------------------------------------
(* The world outside of the pass *)

Outside == <<dumped, phase, seen, seenHealth, todo>>

\* Merged or closed by a maintainer.
CloseOnGithub(n) ==
  /\ github[n] = "open"
  /\ github' = [github EXCEPT ![n] = "closed"]
  /\ UNCHANGED <<Outside, record, health, other, reruns, troubles>>

\* update-prs or an event of GitHub puts the state into pr_json.
Refresh(n) ==
  /\ record[n] = "open" /\ github[n] = "closed"
  /\ record' = [record EXCEPT ![n] = "closed"]
  /\ UNCHANGED <<Outside, health, github, other, reruns, troubles>>

OtherMigration(n) ==
  /\ WaitsFor /\ other[n] # "closed"
  /\ other' = [other EXCEPT ![n] = IF @ = "none" THEN "open" ELSE "closed"]
  /\ UNCHANGED <<Outside, record, health, github, reruns, troubles>>

\* The label bot-rerun: the pull request is closed and, by the time stamp in its
\* data, its entry is no longer the entry of this migration.
Rerun(n) ==
  /\ record[n] \in {"open", "closed"} /\ reruns < MaxReruns
  /\ phase = "idle"     \* prep runs in the same job, before the pass
  /\ record' = [record EXCEPT ![n] = "none"]
  /\ github' = [github EXCEPT ![n] = "closed"]
  /\ reruns' = reruns + 1
  /\ UNCHANGED <<Outside, health, other, troubles>>

Trouble == troubles < MaxTroubles /\ troubles' = troubles + 1

Archive(n) ==
  /\ Trouble /\ n # Pinning /\ health[n] # "archived"
  /\ health' = [health EXCEPT ![n] = "archived"]
  /\ UNCHANGED <<Outside, record, github, other, reruns>>

\* A migration that raises or a recipe that no longer parses; the next prep or
\* make-graph clears it.
Break(n) ==
  /\ Trouble /\ n # Pinning /\ health[n] = "ok"
  /\ health' = [health EXCEPT ![n] = "bad"]
  /\ UNCHANGED <<Outside, record, github, other, reruns>>

Repair(n) ==
  /\ health[n] = "bad"
  /\ health' = [health EXCEPT ![n] = "ok"]
  /\ UNCHANGED <<Outside, record, github, other, reruns, troubles>>

\* "some PRed_json loss due to bad graph deploy outage"
LoseEntry(n) ==
  /\ Trouble /\ record[n] \in {"open", "closed"} /\ phase = "idle"
  /\ record' = [record EXCEPT ![n] = "lost"]
  /\ UNCHANGED <<Outside, health, github, other, reruns>>

Bot == MakeMigrators \/ StartPass \/ Skip \/ (\E n \in Nodes : Issue(n)) \/ EndPass

People(n) ==
  CloseOnGithub(n) \/ Refresh(n) \/ OtherMigration(n) \/ Rerun(n) \/ Archive(n)
  \/ Break(n) \/ Repair(n) \/ LoseEntry(n)

Next == Bot \/ \E n \in Nodes : People(n)
Spec == Init /\ [][Next]_vars

-----------------------------------------------------------------------------
(* Properties *)

TypeOK ==
  /\ record \in [Nodes -> EntryState] /\ seen \in [Nodes -> EntryState]
  /\ health \in [Nodes -> {"ok", "bad", "archived"}]
  /\ seenHealth \in [Nodes -> {"ok", "bad", "archived"}]
  /\ github \in [Nodes -> {"none", "open", "closed"}]
  /\ other \in [Nodes -> {"none", "open", "closed"}]
  /\ dumped.graph.node \subseteq Nodes
  /\ dumped.graph.edge \subseteq dumped.graph.node \X dumped.graph.node
  /\ dumped.cycles \cup dumped.topLevel \subseteq Nodes
  /\ dumped.effective \subseteq dumped.graph.node
  /\ phase \in {"idle", "pass"} /\ todo \subseteq dumped.graph.node
  /\ reruns \in 0..MaxReruns /\ troubles \in 0..MaxTroubles

\* A pull request is opened only when those of all feedstocks that it has to
\* wait for, in the graph the migrator has, are closed on GitHub at that moment:
\* neither the age of the clone and of the dumped graph, nor reruns, lost
\* entries or other passes can break the order.
OpensInOrder(n) ==
  github[n] # "open" /\ github'[n] = "open" =>
    \A d \in Nodes \cap Predecessors(dumped.graph, n) :
      \/ github[d] = "closed" \/ seenHealth[d] = "archived" \/ d \in IgnoredDeps[n]
OrderRespected == [][\A n \in Feedstocks : OpensInOrder(n)]_vars

\* An entry without its PR that stops its successors for good, as intended: "if
\* the bot is missing the PR we assume it is open so that errors halt the
\* migration and can be fixed".
Halted == \E n \in Nodes : record[n] = "lost"
=============================================================================
