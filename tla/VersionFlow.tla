----------------------------- MODULE VersionFlow -----------------------------
(***************************************************************************)
(* A version of one feedstock on its way from upstream to a pull request:  *)
(* bot-versions writes versions/<node>.json, prep merges it with the       *)
(* version of the recipe into version_pr_info.new_version, the Version     *)
(* migrator filters it and opens a pull request, which maintainers merge   *)
(* or close; make-graph and update-prs tell the graph of it, later.        *)
(***************************************************************************)
EXTENDS Integers, FiniteSets, FiniteSetsExt

CONSTANTS
  MaxVersion,    \* bound: versions are 1..MaxVersion, in their order
  MaxNumPRs,     \* Version.max_num_prs
  Withdrawals,   \* bound: releases that are withdrawn or excluded
  Pushes,        \* bound: versions that the maintainers push themselves
  SkipSets       \* random_fraction_to_keep: which versions the seed skips

Versions == 1..MaxVersion
None == 0
Bad == -1

ASSUME FlowAssumption ==
  /\ MaxVersion \in Nat \ {0} /\ {MaxNumPRs, Withdrawals, Pushes} \subseteq Nat
  /\ SkipSets \subseteq SUBSET Versions

VARIABLES
  released,   \* the versions that upstream offers
  recipe,     \* the version on the main branch of the feedstock
  excluded,   \* version_updates.exclude, even_odd_versions
  skipped,    \* the versions that the random fraction skips
  data,       \* versions/<node>.json
  attrs,      \* node_attrs: version
  new,        \* version_pr_info: new_version
  prs,        \* [Versions -> state of the bot's pull request on GitHub]
  seen,       \* the same in pr_info (PRed and its pr_json objects)
  withdrawals, pushes

vars == <<released, recipe, excluded, skipped, data, attrs, new, prs, seen, withdrawals, pushes>>
graph == <<data, attrs, new, seen>>
world == <<released, recipe, excluded, prs, withdrawals, pushes>>

PRState == {"none", "open", "closed"}
Largest(S) == Max(S \cup {None})

Init ==
  /\ released = {1} /\ recipe = 1 /\ excluded = {} /\ skipped \in SkipSets
  /\ data = None /\ attrs = 1 /\ new = None
  /\ prs = [v \in Versions |-> "none"] /\ seen = prs
  /\ withdrawals = 0 /\ pushes = 0

-----------------------------------------------------------------------------
(* Upstream and the maintainers *)

Release(v) ==
  /\ v \notin released /\ \A u \in released : u < v
  /\ released' = released \cup {v}
  /\ UNCHANGED <<recipe, excluded, skipped, graph, prs, withdrawals, pushes>>

Withdraw(v) ==
  /\ v \in released /\ v > 1 /\ withdrawals < Withdrawals /\ withdrawals' = withdrawals + 1
  /\ \/ released' = released \ {v} /\ UNCHANGED excluded
     \/ excluded' = excluded \cup {v} /\ UNCHANGED released
  /\ UNCHANGED <<recipe, skipped, graph, prs, pushes>>

Push(v) ==
  /\ v \in released /\ v > recipe /\ pushes < Pushes /\ pushes' = pushes + 1
  /\ recipe' = v
  /\ UNCHANGED <<released, excluded, skipped, graph, prs, withdrawals>>

Merge(v) ==
  /\ prs[v] = "open"
  /\ prs' = [prs EXCEPT ![v] = "closed"] /\ recipe' = v
  /\ UNCHANGED <<released, excluded, skipped, graph, withdrawals, pushes>>

Close(v) ==
  /\ prs[v] = "open"
  /\ prs' = [prs EXCEPT ![v] = "closed"]
  /\ UNCHANGED <<released, recipe, excluded, skipped, graph, withdrawals, pushes>>

-----------------------------------------------------------------------------
(* The jobs *)

IsIgnored(v) == v \in excluded

\* A source that asks for the latest release (PyPI, npm, GithubReleases...) finds
\* nothing when that is ignored; one that reads a list (VersionFromFeed, GitTags)
\* drops what is ignored before it takes the maximum.
Latest == LET v == Largest(released) IN IF IsIgnored(v) THEN None ELSE v
LargestOfList == Largest({v \in released : ~IsIgnored(v)})

\* Mutant of Fetch: any entry of the list.
FetchAnyEntry ==
  /\ data' \in {v \in released : ~IsIgnored(v)} \cup {None, Bad}
  /\ UNCHANGED <<world, skipped, attrs, new, seen>>

\* get_latest_version, and the error.
Fetch ==
  /\ data' \in {Latest, LargestOfList, Bad}
  /\ UNCHANGED <<world, skipped, attrs, new, seen>>

\* make-graph
UpdateNode ==
  /\ attrs' = recipe
  /\ UNCHANGED <<world, skipped, data, new, seen>>

UpdatePRs ==
  /\ seen' = prs
  /\ UNCHANGED <<world, skipped, data, attrs, new>>

\* Mutant of NewVersion: it never goes back.
NewVersionGrows == Largest({data, attrs, new})

\* _update_nodes_with_new_versions: a recipe whose version is ignored gives way.
NewVersion ==
  IF data \notin Versions THEN new
  ELSE Largest({data} \cup IF IsIgnored(attrs) THEN {} ELSE {attrs})

Prep ==
  /\ new' = NewVersion
  /\ UNCHANGED <<world, skipped, data, attrs, seen>>

OpenVersionPRs == {v \in Versions : seen[v] = "open"}

\* Mutant of IsFiltered: the versions are not compared.
IsFilteredWithoutOrder(v) ==
  \/ v \notin Versions \/ Cardinality(OpenVersionPRs) > MaxNumPRs
  \/ v \in skipped \/ IsIgnored(v) \/ seen[v] # "none"

\* Version.filter_not_in_migration and Migrator.filter_node_migrated. (The
\* comparison with the versions that have a pull request reads them where they
\* are not, and compares with 0.0.0.)
IsFiltered(v) ==
  \/ v \notin Versions
  \/ Cardinality(OpenVersionPRs) > MaxNumPRs
  \/ v <= attrs
  \/ v \in skipped
  \/ IsIgnored(v)
  \/ seen[v] # "none"

\* Version.migrate, the pull request and its record.
Migrate ==
  /\ ~IsFiltered(new)
  /\ prs' = [prs EXCEPT ![new] = "open"]
  /\ seen' = [seen EXCEPT ![new] = "open"]
  /\ UNCHANGED <<released, recipe, excluded, skipped, data, attrs, new, withdrawals, pushes>>

Next ==
  \/ \E v \in Versions : Release(v) \/ Withdraw(v) \/ Push(v) \/ Merge(v) \/ Close(v)
  \/ Fetch \/ UpdateNode \/ UpdatePRs \/ Prep \/ Migrate

Spec == Init /\ [][Next]_vars

-----------------------------------------------------------------------------
TypeOK ==
  /\ released \subseteq Versions /\ excluded \subseteq Versions /\ skipped \in SkipSets
  /\ recipe \in Versions /\ attrs \in Versions
  /\ data \in Bad..MaxVersion /\ new \in None..MaxVersion
  /\ prs \in [Versions -> PRState] /\ seen \in [Versions -> PRState]

Opened(v) == prs[v] = "none" /\ prs'[v] = "open"

\* Every pull request is an upgrade of the recipe as it is on GitHub, however old
\* the data are that it is made from, as long as upstream withdraws nothing and
\* only pull requests of the bot change the version.
UpgradesOnly ==
  [][withdrawals = 0 /\ pushes = 0 => \A v \in Versions : Opened(v) => v > recipe]_vars

\* Also with both, the recipe that the graph knows is never downgraded, and what is
\* excluded is not proposed, although a recipe that is excluded itself lets
\* new_version go back.
NoKnownDowngrade ==
  [][\A v \in Versions : Opened(v) => v > attrs /\ v \notin excluded]_vars

\* "if PRed version is greater than newest version" there is no pull request.
PRsAscend ==
  [][\A u, v \in Versions : Opened(v) /\ seen[u] # "none" => u < v]_vars

\* The last word of upstream is proposed, unless it is skipped, is what the recipe
\* has, older than it, or too many are open.
NewestIsProposed ==
  \A v \in Versions :
    [](Latest = v => <>(\/ prs[v] # "none" \/ Latest # v \/ v \in skipped
                       \/ v <= recipe \/ Cardinality(OpenVersionPRs) > MaxNumPRs))
=============================================================================
