----------------------------- MODULE VersionJobs -----------------------------
(***************************************************************************)
(* One of the six jobs of the bot-versions workflow, run after run: it     *)
(* clones the graph repository, asks for the upstream versions of its      *)
(* feedstocks in a pool, writes the answers in the order in which they     *)
(* come, deploys after every batch of changes and at the end.              *)
(***************************************************************************)
EXTENDS Integers, FiniteSets

CONSTANTS
  Nodes,        \* the feedstocks of this job (filter_nodes_for_job)
  BatchSize,    \* batch_size_update_upstream_versions_deploy
  MaxReleases,   \* bound: upstream releases of a feedstock
  MaxFailures,  \* bound: deploys that fail
  MaxCrashes    \* bound: jobs that are lost

ASSUME JobsAssumption ==
  /\ IsFiniteSet(Nodes) /\ BatchSize \in Nat \ {0}
  /\ MaxReleases \in Nat \ {0} /\ {MaxFailures, MaxCrashes} \subseteq Nat

VARIABLES
  upstream,   \* [Nodes -> the version that can be found]
  repo,       \* [Nodes -> Answer]: versions/<node>.json in the graph repository
  disk,       \* the same in the clone of the job
  pc,         \* "clone", "collect", "batch" (a deploy is due), "end"
  left,       \* the futures that have not been collected
  nChanged, failed,
  failures, crashes

jobsVars == <<upstream, repo, disk, pc, left, nChanged, failed, failures, crashes>>

\* new_version, None, or the error (`bad`).
Missing == 0
Raised == -1
Answer == Raised..MaxReleases

JobsInit ==
  /\ upstream = [n \in Nodes |-> 1]
  /\ repo = [n \in Nodes |-> Missing] /\ disk = repo
  /\ pc = "clone" /\ left = {} /\ nChanged = 0 /\ failed = FALSE
  /\ failures = 0 /\ crashes = 0

NewRelease(n) ==
  /\ upstream[n] < MaxReleases
  /\ upstream' = [upstream EXCEPT ![n] = @ + 1]
  /\ UNCHANGED <<repo, disk, pc, left, nChanged, failed, failures, crashes>>

\* The nodes that are included and that RNG.random() <= frac selects.
Clone ==
  /\ pc = "clone"
  /\ \E S \in SUBSET Nodes : left' = S
  /\ pc' = "collect" /\ disk' = repo /\ nChanged' = 0 /\ failed' = FALSE
  /\ UNCHANGED <<upstream, repo, failures, crashes>>

\* A source finds the version, finds none, or raises.
Answers(n) == {upstream[n], Missing, Raised}

Changed(old, new) == old # new

\* as_completed, `with lazyjson as version_attrs`, and the comparison of n_changed
\* with the size of a batch, which a failed deploy leaves behind.
Collect(n) ==
  /\ pc = "collect" /\ n \in left
  /\ left' = left \ {n}
  /\ \E a \in Answers(n) :
       /\ disk' = [disk EXCEPT ![n] = a]
       /\ nChanged' = nChanged + IF Changed(disk[n], a) THEN 1 ELSE 0
  /\ pc' = IF nChanged' = BatchSize THEN "batch" ELSE "collect"
  /\ UNCHANGED <<upstream, repo, failed, failures, crashes>>

Finish ==
  /\ pc = "collect" /\ left = {}
  /\ pc' = IF nChanged > 0 THEN "end" ELSE "clone"
  /\ UNCHANGED <<upstream, repo, disk, left, nChanged, failed, failures, crashes>>

AfterDeploy == pc' = IF pc = "batch" THEN "collect" ELSE "clone"

\* deploy(dirs_to_deploy=["versions"], no_pull=True)
DeploySucceeds ==
  /\ pc \in {"batch", "end"} /\ AfterDeploy
  /\ repo' = disk /\ nChanged' = 0
  /\ UNCHANGED <<upstream, disk, left, failed, failures, crashes>>

\* Mutant of DeployFails: the changes are forgotten.
DeployFailsResets ==
  /\ pc \in {"batch", "end"} /\ AfterDeploy
  /\ failures < MaxFailures /\ failures' = failures + 1
  /\ failed' = TRUE /\ nChanged' = 0
  /\ \E S \in SUBSET Nodes : repo' = [n \in Nodes |-> IF n \in S THEN disk[n] ELSE repo[n]]
  /\ UNCHANGED <<upstream, disk, left, crashes>>

\* Some of the files may have got there by the API. The exception is passed over.
DeployFails ==
  /\ pc \in {"batch", "end"} /\ AfterDeploy
  /\ failures < MaxFailures /\ failures' = failures + 1
  /\ failed' = TRUE
  /\ \E S \in SUBSET Nodes : repo' = [n \in Nodes |-> IF n \in S THEN disk[n] ELSE repo[n]]
  /\ UNCHANGED <<upstream, disk, left, nChanged, crashes>>

\* The runner is lost, or an answer that cannot be logged ends the job.
Crash ==
  /\ pc # "clone" /\ crashes < MaxCrashes /\ crashes' = crashes + 1
  /\ pc' = "clone" /\ left' = {}
  /\ UNCHANGED <<upstream, repo, disk, nChanged, failed, failures>>

JobsNext ==
  \/ \E n \in Nodes : NewRelease(n) \/ Collect(n)
  \/ Clone \/ Finish \/ DeploySucceeds \/ DeployFails \/ Crash

JobsSpec == JobsInit /\ [][JobsNext]_jobsVars

-----------------------------------------------------------------------------
Undeployed == {n \in Nodes : disk[n] # repo[n]}

\* What a job that is lost takes with it: less than a batch, as long as no deploy
\* has failed (after a failure n_changed has passed the size of a batch, and
\* nothing is sent before the end).
LossIsBounded ==
  pc # "clone" /\ ~failed => Cardinality(Undeployed) <= BatchSize - (IF pc = "collect" THEN 1 ELSE 0)

\* n_changed counts at least what is not in the graph repository: a job that ends
\* without a last deploy has nothing to send, also after failed deploys that have
\* sent some of the files.
NothingForgotten ==
  /\ pc # "clone" => Cardinality(Undeployed) <= nChanged
  /\ pc = "clone" /\ ~failed /\ crashes = 0 => Undeployed = {}
=============================================================================
