------------------------------ MODULE AutoTick ------------------------------
(***************************************************************************)
(* One migrator of the bot-bot job, any of Migrators: the pass of          *)
(* auto_tick.py over the feedstocks (_run_migrator, _run_migrator_on_feedstock_branch, run), the *)
(* attempt counters it keeps, the pull requests it opens on GitHub and the *)
(* order in which it makes them durable in the graph repository (pr_json   *)
(* first, then pr_info, the rest by the deploy at the end of the job).     *)
(*                                                                         *)
(* `local` is the clone the job works on, `remote` the graph repository.   *)
(* For each feedstock they hold pr_info (and version_pr_info, its attempt  *)
(* counters) and the two keys of node_attrs that the pass changes.         *)
(***************************************************************************)
EXTENDS Integers, Sequences, FiniteSets

CONSTANTS
  Nodes,          \* the feedstocks of the migrator's effective graph
  Branches,       \* the base branches any of them has
  MainBranch,     \* "main" or "master" of a feedstock
  PrLimit,        \* migrator.pr_limit
  AttemptFactor,  \* PR_ATTEMPT_LIMIT_FACTOR
  Migrators,      \* the migrators the job may be run with
  MaxFaults,      \* bound: outcomes other than success in a behaviour
  NoBranch, NoNode

ASSUME LimitsAssumption ==
  /\ PrLimit \in Nat \ {0}
  /\ AttemptFactor \in Nat \ {0}
  /\ MaxFaults \in Nat
ASSUME BranchAssumption ==
  /\ MainBranch \in Branches
  /\ NoBranch \notin Branches
  /\ NoNode \notin Nodes

\* What the pass reads of a migrator, and of the feedstocks on its behalf.
Migrator == [isVersion    : BOOLEAN,   \* it is a Version migrator
             solverChecks : BOOLEAN,   \* it or the feedstocks ask for solver checks
             canSpoof     : BOOLEAN,   \* a MigrationYaml: a trivial rerender is
                                       \* recorded, not sent
             forceAfter   : Nat,       \* force_pr_after_solver_attempts, in fifths
                                       \* of an attempt
             branchesOf   : [Nodes -> Seq(Branches)]]  \* get_possible_feedstock_branches

ASSUME MigratorAssumption == Migrators \subseteq Migrator

VARIABLES
  migrator,  \* the one of Migrators that this is
  pc,        \* where the job is
  local,     \* [Nodes -> NodeInfo]: the clone on the runner's disk
  remote,    \* [Nodes -> NodeInfo]: the graph repository
  json,      \* [Nodes -> SUBSET Branches]: pr_json objects in the repository
  todo,      \* the feedstocks the pass has not visited yet
  node, branches, branch,   \* the feedstock, its branches left, the current one
  entry,     \* what run() returned for the current branch
  good, tried,              \* good_prs and tried_prs of the pass
  faults     \* outcomes other than success so far (bounded by MaxFaults)

(***************************************************************************)
(* History variables, read by the properties only.                         *)
(***************************************************************************)
VARIABLES
  prs,       \* [Nodes -> [Branches -> Nat]]: pull requests ever opened
  opened,    \* the current run has opened a pull request
  orphans,   \* [Nodes -> [Branches -> Nat]]: those no pr_info will ever mention
  before     \* the attempts counted when the current run started

jobVars  == <<todo, node, branches, branch, entry, good, tried>>
history  == <<prs, opened, orphans, before>>
vars     == <<migrator, pc, local, remote, json, jobVars, faults, history>>

\* Mutant of SolverCredit: the whole attempt is given back.
FullCredit  == 5

Attempt     == 5   \* one attempt, in fifths
SolverCredit == 4  \* what _handle_solvability_error gives back (0.8)

NodeInfo == [pred     : [Branches -> {"none", "ref", "closed"}],
             attempts : Nat,
             bad      : {"no", "text", "dict"},
             archived : BOOLEAN,
             branch   : Branches \cup {NoBranch}]

InRun  == {"ready", "solved", "created", "returned", "sync"}
InPass == InRun \cup {"pick", "node"}

Fresh == [pred |-> [b \in Branches |-> "none"], attempts |-> 0, bad |-> "no",
          archived |-> FALSE, branch |-> NoBranch]

Init ==
  /\ migrator \in Migrators
  /\ pc = "idle"
  /\ local = [n \in Nodes |-> Fresh]
  /\ remote = local
  /\ json = [n \in Nodes |-> {}]
  /\ todo = {} /\ node = NoNode /\ branches = <<>> /\ branch = NoBranch
  /\ entry = "none" /\ good = 0 /\ tried = 0 /\ faults = 0
  /\ prs = [n \in Nodes |-> [b \in Branches |-> 0]]
  /\ orphans = prs /\ opened = FALSE
  /\ before = 0

-----------------------------------------------------------------------------
(* Helpers *)

Fault == faults < MaxFaults /\ faults' = faults + 1

\* pr_limit and PR_ATTEMPT_LIMIT_FACTOR, tested before each feedstock.
\* (A time or API limit is OutOfTime below.)
LimitReached == good >= PrLimit \/ tried >= PrLimit * AttemptFactor

\* Mutant of Filter: what has a pull request is not filtered.
FilterWithoutPRed(n, b) == local[n].archived \/ local[n].bad = "dict"

\* Migrator.filter: a `bad` that is a string starts with the default prefix ""
\* and is overlooked; only the dictionary the exception handlers store counts.
Filter(n, b) ==
  \/ local[n].archived
  \/ local[n].bad = "dict"
  \/ local[n].pred[b] # "none"

SolverNeeded(n, b) ==
  migrator.solverChecks /\ b = MainBranch /\ local[n].attempts < migrator.forceAfter

\* The current run is over; `lost` says that its pull request was not recorded.
Leave(lost) ==
  /\ branch' = NoBranch
  /\ entry' = "none"
  /\ opened' = FALSE
  /\ orphans' = IF lost THEN [orphans EXCEPT ![node][branch] = @ + 1] ELSE orphans
  /\ UNCHANGED before

\* The branch is done, `info` is what the clone then says of the feedstock.
\* `breakLoop` gives up the other branches of this feedstock. A pull request
\* that is open but that was not recorded becomes an orphan.
EndRun(info, breakLoop) ==
  /\ local' = [local EXCEPT ![node] = info]
  /\ pc' = "node"
  /\ branches' = IF breakLoop THEN <<>> ELSE branches
  /\ Leave(opened /\ info.pred[branch] = "none")
  /\ UNCHANGED <<remote, json, todo, node, good, tried, prs>>

\* The end of run(): the node is good, its attempts are reset.
Returned(e) ==
  /\ entry' = e
  /\ local' = [local EXCEPT ![node].bad = "no", ![node].attempts = 0]
  /\ pc' = "returned"
  /\ UNCHANGED <<remote, todo, node, branches, branch, good, tried, faults, history>>

\* An exception that leaves _run_migrator: with_attrs_branch does not restore
\* attrs["branch"], the enclosing `with ... as attrs` saves it, the job fails.
AbortPass(b) ==
  /\ local' = [local EXCEPT ![node].branch = b]
  /\ pc' = "deploy"
  /\ branches' = <<>>
  /\ Leave(opened /\ local[node].pred[b] = "none")
  /\ UNCHANGED <<json, todo, node, good, tried, prs>>

-----------------------------------------------------------------------------
(* The job *)

\* Mutant of Prep: `bad` is never reset.
PrepKeepingBad(info) == info

\* _update_nodes_with_bot_rerun resets `bad` unless the feedstock is archived.
Prep(info) == IF info.archived THEN info ELSE [info EXCEPT !.bad = "no"]

\* prep-auto-tick on a fresh clone, its deploy, a second clone, auto-tick.
StartJob ==
  /\ pc = "idle"
  /\ local' = [n \in Nodes |-> Prep(remote[n])]
  /\ remote' = local'
  /\ pc' = "pick"
  /\ todo' = Nodes /\ good' = 0 /\ tried' = 0
  /\ UNCHANGED <<json, node, branches, branch, entry, faults, history>>

\* The next feedstock of migrator.order (random ties: any order is possible).
PickNode ==
  /\ pc = "pick"
  /\ ~LimitReached
  /\ \E n \in todo :
       /\ todo' = todo \ {n}
       /\ node' = n
       /\ branches' = migrator.branchesOf[n]
  /\ pc' = "node"
  /\ UNCHANGED <<local, remote, json, branch, entry, good, tried, faults, history>>

PassDone ==
  /\ pc = "pick"
  /\ LimitReached \/ todo = {}
  /\ pc' = "deploy"
  /\ UNCHANGED <<local, remote, json, jobVars, faults, history>>

\* TIMEOUT, the migrator's share of it, or the GitHub API limit.
OutOfTime ==
  /\ pc = "pick"
  /\ Fault
  /\ pc' = "deploy"
  /\ UNCHANGED <<local, remote, json, jobVars, history>>

NodeDone ==
  /\ pc = "node"
  /\ branches = <<>>
  /\ pc' = "pick"
  /\ UNCHANGED <<local, remote, json, jobVars, faults, history>>

SkipBranch ==
  /\ pc = "node"
  /\ branches # <<>>
  /\ Filter(node, Head(branches))
  /\ branches' = Tail(branches)
  /\ UNCHANGED <<pc, local, remote, json, todo, node, branch, entry, good, tried,
                 faults, history>>

\* _increment_pre_pr_migrator_attempt comes before any of the work.
StartRun ==
  /\ pc = "node"
  /\ branches # <<>>
  /\ ~Filter(node, Head(branches))
  /\ branch' = Head(branches)
  /\ branches' = Tail(branches)
  /\ tried' = tried + 1
  /\ before' = local[node].attempts
  /\ local' = [local EXCEPT ![node].attempts = @ + Attempt]
  /\ pc' = "ready"
  /\ UNCHANGED <<remote, json, todo, node, entry, good, faults, prs, opened, orphans>>

-----------------------------------------------------------------------------
(* run(): before anything is visible on GitHub *)

\* RepositoryNotFoundError: pri["bad"] = error_message, return False.
CannotFork ==
  pc = "ready" /\ Fault /\ EndRun([local[node] EXCEPT !.bad = "text"], FALSE)

\* migrate() returned a false value.
NotMigrated ==
  pc = "ready" /\ Fault /\ EndRun(local[node], FALSE)

\* The feedstock has the change: a spoofed closed PR is stored and returned.
AlreadyDone ==
  /\ pc = "ready"
  /\ json' = [json EXCEPT ![node] = @ \cup {branch}]
  /\ local' = [local EXCEPT ![node].attempts = 0]
  /\ entry' = "ref"
  /\ pc' = "returned"
  /\ UNCHANGED <<remote, todo, node, branches, branch, good, tried, faults, history>>

\* A needed solver check failed: part of the attempt is given back to versions.
\* This is no fault of the bot: it may happen any number of times.
Unsolvable ==
  /\ pc = "ready"
  /\ SolverNeeded(node, branch)
  /\ EndRun([local[node] EXCEPT !.attempts = IF migrator.isVersion THEN @ - SolverCredit ELSE @],
            FALSE)
  /\ UNCHANGED faults

\* Migrated, committed, rerendered; a needed solver check that succeeds resets
\* the attempts (_check_and_process_solvability).
Migrated ==
  /\ pc = "ready"
  /\ local' = IF SolverNeeded(node, branch)
              THEN [local EXCEPT ![node].attempts = 0] ELSE local
  /\ pc' = "solved"
  /\ UNCHANGED <<remote, json, jobVars, faults, history>>

\* A MigrationYaml that changed nothing but the recipe: a spoofed closed PR.
SpoofTrivial ==
  /\ pc = "solved"
  /\ migrator.canSpoof
  /\ json' = [json EXCEPT ![node] = @ \cup {branch}]
  /\ Returned("ref")

-----------------------------------------------------------------------------
(* run(): the pull request *)

\* push_to_repository and create_pull_request, on a branch with a random suffix.
CreatePR ==
  /\ pc = "solved"
  /\ prs' = [prs EXCEPT ![node][branch] = @ + 1]
  /\ opened' = TRUE
  /\ pc' = "created"
  /\ UNCHANGED <<local, remote, json, jobVars, faults, orphans, before>>

\* DuplicatePullRequestError: "Don't update the PR data".
DuplicatePR ==
  /\ pc = "solved"
  /\ Returned("closed")
  /\ UNCHANGED json

\* Mutant of StorePrJson: the object is left to the deploy, which ignores it.
StoreNoPrJson ==
  pc = "created" /\ Returned("ref") /\ UNCHANGED json

\* The rerender comment, then _make_and_sync_pr_lazy_json.
StorePrJson ==
  /\ pc = "created"
  /\ json' = [json EXCEPT ![node] = @ \cup {branch}]
  /\ Returned("ref")

\* The success path of _run_migrator_on_feedstock_branch: PRed gets the entry.
Record ==
  /\ pc = "returned"
  /\ local' = [local EXCEPT ![node].pred[branch] = entry]
  /\ good' = good + 1
  /\ pc' = "sync"
  /\ UNCHANGED <<remote, json, todo, node, branches, branch, entry, tried, faults,
                 history>>

\* Mutant of SyncPrInfo: pr_info too is left to the deploy.
SyncNothing ==
  /\ pc = "sync"
  /\ pc' = "node"
  /\ Leave(FALSE)
  /\ UNCHANGED <<local, remote, json, todo, node, branches, good, tried, faults, prs>>

\* sync_lazy_json_object(pri, "file", ["github_api"]): node_attrs is not synced.
SyncPrInfo ==
  /\ pc = "sync"
  /\ remote' = [remote EXCEPT ![node] =
                  [local[node] EXCEPT !.archived = remote[node].archived,
                                      !.branch = remote[node].branch]]
  /\ pc' = "node"
  /\ Leave(FALSE)
  /\ UNCHANGED <<local, json, todo, node, branches, good, tried, faults, prs>>
-----------------------------------------------------------------------------
(* Exceptions out of run(), at any of its calls *)

Raising == pc \in {"ready", "solved", "created"} /\ Fault

\* GitHubError: nothing is written; at the API limit the other branches are
\* given up.
GithubError ==
  Raising /\ \E limit \in BOOLEAN : EndRun(local[node], limit)

RepositoryArchived ==
  Raising /\ EndRun([local[node] EXCEPT !.archived = TRUE], FALSE)

\* VersionMigrationError, and rerender errors: only the error text is stored.
MigrationError ==
  Raising /\ pc = "ready" /\ EndRun(local[node], FALSE)

\* URLError with a code, and any other exception: `bad` gets the traceback.
OtherError ==
  Raising /\ EndRun([local[node] EXCEPT !.bad = "dict"], FALSE)

\* A URLError without the attribute `code`: the handler itself raises.
UrlErrorWithoutCode ==
  Raising /\ AbortPass(branch) /\ UNCHANGED remote

\* A sync of the `finally` clause raises: the record is in the clone only, or,
\* when it is the second sync of a version, the attempts are.
SyncRaises ==
  /\ pc = "sync" /\ Fault
  /\ AbortPass(branch)
  /\ \E sent \in {FALSE, migrator.isVersion} :
       remote' = IF sent THEN [remote EXCEPT ![node].pred = local[node].pred,
                                             ![node].bad = local[node].bad]
                 ELSE remote

\* migrator.filter raises inside with_attrs_branch.
FilterRaises ==
  /\ pc = "node" /\ Fault /\ branches # <<>>
  /\ AbortPass(Head(branches))
  /\ UNCHANGED remote

-----------------------------------------------------------------------------
(* The end of the job *)

\* The step is cancelled or times out; `if: always()` still deploys the clone.
\* The node_attrs held by `with ... as attrs` are saved if Python can unwind.
Killed ==
  /\ pc \in InPass
  /\ Fault
  /\ pc' = "deploy"
  /\ branches' = <<>>
  /\ Leave(opened /\ local[node].pred[branch] = "none")
  /\ \/ pc = "pick" /\ UNCHANGED local
     \/ pc \in InRun /\ local' = [local EXCEPT ![node].branch = branch]
     \/ pc # "pick" /\ local' = [local EXCEPT ![node].archived = remote[node].archived,
                                             ![node].branch = remote[node].branch]
  /\ UNCHANGED <<remote, json, todo, node, good, tried, prs>>

\* deploy-to-github --dirs-to-ignore=pr_json
Deploy ==
  /\ pc = "deploy"
  /\ remote' = local
  /\ pc' = "idle"
  /\ UNCHANGED <<local, json, jobVars, faults, history>>

\* A pull request that the graph repository does not know of, but still may.
Unrecorded(n, b) == prs[n][b] > orphans[n][b] /\ remote[n].pred[b] = "none"

\* The deploy fails, or the runner is lost with its disk at any time.
RunnerLost ==
  /\ pc # "idle"
  /\ Fault
  /\ pc' = "idle"
  /\ local' = remote
  /\ branches' = <<>> /\ branch' = NoBranch /\ entry' = "none" /\ opened' = FALSE
  /\ orphans' = [n \in Nodes |-> [b \in Branches |->
                    orphans[n][b] + IF Unrecorded(n, b) THEN 1 ELSE 0]]
  /\ UNCHANGED <<remote, json, todo, node, good, tried, prs, before>>

-----------------------------------------------------------------------------
Progress ==
  \/ StartJob \/ PickNode \/ PassDone \/ NodeDone \/ SkipBranch \/ StartRun
  \/ AlreadyDone \/ Migrated \/ SpoofTrivial \/ CreatePR \/ DuplicatePR
  \/ StorePrJson \/ Record \/ SyncPrInfo \/ Deploy

Failure ==
  \/ OutOfTime \/ CannotFork \/ NotMigrated \/ Unsolvable \/ GithubError
  \/ RepositoryArchived \/ MigrationError \/ OtherError \/ UrlErrorWithoutCode
  \/ SyncRaises \/ FilterRaises \/ Killed \/ RunnerLost

Next == (Progress \/ Failure) /\ UNCHANGED migrator

Spec == Init /\ [][Next]_vars

-----------------------------------------------------------------------------
(* Properties *)

TypeOK ==
  /\ migrator \in Migrators
  /\ pc \in {"idle", "deploy"} \cup InPass
  /\ local \in [Nodes -> NodeInfo]
  /\ remote \in [Nodes -> NodeInfo]
  /\ json \in [Nodes -> SUBSET Branches]
  /\ todo \subseteq Nodes
  /\ node \in Nodes \cup {NoNode}
  /\ branches \in Seq(Branches)
  /\ branch \in Branches \cup {NoBranch}
  /\ entry \in {"none", "ref", "closed"}
  /\ good \in Nat /\ tried \in Nat /\ faults \in Nat
  /\ prs \in [Nodes -> [Branches -> Nat]]
  /\ orphans \in [Nodes -> [Branches -> Nat]]
  /\ opened \in BOOLEAN /\ before \in Nat

\* A second pull request for the same migration of the same branch is opened
\* only after the record of each earlier one was lost between
\* create_pull_request and the sync of pr_info (or the deploy that stands in
\* for a failed sync); failures anywhere else never cause a duplicate.
OnePRPerUid ==
  \A n \in Nodes, b \in Branches : prs[n][b] <= orphans[n][b] + 1

\* The pass never goes on to another pull request while one is not yet in the
\* graph repository: a crash loses the record of at most one.
OneUnrecordedPR ==
  Cardinality({p \in Nodes \X Branches : Unrecorded(p[1], p[2])}) <= 1

\* A PRed entry that refers to a pr_json object is in the graph repository only
\* if the object is: the deploy ignores pr_json, the order of the syncs counts.
NoDanglingPrJson ==
  \A n \in Nodes, b \in Branches : remote[n].pred[b] = "ref" => b \in json[n]

\* Up to where a run ends without a result: with solver checks, one that succeeds has
\* reset the attempts of what ends after it.
RunEnds == IF migrator.solverChecks THEN {"ready"} ELSE {"ready", "solved", "created"}

\* A run of a branch that ends without a result, and has counted as no part of an
\* attempt.
FailedRun ==
  /\ pc \in RunEnds /\ pc' \in {"node", "deploy"}
  /\ local'[node].attempts <= before

\* A run that ends without a result, by `return False`, an exception or a kill, has
\* used up part of an attempt, so that the backoff of `order` moves the feedstock
\* back; with solver checks this holds of the runs that end before the pull request,
\* the unsolvable ones and their credit included.
FailedRunCounts == [][~FailedRun]_vars
=============================================================================
