# Verification of the conda-forge autotick bot

TLA+ models of the bot of `regro/cf-scripts`: what its jobs do to the graph
repository (`cf-graph-countyfair`) and to the feedstocks, checked with TLC on
small instances and, for the properties that matter most, proved with TLAPS for
every value of the constants. `PROJECT.json` lists the runs, the lines each
definition models, the hazards, the findings and the theorems.

Contents: [the system](#the-system), [the modules](#the-modules),
[the runs](#the-runs), [the proofs](#the-proofs),
[disagreements](#disagreements-met-while-modelling),
[what is not modelled](#not-modelled-and-why), [the plan](#plan).

## The system

The bot is a set of GitHub Actions workflows. Each clones the graph repository,
runs one command of `conda-forge-tick` in the clone, and sends what has changed
back. The workflows do not wait for one another: their only shared state is the
graph repository (and MongoDB, when it is a backend) and what is on GitHub. At
most one run of a workflow is active (`concurrency:`).

| Component | State it keeps | Operations | Modules |
|---|---|---|---|
| auto-tick pass (`auto_tick.py`, `contexts.py`) | `pr_info`, `version_pr_info` (PRed, attempts, `bad`), `node_attrs.archived` | visit the feedstocks of a migrator, run it on each branch, open pull requests, record them | `AutoTick` |
| bot-bot job (`bot-bot.yml`) | two clones, the time left | prep, deploy, clone again, auto-tick, deploy (always), trigger the next job | `AutoTick`, `Deploy` |
| LazyJson (`lazy_json_backends.py`) | `_data`, `_data_hash_at_load`, the file cache, the backends | load, edit in a `with` block, dump to the cache and all backends, sync hashmaps | `LazyJson`, `SyncHashmap` |
| writes through the GitHub API (`lazy_json_backends.py`, `git_utils.py`) | one file of the repository | overwrite or delete it, with retries | `GithubApi`, `AtomicFile` |
| deploy (`deploy.py`) | the clone's HEAD, index and files; files done and to try again | send files by the API, else commit in batches, pull with `-X theirs`, push | `Deploy` |
| migration order (`migrators/core.py`, `migration_yaml.py`) | the migrator's graph, the PRed entries of predecessors | cut and trim the graph, pluck, filter, wait for predecessors | `MigrationGraph`, `MigrationScope`, `GraphMigration` |
| migrator creation (`make_migrators.py`) | `migrators/*.json`, the yamls of conda-forge-pinning | make, dump and load migrators; propose pins | `MigratorDump`, `PinUpdates` |
| pull request updates (`update_prs.py`, `events/pr_events.py`, prep) | `pr_json` objects, entries of PRed | refresh, close on `bot-rerun` or conflicts, collapse and delete closed ones | `PRLifecycle` |
| node updates (`feedstock_parser.py`, `make_graph.py`, `all_feedstocks.py`, `events/push_events.py`) | `all_feedstocks.json`, `node_attrs`, `graph.json` | list feedstocks, parse them, make edges, archive | `FeedstockNode`, `NodeJobs`, `RunExports` |
| upstream versions (`update_upstream_versions.py`, `update_sources.py`, `migrators/version.py`) | `versions`, `version_pr_info.new_version` | ask sources, write, deploy in batches, merge, filter, propose | `VersionJobs`, `VersionSources`, `NextVersion`, `VersionFlow` |
| recipe versions and hashes (`update_recipe/version.py`) | the text of one recipe | find URL, hash and variables per selector, download, replace | `RecipeVersion`, `RecipeVersionV1` |
| git platform (`git_utils.py`) | fork, clone, branch, pull request | fork, clone, fetch, commit, push, open | `GitPlatform` |
| locks and executors (`executors.py`) | three nested locks | `lock_git_operation` | `GitLock` |
| status report (`status_report.py`) | `status/` | a page per migration, the lists, recently closed ones, versions | `StatusReport`, `MigrationStatus`, `VersionStatus` |
| backups, mini-migrators, mappings, containers, CLI, workflows that only start others | | see [below](#not-modelled-and-why) | |

How they interact: `auto_tick` opens pull requests on GitHub, keeps its records
through LazyJson on the disk, makes `pr_json` and then `pr_info` durable at once
through `GithubAPILazyJsonBackend`, and leaves the rest to `deploy`, which also
carries the changes of every other job. Event jobs (`bot-events`) write single
objects through the API at any time, so that every file may change under a job
that holds a clone of it. What one job writes another one reads hours later: the
nodes decide the graph, the graph the migrators, the migrators the pull requests,
the pull requests the records, and the records who is next.

### What is hard, and what must hold

* **Crashes between a visible act and its record.** A pull request is open before
  any file mentions it. A duplicate must need the loss of a record, and a crash
  must lose at most one (`OnePRPerUid`, `OneUnrecordedPR`); a durable PRed entry
  must not refer to an object that is not durable (`NoDanglingPrJson`), also while
  prep deletes objects that two other jobs are refreshing (`NoDanglingRef`).
* **Partial failures.** Some twenty statements of the pass can raise, and each
  handler stores something else. None may block a feedstock for good
  (`EventuallyMigrated`), and a run that fails must cost an attempt
  (`FailedRunCounts`). A deploy step that runs always() publishes what a job had
  written when it failed: of the migrators (`AllRun`), of the status pages
  (`ListedOnce`, `KeptTwoWeeks`), of the versions (`NothingForgotten`).
* **Concurrent writers** of the same dictionary (`KeepsEdits`), file
  (`IsAtomicFile`, `ContentionBound`, `EveryCallEnds`), hashmap (`FreshWhenDone`)
  or tree (`ForeignKept`, `EditsDelivered`).
* **Old data.** Every decision is made on a clone that is minutes to hours old:
  who may be migrated (`OrderRespected`), what is an upgrade (`UpgradesOnly`,
  `NoKnownDowngrade`), what a pull request is based on (`PRsAreCurrent`), which
  nodes there are (`KnownIsKept`), which run exports (`ExportsArrive`).
* **Leftovers.** Node attributes are put over those of earlier commits
  (`NodeIsWhole`); a source object has a prefix of the feedstock before
  (`OthersDoNotMatter`); a page says "awaiting parents" by rules of its own
  (`ParentsExplain`, `NothingHidden`).
* **Retries that cannot succeed**: a merge stopped at a conflict
  (`RaisedOnlyOverDeletion`, `DeployEnds`).
* **Things that must come**: a migration to its end (`MigrationEnds`), the pull
  request that a closing one announces (`LabelPromiseKept`), a pin (`PinFollows`),
  a version (`NewestIsProposed`), a thread into the lock (`EveryoneGetsThrough`).

## The modules

A component has a module of its own, parameterised by CONSTANTS with a named
assumption. The MC modules compose components that belong together: their
variable `part`, fixed by Init, says which component a behaviour is about, and the
variables of the others rest. A run is thus the sum of the state spaces of its
parts, each as large as it would be alone. An MC module EXTENDS the components whose
properties are also theorems, so that the run checks the formula that is proved, and
TLC evaluates their assumptions; other configurations of the same module, and the
components without theorems, are INSTANCEs whose assumptions it restates as
`InstanceAssumptions`. Therefore the definitions of such components have names of
their own (`LazyInit`, `SyncNext`, `askVars`, ...). A definition that begins with
the comment "Mutant of" is a wrong form of the definition below it: it is not used
by the specification, it is what a property must notice.

### Jobs, storage and git

**AutoTick**: one migrator of the bot-bot job. `local` is the clone of the job and
`remote` the graph repository: per feedstock, whether each branch has a PRed entry
(with a `pr_json` object, `"ref"`, or the closed stand-in), the attempts, `bad`,
`archived` and the stray key `branch`. `json` is the set of `pr_json` objects in the
repository, `prs` counts the pull requests GitHub has seen. The actions follow the
calls: `StartJob` (prep, its deploy, second clone), `PickNode`/`PassDone`/`OutOfTime`
(the loop and `_is_migrator_done`), `SkipBranch`/`StartRun` (filter, `tried_prs`, the
attempt counted up front), the outcomes of `run()` before anything is visible
(`CannotFork`, `NotMigrated`, `AlreadyDone`, `Unsolvable`, `Migrated`), those after
(`SpoofTrivial`, `CreatePR`, `DuplicatePR`, `StorePrJson`), `Record` and
`SyncPrInfo`, one action per exception handler, and the ends of a job (`Killed`,
`Deploy`, `RunnerLost`). Attempts are counted in fifths, since a solver failure
gives back 0.8 of one. The version migrator and the others share the actions;
`migrator` says which one a behaviour is about, any of the constant set `Migrators`: a
record of what the pass reads of it (`isVersion`, `solverChecks`, `canSpoof`, ...). Abstracted: the
contents of recipes, errors and pull requests; the order of the feedstocks (any is
possible, since ties and postponed feedstocks are sorted by random numbers); the
other migrators and jobs. The deploy is one step here and is modelled in full by
`Deploy`.

**LazyJson**: a dictionary is the set of edits made to it; a stored value is such a
set, `Missing` or `Torn`. Each object has `data` (`_data`), `hash`
(`_data_hash_at_load`), `open` (`_in_context`) and `pos`, the next backend `_dump`
writes. The actions are `Load`, `Enter`, `Edit`, `ExitUnchanged`, `BeginDump`, one
`Write` per backend, `EndExit`, and the mishaps `WriteFails` and `Crash`. Writes of
different jobs interleave between backends; the objects of one job take turns, as
its thread does.

**SyncHashmap**: `sync_lazy_json_hashmap` with its two callers. `ListSource`,
`ListDest` (the hashes), `Delete`, `Pull` and `PutBatch` in batches, `NextMap`; for
`lazy_json_override_backends` the body (`EnterOverride`, `BodyWrites`, `LeaveBody`) and the
restoration. `OtherWrites` and `OtherArchives` are other jobs, whose objects refer to
each other across hashmaps; `KeyIsGone` and `CallFails` are the exceptions.

**GithubApi** and **AtomicFile**: `GithubApi` is the retry loop that `hset`,
`_hdel_one`, `push_file_via_gh_api` and `delete_file_via_gh_api` share: `Get`, then
`Put` with the sha, `PutConflict`, `PutUnanswered` (committed, but the answer is lost)
and `RequestFails`. The sha is a hash of the content, so the model compares contents
(an A-B-A change is accepted, as on GitHub). `AtomicFile` is what callers rely on:
each call overwrites the file in one step, returns only after the file has been as
asked, and may have taken effect or not when it raises. `IsAtomicFile` is the
refinement.

**Deploy**: a tree maps files to contents. `remote` is the repository, `base` the tree
last merged, `head` the clone's HEAD, `work` its files and `staged` the deletions in
the index. The actions: `Start`, `ApiWrite`/`ApiFails`/`ApiDone`, `GoOnWithGit` and
`EndApi` (both restore the files done), `LastPull`, `Batch`, `Pull` (twice per try),
`Push`, `PushFails`; `OtherCommits` is another job. `PullChanges` models
`git pull -s recursive -X theirs` with the recovery of `_pull_changes`: edits not
committed that block the merge are committed and the pull is repeated; files they
have deleted and the job has changed are removed; a file the job has deleted and
they have changed stops the merge for good.

**GitPlatform**: one feedstock over several runs. Commits of the feedstock are
numbers, one of the bot is `<<parent, run>>`. `SyncDefaultBranch`/`CreateFork` are
`GitHubBackend.fork`, `CloneRepo`, `Fetch` and `BranchAndCommit` are
`clone_fork_and_branch` with its fetches, checkouts and resets, `AddToken`, `Push`,
`PushFails` are `push_to_repository`, `CreatePullRequest` with the duplicate and the
missing base; the `Dry...` actions are `DryRunBackend`. The maintainers commit and
rename the default branch at any time; GitHub is external.

**GitLock**: `lock_git_operation` for the executors of threads, of processes and of
dask, which differ by the constant `Kind`. A thread takes `GIT_LOCK_THREAD`, the lock
of the pool's manager and `DaskRLock`, and may begin another operation in its body.
`self._rcount += 1` is a read (`ReadCount`) and a write (`CountUp`), and the acquisition
of dask's lock may raise after the count went up (`AcquireDaskFails`).

### Migrations

**MigrationGraph** has the graph operators (`Pluck` is `utils.pluck`), on the records
of the community module Graphs, with paths by a recursive function.

**MigrationScope**: `MigrationYaml.__init__`. Init chooses where each feedstock
requires each other one, what kind each is and the options; `PluckOne` removes one
node, in any order, first for the allowlist (`cut_graph_to_target_packages`), then,
after `Trim` (`_trim_edges_for_abi_rebuild`, the pinning below all), for
`_make_migrator_graph`.

**GraphMigration**: one migration over many jobs. `record` is the PRed entry in the
graph repository (`"lost"`: an entry without its pull request), `github` the pull
request itself, `health` bad or archived, `dumped` the migrator object of
`MakeMigrators`, `seen` and `seenHealth` the clone of the pass. `Skip` and `Issue` apply
the filters of `Migrator`, `GraphMigrator` and `MigrationYaml`; people close pull
requests, `Refresh` puts that into the records, `Rerun`, `Archive`, `Break`, `Repair` and
`LoseEntry` disturb. `LoadedCycles` and `LoadedTopLevel` are empty as in the code (see
the disagreements).

**MigrationStatus** EXTENDS it with attempts that fail and with time
(`settled`), and has the categories of `graph_migrator_status`.

**MigratorDump**: `initialize_migrators`, `dump_migrators` and `load_migrators`:
one file for each name, written in any order, old ones removed at the end, a dump that
raises before or after its name was noted, a job that is cancelled and deploys.

**PinUpdates**: the life of a pin. A version is a sequence of numbers; the levels
come from the recipe's `run_exports` or from `pin_run_as_build`; `MakeMigrators` is
`_outside_pin_range` and its surroundings, `Propose` a `MigrationYamlCreator`, then the
maintainers, the migration itself as one step, and its end.

### Pull requests

**PRLifecycle**: `gh` is the truth, `json` the objects and `entry` the PRed entries in
the graph repository. Two workers, update-prs with a clone and the event job through
the API, each do `Refresh`, `CloseLabelled`, `CloseDirty` and a write; `DeployPrs`
overwrites or gives way, as the deploy goes by the API or by git. `PrepClone` and
`PrepDeploy` are the collapse of closed entries and the marks of `bot_rerun` by prep,
`Issue` the next pull request. GitHub's 304 answers return the old data, with old
conflicts.

### Nodes

**FeedstockNode**: the attributes of one feedstock, each with the number of the commit
it is from. `Contents` is what may be in a commit; `Load`, `LoadRaises` and `LoadNothing`
are `try_load_feedstock` and `populate_feedstock_attributes`.

**NodeJobs**: which feedstocks there are. `CloneForGraph`/`MakeGraph`,
`CloneForUpdate`/`UpdateNode`/`UpdateArchived`/`DeployUpdate`, `Gather`/`DeployList` and
`EventLists`/`EventLoads` are four jobs that work on copies of each other's files.

**RunExports**: requirements and strong run exports. `Extract` and `StrongExports` are
`_extract_requirements`, `AddRunExports` is `_add_run_exports_per_node`, `MakeGraph`
makes the table of outputs, the set of exporters and the edges.

### Versions

**VersionJobs**: one job of bot-versions: `Clone`, `Collect` (`as_completed`),
`DeploySucceeds`/`DeployFails` at the batch and at the end, `Crash`.

**VersionSources**: `get_latest_version_local`. A tag is a word, a version number
and whether it is a development version; `FoundBy` says what each of nine sources makes of
the tags, the prefix of the recipe's URL, `allowed_tag_globs` and the ignored versions.

**NextVersion**: `next_version` as operators on sequences of parts, and
`BaseRawURL.get_url` as the search; the server answers as it likes.

**VersionFlow**: one feedstock. `Fetch` writes `data` (an answer, none or an error),
`Prep` makes `new` of it and of `attrs`, `Migrate` filters and proposes, people merge and
close, `UpdateNode` and `UpdatePRs` bring the news. **VersionStatus** EXTENDS it with failed
attempts and the version page.

**RecipeVersion**: `update_version` on a `meta.yaml`: a source has URLs and hashes under
selectors, a hash is written out or in a variable; `Hash(s, u, h)` is one selector that
succeeds. Selectors and hash types come in any order, as from sets. `RecipesAreSound` says
of which recipes `HashesAreNew` holds (below); TLC evaluates it on those of the run.
**RecipeVersionV1**: `update_version_v1` on a `recipe.yaml`, where the old hash and the
URL's template are replaced wherever they are written.

### Status pages

**StatusReport**: the files of the status directory over many runs: `Page`,
`WriteLists` (`_compute_recently_closed`), `Remove`, `Finish`, `Fail`. The lists are
written in one step: between the first and the last only writing a file can fail, and a
deploy of a part of them is not modelled.

## The runs

| Run | Parts | Shows |
|---|---|---|
| `auto_tick` | a migration with an ABI branch, without solver checks; the version migrator with them | no duplicate without a lost record and one at most per crash, no dangling reference, a failed run costs an attempt, every branch is migrated once the faults stop |
| `graph_data` | three calls on one file; two jobs that share a database and the graph repository; one job with a file cache; the sync of all hashmaps; the one of an override | the retry loops are an atomic file, give up only after enough conflicts, and end; no edit is lost between blocks that do not overlap; what a sync leaves was in the source while it ran |
| `deploy` | three files, each edited, deleted or left alone | an edit is delivered, others' files are kept, only a deletion that others contest or that failed makes it raise, it ends |
| `git` | the lock with each of three executors; the platform over two runs, real or dry | git operations exclude each other, everyone gets in and out, a pull request is one commit on a base no older than its run |
| `migrations` | the graph with troubles and another migration to wait for; with reruns; the page; the construction; the dump; the pins | no pull request before those it waits for are closed, the migration ends, nobody waits on the page for what is done, plucking keeps the order, auto-tick runs the migrators there are now, a version gets into its pin |
| `pull_requests` | a label and the next pull request with both workers; a reopened one with a crash | what the label announces comes, what is closed is recorded, no entry without its object |
| `versions` | the flow with its page; the jobs; the search; the sources; both recipe formats | upgrades only, the newest is proposed, the page hides nothing, nothing is forgotten between deploys, the version found is good and the feedstock's own, hashes are those of what is downloaded |
| `nodes` | the report; the jobs around the graph; run exports; one feedstock | lists agree and pages stay two weeks after any failure, no stub over a node, exports follow the recipes, a node is of one load |

Runs that TLC finds violated, each a disagreement between the code and what the
repository says of it (see "findings" in `PROJECT.json`):

| Run | What happens |
|---|---|
| `lazy_json_synced` | one backend fails; the next block of the object ends well and does not write it |
| `deploy_deletions` | a deletion fails in the API phase and is never sent |
| `pr_lifecycle_dirty` | a pull request is closed because of conflicts, the event job writes the object without the label, nothing is rerun |
| `version_flow_ascend` | a version is withdrawn and an older one proposed beside its pull request |

Every property of a passing run has a mutant in `PROJECT.json`: a definition of the
model changed the way a slip in the code would, with which TLC finds the property
violated in the same configuration.

### Bounds

* `auto_tick`: two feedstocks are enough for one to be visited before and after
  another's pull request, two branches for one to be done and one not. Two faults let
  a job fail and its successor fail too; three add no new kind of behaviour because
  each job starts from `remote` alone. `forceAfter` is small so that an environment
  that is never solvable reaches the forced pull request.
* `graph_data`: three clients give a writer that is overtaken twice, three tries and
  three faults one that gives up. Two jobs with an object each, and one job with two,
  give all pairs of blocks; two mishaps a failure and a failure in the block after.
  The syncs have two keys with batches of one (of three, in the sync of an override), so
  that a write falls between list, delete, and each of two batches, and two hashmaps that
  refer to each other. Some 700 000 states.
* `deploy`: `MaxTries` (30 in the code, 4 here) is larger than the other commits (2) and
  faults (1) together, so that an exhausted batch is never just bad luck; three files
  and an API limit of two let the same instance take each path; batches of one file
  (10 in the code) make every deploy of several files go through several batches.
* `git`: two threads of one worker and one of another, two operations each, nested or
  not; three commits, two runs and one fault on the platform.
* `migrations`: three feedstocks, of which two are in a ring that `ignored_deps_per_node`
  breaks and one waits for them, and the pinning below; one feedstock is archived or
  broken or loses its entry, or one is rerun. The construction has four feedstocks with
  all labellings of six dependencies. The dump has three migrators of which two share a
  name, one change and one fault. The pins are of one to three numbers, with recipes
  that have several specs, another package's, or none that is `x.x`.
* `pull_requests`: two pull requests, one step of a maintainer; or one that may be
  reopened, with a crash.
* `versions`: three versions, one withdrawn and one pushed by hand; three feedstocks with
  batches of two, so that a batch and a rest occur, one failed deploy and one lost job;
  searches of up to two versions from three forms of version; two feedstocks, four tags,
  nine sources; recipes of two sources, four platforms, variables and selectors.
* `nodes`: two migrations, two weeks are two ticks, one failed run; one settled and one
  changing feedstock with two moves; two feedstocks and one changed recipe; two commits
  with everything that may be wrong with each.

### Fairness

Each job is a sequential program with a time limit, is started again by the clock or by
the job before it, and faults are bounded by a constant; nothing is assumed of people
and of GitHub but what is said here.

* `auto_tick`: weak fairness on the job's own progress, not on failures: the workflow
  triggers itself after each run, a daily cron and the keepalive restart it. An
  unsolvable environment is not a fault and may recur for ever.
* `graph_data`, `deploy`, `git`: weak fairness on the steps of each call, deploy or
  thread, whose sleeps and requests end. A lock is given to who waits because the
  operations are bounded.
* `migrations`: strong fairness on the start of make-migrators and of a pass and on
  `Issue`, since the random ties and the back-off of `order` let a pass get to each
  feedstock that is due now and then, not in every pass; somebody closes each pull
  request in the end. The dump and the pins have weak fairness on the steps of the jobs,
  not on `Release`, `Reject`, `Change` or on faults.
* `pull_requests`: weak fairness on the steps of a job that has begun and on the clones;
  strong fairness on `SubmitPrs` and `DeployPrs`, as `frac_update_pr_json` gets to every
  entry in the end, and on `Issue`. What is closed is closed for long in the end (`Settle`).
* `versions`: only for `NewestIsProposed`. A fetch is right again and again, prep merges it
  again and again, and an attempt succeeds in the end.
* `nodes`: only for `ExportsArrive`. Weak fairness on the steps of the jobs; strong
  fairness on loading a feedstock, which a run does with some probability. None on
  push events.

## The proofs

| Module | About | Theorems |
|---|---|---|
| `AutoTick_proofs` | AutoTick | `TypeCorrect`, `OnePullRequest`, `OneAtRisk`, `NoDanglingReference`, `FailedRunsCount` |
| `GraphData_proofs` | GithubApi | `TypeCorrect`, `ContentionIsBounded`, `RetriesAreAtomic` |
| | LazyJson | `LazyKeepsEdits` |
| | SyncHashmap | `SyncedIsFresh` |
| `Deploy_proofs` | Deploy | `DeployTypeOK`, `DeployEditsDelivered`, `DeployForeignKept`, `DeployRaisesOverDeletion` |
| `Git_proofs` | GitLock | `GitOperationsExclude` |
| | GitPlatform | `PullRequestsAreCurrent` |
| `Migrations_proofs` | GraphMigration | `MigrationInOrder`, `RecordsAreTrue` |
| | MigrationStatus | `ParentsAreShown` |
| | MigrationScope | `PluckingLosesNothing` |
| | PinUpdates | `PinsAfterTheirMigration` |
| | MigratorDump | `DumpRecovers` |
| `PRLifecycle_proofs` | PRLifecycle | `RefsAreThere` |
| `Nodes_proofs` | StatusReport | `ReportTypeOK`, `ReportListedOnce`, `ReportKeptTwoWeeks` |
| | FeedstockNode | `NodeAlwaysWhole` |
| | NodeJobs | `LoadedIsKept` |
| | RunExports | `ArrivedStays` |
| `Versions_proofs` | VersionFlow | `FlowNoKnownDowngrade`, `FlowUpgradesOnly` |
| | VersionStatus | `StatusNothingHidden` |
| | VersionJobs | `JobsNothingForgotten`, `JobsLossIsBounded` |
| | VersionSources | `FeedstocksAlone` |
| | NextVersion | `SearchResultIsGood` |
| | RecipeVersion | `MetaYamlHashes` |
| | RecipeVersionV1 | `RecipeYamlHashes` |

Each is proved for any number of feedstocks, branches, files, clients, versions, threads,
runs and faults, from the named assumptions of its module, which TLC evaluates in the
runs. They say of what kind a constant is and, where a proof counts or goes through a set,
that the feedstocks or files are finitely many. Five theorems have a hypothesis of their
own, which is a condition under which the code works and not a technicality:

* `LazyKeepsEdits` needs `OnePrimary`, that all jobs read first, and write, the same
  backend, as the jobs do that take the variable `CF_TICK_GRAPH_DATA_BACKENDS` of the
  workflows, and `CacheAlone`, that a
  job with a file cache is the only one: a cache does not follow what others write.
* `DeployRaisesOverDeletion` needs `MaxOthers + MaxFaults < MaxTries`: with as many
  commits of others as tries, a deploy gives up without any deletion. The `deploy` run
  has 3 and 4; the code has 30 tries.
* `ArrivedStays` needs `OwnNames`, that no feedstock has an output with the name of
  another feedstock. Where one has, `get_deps_from_outputs_lut` takes the name of an exporter
  that was added to the requirements for that output, and the next pass may add the run
  exports of whoever makes it: the requirements depend on how often they were completed.
* `PinsAfterTheirMigration` needs `OneName`, that the pins that can be made of the versions
  there may be differ without their dots. A migration and its pull requests are known by
  the name alone (`migration_yaml.py:730`, see the disagreements): after 1.11, the
  migration for 11.1 finds each feedstock rebuilt, and the pin is set without a rebuild.
* `MetaYamlHashes` needs `RecipesAreSound`, of every recipe: that it is `Buildable`, as
  conda-build asks (a selector is of some platform, a variable is set once on each platform
  and, if at all, wherever it is used, what has a hash has a URL, and what is one hash is
  of one archive), and `Unambiguous`, which excludes the four kinds of recipe of which
  `update_recipe/version.py` loses track (see the disagreements): selectors that are part
  of one another, several selectors in what a platform reads for a source, several hashes
  of one source, and another variable with the name of a hash.

The arguments, each by an invariant that is inductive where the property alone is not:

* **AutoTick.** `TypeCorrect` is not immediate: the credit of `Unsolvable` must not exceed
  what has been counted. The invariant says that in `pc = "ready"` at least one attempt
  has been counted for the current feedstock. `OnePRPerUid` is not inductive: `PRInv`
  relates the counter of pull requests to what the clone and the repository know. A pull
  request that is not an orphan is either the one the current run has just opened, or is
  in the clone's PRed, or in the repository's, and the clone never knows less than the
  repository of the same feedstock except for the current record. `OneUnrecordedPR` rests
  on it: `Pending` says that what is not recorded before the deploy is what the current run
  has opened, and that a failed sync, which ends the pass, leaves no more than that for the
  deploy. `JsonInv` says that the clone, too, refers only to objects that are in the
  repository, and that `run()` has stored the object before it returns a reference.
  `FailedRunsCount` follows from `Counting`: a run that has not ended has counted exactly
  one attempt, of which the credit leaves something.
* **GithubApi.** The tries of a call are at most the commits and faults: `Paid` adds that a
  stale `read` has been paid for by a commit not yet counted. The refinement of
  `AtomicFile` goes step by step.
* **LazyJson.** `CommittedThere`: what blocks have committed is in the primary backend, and
  in the file cache unless that is missing or torn, except what a write has knowingly
  dropped. `WritingThere`: an object that is being written has left its data wherever its
  turn has passed, and no other one of its job is being written. `SeenThere`: what was
  committed when the block began is in the data. That a second job overwrites more than it
  had seen is excluded by nothing; that is why `KeepsEdits` speaks of blocks that do not
  overlap.
* **SyncHashmap.** `SourceHad`: what the source has now it has had while the sync ran.
  `ListedInWork`: a key that the lists have passed is right in the destination or is still
  to be deleted, pulled or written there; `ListedHad` says that what was listed and pulled
  is of the source, and `PassedFresh` that hashmaps that are done stay so.
* **Deploy.** `Kept` says of an edit that nobody contests and that has not been in the
  repository where it is: in the directory, and to be added or committed and to be
  pushed. `Untouched` says that a file the job leaves alone is in the clone what it was
  at the last merge, and `Known` that this is what is in the repository if nobody has
  pushed since: whatever is pushed does not change it. `RaisedOnlyOverDeletion` is a
  measure: unless a deletion has been contested (`Excuse`), no merge is stopped, since each
  file of the clone is the merged one or what was wanted (`Wished`) and what is new in the
  repository is somebody's (`Attributed`); then each failed try has used up a fault or a
  commit of another job (`Counted`).
* **GitLock.** While `faults = 0`, the count of `DaskRLock` follows from the stage and the
  depth of the thread that has the thread lock (`DaskInv`), so that the first operation
  takes dask's lock and the last one releases it; `ProcessInv` is the same for the pool's
  lock, and `ThreadInv` says who is inside.
* **GitPlatform.** `PlatformInv`: branch names are numbers of runs, so that no earlier run
  has left a branch of this name in the fork (`RunsUntilNow`), and at every stage the
  clone's remote branch, its HEAD and what is pushed are on a commit of the feedstock no
  older than the run (`OfThisRun`).
* **GraphMigration.** `closed` in a record, in the graph repository or in the clone of a
  pass, is never ahead of GitHub (`ClosedIsClosed`, `SeenIsClosed`), and the loaded migrator
  has no short cut around the order (`NoShortcut`).
* **MigrationStatus.** `SInv` says that in the migrator's graph, after any plucking, nothing
  depends on the pinning, and that the pinning is never broken or archived: the parents of a
  feedstock are feedstocks, and one that is not done, not ignored and in the graph is on
  the page.
* **MigrationScope.** `Through(G, S)` is the least relation that has the edges of `G` and is
  closed under going through a node of `S`. Two lemmas show that plucking a node fuses
  exactly the edges through it (`Fused` is the invariant of the plucking), and that the
  reference definition, the paths through plucked nodes, is the same relation.
* **MigratorDump.** `InOrder` says of a job what it has still to dump, which names it has
  dumped, that those files are right, and that it knows of every other file, so that it
  removes them all in the end; `Settled` that the files are right and a job is in order. A
  step that is no fault and no change leads from the first to the second and keeps it.
* **PinUpdates.** `GoesUp`: there is one migration at a time and its pin is newer than the
  one set. `UsedOnce`: a name in `rebuilt` is that of the pin, of an older one, or of the
  migration that there is, for which `builtFor` then is. That `Newer` is an order on
  versions of any length (`NewerIsAnOrder`) excludes that a name comes back.
* **PRLifecycle.** Prep deletes an object in the step that collapses its entry, so a reference
  breaks only if somebody writes that there is no object: `WorkersHaveData` and
  `ChangedIsThere` say that who writes or deploys one has the data of a pull request that
  exists (`NoneInvented`).
* **StatusReport.** `Dated`: the age of an entry of the list of closed migrations is how
  long the migration has not been among the others; `Working` says the same of the clone of
  a run that may still fail.
* **FeedstockNode.** `NodeIsWhole` is inductive together with the type of the attributes
  (`AttrsType`); what has to be shown is that each load deletes, for each key it may not
  set, what an earlier commit left there.
* **NodeJobs.** `Explained`, of a node's file and of each copy that a job works on: a file
  without data that is not archived is of a feedstock that cannot be rendered, and such a
  one never has data.
* **RunExports.** `AllOfToday` is what is known when all has arrived, with what each job has
  cloned or loaded so far: the nodes are complete, and the lookup table, the exporters and
  the edges of the graph are those of the recipes. `ExportsOnce` shows that to add the run
  exports to what has them already changes nothing, so that a job which cannot load a
  feedstock and keeps the old node writes what a load would have written; `GraphOfToday` that
  the graph made of such nodes is the same graph. With `StartGraph` and `MakeGraph` between
  them, this is an invariant as long as `recipe` stays. That it is reached is
  `ExportsArrive`, which TLC checks.
* **VersionFlow.** The filter itself gives `FlowNoKnownDowngrade`. For `FlowUpgradesOnly`,
  `Growing`: as long as nothing is withdrawn or pushed by hand, what is found, merged and
  proposed only grows, and the recipe is something that was proposed.
  `StatusNothingHidden` uses the same invariant.
* **VersionJobs.** `Counted`: `n_changed` is at least the number of the feedstocks whose
  answer is not in the graph repository; `BatchOpen`: without a failed deploy it is below
  the size of a batch until the batch is deployed.
* **VersionSources.** `AskInv`: until `Github` has been asked, its list of prefixes is the
  default; after that it has one more, but `Github` occurs once in the sources
  (`OneGithub`), and what the others find does not depend on it (`SameFound`).
* **NextVersion.** Each candidate `Follows` the version it is made from: the first part that
  differs is one or two more (a lemma about `FlattenSeq` carries this from the parts to the
  sequence of candidates). `Reached`: the version so far is the recipe's or newer, and its
  first part that differs is at most `2 * count` more; that it is newer is needed for the
  bound, since an earlier part that had gone down could hide any increase.
* **RecipeVersion.** `WrittenIsRight`: what has been written to a hash is of an archive that
  every platform that reads this hash downloads. `PassedIsWritten`: when the loop has passed
  a source, or the selector that covers what a platform reads for it (`Cover`), the hash is
  written, as long as nothing has failed (`edited`). The lemmas before them say that the URL which
  `_try_to_update_version` finds for a selector is one that the platforms of the hash read
  (`UrlIsRead`), and the variables those they use (`KeysAreRead`).
* **RecipeVersionV1.** `FormIsFirst`: of the places passed, the form is the first that can
  be had; `HashIsOfForm`: each hash is that of its place's form, or still the old one.

How the recursive definitions are dealt with: the prover has no induction over data, but
paths and plucking go over finite sets, and there a smallest counter-example does (`WFMin`
with `FS_StrictSubsetOrderingWellFounded`), as a least number does for `FlattenSeq`
(`LeastNumber`). RECURSIVE operators and `SelectSeq`, which is one, are out of its reach.

Only model-checked is liveness, since fairness and `ENABLED` are out of the prover's reach:
`EventuallyMigrated`, `EveryCallEnds`, `DeployEnds`, `EveryoneGetsThrough`, `MigrationEnds`,
`AllRun`, `PinFollows`, `LabelPromiseKept`, `ClosedIsRecorded`, `ExportsArrive`,
`NewestIsProposed`. Of three of them a safety half is proved: of `ExportsArrive`,
that what has arrived stays (`ArrivedStays`); of `AllRun`, that a job which ends leaves what
is right, and that this stays (`DumpRecovers`); of `PinFollows`, that a pin is not set early
or back (`PinsAfterTheirMigration`).

## Disagreements met while modelling

Four are runs of their own (above). The others are in the models as the code has them,
and their properties are stated so that they hold of the code; they are listed here with
the lines that disagree (paths below `src/`, `conda_forge_tick/` left out).

Auto-tick and the migrators:

* `auto_tick.py:695`: after a crash between `create_pull_request` and the sync of
  `pr_info` the next job opens a second pull request, on a branch with another random
  suffix; `auto_tick.py:704` says that this should not happen since "we won't double PR".
  `OnePRPerUid` allows it for exactly the records that were lost.
* `auto_tick.py:1111`: `pr_limit` is tested once per feedstock, so a pass may exceed it by
  the branches of the last one; `migrators/core.py:325` calls it the number of PRs of a run.
* `auto_tick.py:782`: the branch that adapts the limits of solver checks is never taken.
* `contexts.py:120`: `with_attrs_branch` has no `finally`: an exception in the body leaves
  `branch` in the attributes that are saved; `:108` promises to restore them.
* `migration_yaml.py:286`: the object that is made from its dumped form has no cycles, so
  feedstocks in one wait for each other; `core.py:970` says they are built.
* `migration_yaml.py:311`: `top_level` is computed over iterators and is always empty;
  `auto_tick.py:397` says "stuff at the top always goes".
* `migration_yaml.py:730`: 1.11 and 11.1 give one name and one uid; `core.py:679` says the
  uid is unique.
* `migration_yaml.py:107`: a comment at the beginning of a line in
  `conda_build_config.yaml` ends the migrated section; `:82`: a patch of `conda-forge.yml`
  whose key or parent is missing is dropped or put elsewhere (`src/README.md:173`, `:175`).
* `make_migrators.py:1190`: the error for a duplicate name is caught and logged; `:1165`
  says it is raised. `:436`: a `pr_limit` given in a yaml is capped and scaled as the
  default is (`src/README.md:139`).

Pull requests and git:

* `git_utils.py:1670`: `refresh_pr` does nothing for what is recorded as closed, so the
  window for reopened pull requests (`events/pr_events.py:37`) has no effect.
* `executors.py:46`: the count of `DaskRLock` is not taken back when the acquisition
  raises; the next operation goes on without the lock.

Graph data:

* `lazy_json_backends.py:840`: the order of the hashmaps does not keep references
  consistent when pull requests are archived between two syncs (`:838`).
* `lazy_json_backends.py:955`: when the sync of `lazy_json_override_backends` raises, the
  backends are not restored (`tests/test_lazy_json_backends.py:90`).
* `lazy_json_backups.py:97`: a window keeps its youngest backup, which never gets old enough
  for the next one (`tests/test_lazy_json_backups.py:44`).

Nodes:

* `feedstock_parser.py:526`: a version that has moved into the outputs is not read again
  (`models/node_attributes.py:323`); `:319`: the `conda-forge.yml` of an earlier commit stays
  when the file is removed.
* `feedstock_parser.py:161`, `:162`: requirements that are a list go to `run` only, and the
  run exports beside them are not looked at (`:135`, `models/node_attributes.py:262`);
  `make_graph.py:303`: run exports are not added to `total_requirements`.
* `make_graph.py:326`: a feedstock made since the job cloned gets a file with `archived`
  (`:329`); `:134`: the flag stays when the recipe cannot be rendered
  (`feedstock_parser.py:267`).

Versions and recipes:

* `update_sources.py:695`: a good version is lost when the next candidate cannot be hashed
  (`:598`); `:763`: `gittags` gives the globs a ref and not a tag (`config_schema.py:130`).
* `update_recipe/version.py:503`: a selector without its variable is passed over (`:471`);
  `:427`: `osx` may get the hash of `osx and arm64`; `:363`, `:435`: of several hash names or
  types the first in the order of a set is replaced (`:415`). `HashesAreNew` is checked and
  proved of recipes without them (`Unambiguous`).

Status:

* `status_report.py:409`: with `--migrators` the lists are overwritten by those of the
  selection, and all others count as closed now (`cli.py:185`). The run takes all migrators.
* `manually_done` of `graph_migrator_status` is never reached: the loop over the entries
  finds each of them.

## Not modelled, and why

* **Migrators' recipe edits**: the thirty mini-migrators, the merge of
  `conda_build_config.yaml`, patches of `conda-forge.yml`. Each is a function from one text
  to another, without state, concurrency or order; tests on examples reach them. Their
  outcome is a choice in AutoTick.
* **Parsing and rendering** (conda-build, rattler-build, grayskull, conda-souschef) and the
  network sources themselves: external, a choice in FeedstockNode, VersionSources and
  NextVersion.
* **Migrator creation**, the rest: limits computed from the age and the success of a
  migration (arithmetic on wall-clock times) and the fixed lists of packages.
* **LazyJson**, the rest: sessions and snapshots of MongoDB. A write of that backend is
  one step, and `_remove_closed_pr_json` one transaction.
* **Backups**: a pure function of time stamps and one tar command.
* **Mappings, import maps, hashing, chaindb, dependency audits, feedstock outputs**:
  conversions of one table into another, rewritten as a whole by one job.
* **Containers, CLI, settings, models**: wrappers, options and schemata. That a container
  gives each call fresh objects is used in VersionSources (`FreshSources`).
* **Keepalive, schedules, release and test workflows**: timers and concurrency groups of
  GitHub. What the models take from them is fairness and that a workflow does not run
  beside itself.

## Plan

Done: the pass, the storage, the deploy and git; migrations from their yaml to the page;
pull requests; nodes; versions to the recipe; the status pages; theorems for every safety
and action property of the passing runs.

Next, in this order:

1. Two migrators of one pass in AutoTick, which share `pr_info` of a feedstock and the
   order of the time shares.
2. The transactions of MongoDB in LazyJson, with reads of a snapshot.
