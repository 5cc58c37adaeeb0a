---------------------------- MODULE StatusReport ----------------------------
(***************************************************************************)
(* The status pages of the migrations over many runs of the                *)
(* bot-update-status-page job: each run loads the migrators, writes a page *)
(* for each one, the list of all of them, and the list of those that were  *)
(* closed in the last two weeks, and removes the pages of the others. It   *)
(* works in a clone; what it has done is deployed also when it failed, and *)
(* lost when it was cancelled.                                             *)
(***************************************************************************)
EXTENDS Integers, FiniteSets

CONSTANTS
  Migrators,     \* report names, without Version and MigrationYamlCreator
  Filters,       \* SUBSET Migrators: what --migrators may select
  TwoWeeks,      \* in ticks of the clock
  MaxFailures    \* bound: runs that raise or are cancelled

ASSUME ReportAssumption ==
  /\ IsFiniteSet(Migrators) /\ Filters \subseteq SUBSET Migrators
  /\ TwoWeeks \in Nat \ {0} /\ MaxFailures \in Nat

VARIABLES
  kind,       \* [Migrators -> Kinds]: the migrators in the graph repository
  repo,       \* the status directory in the graph repository
  clone,      \* the status directory of the job
  pc,         \* the job
  loaded,     \* [Migrators -> Kinds] when it loads the migrators
  chosen,     \* what --migrators selects
  since,      \* [Migrators -> Age]: how long it is not in repo's total_status
  failures

vars == <<kind, repo, clone, pc, loaded, chosen, since, failures>>

Kinds == {"none", "regular", "longterm", "paused"}
Age == 0..TwoWeeks      \* anything older is as old as TwoWeeks
Never == -1

Older(x) == IF x = Never \/ x = TwoWeeks THEN x ELSE x + 1

\* page: [Kinds -> SUBSET Migrators], the three lists; total: their union as it was
\* written; closed: when, as an age; json: the files of migration_json and
\* migration_svg.
Status ==
  [page : [Kinds \ {"none"} -> SUBSET Migrators], total : SUBSET Migrators,
   closed : [Migrators -> Age \cup {Never}], json : SUBSET Migrators]

Empty == [page |-> [k \in Kinds \ {"none"} |-> {}], total |-> {},
          closed |-> [m \in Migrators |-> Never], json |-> {}]

Init ==
  /\ kind = [m \in Migrators |-> "none"]
  /\ repo = Empty /\ clone = Empty
  /\ pc = "idle" /\ loaded = kind /\ chosen = {}
  /\ since = [m \in Migrators |-> TwoWeeks] /\ failures = 0

-----------------------------------------------------------------------------
(* The world *)

\* make-migrators starts, pauses, prolongs and closes migrations.
MakeMigrators(m, k) ==
  /\ kind[m] # k /\ kind' = [kind EXCEPT ![m] = k]
  /\ UNCHANGED <<repo, clone, pc, loaded, chosen, since, failures>>

Aged(s) == [s EXCEPT !.closed = [m \in Migrators |-> Older(@[m])]]

\* A day passes. A run is short against it; the time stamps are what gets older.
Tick ==
  /\ pc = "idle"
  /\ repo' = Aged(repo) /\ clone' = Aged(clone)
  /\ since' = [m \in Migrators |-> IF m \in repo.total THEN 0 ELSE Older(since[m])]
  /\ UNCHANGED <<kind, pc, loaded, chosen, failures>>

-----------------------------------------------------------------------------
(* The job *)

Start(f) ==
  /\ pc = "idle"
  /\ loaded' = kind /\ chosen' = f /\ clone' = repo /\ pc' = "pages"
  /\ UNCHANGED <<kind, repo, since, failures>>

\* load_migrators(skip_paused=False, filter_name)
NewTotal == {m \in chosen : loaded[m] # "none"}

\* graph_migrator_status, and its json and svg; a page that is there is written
\* again.
Page(m) ==
  /\ pc = "pages" /\ m \in NewTotal \ clone.json
  /\ clone' = [clone EXCEPT !.json = @ \cup {m}]
  /\ UNCHANGED <<kind, repo, pc, loaded, chosen, since, failures>>

\* Mutant of RecentlyClosed: those that have come back stay in the list.
RecentlyClosedStays(old, oldTotal) ==
  [m \in Migrators |->
     IF old[m] \in 0..(TwoWeeks - 1) THEN old[m]
     ELSE IF m \in oldTotal \ NewTotal THEN 0 ELSE Never]

\* _compute_recently_closed
RecentlyClosed(old, oldTotal) ==
  [m \in Migrators |->
     IF m \in NewTotal THEN Never
     ELSE IF old[m] \in 0..(TwoWeeks - 1) THEN old[m]
     ELSE IF m \in oldTotal THEN 0 ELSE Never]

\* The lists. Between the first and the last of them only writing a file can fail.
WriteLists ==
  /\ pc = "pages" /\ NewTotal \subseteq clone.json
  /\ clone' = [clone EXCEPT
                 !.page = [k \in Kinds \ {"none"} |-> {m \in NewTotal : loaded[m] = k}],
                 !.total = NewTotal,
                 !.closed = RecentlyClosed(repo.closed, repo.total)]
  /\ pc' = "remove"
  /\ UNCHANGED <<kind, repo, loaded, chosen, since, failures>>

\* Mutant of OldFiles: the files of what is closed go at once.
OldFilesClosed == clone.json \ clone.total

OldFiles == {m \in clone.json \ clone.total : clone.closed[m] = Never}

Remove(m) ==
  /\ pc = "remove" /\ m \in OldFiles
  /\ clone' = [clone EXCEPT !.json = @ \ {m}]
  /\ UNCHANGED <<kind, repo, pc, loaded, chosen, since, failures>>

\* The deploy step, after a run that succeeded.
Finish ==
  /\ pc = "remove" /\ OldFiles = {}
  /\ repo' = clone /\ pc' = "idle"
  /\ since' = [m \in Migrators |-> IF m \in clone.total THEN 0 ELSE since[m]]
  /\ UNCHANGED <<kind, clone, loaded, chosen, failures>>

\* A page or `git rm` raises: "deploy" is not skipped. Or the job is cancelled or
\* takes too long: it is.
Fail ==
  /\ pc # "idle" /\ failures < MaxFailures /\ failures' = failures + 1
  /\ pc' = "idle"
  /\ repo' \in {repo, clone} /\ clone' = repo'
  /\ since' = [m \in Migrators |-> IF m \in repo'.total THEN 0 ELSE since[m]]
  /\ UNCHANGED <<kind, loaded, chosen>>

Job == (\E f \in Filters : Start(f)) \/ WriteLists \/ Finish
       \/ \E m \in Migrators : Page(m) \/ Remove(m)

Next ==
  \/ \E m \in Migrators, k \in Kinds : MakeMigrators(m, k)
  \/ Tick \/ Job \/ Fail

Spec == Init /\ [][Next]_vars

-----------------------------------------------------------------------------
TypeOK ==
  /\ kind \in [Migrators -> Kinds] /\ loaded \in [Migrators -> Kinds]
  /\ repo \in Status /\ clone \in Status
  /\ pc \in {"idle", "pages", "remove"} /\ since \in [Migrators -> Age]
  /\ chosen \in Filters \cup {{}} /\ failures \in 0..MaxFailures

\* "keep anything recent": the page of a migration is removed only two weeks after
\* the list of migrations last had it, whatever runs failed in between; a page that
\* never got into a list, because its first run failed, may go at once.
KeptTwoWeeks ==
  [][\A m \in repo.json \ repo'.json : since[m] = TwoWeeks]_vars

\* No migration is both closed and among the others, and each one is in one list,
\* also after a run that failed half way.
ListedOnce ==
  /\ repo.total = UNION {repo.page[k] : k \in Kinds \ {"none"}}
  /\ \A k, l \in Kinds \ {"none"} : k # l => repo.page[k] \cap repo.page[l] = {}
  /\ \A m \in repo.total : repo.closed[m] = Never /\ m \in repo.json
=============================================================================
