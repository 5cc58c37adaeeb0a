--------------------------- MODULE MigrationStatus ---------------------------
(***************************************************************************)
(* The page of one migration: the category that graph_migrator_status puts *)
(* each feedstock into, at every moment of GraphMigration, with attempts   *)
(* that fail. The report is made in a job of its own, from the records of  *)
(* the graph repository and the graph of the dumped migrator.              *)
(***************************************************************************)
EXTENDS GraphMigration

VARIABLES
  note,      \* [Nodes -> Notes]: pr_info.pre_pr_migrator_status of the migrator
  settled    \* closed for longer than settings().pull_request_reopen_window

statusVars == <<vars, note, settled>>

Notes == {"", "not solvable", "bot error"}

StatusInit == Init /\ note = [n \in Nodes |-> ""] /\ settled = {}

\* An attempt that raises, or that the solver finds no solution for.
FailedAttempt(n) ==
  /\ phase = "pass" /\ n \in todo /\ ~Skipped(n)
  /\ todo' = todo \ {n}
  /\ \E t \in Notes \ {""} : note' = [note EXCEPT ![n] = t]
  /\ UNCHANGED <<World, dumped, phase, seen, seenHealth, settled>>

IssueAfterAll(n) ==
  /\ Issue(n)
  /\ note' = [note EXCEPT ![n] = ""] /\ settled' = settled \ {n}

\* The quarter of an hour in which a pull request may be opened again is over.
Settle(n) ==
  /\ record[n] = "closed" /\ settled' = settled \cup {n}
  /\ UNCHANGED <<vars, note>>

OtherStep ==
  /\ \/ MakeMigrators \/ StartPass \/ Skip \/ EndPass
     \/ \E n \in Nodes : People(n)
  /\ settled' = {n \in settled : record'[n] = "closed"} /\ UNCHANGED note

StatusNext ==
  \/ OtherStep
  \/ \E n \in Nodes : FailedAttempt(n) \/ IssueAfterAll(n) \/ Settle(n)

StatusSpec == StatusInit /\ [][StatusNext]_statusVars

-----------------------------------------------------------------------------
(* The report *)

Reported == {n \in dumped.graph.node \ {Pinning} : health[n] # "archived"}

Buildable(n) ==
  ~FilterNotInMigration(health, n) /\ ~FilterNodeMigrated(dumped, record, health, n)

BotError(n) == note[n] = "bot error" \/ health[n] = "bad"

\* Mutant of CanBeArchived: pr_can_be_archived does not look at the state.
CanBeArchivedAnyway(n) == record[n] \in {"open", "closed"}
\* pr_can_be_archived
CanBeArchived(n) == record[n] = "closed" /\ n \in settled

\* The loop over `all_pr_jsons` finds the entry wherever there is one:
\* `manually_done` is never true.
Category(n) ==
  CASE record[n] = "lost" -> "bot-error"
    [] record[n] \in {"open", "closed"} -> IF CanBeArchived(n) THEN "done" ELSE "in-pr"
    [] record[n] = "none" /\ Buildable(n) /\ note[n] = "not solvable" -> "not-solvable"
    [] record[n] = "none" /\ Buildable(n) /\ note[n] # "not solvable" ->
         IF BotError(n) THEN "bot-error" ELSE "awaiting-pr"
    [] OTHER -> IF BotError(n) THEN "bot-error" ELSE "awaiting-parents"

In(category) == {n \in Reported : Category(n) = category}

-----------------------------------------------------------------------------
(* Properties *)

\* Nobody waits for parents that are all done: a healthy feedstock that the page
\* says is waiting for its parents has one on the page that is not done.
ParentsExplain ==
  \A n \in In("awaiting-parents") :
    (health[n] = "ok" /\ ~NeedToWait(n)) =>
      \E d \in Predecessors(dumped.graph, n) \cap Reported :
        d \notin In("done") /\ d \notin IgnoredDeps[n]
=============================================================================
