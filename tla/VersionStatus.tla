---------------------------- MODULE VersionStatus ----------------------------
(***************************************************************************)
(* What version_status.json says of one feedstock, against what the bot is *)
(* about to do: the report is made from the graph repository at any moment *)
(* of VersionFlow, between the job that finds a version and the one that   *)
(* merges it, and after attempts that failed.                              *)
(***************************************************************************)
EXTENDS VersionFlow

VARIABLE tried    \* version_pr_info.new_version_attempts: the versions with attempts

statusVars == <<vars, tried>>

StatusInit == Init /\ tried = {}

\* The attempt raises, its number is incremented and the error is recorded.
Fail ==
  /\ ~IsFiltered(new)
  /\ tried' = tried \cup {new}
  /\ UNCHANGED vars

\* A pull request resets the attempts.
Succeed == Migrate /\ tried' = tried \ {new}

StatusNext ==
  \/ Fail \/ Succeed
  \/ /\ \/ \E v \in Versions : Release(v) \/ Withdraw(v) \/ Push(v) \/ Merge(v) \/ Close(v)
        \/ Fetch \/ UpdateNode \/ UpdatePRs \/ Prep
     /\ UNCHANGED tried

StatusSpec == StatusInit /\ [][StatusNext]_statusVars

FilterVersion(v) == IF IsIgnored(v) THEN None ELSE v
OkVersion(v) == v \in Versions

\* Mutant of StatusVersion: only what prep has merged.
StatusVersionMerged == new

\* write_version_migrator_status: the version it puts into version_pr_info for as
\* long as the filter of the migrator looks at it.
StatusVersion ==
  IF ~OkVersion(FilterVersion(data)) THEN new
  ELSE IF OkVersion(FilterVersion(new)) THEN Max({data, new}) ELSE data

IsShown == OkVersion(StatusVersion) /\ ~IsFiltered(StatusVersion)
Queued == {v \in Versions : v = StatusVersion /\ IsShown /\ v \notin tried}
Errored == {v \in Versions : v = StatusVersion /\ IsShown /\ v \in tried}

-----------------------------------------------------------------------------

\* As long as nothing is withdrawn and nobody but the bot changes the version, what
\* the next prep and the next pass would propose is on the page, in the queue or
\* among the errors, although the report does not merge the versions the way prep
\* does.
NothingHidden ==
  withdrawals = 0 /\ pushes = 0 /\ ~IsFiltered(NewVersion) => Queued \cup Errored # {}
=============================================================================
