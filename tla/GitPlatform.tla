------------------------------ MODULE GitPlatform ------------------------------
(***************************************************************************)
(* The git side of one feedstock over several runs: the bot's fork, the    *)
(* clone of a run, the branch that is pushed and its pull request (GitCli, *)
(* GitHubBackend and DryRunBackend as run() uses them).  The maintainers   *)
(* push to the feedstock and rename its default branch at any time, a fork *)
(* takes its time, and any command may fail.                               *)
(***************************************************************************)
EXTENDS Integers, Sequences, FiniteSets, Functions

CONSTANTS
  Names,        \* names a default branch may have
  MaxCommits,   \* bound: commits on the feedstock's branches
  MaxRuns,      \* bound: runs
  MaxFailures     \* bound: commands that fail

ASSUME PlatformAssumption ==
  /\ Names # {} /\ {MaxCommits, MaxRuns, MaxFailures} \subseteq Nat

\* A commit is a number upstream; the bot's own are <<parent, run>>.
Own(c, r) == <<c, r>>

VARIABLES
  upstream,     \* [default, heads: the branches with their last commits]
  fork,         \* <<>>, or <<[ready, default, heads]>>
  pushed,       \* the bot's branches on the fork: [branch names -> commits]
  prs,          \* pull requests: [head, base, first: upstream's commit when the run began, open, commit]
  dry,          \* the run has the DryRunBackend
  forked,       \* DryRunBackend._repos
  run, base, branch, first,  \* number, base_branch and branch_name of the run; history
  clone,        \* <<>>, or <<[default, local, origin, up, head, token]>>
  pc,
  failures

platform == <<fork, pushed, prs>>
platformVars == <<upstream, platform, dry, forked, run, base, branch, first, clone, pc, failures>>

PlatformInit ==
  /\ \E n \in Names : upstream = [default |-> n, heads |-> [m \in {n} |-> 1]]
  /\ fork = <<>> /\ pushed = <<>> /\ prs = {}
  /\ dry \in BOOLEAN /\ forked = FALSE
  /\ run = 0 /\ base = upstream.default /\ branch = 0 /\ first = 0
  /\ clone = <<>> /\ pc = "idle" /\ failures = 0

-----------------------------------------------------------------------------
(* The feedstock and its maintainers *)

Renamed(heads, old, new) ==
  [n \in (DOMAIN heads \ {old}) \cup {new} |-> IF n = new THEN heads[old] ELSE heads[n]]

Commit ==
  /\ upstream.heads[upstream.default] < MaxCommits
  /\ upstream' = [upstream EXCEPT !.heads[upstream.default] = @ + 1]
  /\ UNCHANGED <<platform, dry, forked, run, base, branch, first, clone, pc, failures>>

RenameDefault ==
  \E n \in Names \ DOMAIN upstream.heads :
    /\ upstream' = [default |-> n, heads |-> Renamed(upstream.heads, upstream.default, n)]
    /\ UNCHANGED <<platform, dry, forked, run, base, branch, first, clone, pc, failures>>

\* A fork is a copy, some time after it was asked for.
ForkIsReady ==
  /\ fork # <<>> /\ ~fork[1].ready
  /\ fork' = <<[ready |-> TRUE, default |-> upstream.default, heads |-> upstream.heads]>>
  /\ UNCHANGED <<upstream, pushed, prs, dry, forked, run, base, branch, first, clone, pc, failures>>

\* A pull request is merged or closed, and the event job deletes its branch.
Close ==
  \E pr \in prs :
    /\ pr.open
    /\ prs' = (prs \ {pr}) \cup {[pr EXCEPT !.open = FALSE]}
    /\ pushed' = IF pr.head \in DOMAIN pushed THEN Restrict(pushed, DOMAIN pushed \ {pr.head}) ELSE pushed
    /\ UNCHANGED <<upstream, fork, dry, forked, run, base, branch, first, clone, pc, failures>>

-----------------------------------------------------------------------------
(* A run *)

Fails ==
  /\ failures < MaxFailures /\ failures' = failures + 1
  /\ pc' = "idle" /\ clone' = <<>>
  /\ UNCHANGED <<upstream, platform, dry, forked, run, base, branch, first>>
\* An error that needs no fault.
Raises == pc' = "idle" /\ clone' = <<>>

\* migrator.remote_branch and a part of a uuid.
BranchName == run + 1

\* base_branch comes from the node's attributes: it may have been renamed since.
StartRun ==
  /\ pc = "idle" /\ run < MaxRuns
  /\ \E n \in Names : base' = n /\ first' = IF n \in DOMAIN upstream.heads THEN upstream.heads[n] ELSE 0
  /\ run' = run + 1 /\ branch' = BranchName /\ pc' = "fork"
  /\ UNCHANGED <<upstream, platform, dry, forked, clone, failures>>

\* does_repository_exist and _sync_default_branch: the fork's default branch gets the
\* name that the feedstock's has.
SyncDefaultBranch ==
  /\ pc = "fork" /\ ~dry /\ fork # <<>>
  /\ IF fork[1].ready /\ fork[1].default # upstream.default
     THEN fork' = <<[fork[1] EXCEPT !.default = upstream.default,
                                    !.heads = Renamed(@, fork[1].default, upstream.default)]>>
     ELSE UNCHANGED fork
  /\ pc' = "clone"
  /\ UNCHANGED <<upstream, pushed, prs, dry, forked, run, base, branch, first, clone, failures>>

CreateFork ==
  /\ pc = "fork" /\ ~dry /\ fork = <<>>
  /\ fork' = <<[ready |-> FALSE, default |-> upstream.default, heads |-> upstream.heads]>>
  /\ pc' = "clone"
  /\ UNCHANGED <<upstream, pushed, prs, dry, forked, run, base, branch, first, clone, failures>>

DryFork ==
  /\ pc = "fork" /\ dry /\ forked' = TRUE /\ pc' = "clone"
  /\ UNCHANGED <<upstream, platform, dry, run, base, branch, first, clone, failures>>

\* GitCli.clone_fork_and_branch, up to the clone. Five seconds may not be enough for
\* a new fork. A dry run clones the feedstock in the place of its fork.
CloneRepo ==
  /\ pc = "clone"
  /\ IF ~dry /\ ~fork[1].ready
     THEN Raises
     ELSE LET from == IF dry THEN upstream ELSE fork[1]
              origin == IF dry THEN <<>> ELSE pushed
          IN  /\ clone' = <<[default |-> from.default, local |-> [n \in {from.default} |-> from.heads[n]],
                            origin |-> origin, up |-> <<>>, head |-> Own(0, 0), token |-> FALSE]>>
              /\ pc' = "fetch"
  /\ UNCHANGED <<upstream, platform, dry, forked, run, base, branch, first, failures>>

\* Mutant of HeadOfBase: without the last reset the base is what was cloned.
HeadAsCloned == IF base \in DOMAIN clone[1].local THEN clone[1].local[base] ELSE clone[1].up[base]

\* The base branch is checked out, or made from upstream/base, and then reset to it.
HeadOfBase == clone[1].up[base]

Fetch ==
  /\ pc = "fetch"
  /\ clone' = <<[clone[1] EXCEPT !.up = upstream.heads]>>
  /\ pc' = "branch"
  /\ UNCHANGED <<upstream, platform, dry, forked, run, base, branch, first, failures>>

\* The new branch is checked out: the one of this name on the fork, if there is one,
\* else a new one from the base. The migration commits to it.
BranchAndCommit ==
  /\ pc = "branch"
  /\ IF base \notin DOMAIN clone[1].up
     THEN Raises
     ELSE /\ clone' = <<[clone[1] EXCEPT !.head = IF branch \in DOMAIN clone[1].origin
                                                  THEN Own(clone[1].origin[branch][1], run)
                                                  ELSE Own(HeadOfBase, run)]>>
          /\ pc' = "addToken"
  /\ UNCHANGED <<upstream, platform, dry, forked, run, base, branch, first, failures>>

\* Nothing to send: the commit is empty, a spoofed pull request is recorded.
NothingToSend ==
  /\ pc = "addToken" /\ Raises
  /\ UNCHANGED <<upstream, platform, dry, forked, run, base, branch, first, failures>>

\* push_to_repository
AddToken ==
  /\ pc = "addToken" /\ ~dry
  /\ clone' = <<[clone[1] EXCEPT !.token = TRUE]>> /\ pc' = "push"
  /\ UNCHANGED <<upstream, platform, dry, forked, run, base, branch, first, failures>>

Push ==
  /\ pc = "push"
  /\ pushed' = [b \in DOMAIN pushed \cup {branch} |-> IF b = branch THEN clone[1].head ELSE pushed[b]]
  /\ clone' = <<[clone[1] EXCEPT !.token = FALSE]>> /\ pc' = "pr"
  /\ UNCHANGED <<upstream, fork, prs, dry, forked, run, base, branch, first, failures>>

\* The token is taken out in any case; then the error goes up to run_with_tmpdir.
PushFails ==
  /\ pc = "push" /\ failures < MaxFailures /\ failures' = failures + 1
  /\ pc' = "failed" /\ clone' = <<[clone[1] EXCEPT !.token = FALSE]>>
  /\ UNCHANGED <<upstream, platform, dry, forked, run, base, branch, first>>

Cleanup ==
  /\ pc = "failed" /\ Raises
  /\ UNCHANGED <<upstream, platform, dry, forked, run, base, branch, first, failures>>

DryPush ==
  /\ pc = "addToken" /\ dry /\ pc' = "pr"
  /\ UNCHANGED <<upstream, platform, dry, forked, run, base, branch, first, clone, failures>>

SameHead == \E pr \in prs : pr.open /\ pr.head = branch

\* GitHub refuses a second pull request of the head (DuplicatePullRequestError), and a
\* base that is not there.
CreatePullRequest ==
  /\ pc = "pr" /\ ~dry /\ (SameHead \/ base \in DOMAIN upstream.heads)
  /\ IF SameHead
     THEN pc' = "duplicate" /\ UNCHANGED prs
     ELSE /\ prs' = prs \cup {[head |-> branch, base |-> base, first |-> first,
                               open |-> TRUE, commit |-> pushed[branch]]}
          /\ pc' = "comment"
  /\ UNCHANGED <<upstream, fork, pushed, dry, forked, run, base, branch, first, clone, failures>>

NoSuchBase ==
  /\ pc = "pr" /\ ~dry /\ ~SameHead /\ base \notin DOMAIN upstream.heads /\ Raises
  /\ UNCHANGED <<upstream, platform, dry, forked, run, base, branch, first, failures>>

DryPullRequest ==
  /\ pc = "pr" /\ dry /\ pc' = "comment"
  /\ UNCHANGED <<upstream, platform, dry, forked, run, base, branch, first, clone, failures>>

\* comment_on_pull_request, if the rerender has something to say; a failure is an
\* error of the run, and the pull request stays.
EndRun ==
  /\ pc \in {"comment", "duplicate"} /\ Raises
  /\ UNCHANGED <<upstream, platform, dry, forked, run, base, branch, first, failures>>

CommandFails == pc \in {"fork", "clone", "fetch", "branch", "addToken", "pr", "comment"} /\ Fails

PlatformNext ==
  \/ Commit \/ RenameDefault \/ ForkIsReady \/ Close
  \/ StartRun \/ SyncDefaultBranch \/ CreateFork \/ DryFork
  \/ CloneRepo \/ Fetch \/ BranchAndCommit \/ NothingToSend
  \/ AddToken \/ Push \/ PushFails \/ Cleanup \/ DryPush
  \/ CreatePullRequest \/ NoSuchBase \/ DryPullRequest \/ EndRun \/ CommandFails

PlatformSpec == PlatformInit /\ [][PlatformNext]_platformVars

-----------------------------------------------------------------------------
\* A pull request is one commit of its own run on a commit of the feedstock that is no
\* older than the run, however old the fork is and whatever earlier runs left on it.
PRsAreCurrent ==
  \A pr \in prs : pr.commit[1] >= pr.first /\ pr.commit[2] = pr.head
================================================================================
