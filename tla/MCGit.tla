-------------------------------- MODULE MCGit --------------------------------
(* Git for TLC: the lock of git operations with each kind of executor, and   *)
(* the fork, the clones and the branches of several runs on a feedstock.     *)
(* `part` says which of them a behaviour is about; the other one rests.      *)
EXTENDS GitLock, GitPlatform, TLC

CONSTANTS p1, p2, s1, s2

VARIABLE part

\* GitLock itself is the lock of dask workers.
Pool      == INSTANCE GitLock WITH Kind <- "process"
InThreads == INSTANCE GitLock WITH Kind <- "thread"

-----------------------------------------------------------------------------
MCInit ==
  /\ part \in {"dask", "processes", "threads", "platform"}
  /\ Init
  /\ PlatformInit /\ (part # "platform" => upstream.default = "main" /\ ~dry)

\* Two threads of a process and one of another; an executor of threads has one process.
Busy == IF part = "threads" THEN {<<p1, s1>>, <<p1, s2>>} ELSE {<<p1, s1>>, <<p1, s2>>, <<p2, s1>>}

\* What a thread does next once it has begun.
Working(t) ==
  \/ part = "dask" /\ Runs(t)
  \/ part = "processes" /\ Pool!Runs(t)
  \/ part = "threads" /\ InThreads!Runs(t)

Locks ==
  /\ \E t \in Busy :
       \/ Working(t)
       \/ part # "platform" /\ Begin(t)
       \/ part = "dask" /\ AcquireDaskFails(t)
  /\ UNCHANGED <<part, platformVars>>

OnPlatform == part = "platform" /\ PlatformNext /\ UNCHANGED <<part, vars>>

MCNext == Locks \/ OnPlatform

MCVars == <<part, vars, platformVars>>

\* Every thread runs on.
MCSpec ==
  /\ MCInit /\ [][MCNext]_MCVars
  /\ \A t \in {<<p1, s1>>, <<p1, s2>>, <<p2, s1>>} : WF_vars(Working(t))
=============================================================================
