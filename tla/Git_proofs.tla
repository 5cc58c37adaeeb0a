------------------------------ MODULE Git_proofs ------------------------------
(***************************************************************************)
(* Git operations exclude each other for any number of workers, threads    *)
(* and nested operations; and a pull request is the commit of its run, for *)
(* any number of runs, commits and failures.                               *)
(***************************************************************************)
EXTENDS GitLock, GitPlatform, TLAPS

\* Stages that have the thread lock, and have yet to take what is inside of it.
Inside == Stages \ {"out", "thread"}

ThreadInv ==
  \A t \in Threads :
    /\ threadLock[Proc(t)] = t <=> depth[t] > 0
    /\ at[t] = "out" => depth[t] = 0
    /\ at[t] \in Inside => depth[t] > 0

HasProcess(t) == depth[t] > 1 \/ (depth[t] = 1 /\ at[t] \in {"body", "rprocess", "thread"})

ProcessInv ==
  Kind = "process" =>
    /\ \A t \in Threads : at[t] \in {"out", "thread", "process", "body", "rprocess", "rthread"}
    /\ processLock.owner = None => processLock.count = 0
    /\ \A t \in Threads :
         /\ HasProcess(t) => processLock.owner = t
         /\ processLock.owner = t =>
              processLock.count = IF at[t] \in {"process", "rthread"} THEN depth[t] - 1 ELSE depth[t]

HasDask(t) ==
  \/ depth[t] > 1
  \/ depth[t] = 1 /\ at[t] \in {"body", "thread", "rtest", "rread", "rwrite", "rtest2", "rdask"}

\* The count of a thread that has the thread lock follows from its stage.
Count(t) ==
  IF at[t] \in {"process", "read", "write", "rtest2", "rdask", "rprocess", "rthread"}
  THEN depth[t] - 1 ELSE depth[t]

DaskInv ==
  Kind = "dask" =>
    /\ \A p \in Procs : threadLock[p] = None => rcount[p] = 0
    /\ \A t \in Threads :
         /\ at[t] # "error"
         /\ depth[t] > 0 => rcount[Proc(t)] = Count(t)
         /\ at[t] = "write" => tmp[t] = depth[t] - 1
         /\ at[t] = "rwrite" => tmp[t] = depth[t]
         /\ at[t] \in {"acquire", "rdask"} => depth[t] = 1
         /\ HasDask(t) => daskLock = Proc(t)

IInv == TypeOK /\ ThreadInv /\ ProcessInv /\ DaskInv

\* The thread of a process is one of its threads.
LEMMA ProcOf == \A t \in Threads : Proc(t) \in Procs
BY DEF Proc, Threads

\* Begin keeps the invariant.
LEMMA BeginKeeps ==
  ASSUME IInv, NEW t \in Threads, Begin(t)
  PROVE  IInv'
<1> USE ProcOf, GitLockAssumption DEF IInv
<1>1. TypeOK'
  BY DEF TypeOK, Begin, Goto, Stages, Acquiring, Releasing
<1>2. ThreadInv'
  BY DEF TypeOK, ThreadInv, Begin, Goto, Inside, Stages, Acquiring, Releasing
<1>3. ProcessInv'
  BY DEF TypeOK, ThreadInv, ProcessInv, HasProcess, Begin, Goto, Inside, Stages, Acquiring, Releasing
<1>4. DaskInv'
  BY DEF TypeOK, ThreadInv, DaskInv, HasDask, Count, Begin, Goto, Inside, Stages, Acquiring, Releasing
<1> QED
  BY <1>1, <1>2, <1>3, <1>4

\* TakeThread keeps the invariant.
LEMMA TakeThreadKeeps ==
  ASSUME IInv, NEW t \in Threads, TakeThread(t)
  PROVE  IInv'
<1> USE ProcOf, GitLockAssumption DEF IInv
<1>1. TypeOK'
  BY DEF TypeOK, TakeThread, Goto, MayTake, Stages, Acquiring, Releasing
<1>2. ThreadInv'
  BY DEF TypeOK, ThreadInv, TakeThread, Goto, MayTake, Inside, Stages, Acquiring, Releasing
<1>3. ProcessInv'
  BY DEF TypeOK, ThreadInv, ProcessInv, HasProcess, TakeThread, Goto, MayTake, Inside, Stages, Acquiring, Releasing
<1>4. DaskInv'
  BY DEF TypeOK, ThreadInv, DaskInv, HasDask, Count, TakeThread, Goto, MayTake, Inside, Stages, Acquiring, Releasing
<1> QED
  BY <1>1, <1>2, <1>3, <1>4

\* TakeProcess keeps the invariant.
LEMMA TakeProcessKeeps ==
  ASSUME IInv, NEW t \in Threads, TakeProcess(t)
  PROVE  IInv'
<1> USE ProcOf, GitLockAssumption DEF IInv
<1>1. TypeOK'
  BY DEF TypeOK, TakeProcess, Goto, MayTake, Stages, Acquiring, Releasing
<1>2. ThreadInv'
  BY DEF TypeOK, ThreadInv, TakeProcess, Goto, MayTake, Inside, Stages, Acquiring, Releasing
<1>3. ProcessInv'
  BY DEF TypeOK, ThreadInv, ProcessInv, HasProcess, TakeProcess, Goto, MayTake, Inside, Stages, Acquiring, Releasing
<1>4. DaskInv'
  BY DEF TypeOK, ThreadInv, DaskInv, HasDask, Count, TakeProcess, Goto, MayTake, Inside, Stages, Acquiring, Releasing
<1> QED
  BY <1>1, <1>2, <1>3, <1>4

\* ReadCount keeps the invariant.
LEMMA ReadCountKeeps ==
  ASSUME IInv, NEW t \in Threads, ReadCount(t)
  PROVE  IInv'
<1> USE ProcOf, GitLockAssumption DEF IInv
<1>1. TypeOK'
  BY DEF TypeOK, ReadCount, Goto, Stages, Acquiring, Releasing
<1>2. ThreadInv'
  BY DEF TypeOK, ThreadInv, ReadCount, Goto, Inside, Stages, Acquiring, Releasing
<1>3. ProcessInv'
  BY DEF TypeOK, ThreadInv, ProcessInv, HasProcess, ReadCount, Goto, Inside, Stages, Acquiring, Releasing
<1>4. DaskInv'
  BY DEF TypeOK, ThreadInv, DaskInv, HasDask, Count, ReadCount, Goto, Inside, Stages, Acquiring, Releasing
<1> QED
  BY <1>1, <1>2, <1>3, <1>4

\* CountUp keeps the invariant.
LEMMA CountUpKeeps ==
  ASSUME IInv, NEW t \in Threads, CountUp(t)
  PROVE  IInv'
<1> USE ProcOf, GitLockAssumption DEF IInv
<1>1. TypeOK'
  BY DEF TypeOK, CountUp, Goto, Stages, Acquiring, Releasing
<1>2. ThreadInv'
  BY DEF TypeOK, ThreadInv, CountUp, Goto, Inside, Stages, Acquiring, Releasing
<1>3. ProcessInv'
  BY DEF TypeOK, ThreadInv, ProcessInv, HasProcess, CountUp, Goto, Inside, Stages, Acquiring, Releasing
<1>4. DaskInv'
  BY DEF TypeOK, ThreadInv, DaskInv, HasDask, Count, CountUp, Goto, Inside, Stages, Acquiring, Releasing
<1> QED
  BY <1>1, <1>2, <1>3, <1>4

\* TestFirst keeps the invariant.
LEMMA TestFirstKeeps ==
  ASSUME IInv, NEW t \in Threads, TestFirst(t)
  PROVE  IInv'
<1> USE ProcOf, GitLockAssumption DEF IInv
<1>1. TypeOK'
  BY DEF TypeOK, TestFirst, Goto, Stages, Acquiring, Releasing
<1>2. ThreadInv'
  BY DEF TypeOK, ThreadInv, TestFirst, Goto, Inside, Stages, Acquiring, Releasing
<1>3. ProcessInv'
  BY DEF TypeOK, ThreadInv, ProcessInv, HasProcess, TestFirst, Goto, Inside, Stages, Acquiring, Releasing
<1>4. DaskInv'
  BY DEF TypeOK, ThreadInv, DaskInv, HasDask, Count, TestFirst, Goto, Inside, Stages, Acquiring, Releasing
<1> QED
  BY <1>1, <1>2, <1>3, <1>4

\* AcquireDask keeps the invariant.
LEMMA AcquireDaskKeeps ==
  ASSUME IInv, NEW t \in Threads, AcquireDask(t)
  PROVE  IInv'
<1> USE ProcOf, GitLockAssumption DEF IInv
<1>1. TypeOK'
  BY DEF TypeOK, AcquireDask, Goto, Stages, Acquiring, Releasing
<1>2. ThreadInv'
  BY DEF TypeOK, ThreadInv, AcquireDask, Goto, Inside, Stages, Acquiring, Releasing
<1>3. ProcessInv'
  BY DEF TypeOK, ThreadInv, ProcessInv, HasProcess, AcquireDask, Goto, Inside, Stages, Acquiring, Releasing
<1>4. DaskInv'
  BY DEF TypeOK, ThreadInv, DaskInv, HasDask, Count, AcquireDask, Goto, Inside, Stages, Acquiring, Releasing
<1> QED
  BY <1>1, <1>2, <1>3, <1>4

\* EndBody keeps the invariant.
LEMMA EndBodyKeeps ==
  ASSUME IInv, NEW t \in Threads, EndBody(t)
  PROVE  IInv'
<1> USE ProcOf, GitLockAssumption DEF IInv
<1>1. TypeOK'
  BY DEF TypeOK, EndBody, Goto, Stages, Acquiring, Releasing
<1>2. ThreadInv'
  BY DEF TypeOK, ThreadInv, EndBody, Goto, Inside, Stages, Acquiring, Releasing
<1>3. ProcessInv'
  BY DEF TypeOK, ThreadInv, ProcessInv, HasProcess, EndBody, Goto, Inside, Stages, Acquiring, Releasing
<1>4. DaskInv'
  BY DEF TypeOK, ThreadInv, DaskInv, HasDask, Count, EndBody, Goto, Inside, Stages, Acquiring, Releasing
<1> QED
  BY <1>1, <1>2, <1>3, <1>4

\* TestHeld keeps the invariant.
LEMMA TestHeldKeeps ==
  ASSUME IInv, NEW t \in Threads, TestHeld(t)
  PROVE  IInv'
<1> USE ProcOf, GitLockAssumption DEF IInv
<1>1. TypeOK'
  BY DEF TypeOK, TestHeld, Goto, Stages, Acquiring, Releasing
<1>2. ThreadInv'
  BY DEF TypeOK, ThreadInv, TestHeld, Goto, Inside, Stages, Acquiring, Releasing
<1>3. ProcessInv'
  BY DEF TypeOK, ThreadInv, ProcessInv, HasProcess, TestHeld, Goto, Inside, Stages, Acquiring, Releasing
<1>4. DaskInv'
  BY DEF TypeOK, ThreadInv, DaskInv, HasDask, Count, TestHeld, Goto, Inside, Stages, Acquiring, Releasing
<1> QED
  BY <1>1, <1>2, <1>3, <1>4

\* CountDown keeps the invariant.
LEMMA CountDownKeeps ==
  ASSUME IInv, NEW t \in Threads, CountDown(t)
  PROVE  IInv'
<1> USE ProcOf, GitLockAssumption DEF IInv
<1>1. TypeOK'
  BY DEF TypeOK, CountDown, Goto, Stages, Acquiring, Releasing
<1>2. ThreadInv'
  BY DEF TypeOK, ThreadInv, CountDown, Goto, Inside, Stages, Acquiring, Releasing
<1>3. ProcessInv'
  BY DEF TypeOK, ThreadInv, ProcessInv, HasProcess, CountDown, Goto, Inside, Stages, Acquiring, Releasing
<1>4. DaskInv'
  BY DEF TypeOK, ThreadInv, DaskInv, HasDask, Count, CountDown, Goto, Inside, Stages, Acquiring, Releasing
<1> QED
  BY <1>1, <1>2, <1>3, <1>4

\* TestLast keeps the invariant.
LEMMA TestLastKeeps ==
  ASSUME IInv, NEW t \in Threads, TestLast(t)
  PROVE  IInv'
<1> USE ProcOf, GitLockAssumption DEF IInv
<1>1. TypeOK'
  BY DEF TypeOK, TestLast, Goto, Stages, Acquiring, Releasing
<1>2. ThreadInv'
  BY DEF TypeOK, ThreadInv, TestLast, Goto, Inside, Stages, Acquiring, Releasing
<1>3. ProcessInv'
  BY DEF TypeOK, ThreadInv, ProcessInv, HasProcess, TestLast, Goto, Inside, Stages, Acquiring, Releasing
<1>4. DaskInv'
  BY DEF TypeOK, ThreadInv, DaskInv, HasDask, Count, TestLast, Goto, Inside, Stages, Acquiring, Releasing
<1> QED
  BY <1>1, <1>2, <1>3, <1>4

\* ReleaseDask keeps the invariant.
LEMMA ReleaseDaskKeeps ==
  ASSUME IInv, NEW t \in Threads, ReleaseDask(t)
  PROVE  IInv'
<1> USE ProcOf, GitLockAssumption DEF IInv
<1>1. TypeOK'
  BY DEF TypeOK, ReleaseDask, Goto, Stages, Acquiring, Releasing
<1>2. ThreadInv'
  BY DEF TypeOK, ThreadInv, ReleaseDask, Goto, Inside, Stages, Acquiring, Releasing
<1>3. ProcessInv'
  BY DEF TypeOK, ThreadInv, ProcessInv, HasProcess, ReleaseDask, Goto, Inside, Stages, Acquiring, Releasing
<1>4. DaskInv'
  BY DEF TypeOK, ThreadInv, DaskInv, HasDask, Count, ReleaseDask, Goto, Inside, Stages, Acquiring, Releasing
<1> QED
  BY <1>1, <1>2, <1>3, <1>4

\* ReleaseProcess keeps the invariant.
LEMMA ReleaseProcessKeeps ==
  ASSUME IInv, NEW t \in Threads, ReleaseProcess(t)
  PROVE  IInv'
<1> USE ProcOf, GitLockAssumption DEF IInv
<1>1. TypeOK'
  BY DEF TypeOK, ReleaseProcess, Goto, Stages, Acquiring, Releasing
<1>2. ThreadInv'
  BY DEF TypeOK, ThreadInv, ReleaseProcess, Goto, Inside, Stages, Acquiring, Releasing
<1>3. ProcessInv'
  BY DEF TypeOK, ThreadInv, ProcessInv, HasProcess, ReleaseProcess, Goto, Inside, Stages, Acquiring, Releasing
<1>4. DaskInv'
  BY DEF TypeOK, ThreadInv, DaskInv, HasDask, Count, ReleaseProcess, Goto, Inside, Stages, Acquiring, Releasing
<1> QED
  BY <1>1, <1>2, <1>3, <1>4

\* ReleaseThread keeps the invariant.
LEMMA ReleaseThreadKeeps ==
  ASSUME IInv, NEW t \in Threads, ReleaseThread(t)
  PROVE  IInv'
<1> USE ProcOf, GitLockAssumption DEF IInv
<1>1. TypeOK'
  BY DEF TypeOK, ThreadInv, ReleaseThread, Goto, Inside, Stages, Acquiring, Releasing
<1>2. ThreadInv'
  BY DEF TypeOK, ThreadInv, ReleaseThread, Goto, Inside, Stages, Acquiring, Releasing
<1>3. ProcessInv'
  BY DEF TypeOK, ThreadInv, ProcessInv, HasProcess, ReleaseThread, Goto, Inside, Stages, Acquiring, Releasing
<1>4. DaskInv'
  BY DEF TypeOK, ThreadInv, DaskInv, HasDask, Count, ReleaseThread, Goto, Inside, Stages, Acquiring, Releasing
<1> QED
  BY <1>1, <1>2, <1>3, <1>4

\* The initial state, where nobody has a lock.
LEMMA InitInv == Init => IInv
<1> SUFFICES ASSUME Init PROVE IInv
  OBVIOUS
<1> USE ProcOf, GitLockAssumption DEF Init
<1>1. TypeOK
  BY DEF TypeOK, Stages
<1>2. ThreadInv
  BY DEF ThreadInv, Inside, Threads
<1>3. ProcessInv /\ DaskInv
  BY DEF ProcessInv, HasProcess, DaskInv, HasDask, Threads
<1> QED
  BY <1>1, <1>2, <1>3 DEF IInv

\* What is kept in any case: a call to dask that raises may break the invariant.
FInv == faults \in Nat /\ (faults = 0 => IInv)

\* Every step keeps it.
LEMMA InductiveInv ==
  ASSUME FInv, [Next]_vars
  PROVE  FInv'
<1>1. CASE UNCHANGED vars
  BY <1>1 DEF FInv, vars, IInv, TypeOK, ThreadInv, ProcessInv, HasProcess, DaskInv, HasDask, Count
<1>2. ASSUME NEW t \in Threads, AcquireDaskFails(t) PROVE FInv'
  BY <1>2 DEF FInv, AcquireDaskFails
<1>3. ASSUME NEW t \in Threads, Begin(t) \/ Runs(t) PROVE FInv'
  <2>1. faults' = faults
    BY <1>3 DEF Begin, Runs, TakeThread, TakeProcess, ReadCount, CountUp, TestFirst, AcquireDask,
       EndBody, TestHeld, CountDown, TestLast, ReleaseDask, ReleaseProcess, ReleaseThread
  <2>2. IInv => IInv'
    BY <1>3, BeginKeeps, TakeThreadKeeps, TakeProcessKeeps, ReadCountKeeps, CountUpKeeps,
       TestFirstKeeps, AcquireDaskKeeps, EndBodyKeeps, TestHeldKeeps,
       CountDownKeeps, TestLastKeeps, ReleaseDaskKeeps, ReleaseProcessKeeps,
       ReleaseThreadKeeps DEF Runs
  <2> QED
    BY <2>1, <2>2 DEF FInv
<1> QED
  BY <1>1, <1>2, <1>3 DEF Next

\* Two bodies in one process have the same thread lock; in two, the same lock of the
\* pool or of dask.
LEMMA InvExcludes == FInv => Exclusive
<1> SUFFICES ASSUME IInv, NEW t \in Threads, NEW u \in Threads, at[t] = "body", at[u] = "body"
             PROVE  t = u
  BY DEF Exclusive, FInv
<1>1. depth[t] > 0 /\ depth[u] > 0 /\ threadLock[Proc(t)] = t /\ threadLock[Proc(u)] = u
  BY DEF IInv, ThreadInv, Inside, Stages, Acquiring, Releasing
<1>2. CASE Kind = "thread"
  BY <1>1, <1>2, ProcOf, GitLockAssumption
<1>3. CASE Kind = "process"
  BY <1>1, <1>3 DEF IInv, TypeOK, ProcessInv, HasProcess
<1>4. CASE Kind = "dask"
  <2>1. HasDask(t) /\ HasDask(u)
    BY <1>1 DEF HasDask, IInv, TypeOK
  <2> QED
    BY <1>1, <1>4, <2>1 DEF IInv, DaskInv
<1> QED
  BY <1>2, <1>3, <1>4, GitLockAssumption

\* "Git operations are locked (globally)": at most one thread of all the workers is in
\* the body of lock_git_operation, as long as none of dask's calls has raised.
THEOREM GitOperationsExclude == Spec => []Exclusive
<1>1. Init => FInv
  BY InitInv DEF Init, FInv
<1>2. FInv /\ [Next]_vars => FInv'
  BY InductiveInv
<1> QED
  BY <1>1, <1>2, InvExcludes, PTL DEF Spec

-----------------------------------------------------------------------------
(* GitPlatform: branches and pull requests of the runs for one feedstock *)

\* Before a run pushes, and before it asks for a pull request.
ToPush == {"fork", "clone", "fetch", "branch", "addToken", "push"}
ToAsk == ToPush \cup {"pr"}

\* A commit of a run, on one that the feedstock had when the run began or later.
Current(c, since, r) == \E n \in Nat : c = Own(n, r) /\ n >= since

\* The feedstock has one branch, whose last commit is no older than what was seen of it.
OneHead ==
  /\ \E c \in Nat : upstream.heads = [n \in {upstream.default} |-> c] /\ first <= c
  /\ upstream = [default |-> upstream.default, heads |-> upstream.heads]

\* The branches and the pull requests are of the runs until now.
RunsUntilNow ==
  /\ run \in Nat /\ first \in Nat /\ (pc # "idle" => branch = run)
  /\ \A b \in DOMAIN pushed : b \in Nat /\ b <= run /\ (pc \in ToPush => b < run)
  /\ \A pr \in prs : pr.head \in Nat /\ pr.head <= run /\ (pc \in ToAsk => pr.head < run)

IsClone(c) ==
  \E d, l, o, u, h, t :
    c = <<[default |-> d, local |-> l, origin |-> o, up |-> u, head |-> h, token |-> t]>>

\* What the run has so far: no branch of its own on the fork, the feedstock as it was
\* after the run began, its commit on that.
OfThisRun ==
  /\ pc \in {"fetch", "branch", "addToken", "push"} => IsClone(clone)
  /\ pc \in {"fetch", "branch"} => branch \notin DOMAIN clone[1].origin
  /\ pc = "branch" => \A n \in DOMAIN clone[1].up : clone[1].up[n] \in Nat /\ clone[1].up[n] >= first
  /\ pc \in {"addToken", "push"} => Current(clone[1].head, first, run)
  /\ pc = "push" => ~dry
  /\ pc = "pr" /\ ~dry => branch \in DOMAIN pushed /\ Current(pushed[branch], first, run)

IsPullRequest(pr) ==
  \E h, b, f, o, c : pr = [head |-> h, base |-> b, first |-> f, open |-> o, commit |-> c]

EachIsCurrent ==
  \A pr \in prs :
    /\ IsPullRequest(pr)
    /\ Current(pr.commit, pr.first, pr.head)

PlatformInv == OneHead /\ RunsUntilNow /\ OfThisRun /\ EachIsCurrent

\* A clone with or without the token is the same otherwise.
LEMMA WithToken ==
  ASSUME IsClone(clone), NEW x, clone' = <<[clone[1] EXCEPT !.token = x]>>
  PROVE  IsClone(clone') /\ clone'[1].head = clone[1].head
<1>1. PICK d, l, o, u, h, t :
        clone = <<[default |-> d, local |-> l, origin |-> o, up |-> u, head |-> h, token |-> t]>>
  BY DEF IsClone
<1>2. clone' = <<[default |-> d, local |-> l, origin |-> o, up |-> u, head |-> h, token |-> x]>>
  BY <1>1
<1>3. IsClone(clone')
  BY <1>2 DEF IsClone
<1> QED
  BY <1>1, <1>2, <1>3

\* A pull request is the same when it is closed.
LEMMA Closed ==
  ASSUME NEW pr, IsPullRequest(pr), NEW x
  PROVE  /\ IsPullRequest([pr EXCEPT !.open = x])
         /\ [pr EXCEPT !.open = x].head = pr.head
         /\ [pr EXCEPT !.open = x].first = pr.first
         /\ [pr EXCEPT !.open = x].commit = pr.commit
<1>1. PICK h, b, f, o, c : pr = [head |-> h, base |-> b, first |-> f, open |-> o, commit |-> c]
  BY DEF IsPullRequest
<1>2. [pr EXCEPT !.open = x] = [head |-> h, base |-> b, first |-> f, open |-> x, commit |-> c]
  BY <1>1
<1>3. IsPullRequest([pr EXCEPT !.open = x])
  BY <1>2 DEF IsPullRequest
<1> QED
  BY <1>1, <1>2, <1>3

LEMMA InvAtFirst == PlatformInit => PlatformInv
<1> SUFFICES ASSUME PlatformInit PROVE PlatformInv
  OBVIOUS
<1>1. PICK n \in Names : upstream = [default |-> n, heads |-> [m \in {n} |-> 1]]
  BY DEF PlatformInit
<1>2. OneHead
  BY <1>1 DEF PlatformInit, OneHead
<1> QED
  BY <1>2 DEF PlatformInit, PlatformInv, RunsUntilNow, OfThisRun, EachIsCurrent, ToPush, ToAsk

\* The maintainers commit and rename.
LEMMA UpstreamStep ==
  ASSUME PlatformInv, Commit \/ RenameDefault
  PROVE  PlatformInv'
<1>1. PICK c \in Nat : upstream.heads = [n \in {upstream.default} |-> c] /\ first <= c
  BY DEF PlatformInv, OneHead
<1>2. OneHead'
  <2>1. CASE Commit
    <3>1. upstream' = [default |-> upstream.default, heads |-> [n \in {upstream.default} |-> c + 1]]
      BY <1>1, <2>1 DEF Commit, PlatformInv, OneHead
    <3>2. first' = first /\ first <= c + 1 /\ c + 1 \in Nat
      BY <1>1, <2>1 DEF Commit, PlatformInv, RunsUntilNow
    <3> QED
      BY <3>1, <3>2 DEF OneHead
  <2>2. CASE RenameDefault
    <3>1. PICK n \in Names :
            upstream' = [default |-> n, heads |-> Renamed(upstream.heads, upstream.default, n)]
      BY <2>2 DEF RenameDefault
    <3>2. Renamed(upstream.heads, upstream.default, n) = [m \in {n} |-> c]
      BY <1>1 DEF Renamed
    <3> QED
      BY <1>1, <2>2, <3>1, <3>2 DEF RenameDefault, OneHead
  <2> QED
    BY <2>1, <2>2
<1>3. UNCHANGED <<pushed, prs, dry, run, branch, first, clone, pc>>
  BY DEF Commit, RenameDefault, platform
<1> QED
  BY <1>2, <1>3 DEF PlatformInv, RunsUntilNow, OfThisRun, EachIsCurrent

\* A step after which the run has nothing to lose.
LEMMA PlainStep ==
  ASSUME PlatformInv, UNCHANGED <<upstream, pushed, prs, dry, run, branch, first>>,
         \/ pc' \in {"idle", "failed", "comment", "duplicate"} /\ pc # "idle"
         \/ pc' = "clone" /\ pc = "fork"
         \/ pc' = pc /\ clone' = clone
  PROVE  PlatformInv'
  BY DEF PlatformInv, OneHead, RunsUntilNow, OfThisRun, EachIsCurrent, ToPush, ToAsk

LEMMA InvIsKept == PlatformInv /\ [PlatformNext]_platformVars => PlatformInv'
<1> SUFFICES ASSUME PlatformInv, [PlatformNext]_platformVars PROVE PlatformInv'
  OBVIOUS
<1> USE DEF platform
<1>1. CASE Commit \/ RenameDefault
  BY <1>1, UpstreamStep
<1>2. CASE ForkIsReady
  BY <1>2, PlainStep DEF ForkIsReady
<1>3. CASE Close
  <2>1. PICK pr \in prs :
          /\ prs' = (prs \ {pr}) \cup {[pr EXCEPT !.open = FALSE]}
          /\ pushed' = IF pr.head \in DOMAIN pushed
                       THEN Restrict(pushed, DOMAIN pushed \ {pr.head}) ELSE pushed
    BY <1>3 DEF Close
  <2>2. /\ UNCHANGED <<upstream, dry, run, branch, first, clone, pc>>
        /\ \A b \in DOMAIN pushed' : b \in DOMAIN pushed /\ pushed'[b] = pushed[b]
        /\ \A b \in DOMAIN pushed : b # pr.head => b \in DOMAIN pushed'
    BY <1>3, <2>1 DEF Close, Restrict
  <2> DEFINE closed == [pr EXCEPT !.open = FALSE]
  <2>3. IsPullRequest(pr) /\ Current(pr.commit, pr.first, pr.head)
    BY DEF PlatformInv, EachIsCurrent
  <2>4. IsPullRequest(closed) /\ closed.head = pr.head /\ closed.first = pr.first /\ closed.commit = pr.commit
    BY <2>3, Closed
  <2>5. EachIsCurrent'
    BY <2>1, <2>3, <2>4 DEF PlatformInv, EachIsCurrent
  <2>6. RunsUntilNow'
    BY <2>1, <2>2, <2>4 DEF PlatformInv, RunsUntilNow
  <2>7. OneHead'
    BY <2>2 DEF PlatformInv, OneHead
  <2>8. pc = "pr" /\ ~dry => branch \in DOMAIN pushed' /\ pushed'[branch] = pushed[branch]
    <3>1. pc = "pr" => pr.head # branch
      BY DEF PlatformInv, RunsUntilNow, ToAsk
    <3>2. pc = "pr" /\ ~dry => branch \in DOMAIN pushed
      BY DEF PlatformInv, OfThisRun
    <3> QED
      BY <2>2, <3>1, <3>2
  <2>9. OfThisRun'
    BY <2>2, <2>8 DEF PlatformInv, OfThisRun
  <2> QED
    BY <2>5, <2>6, <2>7, <2>9 DEF PlatformInv
<1>4. CASE StartRun
  <2>1. PICK n \in Names : first' = IF n \in DOMAIN upstream.heads THEN upstream.heads[n] ELSE 0
    BY <1>4 DEF StartRun
  <2>2. OneHead' /\ first' \in Nat
    BY <1>4, <2>1 DEF StartRun, PlatformInv, OneHead
  <2> QED
    BY <1>4, <2>2 DEF StartRun, BranchName, PlatformInv, RunsUntilNow, OfThisRun,
                      EachIsCurrent, ToPush, ToAsk
<1>5. CASE SyncDefaultBranch \/ CreateFork \/ DryFork
  BY <1>5, PlainStep DEF SyncDefaultBranch, CreateFork, DryFork
<1>6. CASE CloneRepo
  <2>1. CASE Raises
    BY <1>6, <2>1, PlainStep DEF CloneRepo, Raises
  <2>2. CASE ~Raises
    <3>1. /\ pc' = "fetch" /\ pc = "clone" /\ IsClone(clone')
          /\ clone'[1].origin = IF dry THEN <<>> ELSE pushed
      BY <1>6, <2>2 DEF CloneRepo, IsClone
    <3>2. branch \notin DOMAIN clone'[1].origin
      BY <3>1 DEF PlatformInv, RunsUntilNow, ToPush
    <3> QED
      BY <1>6, <3>1, <3>2 DEF CloneRepo, PlatformInv, OneHead, RunsUntilNow, OfThisRun,
                              EachIsCurrent, ToPush, ToAsk
  <2> QED
    BY <2>1, <2>2
<1>7. CASE Fetch
  <2>1. PICK d, l, o, u, h, t :
          clone = <<[default |-> d, local |-> l, origin |-> o, up |-> u, head |-> h, token |-> t]>>
    BY <1>7 DEF Fetch, PlatformInv, OfThisRun, IsClone
  <2>2. clone' = <<[default |-> d, local |-> l, origin |-> o, up |-> upstream.heads, head |-> h, token |-> t]>>
    BY <1>7, <2>1 DEF Fetch
  <2>3. IsClone(clone') /\ clone'[1].origin = clone[1].origin /\ clone'[1].up = upstream.heads
    BY <2>1, <2>2 DEF IsClone
  <2>4. \A n \in DOMAIN upstream.heads : upstream.heads[n] \in Nat /\ upstream.heads[n] >= first
    BY DEF PlatformInv, OneHead, RunsUntilNow
  <2> QED
    BY <1>7, <2>3, <2>4 DEF Fetch, PlatformInv, OneHead, RunsUntilNow, OfThisRun,
                            EachIsCurrent, ToPush, ToAsk
<1>8. CASE BranchAndCommit
  <2>1. CASE base \notin DOMAIN clone[1].up
    BY <1>8, <2>1, PlainStep DEF BranchAndCommit, Raises
  <2>2. CASE base \in DOMAIN clone[1].up
    <3>1. PICK d, l, o, u, h, t :
            clone = <<[default |-> d, local |-> l, origin |-> o, up |-> u, head |-> h, token |-> t]>>
      BY <1>8 DEF BranchAndCommit, PlatformInv, OfThisRun, IsClone
    <3>2. clone[1].up[base] \in Nat /\ clone[1].up[base] >= first /\ branch \notin DOMAIN clone[1].origin
      BY <1>8, <2>2 DEF BranchAndCommit, PlatformInv, OfThisRun
    <3>3. clone' = <<[default |-> d, local |-> l, origin |-> o, up |-> u,
                      head |-> Own(clone[1].up[base], run), token |-> t]>>
      BY <1>8, <2>2, <3>1, <3>2 DEF BranchAndCommit, HeadOfBase
    <3>4. IsClone(clone') /\ Current(clone'[1].head, first, run)
      BY <3>2, <3>3 DEF IsClone, Current
    <3> QED
      BY <1>8, <2>2, <3>4 DEF BranchAndCommit, PlatformInv, OneHead, RunsUntilNow, OfThisRun,
                              EachIsCurrent, ToPush, ToAsk
  <2> QED
    BY <2>1, <2>2
<1>9. CASE NothingToSend \/ NoSuchBase \/ EndRun \/ Cleanup
  BY <1>9, PlainStep DEF NothingToSend, NoSuchBase, EndRun, Cleanup,
                         Raises
<1>10. CASE AddToken
  <2>1. IsClone(clone) /\ clone' = <<[clone[1] EXCEPT !.token = TRUE]>>
    BY <1>10 DEF AddToken, PlatformInv, OfThisRun
  <2>3. IsClone(clone') /\ clone'[1].head = clone[1].head
    BY <2>1, WithToken
  <2> QED
    BY <1>10, <2>3 DEF AddToken, PlatformInv, OneHead, RunsUntilNow, OfThisRun,
                       EachIsCurrent, ToPush, ToAsk
<1>11. CASE Push
  <2>1. /\ \A b \in DOMAIN pushed' : b \in DOMAIN pushed \/ b = branch
        /\ branch \in DOMAIN pushed' /\ pushed'[branch] = clone[1].head /\ Current(clone[1].head, first, run)
    BY <1>11 DEF Push, PlatformInv, OfThisRun
  <2> QED
    BY <1>11, <2>1 DEF Push, PlatformInv, OneHead, RunsUntilNow, OfThisRun,
                       EachIsCurrent, ToPush, ToAsk
<1>12. CASE PushFails
  BY <1>12, PlainStep DEF PushFails
<1>13. CASE DryPush
  BY <1>13 DEF DryPush, PlatformInv, OneHead, RunsUntilNow, OfThisRun, EachIsCurrent, ToPush, ToAsk
<1>14. CASE CreatePullRequest
  <2>1. CASE SameHead
    BY <1>14, <2>1, PlainStep DEF CreatePullRequest
  <2>2. CASE ~SameHead
    <3> DEFINE new == [head |-> branch, base |-> base, first |-> first,
                       open |-> TRUE, commit |-> pushed[branch]]
    <3>1. prs' = prs \cup {new} /\ pc' = "comment" /\ pc = "pr" /\ ~dry
      BY <1>14, <2>2 DEF CreatePullRequest
    <3>2. Current(new.commit, new.first, new.head) /\ new.head = run /\ IsPullRequest(new)
      <4>1. new.commit = pushed[branch] /\ new.first = first /\ new.head = branch /\ branch = run
        BY <3>1 DEF PlatformInv, RunsUntilNow
      <4>2. IsPullRequest(new)
        BY DEF IsPullRequest
      <4> QED
        BY <3>1, <4>1, <4>2 DEF PlatformInv, OfThisRun
    <3>3. EachIsCurrent'
      BY <3>1, <3>2 DEF PlatformInv, EachIsCurrent
    <3>4. RunsUntilNow'
      BY <1>14, <3>1, <3>2 DEF CreatePullRequest, PlatformInv, RunsUntilNow, ToPush, ToAsk
    <3> QED
      BY <1>14, <3>1, <3>3, <3>4 DEF CreatePullRequest, PlatformInv, OneHead, OfThisRun
  <2> QED
    BY <2>1, <2>2
<1>15. CASE DryPullRequest
  BY <1>15, PlainStep DEF DryPullRequest
<1>16. CASE CommandFails
  BY <1>16, PlainStep DEF CommandFails, Fails
<1>17. CASE UNCHANGED platformVars
  BY <1>17, PlainStep DEF platformVars
<1> QED
  BY <1>1, <1>2, <1>3, <1>4, <1>5, <1>6, <1>7, <1>8, <1>9, <1>10, <1>11, <1>12, <1>13, <1>14,
     <1>15, <1>16, <1>17 DEF PlatformNext

\* A pull request is one commit of its own run, on a commit of the feedstock that is no
\* older than the run (GitCli.clone_fork_and_branch).
THEOREM PullRequestsAreCurrent == PlatformSpec => []PRsAreCurrent
<1>1. PlatformInv => PRsAreCurrent
  BY DEF PlatformInv, EachIsCurrent, Current, Own, PRsAreCurrent
<1> QED
  BY <1>1, InvAtFirst, InvIsKept, PTL DEF PlatformSpec
==============================================================================
