-------------------------------- MODULE GitLock --------------------------------
(***************************************************************************)
(* The lock of git operations, lock_git_operation: a re-entrant lock of    *)
(* the process's threads, one of the workers of a process pool, and a lock *)
(* of dask that DaskRLock makes re-entrant with a count of its own, taken  *)
(* in this order.  `self._rcount += 1` is a read and a write.              *)
(***************************************************************************)
EXTENDS Integers

CONSTANTS
  Procs, Slots,  \* the threads are the slots of the processes
  Kind,          \* the executor: "thread", "process" or "dask"
  None,          \* no owner
  MaxOps,        \* bound: git operations of a thread, nested ones included
  MaxFaults      \* bound: calls to dask's scheduler that raise

Threads == Procs \X Slots
Proc(t) == t[1]

ASSUME GitLockAssumption ==
  /\ Kind \in {"thread", "process", "dask"}
  /\ Kind = "thread" => \A p, q \in Procs : p = q
  /\ None \notin Procs \cup Threads
  /\ MaxOps \in Nat /\ MaxFaults \in Nat

Acquiring == {"thread", "process", "read", "write", "test", "acquire"}
Releasing == {"rtest", "rread", "rwrite", "rtest2", "rdask", "rprocess", "rthread"}
Stages == {"out", "body", "error"} \cup Acquiring \cup Releasing

VARIABLES
  at,           \* stage of each thread
  depth,        \* how often it has GIT_LOCK_THREAD
  tmp,          \* what it read of the count
  ops,          \* history: operations it began
  threadLock,   \* owner of GIT_LOCK_THREAD in each process
  processLock,  \* [owner, count] of the lock of the pool's manager
  rcount,       \* DaskRLock._rcount of each process
  daskLock,     \* the process that has the lock of dask
  faults

vars == <<at, depth, tmp, ops, threadLock, processLock, rcount, daskLock, faults>>

Init ==
  /\ at = [t \in Threads |-> "out"] /\ depth = [t \in Threads |-> 0]
  /\ tmp = [t \in Threads |-> 0] /\ ops = [t \in Threads |-> 0]
  /\ threadLock = [p \in Procs |-> None]
  /\ processLock = [owner |-> None, count |-> 0]
  /\ rcount = [p \in Procs |-> 0] /\ daskLock = None
  /\ faults = 0

Goto(t, s) == at' = [at EXCEPT ![t] = s]

-----------------------------------------------------------------------------
\* A thread begins a git operation, or calls another one in its body.
Begin(t) ==
  /\ at[t] \in {"out", "body"} /\ ops[t] < MaxOps
  /\ ops' = [ops EXCEPT ![t] = @ + 1] /\ Goto(t, "thread")
  /\ UNCHANGED <<depth, tmp, threadLock, processLock, rcount, daskLock, faults>>

\* Mutant of MayTake: a plain lock.
MayTakeOnce(t, owner) == owner = None

\* A re-entrant lock.
MayTake(t, owner) == owner \in {None, t}

\* Mutant of TakeThread: the thread lock is left out.
TakeNoThread(t) ==
  /\ at[t] = "thread"
  /\ depth' = [depth EXCEPT ![t] = @ + 1] /\ Goto(t, "process")
  /\ UNCHANGED <<tmp, ops, threadLock, processLock, rcount, daskLock, faults>>

TakeThread(t) ==
  /\ at[t] = "thread" /\ MayTake(t, threadLock[Proc(t)])
  /\ threadLock' = [threadLock EXCEPT ![Proc(t)] = t]
  /\ depth' = [depth EXCEPT ![t] = @ + 1] /\ Goto(t, "process")
  /\ UNCHANGED <<tmp, ops, processLock, rcount, daskLock, faults>>

\* DummyLock, unless this is a worker of a process pool.
TakeProcess(t) ==
  /\ at[t] = "process"
  /\ IF Kind = "process"
     THEN /\ MayTake(t, processLock.owner)
          /\ processLock' = [owner |-> t, count |-> processLock.count + 1]
     ELSE UNCHANGED processLock
  /\ Goto(t, IF Kind = "dask" THEN "read" ELSE "body")
  /\ UNCHANGED <<depth, tmp, ops, threadLock, rcount, daskLock, faults>>

-----------------------------------------------------------------------------
(* DaskRLock *)

ReadCount(t) ==
  /\ \/ at[t] = "read" /\ Goto(t, "write")
     \/ at[t] = "rread" /\ Goto(t, "rwrite")
  /\ tmp' = [tmp EXCEPT ![t] = rcount[Proc(t)]]
  /\ UNCHANGED <<depth, ops, threadLock, processLock, rcount, daskLock, faults>>

CountUp(t) ==
  /\ at[t] = "write" /\ Goto(t, "test")
  /\ rcount' = [rcount EXCEPT ![Proc(t)] = tmp[t] + 1]
  /\ UNCHANGED <<depth, tmp, ops, threadLock, processLock, daskLock, faults>>

TestFirst(t) ==
  /\ at[t] = "test"
  /\ Goto(t, IF rcount[Proc(t)] = 1 THEN "acquire" ELSE "body")
  /\ UNCHANGED <<depth, tmp, ops, threadLock, processLock, rcount, daskLock, faults>>

AcquireDask(t) ==
  /\ at[t] = "acquire" /\ daskLock = None
  /\ daskLock' = Proc(t) /\ Goto(t, "body")
  /\ UNCHANGED <<depth, tmp, ops, threadLock, processLock, rcount, faults>>

\* The exception passes the count by, and the other two locks are released.
AcquireDaskFails(t) ==
  /\ at[t] = "acquire" /\ faults < MaxFaults /\ faults' = faults + 1
  /\ Goto(t, "rprocess")
  /\ UNCHANGED <<depth, tmp, ops, threadLock, processLock, rcount, daskLock>>

\* The operation ends, with or without an exception: the locks are released backwards.
EndBody(t) ==
  /\ at[t] = "body" /\ Goto(t, IF Kind = "dask" THEN "rtest" ELSE "rprocess")
  /\ UNCHANGED <<depth, tmp, ops, threadLock, processLock, rcount, daskLock, faults>>

\* RuntimeError: "Lock not acquired so cannot be released!"
TestHeld(t) ==
  /\ at[t] = "rtest" /\ Goto(t, IF rcount[Proc(t)] = 0 THEN "error" ELSE "rread")
  /\ UNCHANGED <<depth, tmp, ops, threadLock, processLock, rcount, daskLock, faults>>

CountDown(t) ==
  /\ at[t] = "rwrite" /\ Goto(t, "rtest2")
  /\ rcount' = [rcount EXCEPT ![Proc(t)] = tmp[t] - 1]
  /\ UNCHANGED <<depth, tmp, ops, threadLock, processLock, daskLock, faults>>

TestLast(t) ==
  /\ at[t] = "rtest2"
  /\ Goto(t, IF rcount[Proc(t)] = 0 THEN "rdask" ELSE "rprocess")
  /\ UNCHANGED <<depth, tmp, ops, threadLock, processLock, rcount, daskLock, faults>>

\* The scheduler releases the lock of the process that has it, and no other.
ReleaseDask(t) ==
  /\ at[t] = "rdask" /\ Goto(t, "rprocess")
  /\ daskLock' = IF daskLock = Proc(t) THEN None ELSE daskLock
  /\ UNCHANGED <<depth, tmp, ops, threadLock, processLock, rcount, faults>>

-----------------------------------------------------------------------------
ReleaseProcess(t) ==
  /\ at[t] = "rprocess" /\ Goto(t, "rthread")
  /\ processLock' = IF Kind # "process" THEN processLock
                    ELSE [owner |-> IF processLock.count = 1 THEN None ELSE t,
                          count |-> processLock.count - 1]
  /\ UNCHANGED <<depth, tmp, ops, threadLock, rcount, daskLock, faults>>

ReleaseThread(t) ==
  /\ at[t] = "rthread"
  /\ depth' = [depth EXCEPT ![t] = @ - 1]
  /\ threadLock' = [threadLock EXCEPT ![Proc(t)] = IF depth[t] = 1 THEN None ELSE t]
  /\ Goto(t, IF depth[t] = 1 THEN "out" ELSE "body")
  /\ UNCHANGED <<tmp, ops, processLock, rcount, daskLock, faults>>

\* What the code does once it has begun.
Runs(t) ==
  \/ TakeThread(t) \/ TakeProcess(t)
  \/ ReadCount(t) \/ CountUp(t) \/ TestFirst(t) \/ AcquireDask(t)
  \/ EndBody(t)
  \/ TestHeld(t) \/ CountDown(t) \/ TestLast(t) \/ ReleaseDask(t)
  \/ ReleaseProcess(t) \/ ReleaseThread(t)

Next == \E t \in Threads : Begin(t) \/ AcquireDaskFails(t) \/ Runs(t)

Spec == Init /\ [][Next]_vars

-----------------------------------------------------------------------------
TypeOK ==
  /\ at \in [Threads -> Stages] /\ depth \in [Threads -> Nat]
  /\ tmp \in [Threads -> Int] /\ ops \in [Threads -> Nat]
  /\ threadLock \in [Procs -> Threads \cup {None}]
  /\ processLock \in [owner : Threads \cup {None}, count : Int]
  /\ rcount \in [Procs -> Int] /\ daskLock \in Procs \cup {None}
  /\ faults \in Nat

\* "Git operations are locked (globally) to prevent operations from interfering with
\* each other": no two threads, of one process or of two workers, are in a body, as
\* long as dask has answered (a call that raises leaves the count too high).
Exclusive ==
  faults = 0 => \A t, u \in Threads : at[t] = "body" /\ at[u] = "body" => t = u

\* "a reentrant lock": an operation that calls operations does not wait for itself, and
\* everyone gets in and out.
EveryoneGetsThrough == \A t \in Threads : at[t] = "thread" ~> at[t] = "out"
=============================================================================
