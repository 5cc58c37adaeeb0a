--------------------------- MODULE AutoTick_proofs ---------------------------
(***************************************************************************)
(* Proofs about AutoTick for every set of feedstocks and branches, every   *)
(* limit and every number of faults.                                       *)
(***************************************************************************)
EXTENDS AutoTick, FiniteSetTheorems, TLAPS

\* Where the job is, and what that says of the current feedstock and branch.
Located ==
  /\ pc \in InRun \cup {"node"} => node \in Nodes
  /\ pc \in InRun => branch \in Branches
  /\ pc = "ready" => local[node].attempts >= Attempt
  /\ opened => pc \in {"created", "returned", "sync"}

TypeInv == TypeOK /\ Located

\* Nothing the clone records of a migration is ever less than the repository.
Ahead ==
  pc # "idle" =>
    \A n \in Nodes, b \in Branches :
      remote[n].pred[b] # "none" => local[n].pred[b] # "none"

\* A run works on a branch that has no record, and ends with one.
Unmigrated ==
  /\ pc \in {"ready", "solved", "created", "returned"} =>
       local[node].pred[branch] = "none"
  /\ pc = "returned" => entry # "none"
  /\ pc = "sync" => local[node].pred[branch] # "none"

\* The latest pull request of a branch, when no record of it was lost, is known
\* to the repository or the clone, or the current run has just opened it.
Recorded ==
  \A n \in Nodes, b \in Branches :
    prs[n][b] = orphans[n][b] + 1 =>
      \/ remote[n].pred[b] # "none"
      \/ pc # "idle" /\ local[n].pred[b] # "none"
      \/ opened /\ n = node /\ b = branch

PRInv == Ahead /\ Unmigrated /\ Recorded /\ OnePRPerUid

\* The objects of pr_json that something refers to.
RefsStored ==
  /\ pc = "returned" /\ entry = "ref" => branch \in json[node]
  /\ pc # "idle" =>
       \A n \in Nodes, b \in Branches : local[n].pred[b] = "ref" => b \in json[n]

JsonInv == RefsStored /\ NoDanglingPrJson

-----------------------------------------------------------------------------
(* Lemmas about NodeInfo *)

\* Fresh is a NodeInfo.
LEMMA FreshType == Fresh \in NodeInfo
  BY DEF Fresh, NodeInfo

\* What the updates of one field of a NodeInfo keep.
LEMMA InfoUpdates ==
  ASSUME NEW i \in NodeInfo
  PROVE  /\ \A a \in Nat : [i EXCEPT !.attempts = a] \in NodeInfo
         /\ \A x \in {"no", "text", "dict"} : [i EXCEPT !.bad = x] \in NodeInfo
         /\ \A x \in BOOLEAN : [i EXCEPT !.archived = x] \in NodeInfo
         /\ \A x \in Branches \cup {NoBranch} : [i EXCEPT !.branch = x] \in NodeInfo
         /\ \A p \in [Branches -> {"none", "ref", "closed"}] :
              [i EXCEPT !.pred = p] \in NodeInfo
  BY DEF NodeInfo

\* The two syncs that take some of the fields of another NodeInfo.
LEMMA InfoMerge ==
  ASSUME NEW i \in NodeInfo, NEW j \in NodeInfo
  PROVE  /\ [i EXCEPT !.archived = j.archived, !.branch = j.branch] \in NodeInfo
         /\ [i EXCEPT !.pred = j.pred, !.bad = j.bad] \in NodeInfo
  BY DEF NodeInfo

\* One feedstock's entry is replaced in a store.
LEMMA StoreUpdate ==
  ASSUME NEW s \in [Nodes -> NodeInfo], NEW n \in Nodes, NEW i \in NodeInfo
  PROVE  [s EXCEPT ![n] = i] \in [Nodes -> NodeInfo]
  OBVIOUS

-----------------------------------------------------------------------------
(* Types *)

\* The initial states are well typed.
LEMMA TypeInit == Init => TypeInv
<1> SUFFICES ASSUME Init PROVE TypeInv
  OBVIOUS
<1>1. local \in [Nodes -> NodeInfo] /\ remote \in [Nodes -> NodeInfo]
  BY FreshType DEF Init
<1>2. /\ branches \in Seq(Branches) /\ todo \subseteq Nodes
      /\ json \in [Nodes -> SUBSET Branches]
  BY DEF Init
<1>3. /\ prs \in [Nodes -> [Branches -> Nat]]
      /\ orphans \in [Nodes -> [Branches -> Nat]]
  BY DEF Init
<1> QED
  BY <1>1, <1>2, <1>3 DEF Init, TypeInv, TypeOK, Located, InPass, InRun

\* Leave keeps the types of what it assigns, if a lost pull request is one of a
\* feedstock and a branch.
LEMMA LeaveType ==
  ASSUME TypeInv, NEW lost, lost => node \in Nodes /\ branch \in Branches, Leave(lost)
  PROVE  /\ branch' = NoBranch /\ entry' = "none" /\ opened' = FALSE
         /\ orphans' \in [Nodes -> [Branches -> Nat]]
         /\ before' = before
<1>1. CASE lost
  <2>1. orphans[node][branch] + 1 \in Nat
    BY <1>1 DEF TypeInv, TypeOK
  <2>2. [orphans[node] EXCEPT ![branch] = @ + 1] \in [Branches -> Nat]
    BY <1>1, <2>1 DEF TypeInv, TypeOK
  <2> QED
    BY <1>1, <2>2 DEF TypeInv, TypeOK, Leave
<1>2. CASE ~lost
  BY <1>2 DEF TypeInv, TypeOK, Leave
<1> QED
  BY <1>1, <1>2

\* The end of a run, whatever it stores.
LEMMA EndRunType ==
  ASSUME TypeInv, pc \in InRun, NEW info \in NodeInfo, NEW b \in BOOLEAN,
         EndRun(info, b), faults' \in Nat,
         migrator' = migrator
  PROVE  TypeInv'
<1>1. local' \in [Nodes -> NodeInfo]
  BY StoreUpdate DEF EndRun, TypeInv, TypeOK, Located
<1>2. /\ branch' = NoBranch /\ entry' = "none" /\ opened' = FALSE
      /\ orphans' \in [Nodes -> [Branches -> Nat]]
      /\ before' = before
  BY LeaveType DEF EndRun, TypeInv, Located
<1>3. branches' \in Seq(Branches) /\ pc' = "node"
  BY DEF EndRun, TypeInv, TypeOK
<1> QED
  BY <1>1, <1>2, <1>3 DEF EndRun, TypeInv, TypeOK, Located, InPass, InRun

\* An exception out of _run_migrator.
LEMMA AbortType ==
  ASSUME TypeInv, pc \in InRun \cup {"node"}, NEW b \in Branches,
         opened => b = branch,
         AbortPass(b), faults' \in Nat, remote' \in [Nodes -> NodeInfo],
         migrator' = migrator
  PROVE  TypeInv'
<1>1. local' \in [Nodes -> NodeInfo]
  BY InfoUpdates, StoreUpdate DEF AbortPass, TypeInv, TypeOK, Located
<1>2. opened => pc \in InRun
  BY DEF TypeInv, Located, InRun
<1>3. /\ branch' = NoBranch /\ entry' = "none" /\ opened' = FALSE
      /\ orphans' \in [Nodes -> [Branches -> Nat]]
      /\ before' = before
  BY <1>2, LeaveType DEF AbortPass, TypeInv, Located
<1>4. branches' \in Seq(Branches) /\ pc' = "deploy"
  BY DEF AbortPass
<1> QED
  BY <1>1, <1>3, <1>4 DEF AbortPass, TypeInv, TypeOK, Located, InPass, InRun

\* The end of run() with a result.
LEMMA ReturnedType ==
  ASSUME TypeInv, pc \in InRun, NEW e \in {"ref", "closed"},
         Returned(e), json' \in [Nodes -> SUBSET Branches],
         migrator' = migrator
  PROVE  TypeInv'
<1>1. local' \in [Nodes -> NodeInfo]
  <2>1. local[node] \in NodeInfo
    BY DEF TypeInv, TypeOK, Located
  <2>2. [local[node] EXCEPT !.bad = "no", !.attempts = 0] \in NodeInfo
    BY <2>1 DEF NodeInfo
  <2>3. local' = [local EXCEPT ![node] = [local[node] EXCEPT !.bad = "no", !.attempts = 0]]
    BY DEF Returned, TypeInv, TypeOK, Located
  <2> QED
    BY <2>2, <2>3, StoreUpdate DEF TypeInv, TypeOK, Located
<1>2. pc' = "returned" /\ entry' = e
  BY DEF Returned
<1> QED
  BY <1>1, <1>2 DEF Returned, TypeInv, TypeOK, Located, InPass, InRun, history

\* Every step of the job keeps the types.
LEMMA TypeNext == TypeInv /\ [Next]_vars => TypeInv'
<1> SUFFICES ASSUME TypeInv, [Next]_vars PROVE TypeInv'
  OBVIOUS
<1> USE LimitsAssumption, BranchAssumption
<1>0. migrator' = migrator /\ migrator \in Migrators
  BY DEF Next, vars, TypeInv, TypeOK
<1> USE <1>0
<1>a. ASSUME Fault PROVE faults' \in Nat
  BY <1>a DEF Fault, TypeInv, TypeOK
<1>1. CASE StartJob
  <2>1. [n \in Nodes |-> Prep(remote[n])] \in [Nodes -> NodeInfo]
    BY InfoUpdates DEF TypeInv, TypeOK, Prep
  <2> QED
    BY <1>1, <2>1 DEF StartJob, TypeInv, TypeOK, Located, InPass, InRun, history
<1>2. CASE PickNode
  <2>1. PICK n \in todo : todo' = todo \ {n} /\ node' = n /\ branches' = migrator.branchesOf[n]
    BY <1>2 DEF PickNode
  <2>2. n \in Nodes /\ migrator.branchesOf \in [Nodes -> Seq(Branches)]
    BY MigratorAssumption DEF Migrator, TypeInv, TypeOK
  <2>3. branches' \in Seq(Branches)
    BY <2>1, <2>2
  <2> QED
    BY <1>2, <2>1, <2>2, <2>3 DEF PickNode, TypeInv, TypeOK, Located, InPass, InRun, history
<1>3. CASE PassDone
  BY <1>3 DEF PassDone, TypeInv, TypeOK, Located, InPass, InRun, history, jobVars
<1>4. CASE OutOfTime
  BY <1>4, <1>a DEF OutOfTime, TypeInv, TypeOK, Located, InPass, InRun, history, jobVars
<1>5. CASE NodeDone
  BY <1>5 DEF NodeDone, TypeInv, TypeOK, Located, InPass, InRun, history, jobVars
<1>6. CASE SkipBranch
  BY <1>6 DEF SkipBranch, TypeInv, TypeOK, Located, InPass, InRun, history
<1>7. CASE StartRun
  <2>1. node \in Nodes /\ local[node] \in NodeInfo
    BY <1>7 DEF StartRun, TypeInv, TypeOK, Located
  <2>2. local[node].attempts \in Nat
    BY <2>1 DEF NodeInfo
  <2>3. local[node].attempts + Attempt \in Nat /\ local[node].attempts + Attempt >= Attempt
    BY <2>2 DEF Attempt
  <2> DEFINE info == [local[node] EXCEPT !.attempts = local[node].attempts + Attempt]
  <2>4. info \in NodeInfo /\ info.attempts >= Attempt
    BY <2>1, <2>3 DEF NodeInfo
  <2>5. local' = [local EXCEPT ![node] = info]
    BY <1>7, <2>1 DEF StartRun, TypeInv, TypeOK
  <2>6. local' \in [Nodes -> NodeInfo] /\ local'[node].attempts >= Attempt
    BY <2>1, <2>4, <2>5 DEF TypeInv, TypeOK
  <2>7. branch' \in Branches /\ branches' \in Seq(Branches)
    BY <1>7 DEF StartRun, TypeInv, TypeOK
  <2>8. before' \in Nat
    BY <1>7, <2>2 DEF StartRun
  <2>9. pc' = "ready" /\ node' = node /\ opened' = opened /\ ~opened
    BY <1>7 DEF StartRun, TypeInv, Located
  <2>10. /\ UNCHANGED <<remote, json, todo, node, entry, good, faults, prs, orphans>>
         /\ tried' = tried + 1
    BY <1>7 DEF StartRun
  <2>11. TypeOK'
    BY <2>6, <2>7, <2>8, <2>9, <2>10 DEF TypeInv, TypeOK, InPass, InRun
  <2> QED
    BY <2>1, <2>6, <2>7, <2>9, <2>11 DEF TypeInv, Located
<1>8. CASE CannotFork
  BY <1>8, <1>a, EndRunType, InfoUpdates DEF CannotFork, TypeInv, TypeOK, Located, InRun
<1>9. CASE NotMigrated
  BY <1>9, <1>a, EndRunType DEF NotMigrated, TypeInv, TypeOK, Located, InRun
<1>10. CASE AlreadyDone
  <2>1. local' \in [Nodes -> NodeInfo]
    BY <1>10, InfoUpdates DEF AlreadyDone, TypeInv, TypeOK, Located, InRun
  <2>2. json' \in [Nodes -> SUBSET Branches]
    BY <1>10 DEF AlreadyDone, TypeInv, TypeOK, Located, InRun
  <2> QED
    BY <1>10, <2>1, <2>2 DEF AlreadyDone, TypeInv, TypeOK, Located, InPass, InRun, history
<1>11. CASE Unsolvable
  <2>1. local[node] \in NodeInfo /\ pc \in InRun
    BY <1>11 DEF Unsolvable, TypeInv, TypeOK, Located, InRun
  <2>2. (IF migrator.isVersion THEN local[node].attempts - SolverCredit
         ELSE local[node].attempts) \in Nat
    BY <1>11, <2>1
    DEF Unsolvable, TypeInv, TypeOK, Located, NodeInfo, Attempt, SolverCredit
  <2>3. [local[node] EXCEPT !.attempts = IF migrator.isVersion THEN @ - SolverCredit ELSE @]
          \in NodeInfo
    BY <2>1, <2>2, InfoUpdates
  <2>4. faults' \in Nat
    BY <1>11 DEF Unsolvable, TypeInv, TypeOK
  <2> QED
    BY <1>11, <2>1, <2>3, <2>4, EndRunType DEF Unsolvable
<1>12. CASE Migrated
  <2>1. local' \in [Nodes -> NodeInfo]
    BY <1>12, InfoUpdates DEF Migrated, TypeInv, TypeOK, Located, InRun
  <2> QED
    BY <1>12, <2>1 DEF Migrated, TypeInv, TypeOK, Located, InPass, InRun, history, jobVars
<1>13. CASE SpoofTrivial
  <2>1. json' \in [Nodes -> SUBSET Branches] /\ pc \in InRun
    BY <1>13 DEF SpoofTrivial, TypeInv, TypeOK, Located, InRun
  <2> QED
    BY <1>13, <2>1, ReturnedType DEF SpoofTrivial
<1>14. CASE CreatePR
  <2>1. prs' \in [Nodes -> [Branches -> Nat]]
    <3>1. node \in Nodes /\ branch \in Branches
      BY <1>14 DEF CreatePR, TypeInv, Located, InRun
    <3>2. [prs[node] EXCEPT ![branch] = @ + 1] \in [Branches -> Nat]
      BY <3>1 DEF TypeInv, TypeOK
    <3> QED
      BY <1>14, <3>1, <3>2 DEF CreatePR, TypeInv, TypeOK
  <2> QED
    BY <1>14, <2>1 DEF CreatePR, TypeInv, TypeOK, Located, InPass, InRun, jobVars
<1>15. CASE DuplicatePR
  <2>1. json' \in [Nodes -> SUBSET Branches] /\ pc \in InRun
    BY <1>15 DEF DuplicatePR, TypeInv, TypeOK, InRun
  <2> QED
    BY <1>15, <2>1, ReturnedType DEF DuplicatePR
<1>16. CASE StorePrJson
  <2>1. json' \in [Nodes -> SUBSET Branches] /\ pc \in InRun
    BY <1>16 DEF StorePrJson, TypeInv, TypeOK, Located, InRun
  <2> QED
    BY <1>16, <2>1, ReturnedType DEF StorePrJson
<1>17. CASE Record
  <2>1. node \in Nodes /\ branch \in Branches
    BY <1>17 DEF Record, TypeInv, Located, InRun
  <2>2. [local[node].pred EXCEPT ![branch] = entry] \in [Branches -> {"none", "ref", "closed"}]
    BY <2>1 DEF TypeInv, TypeOK, NodeInfo
  <2>3. [local[node] EXCEPT !.pred = [local[node].pred EXCEPT ![branch] = entry]]
          \in NodeInfo
    BY <2>1, <2>2, InfoUpdates DEF TypeInv, TypeOK
  <2>4. local' \in [Nodes -> NodeInfo]
    BY <1>17, <2>1, <2>3 DEF Record, TypeInv, TypeOK
  <2> QED
    BY <1>17, <2>4 DEF Record, TypeInv, TypeOK, Located, InPass, InRun, history
<1>18. CASE SyncPrInfo
  <2>1. node \in Nodes
    BY <1>18 DEF SyncPrInfo, TypeInv, Located, InRun
  <2>2. [local[node] EXCEPT !.archived = remote[node].archived,
                            !.branch = remote[node].branch] \in NodeInfo
    BY <2>1, InfoMerge DEF TypeInv, TypeOK
  <2>3. remote' \in [Nodes -> NodeInfo]
    BY <1>18, <2>1, <2>2 DEF SyncPrInfo, TypeInv, TypeOK
  <2>4. /\ branch' = NoBranch /\ entry' = "none" /\ opened' = FALSE
        /\ orphans' \in [Nodes -> [Branches -> Nat]]
        /\ before' = before
    BY <1>18, LeaveType DEF SyncPrInfo
  <2> QED
    BY <1>18, <2>1, <2>3, <2>4 DEF SyncPrInfo, TypeInv, TypeOK, Located, InPass, InRun
<1>19. CASE GithubError
  <2>1. PICK limit \in BOOLEAN : EndRun(local[node], limit)
    BY <1>19 DEF GithubError
  <2>2. pc \in InRun /\ faults' \in Nat /\ local[node] \in NodeInfo
    BY <1>19, <1>a DEF GithubError, Raising, TypeInv, TypeOK, Located, InRun
  <2> QED
    BY <2>1, <2>2, EndRunType
<1>20. CASE RepositoryArchived
  BY <1>20, <1>a, EndRunType, InfoUpdates
  DEF RepositoryArchived, Raising, TypeInv, TypeOK, Located, InRun
<1>21. CASE MigrationError
  BY <1>21, <1>a, EndRunType DEF MigrationError, Raising, TypeInv, TypeOK, Located, InRun
<1>22. CASE OtherError
  BY <1>22, <1>a, EndRunType, InfoUpdates
  DEF OtherError, Raising, TypeInv, TypeOK, Located, InRun
<1>23. CASE UrlErrorWithoutCode
  BY <1>23, <1>a, AbortType DEF UrlErrorWithoutCode, Raising, TypeInv, TypeOK, Located, InRun
<1>24. CASE SyncRaises
  <2>1. remote' \in [Nodes -> NodeInfo]
    <3>1. node \in Nodes
      BY <1>24 DEF SyncRaises, TypeInv, Located, InRun
    <3>2. [remote[node] EXCEPT !.pred = local[node].pred, !.bad = local[node].bad]
            \in NodeInfo
      BY <3>1, InfoMerge DEF TypeInv, TypeOK
    <3>3. [remote EXCEPT ![node].pred = local[node].pred, ![node].bad = local[node].bad]
            = [remote EXCEPT ![node] =
                 [remote[node] EXCEPT !.pred = local[node].pred, !.bad = local[node].bad]]
      BY <3>1 DEF TypeInv, TypeOK
    <3> QED
      BY <1>24, <3>1, <3>2, <3>3 DEF SyncRaises, TypeInv, TypeOK
  <2> QED
    BY <1>24, <2>1, <1>a, AbortType DEF SyncRaises, TypeInv, TypeOK, Located, InRun
<1>25. CASE FilterRaises
  <2>1. Head(branches) \in Branches
    BY <1>25 DEF FilterRaises, TypeInv, TypeOK
  <2> QED
    BY <1>25, <2>1, <1>a, AbortType DEF FilterRaises, TypeInv, TypeOK, Located, InRun
<1>26. CASE Killed
  <2>1. local' \in [Nodes -> NodeInfo]
    <3>1. CASE pc \in InRun /\ local' = [local EXCEPT ![node].branch = branch]
      BY <3>1, InfoUpdates DEF TypeInv, TypeOK, Located
    <3>2. CASE pc # "pick" /\ local' = [local EXCEPT ![node].archived = remote[node].archived,
                                                     ![node].branch = remote[node].branch]
      <4>1. node \in Nodes
        BY <1>26, <3>2 DEF Killed, TypeInv, Located, InPass, InRun
      <4>2. [local[node] EXCEPT !.archived = remote[node].archived,
                                !.branch = remote[node].branch] \in NodeInfo
        BY <4>1, InfoMerge DEF TypeInv, TypeOK
      <4>3. local' = [local EXCEPT ![node] =
                        [local[node] EXCEPT !.archived = remote[node].archived,
                                            !.branch = remote[node].branch]]
        BY <3>2, <4>1 DEF TypeInv, TypeOK
      <4> QED
        BY <4>1, <4>2, <4>3 DEF TypeInv, TypeOK
    <3> QED
      BY <1>26, <3>1, <3>2 DEF Killed, TypeInv, TypeOK
  <2>2. /\ branch' = NoBranch /\ entry' = "none" /\ opened' = FALSE
        /\ orphans' \in [Nodes -> [Branches -> Nat]]
        /\ before' = before
    BY <1>26, LeaveType DEF Killed, TypeInv, Located, InRun
  <2>3. pc' = "deploy" /\ branches' \in Seq(Branches)
    BY <1>26 DEF Killed
  <2> QED
    BY <1>26, <1>a, <2>1, <2>2, <2>3 DEF Killed, TypeInv, TypeOK, Located, InPass, InRun
<1>27. CASE Deploy
  BY <1>27 DEF Deploy, TypeInv, TypeOK, Located, InPass, InRun, history, jobVars
<1>28. CASE RunnerLost
  <2>1. orphans' \in [Nodes -> [Branches -> Nat]]
    <3>1. \A n \in Nodes, b \in Branches :
            orphans[n][b] + (IF Unrecorded(n, b) THEN 1 ELSE 0) \in Nat
      BY DEF TypeInv, TypeOK
    <3> QED
      BY <1>28, <3>1 DEF RunnerLost
  <2>2. pc' = "idle" /\ branches' \in Seq(Branches)
    BY <1>28 DEF RunnerLost
  <2> QED
    BY <1>28, <1>a, <2>1, <2>2 DEF RunnerLost, TypeInv, TypeOK, Located, InPass, InRun
<1>29. CASE UNCHANGED vars
  BY <1>29 DEF vars, jobVars, history, TypeInv, TypeOK, Located, InPass, InRun
<1> QED
  BY <1>1, <1>2, <1>3, <1>4, <1>5, <1>6, <1>7, <1>8, <1>9, <1>10, <1>11, <1>12,
     <1>13, <1>14, <1>15, <1>16, <1>17, <1>18, <1>19, <1>20, <1>21, <1>22, <1>23,
     <1>24, <1>25, <1>26, <1>27, <1>28, <1>29
  DEF Next, Progress, Failure

\* The job is always in a well-typed state.
THEOREM TypeCorrect == Spec => []TypeOK
<1>1. TypeInv => TypeOK
  BY DEF TypeInv
<1> QED
  BY <1>1, TypeInit, TypeNext, PTL DEF Spec

-----------------------------------------------------------------------------
(* One pull request per migration and branch *)

\* Two stores record the same migrations.
SamePred(s, t) == \A n \in Nodes, b \in Branches : s[n].pred[b] = t[n].pred[b]

\* What a step inside the pass keeps that changes no record and opens no pull
\* request.
LEMMA QuietStep ==
  ASSUME TypeInv, PRInv,
         pc # "idle", pc' # "idle",
         SamePred(local', local), SamePred(remote', remote),
         prs' = prs, orphans' = orphans, opened' = opened,
         opened => node' = node /\ branch' = branch
  PROVE  Ahead' /\ Recorded' /\ OnePRPerUid'
<1>1. Ahead'
  BY DEF PRInv, Ahead, SamePred
<1>2. OnePRPerUid'
  BY DEF PRInv, OnePRPerUid
<1>3. Recorded'
  <2> SUFFICES ASSUME NEW n \in Nodes, NEW b \in Branches, prs[n][b] = orphans[n][b] + 1
               PROVE  \/ remote'[n].pred[b] # "none"
                      \/ local'[n].pred[b] # "none"
                      \/ opened' /\ n = node' /\ b = branch'
    BY DEF Recorded
  <2> QED
    BY DEF PRInv, Recorded, SamePred
<1> QED
  BY <1>1, <1>2, <1>3

\* What the end of a run keeps, when the pull request it has opened is an
\* orphan exactly if the clone does not record it.
LEMMA LeavingStep ==
  ASSUME TypeInv, PRInv,
         pc # "idle", pc' # "idle",
         SamePred(local', local),
         SamePred(remote', remote) \/ SamePred(remote', local),
         prs' = prs,
         Leave(opened /\ local[node].pred[branch] = "none")
  PROVE  Ahead' /\ Recorded' /\ OnePRPerUid'
<1> DEFINE lost == opened /\ local[node].pred[branch] = "none"
<1>1. opened => node \in Nodes /\ branch \in Branches
  BY DEF TypeInv, Located, InRun
<1>2. \A n \in Nodes, b \in Branches :
        orphans'[n][b] = IF lost /\ n = node /\ b = branch
                         THEN orphans[n][b] + 1 ELSE orphans[n][b]
  BY <1>1 DEF Leave, TypeInv, TypeOK
<1>3. \A n \in Nodes, b \in Branches : prs[n][b] \in Nat /\ orphans[n][b] \in Nat
  BY DEF TypeInv, TypeOK
<1>4. Ahead'
  BY DEF PRInv, Ahead, SamePred
<1>5. OnePRPerUid'
  <2> SUFFICES ASSUME NEW n \in Nodes, NEW b \in Branches
               PROVE  prs[n][b] <= orphans'[n][b] + 1
    BY DEF OnePRPerUid
  <2> QED
    BY <1>2, <1>3 DEF PRInv, OnePRPerUid
<1>6. Recorded'
  <2> SUFFICES ASSUME NEW n \in Nodes, NEW b \in Branches, prs[n][b] = orphans'[n][b] + 1
               PROVE  remote'[n].pred[b] # "none" \/ local'[n].pred[b] # "none"
    BY DEF Recorded
  <2>1. prs[n][b] <= orphans[n][b] + 1
    BY DEF PRInv, OnePRPerUid
  <2>2. ~(lost /\ n = node /\ b = branch) /\ prs[n][b] = orphans[n][b] + 1
    BY <1>2, <1>3, <2>1
  <2>3. \/ remote[n].pred[b] # "none"
        \/ local[n].pred[b] # "none"
        \/ opened /\ n = node /\ b = branch
    BY <2>2 DEF PRInv, Recorded
  <2>4. local[n].pred[b] # "none"
    BY <2>2, <2>3 DEF PRInv, Ahead
  <2> QED
    BY <2>4 DEF SamePred
<1> QED
  BY <1>4, <1>5, <1>6

\* EndRun, when it stores no record, keeps the invariant.
LEMMA EndRunPR ==
  ASSUME TypeInv, PRInv, pc \in InRun, NEW info \in NodeInfo, NEW b \in BOOLEAN,
         info.pred = local[node].pred, EndRun(info, b)
  PROVE  PRInv'
<1>1. pc' = "node" /\ pc # "idle"
  BY DEF EndRun, InRun
<1>2. SamePred(local', local) /\ SamePred(remote', remote) /\ prs' = prs
  BY DEF EndRun, SamePred, TypeInv, TypeOK, Located
<1>3. Leave(opened /\ local[node].pred[branch] = "none")
  BY DEF EndRun
<1>4. Ahead' /\ Recorded' /\ OnePRPerUid'
  BY <1>1, <1>2, <1>3, LeavingStep
<1> QED
  BY <1>1, <1>4 DEF PRInv, Unmigrated

\* So does an exception out of _run_migrator, whatever was synced before.
LEMMA AbortPR ==
  ASSUME TypeInv, PRInv, pc \in InRun \cup {"node"}, NEW b \in Branches,
         opened => b = branch, AbortPass(b),
         SamePred(remote', remote) \/ SamePred(remote', local)
  PROVE  PRInv'
<1>1. pc' = "deploy" /\ pc # "idle"
  BY DEF AbortPass, InRun
<1>2. SamePred(local', local) /\ prs' = prs
  BY DEF AbortPass, SamePred, TypeInv, TypeOK, Located, NodeInfo
<1>3. Leave(opened /\ local[node].pred[branch] = "none")
  BY DEF AbortPass, Leave
<1>4. Ahead' /\ Recorded' /\ OnePRPerUid'
  BY <1>1, <1>2, <1>3, LeavingStep
<1> QED
  BY <1>1, <1>4 DEF PRInv, Unmigrated

\* The end of run() with a result keeps it as well.
LEMMA ReturnedPR ==
  ASSUME TypeInv, PRInv, pc \in {"ready", "solved", "created"}, NEW e \in {"ref", "closed"},
         Returned(e)
  PROVE  PRInv'
<1>1. pc' = "returned" /\ entry' = e /\ pc # "idle" /\ node' = node /\ branch' = branch
  BY DEF Returned
<1>2. SamePred(local', local) /\ remote' = remote /\ local'[node].pred = local[node].pred
  BY DEF Returned, SamePred, TypeInv, TypeOK, Located, NodeInfo, InRun
<1>3. prs' = prs /\ orphans' = orphans /\ opened' = opened
  BY DEF Returned, history
<1>4. Ahead' /\ Recorded' /\ OnePRPerUid'
  BY <1>1, <1>2, <1>3, QuietStep DEF SamePred
<1>5. Unmigrated'
  BY <1>1, <1>2 DEF PRInv, Unmigrated
<1> QED
  BY <1>4, <1>5 DEF PRInv

\* No pull request exists at first.
LEMMA PRInit == Init => PRInv
  BY DEF Init, PRInv, Ahead, Unmigrated, Recorded, OnePRPerUid, Fresh

\* Every step keeps the invariant.
LEMMA PRNext == TypeInv /\ PRInv /\ [Next]_vars => PRInv'
<1> SUFFICES ASSUME TypeInv, PRInv, [Next]_vars PROVE PRInv'
  OBVIOUS
<1>a. pc \in InRun => node \in Nodes /\ branch \in Branches /\ local[node] \in NodeInfo
  BY DEF TypeInv, TypeOK, Located
<1>b. pc \in {"pick", "node"} => ~opened
  BY DEF TypeInv, Located
<1>1. CASE StartJob
  <2>1. /\ SamePred(local', remote) /\ SamePred(remote', remote)
        /\ pc = "idle" /\ pc' = "pick" /\ ~opened /\ ~opened'
    BY <1>1 DEF StartJob, Prep, SamePred, TypeInv, TypeOK, Located, NodeInfo, history
  <2>2. prs' = prs /\ orphans' = orphans
    BY <1>1 DEF StartJob, history
  <2>3. Ahead' /\ Unmigrated' /\ OnePRPerUid'
    BY <2>1, <2>2 DEF SamePred, PRInv, Ahead, Unmigrated, OnePRPerUid
  <2>4. Recorded'
    BY <2>1, <2>2 DEF SamePred, PRInv, Recorded
  <2> QED
    BY <2>3, <2>4 DEF PRInv
<1>2. CASE PickNode
  <2>1. Ahead' /\ Recorded' /\ OnePRPerUid' /\ pc' = "node"
    BY <1>2, <1>b, QuietStep DEF PickNode, SamePred, history
  <2> QED
    BY <2>1 DEF PRInv, Unmigrated
<1>3. CASE PassDone
  <2>1. Ahead' /\ Recorded' /\ OnePRPerUid' /\ pc' = "deploy"
    BY <1>3, <1>b, QuietStep DEF PassDone, SamePred, history, jobVars
  <2> QED
    BY <2>1 DEF PRInv, Unmigrated
<1>4. CASE OutOfTime
  <2>1. Ahead' /\ Recorded' /\ OnePRPerUid' /\ pc' = "deploy"
    BY <1>4, <1>b, QuietStep DEF OutOfTime, SamePred, history, jobVars
  <2> QED
    BY <2>1 DEF PRInv, Unmigrated
<1>5. CASE NodeDone
  <2>1. Ahead' /\ Recorded' /\ OnePRPerUid' /\ pc' = "pick"
    BY <1>5, <1>b, QuietStep DEF NodeDone, SamePred, history, jobVars
  <2> QED
    BY <2>1 DEF PRInv, Unmigrated
<1>6. CASE SkipBranch
  <2>1. Ahead' /\ Recorded' /\ OnePRPerUid' /\ pc' = "node"
    BY <1>6, <1>b, QuietStep DEF SkipBranch, SamePred, history
  <2> QED
    BY <2>1 DEF PRInv, Unmigrated
<1>7. CASE StartRun
  <2>1. node \in Nodes /\ local[node] \in NodeInfo
    BY <1>7 DEF StartRun, TypeInv, TypeOK, Located
  <2>2. SamePred(local', local) /\ local'[node].pred = local[node].pred
    BY <1>7, <2>1 DEF StartRun, SamePred, TypeInv, TypeOK, NodeInfo
  <2>3. local[node].pred[branch'] = "none" /\ pc' = "ready" /\ node' = node
    BY <1>7 DEF StartRun, Filter
  <2>4. Ahead' /\ Recorded' /\ OnePRPerUid'
    BY <1>7, <1>b, <2>2, QuietStep DEF StartRun, SamePred
  <2> QED
    BY <2>2, <2>3, <2>4 DEF PRInv, Unmigrated
<1>8. CASE CannotFork
  <2>1. EndRun([local[node] EXCEPT !.bad = "text"], FALSE) /\ pc \in InRun
    BY <1>8 DEF CannotFork, InRun
  <2>2. /\ [local[node] EXCEPT !.bad = "text"] \in NodeInfo
        /\ [local[node] EXCEPT !.bad = "text"].pred = local[node].pred
    BY <1>a, <2>1 DEF NodeInfo
  <2> QED
    BY <2>1, <2>2, EndRunPR
<1>9. CASE NotMigrated
  BY <1>9, <1>a, EndRunPR DEF NotMigrated, InRun
<1>10. CASE AlreadyDone
  <2>1. pc \in InRun /\ pc' = "returned" /\ entry' = "ref" /\ pc = "ready"
    BY <1>10 DEF AlreadyDone, InRun
  <2>2. SamePred(local', local) /\ local'[node].pred = local[node].pred
    BY <1>10, <1>a, <2>1 DEF AlreadyDone, SamePred, TypeInv, TypeOK, NodeInfo
  <2>3. /\ prs' = prs /\ orphans' = orphans /\ opened' = opened
        /\ node' = node /\ branch' = branch /\ remote' = remote
    BY <1>10 DEF AlreadyDone, history
  <2>4. Ahead' /\ Recorded' /\ OnePRPerUid'
    BY <2>1, <2>2, <2>3, QuietStep DEF SamePred
  <2> QED
    BY <2>1, <2>2, <2>3, <2>4 DEF PRInv, Unmigrated
<1>11. CASE Unsolvable
  <2> DEFINE info == [local[node] EXCEPT !.attempts = IF migrator.isVersion THEN @ - SolverCredit ELSE @]
  <2>1. EndRun(info, FALSE) /\ pc \in InRun /\ pc = "ready"
    BY <1>11 DEF Unsolvable, InRun
  <2>2. (IF migrator.isVersion THEN local[node].attempts - SolverCredit
         ELSE local[node].attempts) \in Nat
    BY <1>a, <2>1 DEF TypeInv, Located, NodeInfo, Attempt, SolverCredit
  <2>3. info \in NodeInfo /\ info.pred = local[node].pred
    BY <1>a, <2>1, <2>2 DEF NodeInfo
  <2> QED
    BY <2>1, <2>3, EndRunPR
<1>12. CASE Migrated
  <2>1. pc = "ready" /\ pc \in InRun /\ pc' = "solved"
    BY <1>12 DEF Migrated, InRun
  <2>2. SamePred(local', local) /\ local'[node].pred = local[node].pred
    BY <1>12, <1>a, <2>1 DEF Migrated, SamePred, TypeInv, TypeOK, NodeInfo
  <2>3. /\ prs' = prs /\ orphans' = orphans /\ opened' = opened
        /\ node' = node /\ branch' = branch /\ remote' = remote
    BY <1>12 DEF Migrated, history, jobVars
  <2>4. Ahead' /\ Recorded' /\ OnePRPerUid'
    BY <2>1, <2>2, <2>3, QuietStep DEF SamePred
  <2> QED
    BY <2>1, <2>2, <2>3, <2>4 DEF PRInv, Unmigrated
<1>13. CASE SpoofTrivial
  BY <1>13, ReturnedPR DEF SpoofTrivial
<1>14. CASE CreatePR
  <2>1. node \in Nodes /\ branch \in Branches /\ ~opened /\ opened'
    BY <1>14, <1>a DEF CreatePR, TypeInv, Located, InRun
  <2>2. local[node].pred[branch] = "none" /\ remote[node].pred[branch] = "none"
    BY <1>14, <2>1 DEF CreatePR, PRInv, Unmigrated, Ahead
  <2>3. prs[node][branch] <= orphans[node][branch]
    <3>1. prs[node][branch] # orphans[node][branch] + 1
      BY <2>1, <2>2 DEF PRInv, Recorded
    <3> QED
      BY <2>1, <3>1 DEF PRInv, OnePRPerUid, TypeInv, TypeOK
  <2>4. \A n \in Nodes, b \in Branches :
          prs'[n][b] = IF n = node /\ b = branch THEN prs[n][b] + 1 ELSE prs[n][b]
    BY <1>14, <2>1 DEF CreatePR, TypeInv, TypeOK
  <2>5. /\ local' = local /\ remote' = remote /\ orphans' = orphans
        /\ node' = node /\ branch' = branch /\ pc = "solved" /\ pc' = "created"
    BY <1>14 DEF CreatePR, jobVars
  <2>6. OnePRPerUid'
    <3> SUFFICES ASSUME NEW n \in Nodes, NEW b \in Branches
                 PROVE  prs'[n][b] <= orphans[n][b] + 1
      BY <2>5 DEF OnePRPerUid
    <3>1. prs[n][b] \in Nat /\ orphans[n][b] \in Nat
      BY DEF TypeInv, TypeOK
    <3>2. prs[n][b] <= orphans[n][b] + 1
      BY DEF PRInv, OnePRPerUid
    <3> QED
      BY <2>3, <2>4, <3>1, <3>2
  <2>7. Recorded'
    BY <2>1, <2>4, <2>5 DEF PRInv, Recorded
  <2> QED
    BY <2>2, <2>5, <2>6, <2>7 DEF PRInv, Ahead, Unmigrated
<1>15. CASE DuplicatePR
  BY <1>15, ReturnedPR DEF DuplicatePR
<1>16. CASE StorePrJson
  BY <1>16, ReturnedPR DEF StorePrJson
<1>17. CASE Record
  <2>1. node \in Nodes /\ branch \in Branches /\ entry # "none"
    BY <1>17, <1>a DEF Record, InRun, PRInv, Unmigrated
  <2>2. \A n \in Nodes, b \in Branches :
          local'[n].pred[b] = IF n = node /\ b = branch THEN entry ELSE local[n].pred[b]
    BY <1>17, <2>1 DEF Record, TypeInv, TypeOK, NodeInfo
  <2>3. /\ remote' = remote /\ prs' = prs /\ orphans' = orphans /\ opened' = opened
        /\ node' = node /\ branch' = branch /\ pc = "returned" /\ pc' = "sync"
    BY <1>17 DEF Record, history
  <2>4. Ahead' /\ OnePRPerUid' /\ Unmigrated'
    BY <2>1, <2>2, <2>3 DEF PRInv, Ahead, OnePRPerUid, Unmigrated
  <2>5. Recorded'
    BY <2>1, <2>2, <2>3 DEF PRInv, Recorded
  <2> QED
    BY <2>4, <2>5 DEF PRInv
<1>18. CASE SyncPrInfo
  <2>1. node \in Nodes /\ branch \in Branches /\ local[node].pred[branch] # "none"
    BY <1>18, <1>a DEF SyncPrInfo, InRun, PRInv, Unmigrated
  <2>2. \A n \in Nodes, b \in Branches :
          remote'[n].pred[b] = IF n = node THEN local[n].pred[b] ELSE remote[n].pred[b]
    BY <1>18, <2>1 DEF SyncPrInfo, TypeInv, TypeOK, NodeInfo
  <2>3. /\ local' = local /\ prs' = prs /\ orphans' = orphans /\ ~opened'
        /\ node' = node /\ pc = "sync" /\ pc' = "node"
    BY <1>18 DEF SyncPrInfo, Leave
  <2>4. Ahead' /\ OnePRPerUid' /\ Unmigrated'
    BY <2>1, <2>2, <2>3 DEF PRInv, Ahead, OnePRPerUid, Unmigrated
  <2>5. Recorded'
    <3> SUFFICES ASSUME NEW n \in Nodes, NEW b \in Branches, prs[n][b] = orphans[n][b] + 1
                 PROVE  local[n].pred[b] # "none"
      BY <2>3 DEF Recorded
    <3>1. \/ remote[n].pred[b] # "none"
          \/ local[n].pred[b] # "none"
          \/ n = node /\ b = branch
      BY DEF PRInv, Recorded
    <3> QED
      BY <2>1, <2>3, <3>1 DEF PRInv, Ahead
  <2> QED
    BY <2>4, <2>5 DEF PRInv
<1>19. CASE GithubError
  <2>1. PICK limit \in BOOLEAN : EndRun(local[node], limit)
    BY <1>19 DEF GithubError
  <2> QED
    BY <1>19, <1>a, <2>1, EndRunPR DEF GithubError, Raising, InRun
<1>20. CASE RepositoryArchived
  <2>1. EndRun([local[node] EXCEPT !.archived = TRUE], FALSE) /\ pc \in InRun
    BY <1>20 DEF RepositoryArchived, Raising, InRun
  <2>2. /\ [local[node] EXCEPT !.archived = TRUE] \in NodeInfo
        /\ [local[node] EXCEPT !.archived = TRUE].pred = local[node].pred
    BY <1>a, <2>1 DEF NodeInfo
  <2> QED
    BY <2>1, <2>2, EndRunPR
<1>21. CASE MigrationError
  BY <1>21, <1>a, EndRunPR DEF MigrationError, Raising, InRun
<1>22. CASE OtherError
  <2>1. EndRun([local[node] EXCEPT !.bad = "dict"], FALSE) /\ pc \in InRun
    BY <1>22 DEF OtherError, Raising, InRun
  <2>2. /\ [local[node] EXCEPT !.bad = "dict"] \in NodeInfo
        /\ [local[node] EXCEPT !.bad = "dict"].pred = local[node].pred
    BY <1>a, <2>1 DEF NodeInfo
  <2> QED
    BY <2>1, <2>2, EndRunPR
<1>23. CASE UrlErrorWithoutCode
  BY <1>23, <1>a, AbortPR DEF UrlErrorWithoutCode, Raising, InRun, SamePred
<1>24. CASE SyncRaises
  <2>1. pc \in InRun /\ AbortPass(branch)
    BY <1>24 DEF SyncRaises, InRun
  <2>2. ASSUME remote' = remote PROVE PRInv'
    BY <1>a, <2>1, <2>2, AbortPR DEF SamePred
  <2>3. ASSUME remote' # remote PROVE PRInv'
    <3>1. remote' = [remote EXCEPT ![node] =
                       [remote[node] EXCEPT !.pred = local[node].pred, !.bad = local[node].bad]]
      BY <1>24, <1>a, <2>1, <2>3 DEF SyncRaises, TypeInv, TypeOK
    <3>2. \A n \in Nodes, b \in Branches :
            remote'[n].pred[b] = IF n = node THEN local[n].pred[b] ELSE remote[n].pred[b]
      BY <1>a, <2>1, <3>1 DEF TypeInv, TypeOK, NodeInfo
    <3>3. /\ local[node].pred[branch] # "none" /\ prs' = prs
          /\ pc # "idle" /\ pc' = "deploy"
      BY <1>24 DEF SyncRaises, PRInv, Unmigrated, AbortPass
    <3>4. SamePred(local', local)
      BY <1>a, <2>1 DEF AbortPass, SamePred, TypeInv, TypeOK, NodeInfo
    <3>5. orphans' = orphans /\ ~opened'
      BY <2>1, <3>3 DEF AbortPass, Leave
    <3>6. Ahead' /\ OnePRPerUid' /\ Unmigrated'
      BY <3>2, <3>3, <3>4, <3>5 DEF PRInv, Ahead, OnePRPerUid, Unmigrated, SamePred
    <3>7. Recorded'
      <4> SUFFICES ASSUME NEW n \in Nodes, NEW b \in Branches, prs[n][b] = orphans[n][b] + 1
                   PROVE  local[n].pred[b] # "none"
        BY <3>3, <3>4, <3>5 DEF Recorded, SamePred
      <4>1. \/ remote[n].pred[b] # "none"
            \/ local[n].pred[b] # "none"
            \/ n = node /\ b = branch
        BY DEF PRInv, Recorded
      <4> QED
        BY <3>3, <4>1 DEF PRInv, Ahead
    <3> QED
      BY <3>6, <3>7 DEF PRInv
  <2> QED
    BY <2>2, <2>3
<1>25. CASE FilterRaises
  <2>1. Head(branches) \in Branches
    BY <1>25 DEF FilterRaises, TypeInv, TypeOK
  <2> QED
    BY <1>25, <1>b, <2>1, AbortPR DEF FilterRaises, SamePred
<1>26. CASE Killed
  <2>1. SamePred(local', local)
    <3>1. CASE pc = "pick" /\ UNCHANGED local
      BY <3>1 DEF SamePred
    <3>2. CASE pc \in InRun /\ local' = [local EXCEPT ![node].branch = branch]
      BY <1>a, <3>2 DEF SamePred, TypeInv, TypeOK, NodeInfo
    <3>3. CASE pc # "pick" /\ local' = [local EXCEPT ![node].archived = remote[node].archived,
                                                     ![node].branch = remote[node].branch]
      <4>1. node \in Nodes
        BY <1>26, <3>3 DEF Killed, TypeInv, Located, InPass, InRun
      <4> QED
        BY <3>3, <4>1 DEF SamePred, TypeInv, TypeOK, NodeInfo
    <3> QED
      BY <1>26, <3>1, <3>2, <3>3 DEF Killed
  <2>2. /\ pc # "idle" /\ pc' = "deploy" /\ prs' = prs /\ SamePred(remote', remote)
        /\ Leave(opened /\ local[node].pred[branch] = "none")
    BY <1>26 DEF Killed, InPass, InRun, SamePred
  <2>3. Ahead' /\ Recorded' /\ OnePRPerUid'
    BY <2>1, <2>2, LeavingStep
  <2> QED
    BY <2>2, <2>3 DEF PRInv, Unmigrated
<1>27. CASE Deploy
  <2>1. /\ pc = "deploy" /\ pc' = "idle" /\ remote' = local /\ local' = local
        /\ prs' = prs /\ orphans' = orphans /\ ~opened
    BY <1>27 DEF Deploy, history, TypeInv, Located
  <2>2. Ahead' /\ OnePRPerUid' /\ Unmigrated'
    BY <2>1 DEF PRInv, Ahead, OnePRPerUid, Unmigrated
  <2>3. Recorded'
    <3> SUFFICES ASSUME NEW n \in Nodes, NEW b \in Branches, prs[n][b] = orphans[n][b] + 1
                 PROVE  local[n].pred[b] # "none"
      BY <2>1 DEF Recorded
    <3> QED
      BY <2>1 DEF PRInv, Recorded, Ahead
  <2> QED
    BY <2>2, <2>3 DEF PRInv
<1>28. CASE RunnerLost
  <2>1. /\ pc' = "idle" /\ remote' = remote /\ prs' = prs /\ ~opened'
        /\ \A n \in Nodes, b \in Branches :
             orphans'[n][b] = orphans[n][b] + IF Unrecorded(n, b) THEN 1 ELSE 0
    BY <1>28 DEF RunnerLost
  <2>2. \A n \in Nodes, b \in Branches : prs[n][b] \in Nat /\ orphans[n][b] \in Nat
    BY DEF TypeInv, TypeOK
  <2>3. OnePRPerUid'
    <3> SUFFICES ASSUME NEW n \in Nodes, NEW b \in Branches
                 PROVE  prs[n][b] <= orphans'[n][b] + 1
      BY <2>1 DEF OnePRPerUid
    <3>1. prs[n][b] <= orphans[n][b] + 1
      BY DEF PRInv, OnePRPerUid
    <3> QED
      BY <2>1, <2>2, <3>1
  <2>4. Recorded'
    <3> SUFFICES ASSUME NEW n \in Nodes, NEW b \in Branches, prs[n][b] = orphans'[n][b] + 1
                 PROVE  remote[n].pred[b] # "none"
      BY <2>1 DEF Recorded
    <3>1. prs[n][b] <= orphans[n][b] + 1
      BY DEF PRInv, OnePRPerUid
    <3>2. ~Unrecorded(n, b) /\ prs[n][b] > orphans[n][b]
      BY <2>1, <2>2, <3>1
    <3> QED
      BY <3>2 DEF Unrecorded
  <2> QED
    BY <2>1, <2>3, <2>4 DEF PRInv, Ahead, Unmigrated
<1>29. CASE UNCHANGED vars
  BY <1>29
  DEF vars, jobVars, history, PRInv, Ahead, Unmigrated, Recorded, OnePRPerUid
<1> QED
  BY <1>1, <1>2, <1>3, <1>4, <1>5, <1>6, <1>7, <1>8, <1>9, <1>10, <1>11, <1>12,
     <1>13, <1>14, <1>15, <1>16, <1>17, <1>18, <1>19, <1>20, <1>21, <1>22, <1>23,
     <1>24, <1>25, <1>26, <1>27, <1>28, <1>29
  DEF Next, Progress, Failure

\* Every pull request beyond the first stands for a record that was lost.
THEOREM OnePullRequest == Spec => []OnePRPerUid
<1>1. PRInv => OnePRPerUid
  BY DEF PRInv
<1> QED
  BY <1>1, TypeInit, TypeNext, PRInit, PRNext, PTL DEF Spec

-----------------------------------------------------------------------------
(* At most one pull request is not recorded yet *)

\* Until the deploy, what is not recorded is what the current run has opened; at
\* the deploy the pass is over, and what a failed sync has left is all there is.
Pending ==
  /\ pc # "deploy" =>
       \A n \in Nodes, b \in Branches :
         Unrecorded(n, b) => opened /\ n = node /\ b = branch
  /\ \A n, m \in Nodes, b, c \in Branches :
       Unrecorded(n, b) /\ Unrecorded(m, c) => n = m /\ b = c

\* A step that adds nothing to what is not recorded keeps the invariant, if it
\* stays in the run, goes to the deploy, or nothing is left.
LEMMA NothingPending ==
  ASSUME Pending,
         \A n \in Nodes, b \in Branches : Unrecorded(n, b)' => Unrecorded(n, b),
         \/ pc' = "deploy"
         \/ pc # "deploy" /\ (opened => opened' /\ node' = node /\ branch' = branch)
         \/ \A n \in Nodes, b \in Branches : ~Unrecorded(n, b)'
  PROVE  Pending'
  BY DEF Pending

\* A step that leaves the records and the pull requests alone adds nothing.
LEMMA SameRecords ==
  ASSUME prs' = prs, orphans' = orphans, SamePred(remote', remote)
  PROVE  \A n \in Nodes, b \in Branches : Unrecorded(n, b)' => Unrecorded(n, b)
  BY DEF Unrecorded, SamePred

\* What is lost with a run is counted as an orphan, and is the only thing that
\* was not recorded.
LEMMA LeavingPending ==
  ASSUME TypeInv, PRInv, Pending, pc # "deploy", prs' = prs,
         SamePred(remote', remote),
         Leave(opened /\ local[node].pred[branch] = "none")
  PROVE  /\ \A n \in Nodes, b \in Branches : Unrecorded(n, b)' => Unrecorded(n, b)
         /\ local[node].pred[branch] = "none" =>
              \A n \in Nodes, b \in Branches : ~Unrecorded(n, b)'
<1> SUFFICES ASSUME NEW n \in Nodes, NEW b \in Branches, Unrecorded(n, b)'
             PROVE  Unrecorded(n, b) /\ local[node].pred[branch] # "none"
  OBVIOUS
<1>1. opened => node \in Nodes /\ branch \in Branches
  BY DEF TypeInv, Located, InRun
<1>2. prs[n][b] \in Nat /\ orphans[n][b] \in Nat /\ prs[n][b] <= orphans[n][b] + 1
  BY DEF TypeInv, TypeOK, PRInv, OnePRPerUid
<1>3. orphans'[n][b] = IF opened /\ local[node].pred[branch] = "none"
                          /\ n = node /\ b = branch
                       THEN orphans[n][b] + 1 ELSE orphans[n][b]
  BY <1>1 DEF Leave, TypeInv, TypeOK
<1>4. prs[n][b] > orphans'[n][b] /\ remote'[n].pred[b] = "none"
  BY DEF Unrecorded
<1>5. remote[n].pred[b] = "none"
  BY <1>4 DEF SamePred
<1>6. Unrecorded(n, b)
  BY <1>2, <1>3, <1>4, <1>5 DEF Unrecorded
<1>7. opened /\ n = node /\ b = branch
  BY <1>6 DEF Pending
<1>8. local[node].pred[branch] # "none"
  BY <1>2, <1>3, <1>4, <1>7
<1> QED
  BY <1>6, <1>8

\* The end of a run that raised leaves nothing that could still be recorded.
LEMMA EndRunPending ==
  ASSUME TypeInv, PRInv, Pending, pc \in {"ready", "solved", "created"},
         NEW info, NEW b \in BOOLEAN, info.pred = local[node].pred, EndRun(info, b)
  PROVE  Pending'
<1>1. /\ pc # "deploy" /\ prs' = prs /\ SamePred(remote', remote)
      /\ Leave(opened /\ local[node].pred[branch] = "none")
  BY DEF EndRun, SamePred
<1>2. local[node].pred[branch] = "none"
  BY DEF PRInv, Unmigrated
<1> QED
  BY <1>1, <1>2, LeavingPending, NothingPending

\* An exception out of _run_migrator ends the pass.
LEMMA AbortPending ==
  ASSUME TypeInv, PRInv, Pending, pc # "deploy", NEW b, opened => b = branch,
         AbortPass(b),
         \A n \in Nodes, c \in Branches :
           remote'[n].pred[c] = "none" => remote[n].pred[c] = "none"
  PROVE  Pending'
<1>1. pc' = "deploy" /\ prs' = prs /\ Leave(opened /\ local[node].pred[branch] = "none")
  BY DEF AbortPass, Leave
<1>2. opened => node \in Nodes /\ branch \in Branches
  BY DEF TypeInv, Located, InRun
<1>3. ASSUME NEW n \in Nodes, NEW c \in Branches, Unrecorded(n, c)'
      PROVE  Unrecorded(n, c)
  <2>1. prs[n][c] \in Nat /\ orphans[n][c] \in Nat
    BY DEF TypeInv, TypeOK
  <2>2. orphans'[n][c] \in {orphans[n][c], orphans[n][c] + 1}
    BY <1>1, <1>2 DEF Leave, TypeInv, TypeOK
  <2> QED
    BY <1>1, <1>3, <2>1, <2>2 DEF Unrecorded
<1> QED
  BY <1>1, <1>3, NothingPending

\* run() opens its pull request before it returns.
LEMMA ReturnedPending ==
  ASSUME Pending, pc \in {"ready", "solved", "created"}, NEW e, Returned(e)
  PROVE  Pending'
<1>1. /\ pc # "deploy" /\ prs' = prs /\ orphans' = orphans /\ SamePred(remote', remote)
      /\ opened' = opened /\ node' = node /\ branch' = branch
  BY DEF Returned, history, SamePred
<1> QED
  BY <1>1, SameRecords, NothingPending

\* No pull request exists at first.
LEMMA PendingInit == Init => Pending
<1> SUFFICES ASSUME Init PROVE Pending
  OBVIOUS
<1>1. \A n \in Nodes, b \in Branches : prs[n][b] = 0 /\ orphans[n][b] = 0
  BY DEF Init
<1>2. \A n \in Nodes, b \in Branches : ~Unrecorded(n, b)
  BY <1>1 DEF Unrecorded
<1> QED
  BY <1>2 DEF Pending

\* Every step keeps the invariant.
LEMMA PendingNext == TypeInv /\ PRInv /\ Pending /\ [Next]_vars => Pending'
<1> SUFFICES ASSUME TypeInv, PRInv, Pending, [Next]_vars PROVE Pending'
  OBVIOUS
<1>a. pc \in InRun => node \in Nodes /\ branch \in Branches /\ local[node] \in NodeInfo
  BY DEF TypeInv, TypeOK, Located
<1>b. pc \notin {"created", "returned", "sync"} => ~opened
  BY DEF TypeInv, Located
<1>c. \A n \in Nodes, b \in Branches :
        /\ prs[n][b] \in Nat /\ orphans[n][b] \in Nat
        /\ prs[n][b] <= orphans[n][b] + 1
  BY DEF TypeInv, TypeOK, PRInv, OnePRPerUid
<1>1. CASE StartJob
  <2>1. SamePred(remote', remote) /\ pc = "idle"
    BY <1>1 DEF StartJob, Prep, SamePred, TypeInv, TypeOK, NodeInfo
  <2>2. prs' = prs /\ orphans' = orphans
    BY <1>1 DEF StartJob, history
  <2> QED
    BY <1>b, <2>1, <2>2, SameRecords, NothingPending
<1>2. CASE PickNode \/ PassDone \/ OutOfTime \/ NodeDone \/ SkipBranch
  <2>1. /\ pc \in {"pick", "node"} /\ prs' = prs /\ orphans' = orphans
        /\ SamePred(remote', remote)
    BY <1>2 DEF PickNode, PassDone, OutOfTime, NodeDone, SkipBranch, history, SamePred
  <2> QED
    BY <1>b, <2>1, SameRecords, NothingPending
<1>3. CASE StartRun
  <2>1. pc = "node" /\ prs' = prs /\ orphans' = orphans /\ SamePred(remote', remote)
    BY <1>3 DEF StartRun, SamePred
  <2> QED
    BY <1>b, <2>1, SameRecords, NothingPending
<1>4. CASE CannotFork
  <2>1. [local[node] EXCEPT !.bad = "text"].pred = local[node].pred
    BY <1>4, <1>a DEF CannotFork, InRun, NodeInfo
  <2> QED
    BY <1>4, <2>1, EndRunPending DEF CannotFork
<1>5. CASE NotMigrated
  BY <1>5, EndRunPending DEF NotMigrated
<1>6. CASE AlreadyDone \/ Migrated
  <2>1. /\ pc = "ready" /\ prs' = prs /\ orphans' = orphans /\ SamePred(remote', remote)
    BY <1>6 DEF AlreadyDone, Migrated, history, SamePred
  <2> QED
    BY <1>b, <2>1, SameRecords, NothingPending
<1>7. CASE Unsolvable
  <2> DEFINE info == [local[node] EXCEPT !.attempts = IF migrator.isVersion THEN @ - SolverCredit ELSE @]
  <2>1. EndRun(info, FALSE) /\ pc = "ready"
    BY <1>7 DEF Unsolvable
  <2>2. info.pred = local[node].pred
    BY <1>a, <2>1 DEF NodeInfo, InRun
  <2> QED
    BY <2>1, <2>2, EndRunPending
<1>8. CASE SpoofTrivial \/ DuplicatePR \/ StorePrJson
  BY <1>8, ReturnedPending DEF SpoofTrivial, DuplicatePR, StorePrJson
<1>9. CASE CreatePR
  <2>1. /\ pc = "solved" /\ pc' = "created" /\ node \in Nodes /\ branch \in Branches
        /\ opened' /\ node' = node /\ branch' = branch
        /\ remote' = remote /\ orphans' = orphans
    BY <1>9, <1>a DEF CreatePR, InRun, jobVars
  <2>2. \A n \in Nodes, b \in Branches :
          prs'[n][b] = IF n = node /\ b = branch THEN prs[n][b] + 1 ELSE prs[n][b]
    BY <1>9, <2>1 DEF CreatePR, TypeInv, TypeOK
  <2>3. \A n \in Nodes, b \in Branches : ~Unrecorded(n, b)
    BY <1>b, <2>1 DEF Pending
  <2>4. \A n \in Nodes, b \in Branches :
          Unrecorded(n, b)' => n = node /\ b = branch
    BY <2>1, <2>2, <2>3 DEF Unrecorded
  <2> QED
    BY <2>1, <2>4 DEF Pending
<1>10. CASE Record
  <2>1. /\ pc = "returned" /\ prs' = prs /\ orphans' = orphans /\ SamePred(remote', remote)
        /\ opened' = opened /\ node' = node /\ branch' = branch
    BY <1>10 DEF Record, history, SamePred
  <2> QED
    BY <2>1, SameRecords, NothingPending
<1>11. CASE SyncPrInfo
  <2>1. /\ pc = "sync" /\ node \in Nodes /\ branch \in Branches
        /\ prs' = prs /\ orphans' = orphans
        /\ local[node].pred[branch] # "none"
    BY <1>11, <1>a DEF SyncPrInfo, Leave, InRun, PRInv, Unmigrated
  <2>2. \A n \in Nodes, b \in Branches :
          remote'[n].pred[b] = IF n = node THEN local[n].pred[b] ELSE remote[n].pred[b]
    BY <1>11, <2>1 DEF SyncPrInfo, TypeInv, TypeOK, NodeInfo
  <2>3. \A n \in Nodes, b \in Branches : Unrecorded(n, b)' => Unrecorded(n, b)
    BY <2>1, <2>2 DEF Unrecorded, PRInv, Ahead
  <2>4. \A n \in Nodes, b \in Branches : ~Unrecorded(n, b)'
    <3> SUFFICES ASSUME NEW n \in Nodes, NEW b \in Branches, Unrecorded(n, b)'
                 PROVE  FALSE
      OBVIOUS
    <3>1. n = node /\ b = branch
      BY <2>1, <2>3 DEF Pending
    <3>2. remote'[n].pred[b] = "none"
      BY DEF Unrecorded
    <3> QED
      BY <2>1, <2>2, <3>1, <3>2
  <2> QED
    BY <2>3, <2>4, NothingPending
<1>12. CASE GithubError
  <2>1. PICK limit \in BOOLEAN : EndRun(local[node], limit)
    BY <1>12 DEF GithubError
  <2> QED
    BY <1>12, <2>1, EndRunPending DEF GithubError, Raising
<1>13. CASE RepositoryArchived
  <2>1. [local[node] EXCEPT !.archived = TRUE].pred = local[node].pred
    BY <1>13, <1>a DEF RepositoryArchived, Raising, InRun, NodeInfo
  <2> QED
    BY <1>13, <2>1, EndRunPending DEF RepositoryArchived, Raising
<1>14. CASE MigrationError
  BY <1>14, EndRunPending DEF MigrationError, Raising
<1>15. CASE OtherError
  <2>1. [local[node] EXCEPT !.bad = "dict"].pred = local[node].pred
    BY <1>15, <1>a DEF OtherError, Raising, InRun, NodeInfo
  <2> QED
    BY <1>15, <2>1, EndRunPending DEF OtherError, Raising
<1>16. CASE UrlErrorWithoutCode
  BY <1>16, AbortPending DEF UrlErrorWithoutCode, Raising
<1>17. CASE SyncRaises
  <2>1. pc = "sync" /\ AbortPass(branch) /\ node \in Nodes
    BY <1>17, <1>a DEF SyncRaises, InRun
  <2>2. \A n \in Nodes, c \in Branches :
          remote'[n].pred[c] = "none" => remote[n].pred[c] = "none"
    <3>1. CASE remote' = remote
      BY <3>1
    <3>2. CASE remote' # remote
      <4>1. remote' = [remote EXCEPT ![node] =
                         [remote[node] EXCEPT !.pred = local[node].pred, !.bad = local[node].bad]]
        BY <1>17, <2>1, <3>2 DEF SyncRaises, TypeInv, TypeOK
      <4>2. \A n \in Nodes, c \in Branches :
              remote'[n].pred[c] = IF n = node THEN local[n].pred[c] ELSE remote[n].pred[c]
        BY <2>1, <4>1 DEF TypeInv, TypeOK, NodeInfo
      <4> QED
        BY <2>1, <4>2 DEF PRInv, Ahead
    <3> QED
      BY <3>1, <3>2
  <2> QED
    BY <2>1, <2>2, AbortPending
<1>18. CASE FilterRaises
  BY <1>18, <1>b, AbortPending DEF FilterRaises
<1>19. CASE Killed
  <2>1. /\ pc # "deploy" /\ pc' = "deploy" /\ prs' = prs /\ SamePred(remote', remote)
        /\ Leave(opened /\ local[node].pred[branch] = "none")
    BY <1>19 DEF Killed, InPass, InRun, SamePred
  <2> QED
    BY <2>1, LeavingPending, NothingPending
<1>20. CASE Deploy
  <2>1. /\ pc = "deploy" /\ pc' = "idle" /\ remote' = local
        /\ prs' = prs /\ orphans' = orphans /\ ~opened
    BY <1>20, <1>b DEF Deploy, history
  <2>2. \A n \in Nodes, b \in Branches : ~Unrecorded(n, b)'
    <3> SUFFICES ASSUME NEW n \in Nodes, NEW b \in Branches, Unrecorded(n, b)'
                 PROVE  FALSE
      OBVIOUS
    <3>1. prs[n][b] > orphans[n][b] /\ local[n].pred[b] = "none"
      BY <2>1 DEF Unrecorded
    <3>2. prs[n][b] = orphans[n][b] + 1
      BY <1>c, <3>1
    <3> QED
      BY <2>1, <3>1, <3>2 DEF PRInv, Recorded, Ahead
  <2> QED
    BY <2>2, NothingPending
<1>21. CASE RunnerLost
  <2>1. /\ remote' = remote /\ prs' = prs
        /\ \A n \in Nodes, b \in Branches :
             orphans'[n][b] = orphans[n][b] + IF Unrecorded(n, b) THEN 1 ELSE 0
    BY <1>21 DEF RunnerLost
  <2>2. \A n \in Nodes, b \in Branches : ~Unrecorded(n, b)'
    <3> SUFFICES ASSUME NEW n \in Nodes, NEW b \in Branches, Unrecorded(n, b)'
                 PROVE  FALSE
      OBVIOUS
    <3>1. prs[n][b] > orphans'[n][b] /\ remote[n].pred[b] = "none"
      BY <2>1 DEF Unrecorded
    <3>2. Unrecorded(n, b)
      BY <1>c, <2>1, <3>1 DEF Unrecorded
    <3> QED
      BY <1>c, <2>1, <3>1, <3>2
  <2> QED
    BY <2>2, NothingPending
<1>22. CASE UNCHANGED vars
  BY <1>22 DEF vars, jobVars, history, Pending, Unrecorded
<1> QED
  BY <1>1, <1>2, <1>3, <1>4, <1>5, <1>6, <1>7, <1>8, <1>9, <1>10, <1>11, <1>12,
     <1>13, <1>14, <1>15, <1>16, <1>17, <1>18, <1>19, <1>20, <1>21, <1>22
  DEF Next, Progress, Failure

\* A set whose elements are all equal has at most one.
LEMMA AtMostOne ==
  ASSUME NEW S, \A p, q \in S : p = q
  PROVE  Cardinality(S) <= 1
<1>1. CASE S = {}
  BY <1>1, FS_EmptySet
<1>2. CASE S # {}
  <2>1. PICK p \in S : TRUE
    BY <1>2
  <2>2. S = {p}
    BY <2>1
  <2>3. Cardinality({p}) = 1
    BY FS_Singleton
  <2> QED
    BY <2>2, <2>3
<1> QED
  BY <1>1, <1>2

\* A crash loses the record of at most one pull request: the pass never has two
\* that the graph repository does not know of.
THEOREM OneAtRisk == Spec => []OneUnrecordedPR
<1>1. Pending => OneUnrecordedPR
  <2> SUFFICES ASSUME Pending PROVE OneUnrecordedPR
    OBVIOUS
  <2> DEFINE S == {p \in Nodes \X Branches : Unrecorded(p[1], p[2])}
  <2>1. \A p, q \in S : p = q
    BY DEF Pending
  <2> HIDE DEF S
  <2>2. Cardinality(S) <= 1
    BY <2>1, AtMostOne
  <2> QED
    BY <2>2 DEF OneUnrecordedPR, S
<1> QED
  BY <1>1, TypeInit, TypeNext, PRInit, PRNext, PendingInit, PendingNext, PTL DEF Spec

-----------------------------------------------------------------------------
(* The order of the syncs *)

\* A step keeps the invariant if the clone's records stay, and those of the
\* repository stay or are the clone's.
LEMMA KeptRecords ==
  ASSUME JsonInv, pc # "idle", pc' # "returned",
         \A n \in Nodes : json[n] \subseteq json'[n],
         pc' # "idle" => SamePred(local', local),
         \A n \in Nodes, b \in Branches :
           remote'[n].pred[b] \in {remote[n].pred[b], local[n].pred[b]}
  PROVE  JsonInv'
<1>1. RefsStored'
  BY DEF JsonInv, RefsStored, SamePred
<1>2. NoDanglingPrJson'
  BY DEF JsonInv, RefsStored, NoDanglingPrJson
<1> QED
  BY <1>1, <1>2 DEF JsonInv

\* EndRun stores no record.
LEMMA EndRunJson ==
  ASSUME TypeInv, JsonInv, pc \in InRun, NEW info \in NodeInfo, NEW b \in BOOLEAN,
         info.pred = local[node].pred, EndRun(info, b)
  PROVE  JsonInv'
<1>1. pc # "idle" /\ pc' = "node" /\ remote' = remote /\ json' = json
  BY DEF EndRun, InRun
<1>2. SamePred(local', local)
  BY DEF EndRun, SamePred, TypeInv, TypeOK, Located
<1> QED
  BY <1>1, <1>2, KeptRecords

\* Neither does an exception out of _run_migrator, whatever was synced before.
LEMMA AbortJson ==
  ASSUME TypeInv, JsonInv, pc \in InRun \cup {"node"}, NEW b \in Branches, AbortPass(b),
         \A n \in Nodes, c \in Branches :
           remote'[n].pred[c] \in {remote[n].pred[c], local[n].pred[c]}
  PROVE  JsonInv'
<1>1. pc # "idle" /\ pc' = "deploy" /\ json' = json
  BY DEF AbortPass, InRun
<1>2. SamePred(local', local)
  BY DEF AbortPass, SamePred, TypeInv, TypeOK, Located, NodeInfo
<1> QED
  BY <1>1, <1>2, KeptRecords

\* run() returns a reference only to an object it has stored.
LEMMA ReturnedJson ==
  ASSUME TypeInv, JsonInv, pc \in InRun, NEW e \in {"ref", "closed"}, Returned(e),
         \A n \in Nodes : json[n] \subseteq json'[n],
         e = "ref" => branch \in json'[node]
  PROVE  JsonInv'
<1>1. /\ pc # "idle" /\ entry' = e /\ remote' = remote
      /\ node' = node /\ branch' = branch
  BY DEF Returned, InRun
<1>2. SamePred(local', local)
  BY DEF Returned, SamePred, TypeInv, TypeOK, Located, NodeInfo
<1>3. RefsStored'
  BY <1>1, <1>2 DEF JsonInv, RefsStored, SamePred
<1>4. NoDanglingPrJson'
  BY <1>1 DEF JsonInv, NoDanglingPrJson
<1> QED
  BY <1>3, <1>4 DEF JsonInv

\* Nothing is referred to at first.
LEMMA JsonInit == Init => JsonInv
  BY DEF Init, JsonInv, RefsStored, NoDanglingPrJson, Fresh

\* Every step keeps the invariant.
LEMMA JsonNext == TypeInv /\ JsonInv /\ [Next]_vars => JsonInv'
<1> SUFFICES ASSUME TypeInv, JsonInv, [Next]_vars PROVE JsonInv'
  OBVIOUS
<1>a. pc \in InRun => node \in Nodes /\ branch \in Branches /\ local[node] \in NodeInfo
  BY DEF TypeInv, TypeOK, Located
<1>b. node \in Nodes =>
        LET stored == [json EXCEPT ![node] = @ \cup {branch}]
        IN  branch \in stored[node] /\ \A n \in Nodes : json[n] \subseteq stored[n]
  BY DEF TypeInv, TypeOK
<1>1. CASE StartJob
  <2>1. SamePred(local', remote) /\ SamePred(remote', remote)
    BY <1>1 DEF StartJob, Prep, SamePred, TypeInv, TypeOK, NodeInfo
  <2>2. pc' = "pick" /\ json' = json
    BY <1>1 DEF StartJob
  <2> QED
    BY <2>1, <2>2 DEF SamePred, JsonInv, RefsStored, NoDanglingPrJson
<1>2. CASE PickNode \/ PassDone \/ OutOfTime \/ NodeDone \/ SkipBranch
  <2>1. /\ pc # "idle" /\ pc' # "returned"
        /\ local' = local /\ remote' = remote /\ json' = json
    BY <1>2 DEF PickNode, PassDone, OutOfTime, NodeDone, SkipBranch
  <2> QED
    BY <2>1, KeptRecords DEF SamePred
<1>3. CASE StartRun
  <2>1. /\ pc # "idle" /\ pc' = "ready" /\ remote' = remote /\ json' = json
        /\ node \in Nodes
    BY <1>3 DEF StartRun, TypeInv, Located
  <2>2. SamePred(local', local)
    BY <1>3, <2>1 DEF StartRun, SamePred, TypeInv, TypeOK, NodeInfo
  <2> QED
    BY <2>1, <2>2, KeptRecords
<1>4. CASE CannotFork
  <2>1. EndRun([local[node] EXCEPT !.bad = "text"], FALSE) /\ pc \in InRun
    BY <1>4 DEF CannotFork, InRun
  <2>2. /\ [local[node] EXCEPT !.bad = "text"] \in NodeInfo
        /\ [local[node] EXCEPT !.bad = "text"].pred = local[node].pred
    BY <1>a, <2>1 DEF NodeInfo
  <2> QED
    BY <2>1, <2>2, EndRunJson
<1>5. CASE NotMigrated
  BY <1>5, <1>a, EndRunJson DEF NotMigrated, InRun
<1>6. CASE AlreadyDone
  <2>1. /\ pc \in InRun /\ pc # "idle" /\ remote' = remote
        /\ node' = node /\ branch' = branch
        /\ json' = [json EXCEPT ![node] = @ \cup {branch}]
    BY <1>6 DEF AlreadyDone, InRun
  <2>2. SamePred(local', local)
    BY <1>6, <1>a, <2>1 DEF AlreadyDone, SamePred, TypeInv, TypeOK, NodeInfo
  <2>3. branch \in json'[node] /\ \A n \in Nodes : json[n] \subseteq json'[n]
    BY <1>a, <1>b, <2>1
  <2> QED
    BY <2>1, <2>2, <2>3 DEF JsonInv, RefsStored, NoDanglingPrJson, SamePred
<1>7. CASE Unsolvable
  <2> DEFINE info == [local[node] EXCEPT !.attempts = IF migrator.isVersion THEN @ - SolverCredit ELSE @]
  <2>1. EndRun(info, FALSE) /\ pc \in InRun /\ pc = "ready"
    BY <1>7 DEF Unsolvable, InRun
  <2>2. (IF migrator.isVersion THEN local[node].attempts - SolverCredit
         ELSE local[node].attempts) \in Nat
    BY <1>a, <2>1 DEF TypeInv, Located, NodeInfo, Attempt, SolverCredit
  <2>3. info \in NodeInfo /\ info.pred = local[node].pred
    BY <1>a, <2>1, <2>2 DEF NodeInfo
  <2> QED
    BY <2>1, <2>3, EndRunJson
<1>8. CASE Migrated
  <2>1. pc \in InRun /\ pc # "idle" /\ pc' = "solved" /\ remote' = remote /\ json' = json
    BY <1>8 DEF Migrated, InRun
  <2>2. SamePred(local', local)
    BY <1>8, <1>a, <2>1 DEF Migrated, SamePred, TypeInv, TypeOK, NodeInfo
  <2> QED
    BY <2>1, <2>2, KeptRecords
<1>9. CASE SpoofTrivial \/ StorePrJson
  <2>1. /\ pc \in InRun /\ Returned("ref")
        /\ json' = [json EXCEPT ![node] = @ \cup {branch}]
    BY <1>9 DEF SpoofTrivial, StorePrJson, InRun
  <2> QED
    BY <1>a, <1>b, <2>1, ReturnedJson
<1>10. CASE DuplicatePR
  BY <1>10, ReturnedJson DEF DuplicatePR, InRun
<1>11. CASE CreatePR
  <2>1. /\ pc # "idle" /\ pc' = "created"
        /\ local' = local /\ remote' = remote /\ json' = json
    BY <1>11 DEF CreatePR
  <2> QED
    BY <2>1, KeptRecords DEF SamePred
<1>12. CASE Record
  <2>1. /\ node \in Nodes /\ branch \in Branches
        /\ pc = "returned" /\ pc' = "sync" /\ remote' = remote /\ json' = json
    BY <1>12, <1>a DEF Record, InRun
  <2>2. \A n \in Nodes, b \in Branches :
          local'[n].pred[b] = IF n = node /\ b = branch THEN entry ELSE local[n].pred[b]
    BY <1>12, <2>1 DEF Record, TypeInv, TypeOK, NodeInfo
  <2> QED
    BY <2>1, <2>2 DEF JsonInv, RefsStored, NoDanglingPrJson
<1>13. CASE SyncPrInfo
  <2>1. /\ node \in Nodes /\ pc # "idle" /\ pc' = "node"
        /\ local' = local /\ json' = json
    BY <1>13, <1>a DEF SyncPrInfo, InRun
  <2>2. \A n \in Nodes, b \in Branches :
          remote'[n].pred[b] = IF n = node THEN local[n].pred[b] ELSE remote[n].pred[b]
    BY <1>13, <2>1 DEF SyncPrInfo, TypeInv, TypeOK, NodeInfo
  <2> QED
    BY <2>1, <2>2, KeptRecords DEF SamePred
<1>14. CASE GithubError
  <2>1. PICK limit \in BOOLEAN : EndRun(local[node], limit)
    BY <1>14 DEF GithubError
  <2> QED
    BY <1>14, <1>a, <2>1, EndRunJson DEF GithubError, Raising, InRun
<1>15. CASE RepositoryArchived
  <2>1. EndRun([local[node] EXCEPT !.archived = TRUE], FALSE) /\ pc \in InRun
    BY <1>15 DEF RepositoryArchived, Raising, InRun
  <2>2. /\ [local[node] EXCEPT !.archived = TRUE] \in NodeInfo
        /\ [local[node] EXCEPT !.archived = TRUE].pred = local[node].pred
    BY <1>a, <2>1 DEF NodeInfo
  <2> QED
    BY <2>1, <2>2, EndRunJson
<1>16. CASE MigrationError
  BY <1>16, <1>a, EndRunJson DEF MigrationError, Raising, InRun
<1>17. CASE OtherError
  <2>1. EndRun([local[node] EXCEPT !.bad = "dict"], FALSE) /\ pc \in InRun
    BY <1>17 DEF OtherError, Raising, InRun
  <2>2. /\ [local[node] EXCEPT !.bad = "dict"] \in NodeInfo
        /\ [local[node] EXCEPT !.bad = "dict"].pred = local[node].pred
    BY <1>a, <2>1 DEF NodeInfo
  <2> QED
    BY <2>1, <2>2, EndRunJson
<1>18. CASE UrlErrorWithoutCode
  BY <1>18, <1>a, AbortJson DEF UrlErrorWithoutCode, Raising, InRun
<1>19. CASE SyncRaises
  <2>1. pc \in InRun /\ AbortPass(branch) /\ node \in Nodes
    BY <1>19, <1>a DEF SyncRaises, InRun
  <2>2. \/ remote' = remote
        \/ remote' = [remote EXCEPT ![node] =
                       [remote[node] EXCEPT !.pred = local[node].pred, !.bad = local[node].bad]]
    BY <1>19, <2>1 DEF SyncRaises, TypeInv, TypeOK
  <2>3. \A n \in Nodes, c \in Branches :
          remote'[n].pred[c] \in {remote[n].pred[c], local[n].pred[c]}
    <3>1. CASE remote' = remote
      BY <3>1
    <3>2. CASE remote' # remote
      <4>1. remote' = [remote EXCEPT ![node] =
                         [remote[node] EXCEPT !.pred = local[node].pred, !.bad = local[node].bad]]
        BY <2>2, <3>2
      <4>2. \A n \in Nodes, c \in Branches :
              remote'[n].pred[c] = IF n = node THEN local[n].pred[c] ELSE remote[n].pred[c]
        BY <2>1, <4>1 DEF TypeInv, TypeOK, NodeInfo
      <4> QED
        BY <4>2
    <3> QED
      BY <3>1, <3>2
  <2> QED
    BY <1>a, <2>1, <2>3, AbortJson
<1>20. CASE FilterRaises
  <2>1. Head(branches) \in Branches
    BY <1>20 DEF FilterRaises, TypeInv, TypeOK
  <2> QED
    BY <1>20, <2>1, AbortJson DEF FilterRaises
<1>21. CASE Killed
  <2>1. pc \in InPass /\ pc # "idle" /\ pc' = "deploy" /\ remote' = remote /\ json' = json
    BY <1>21 DEF Killed, InPass, InRun
  <2>2. pc # "pick" => node \in Nodes
    BY <2>1 DEF TypeInv, Located, InPass
  <2>3. \/ local' = local
        \/ pc # "pick" /\ local' = [local EXCEPT ![node].branch = branch]
        \/ pc # "pick" /\ local' = [local EXCEPT ![node].archived = remote[node].archived,
                                                 ![node].branch = remote[node].branch]
    BY <1>21 DEF Killed, InRun
  <2>4. SamePred(local', local)
    <3>1. CASE local' = local
      BY <3>1 DEF SamePred
    <3>2. CASE pc # "pick" /\ local' = [local EXCEPT ![node].branch = branch]
      BY <2>2, <3>2 DEF SamePred, TypeInv, TypeOK, NodeInfo
    <3>3. CASE pc # "pick" /\ local' = [local EXCEPT ![node].archived = remote[node].archived,
                                                     ![node].branch = remote[node].branch]
      BY <2>2, <3>3 DEF SamePred, TypeInv, TypeOK, NodeInfo
    <3> QED
      BY <2>3, <3>1, <3>2, <3>3
  <2> QED
    BY <2>1, <2>4, KeptRecords
<1>22. CASE Deploy
  <2>1. pc # "idle" /\ pc' = "idle" /\ local' = local /\ remote' = local /\ json' = json
    BY <1>22 DEF Deploy
  <2> QED
    BY <2>1, KeptRecords
<1>23. CASE RunnerLost
  <2>1. pc # "idle" /\ pc' = "idle" /\ remote' = remote /\ json' = json
    BY <1>23 DEF RunnerLost
  <2> QED
    BY <2>1, KeptRecords
<1>24. CASE UNCHANGED vars
  BY <1>24 DEF vars, jobVars, JsonInv, RefsStored, NoDanglingPrJson
<1> QED
  BY <1>1, <1>2, <1>3, <1>4, <1>5, <1>6, <1>7, <1>8, <1>9, <1>10, <1>11, <1>12,
     <1>13, <1>14, <1>15, <1>16, <1>17, <1>18, <1>19, <1>20, <1>21, <1>22, <1>23, <1>24
  DEF Next, Progress, Failure

\* No record in the graph repository refers to a pr_json object that is not
\* there, although the deploy never sends the pr_json objects.
THEOREM NoDanglingReference == Spec => []NoDanglingPrJson
<1>1. JsonInv => NoDanglingPrJson
  BY DEF JsonInv
<1> QED
  BY <1>1, TypeInit, TypeNext, JsonInit, JsonNext, PTL DEF Spec

-----------------------------------------------------------------------------
(* What a failed run counts *)

\* A run that has not ended has counted as one attempt.
Counting == pc \in RunEnds => local[node].attempts = before + Attempt

\* What the credit leaves of an attempt is more than nothing.
LEMMA CreditIsLess == Attempt \in Nat /\ SolverCredit \in Nat /\ SolverCredit < Attempt
BY DEF Attempt, SolverCredit

\* A run starts by counting, and up to its end nothing but the solver changes that.
LEMMA CountingNext ==
  ASSUME TypeInv, TypeInv', Counting, [Next]_vars
  PROVE  Counting'
<1>0. migrator' = migrator /\ RunEnds' = RunEnds
  BY DEF Next, vars, RunEnds
<1>1. ASSUME pc' \in RunEnds PROVE StartRun \/ Migrated \/ CreatePR \/ UNCHANGED vars
  BY <1>1 DEF Next, Progress, Failure, RunEnds, StartJob, PickNode, PassDone, NodeDone, SkipBranch,
     AlreadyDone, SpoofTrivial, DuplicatePR, StorePrJson, Record, SyncPrInfo, Deploy, Returned,
     OutOfTime, CannotFork, NotMigrated, Unsolvable, GithubError, RepositoryArchived, MigrationError,
     OtherError, UrlErrorWithoutCode, SyncRaises, FilterRaises, Killed, RunnerLost, EndRun, AbortPass
<1>2. CASE StartRun
  <2>1. node \in Nodes /\ local[node] \in NodeInfo
    BY <1>2 DEF StartRun, TypeInv, TypeOK, Located
  <2>2. local'[node] = [local[node] EXCEPT !.attempts = @ + Attempt] /\ node' = node
    BY <1>2, <2>1 DEF StartRun, TypeInv, TypeOK
  <2>3. local'[node].attempts = local[node].attempts + Attempt /\ before' = local[node].attempts
    BY <1>2, <2>1, <2>2 DEF StartRun, NodeInfo
  <2> QED BY <2>2, <2>3 DEF Counting
<1>3. CASE Migrated
  <2>1. migrator.solverChecks => pc' \notin RunEnds
    BY <1>0, <1>3 DEF Migrated, RunEnds
  <2>2. ~migrator.solverChecks => local' = local
    BY <1>3 DEF Migrated, SolverNeeded
  <2> QED BY <1>0, <1>3, <2>1, <2>2 DEF Migrated, jobVars, history, Counting, RunEnds
<1>4. CASE CreatePR
  BY <1>0, <1>4 DEF CreatePR, jobVars, Counting, RunEnds
<1>5. CASE UNCHANGED vars
  BY <1>5 DEF vars, jobVars, history, Counting, RunEnds
<1> QED BY <1>0, <1>1, <1>2, <1>3, <1>4, <1>5 DEF Counting

\* The ends of a run leave more than there was before it.
LEMMA EndsCount ==
  ASSUME TypeInv, TypeInv', Counting, [Next]_vars
  PROVE  ~FailedRun
<1> SUFFICES ASSUME pc \in RunEnds, pc' \in {"node", "deploy"}
             PROVE  ~(local'[node].attempts <= before)
  BY DEF FailedRun
<1>1. pc \in {"ready", "solved", "created"} /\ node \in Nodes /\ local[node] \in NodeInfo
  BY DEF RunEnds, TypeInv, TypeOK, Located, InRun
<1>2. local[node].attempts = before + Attempt /\ before \in Nat
  BY DEF Counting, TypeInv, TypeOK
<1>3. local'[node].attempts \in {local[node].attempts, local[node].attempts - SolverCredit}
  <2>1. ASSUME NEW info \in NodeInfo, NEW b, EndRun(info, b)
        PROVE  local'[node].attempts = info.attempts
    BY <1>1, <2>1 DEF EndRun, TypeInv, TypeOK
  <2>2. ASSUME NEW b, AbortPass(b) PROVE local'[node].attempts = local[node].attempts
    BY <1>1, <2>2 DEF AbortPass, TypeInv, TypeOK, NodeInfo
  <2>3. CASE CannotFork \/ NotMigrated \/ GithubError \/ RepositoryArchived \/ MigrationError \/ OtherError
    <3>1. [local[node] EXCEPT !.bad = "text"] \in NodeInfo /\ [local[node] EXCEPT !.bad = "dict"] \in NodeInfo
          /\ [local[node] EXCEPT !.archived = TRUE] \in NodeInfo
      BY <1>1, InfoUpdates
    <3>2. /\ [local[node] EXCEPT !.bad = "text"].attempts = local[node].attempts
          /\ [local[node] EXCEPT !.bad = "dict"].attempts = local[node].attempts
          /\ [local[node] EXCEPT !.archived = TRUE].attempts = local[node].attempts
      BY <1>1 DEF NodeInfo
    <3>3. \E info \in NodeInfo, b \in BOOLEAN :
             EndRun(info, b) /\ info.attempts = local[node].attempts
      BY <1>1, <2>3, <3>1, <3>2
      DEF CannotFork, NotMigrated, GithubError, RepositoryArchived, MigrationError, OtherError
    <3> QED BY <2>1, <3>3
  <2>4. CASE Unsolvable
    <3> DEFINE a == IF migrator.isVersion THEN local[node].attempts - SolverCredit ELSE local[node].attempts
               info == [local[node] EXCEPT !.attempts = a]
    <3>1. EndRun(info, FALSE)
      BY <2>4 DEF Unsolvable
    <3>2. a \in Nat
      BY <1>1, <1>2, CreditIsLess DEF NodeInfo
    <3>3. info \in NodeInfo /\ info.attempts = a
      <4> HIDE DEF a
      <4> QED BY <1>1, <3>2, InfoUpdates DEF NodeInfo
    <3> QED BY <2>1, <3>1, <3>3
  <2>5. CASE UrlErrorWithoutCode
    BY <2>2, <2>5 DEF UrlErrorWithoutCode
  <2>6. CASE Killed
    BY <1>1, <2>6 DEF Killed, TypeInv, TypeOK, NodeInfo
  <2>7. CASE UNCHANGED vars
    BY <2>7 DEF vars
  <2> QED
    BY <1>1, <2>3, <2>4, <2>5, <2>6, <2>7 DEF Next, Progress, Failure, StartJob, PickNode, PassDone,
       NodeDone, SkipBranch, StartRun, AlreadyDone, Migrated, SpoofTrivial, CreatePR, DuplicatePR,
       StorePrJson, Record, SyncPrInfo, Deploy, Returned, OutOfTime, SyncRaises, FilterRaises, RunnerLost
<1> QED BY <1>1, <1>2, <1>3, CreditIsLess

\* A run that ends without a result has used up part of an attempt, the unsolvable ones
\* with their credit included.
THEOREM FailedRunsCount == Spec => FailedRunCounts
<1>1. Init => Counting
  BY DEF Init, Counting, RunEnds
<1>2. TypeInv /\ TypeInv' /\ Counting /\ [Next]_vars => Counting' /\ [~FailedRun]_vars
  BY CountingNext, EndsCount
<1> QED BY <1>1, <1>2, TypeInit, TypeNext, PTL DEF Spec, FailedRunCounts
=============================================================================
