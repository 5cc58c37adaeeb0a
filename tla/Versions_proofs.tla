---------------------------- MODULE Versions_proofs ----------------------------
(***************************************************************************)
(* What is proved of new versions: every pull request is an upgrade, what  *)
(* the bot will propose is on the status page, what a job can lose, that a *)
(* feedstock is told what the sources find for it alone, that the search   *)
(* by URLs goes up and not far, and that the hashes in a meta.yaml and a   *)
(* recipe.yaml are of what is downloaded; for any number of versions,      *)
(* feedstocks, sources and recipes.                                        *)
(***************************************************************************)
EXTENDS VersionStatus, VersionJobs, VersionSources, NextVersion,
        RecipeVersion, RecipeVersionV1,
        WellFoundedInduction, FiniteSetTheorems, SequenceTheorems, TLAPS

-----------------------------------------------------------------------------
(* VersionFlow *)

USE DEF None, Bad

\* The type invariant, as far as the order of the versions needs it.
Types ==
  /\ released \in SUBSET Versions /\ excluded \in SUBSET Versions
  /\ recipe \in Versions /\ attrs \in Versions
  /\ data \in Bad..MaxVersion /\ new \in None..MaxVersion
  /\ prs \in [Versions -> PRState] /\ seen \in [Versions -> PRState]
  /\ withdrawals \in Nat /\ pushes \in Nat

Proposed == {v \in Versions : prs[v] # "none"}

\* Nothing has been withdrawn or pushed: what is found, what is merged and what is
\* proposed only grow, and the recipe is always something that was proposed.
Growing ==
  /\ excluded = {}
  /\ recipe \in {1} \cup Proposed /\ attrs \in {1} \cup Proposed
  /\ \A v \in Proposed : v <= new
  /\ new = None \/ new \in released
  /\ data \in Versions => data \in released /\ new <= data
  /\ 1 \in released
  /\ \A v \in Versions : seen[v] # "none" => prs[v] # "none"
  /\ \A v \in Proposed : seen[v] # "none"

IInv == Types /\ (withdrawals = 0 /\ pushes = 0 => Growing)

\* Among some natural numbers there is a least one.
LEMMA LeastNumber ==
  ASSUME NEW B, B \subseteq Nat, B # {}
  PROVE  \E m \in B : \A k \in B : m <= k
<1>1. PICK m \in B : \A k \in B : ~(<<k, m>> \in OpToRel(<, Nat))
  BY NatLessThanWellFounded, WFMin
<1>2. m \in Nat /\ \A k \in B : k \in Nat /\ ~(k < m)
  BY <1>1 DEF OpToRel
<1> QED BY <1>2

\* The largest member of a set of versions, or None.
LEMMA LargestIs ==
  ASSUME NEW S, S \in SUBSET Versions
  PROVE  /\ Largest(S) \in S \cup {None}
         /\ \A x \in S : x <= Largest(S)
         /\ S = {} => Largest(S) = None
<1> DEFINE T == S \cup {None}
           D == {MaxVersion - x : x \in T}
<1>1. T \subseteq 0..MaxVersion /\ MaxVersion \in Nat
  BY FlowAssumption DEF Versions, None
<1>2. D \in SUBSET Nat /\ MaxVersion - None \in D
  BY <1>1 DEF None
<1>3. PICK d \in D : \A k \in D : d <= k
  <2> HIDE DEF D
  <2> QED BY <1>2, LeastNumber
<1>4. PICK m \in T : d = MaxVersion - m
  OBVIOUS
<1>5. \A x \in T : m >= x
  <2>1. ASSUME NEW x \in T PROVE m >= x
    <3>1. d <= MaxVersion - x
      BY <1>3
    <3> QED BY <3>1, <1>4, <1>1
  <2> QED BY <2>1
<1>6. Max(T) \in T /\ \A x \in T : Max(T) >= x
  BY <1>5 DEF Max
<1>7. \A x \in T : x <= Max(T)
  BY <1>6, <1>1
<1> QED BY <1>6, <1>7, <1>1 DEF Largest

\* What a source answers with and what prep makes of it.
LEMMA NewVersionType ==
  ASSUME Types PROVE NewVersion \in None..MaxVersion
<1> DEFINE S == {data} \cup IF IsIgnored(attrs) THEN {} ELSE {attrs}
<1>1. CASE data \notin Versions
  BY <1>1 DEF NewVersion, Types
<1>2. CASE data \in Versions
  <2>1. S \in SUBSET Versions
    BY <1>2 DEF Types
  <2>2. Largest(S) \in S \cup {None}
    BY <2>1, LargestIs
  <2>3. NewVersion = Largest(S)
    BY <1>2 DEF NewVersion
  <2>4. Versions \cup {None} \subseteq None..MaxVersion
    BY FlowAssumption DEF Versions
  <2> QED BY <2>1, <2>2, <2>3, <2>4
<1> QED BY <1>1, <1>2

LEMMA AnswersAre ==
  ASSUME released \in SUBSET Versions
  PROVE  /\ {Latest, LargestOfList, Bad} \subseteq Bad..MaxVersion
         /\ excluded = {} => \A d \in {Latest, LargestOfList} \cap Versions :
                              d \in released /\ \A v \in released : v <= d
<1> DEFINE L == {v \in released : ~IsIgnored(v)}
<1>1. L \in SUBSET Versions
  OBVIOUS
<1>2. /\ Largest(released) \in released \cup {None}
      /\ \A x \in released : x <= Largest(released)
  BY LargestIs
<1>3. Largest(L) \in L \cup {None}
  BY <1>1, LargestIs
<1>4. {Latest, LargestOfList, Bad} \subseteq Bad..MaxVersion
  BY <1>1, <1>2, <1>3, FlowAssumption DEF Latest, LargestOfList, Versions
<1>5. ASSUME excluded = {} PROVE Latest = Largest(released) /\ LargestOfList = Largest(released)
  <2>1. \A v : ~IsIgnored(v)
    BY <1>5 DEF IsIgnored
  <2>2. L = released
    BY <2>1
  <2> QED BY <2>1, <2>2 DEF Latest, LargestOfList
<1> QED BY <1>2, <1>4, <1>5 DEF Versions

\* Only Migrate opens a pull request, for the new version of the graph.
LEMMA OpenedByMigrate ==
  ASSUME Types, [Next]_vars, NEW v \in Versions, Opened(v)
  PROVE  Migrate /\ v = new
<1>1. ASSUME NEW u \in Versions, Merge(u) \/ Close(u) PROVE FALSE
  BY <1>1 DEF Merge, Close, Opened, Types, PRState
<1>2. prs' # prs
  BY DEF Opened
<1>3. CASE Migrate
  BY <1>3 DEF Migrate, Opened, Types, PRState
<1> QED BY <1>1, <1>2, <1>3 DEF Next, Release, Withdraw, Push, Fetch, UpdateNode, UpdatePRs, Prep, world, vars

\* Growing is inductive: one step per action.
LEMMA InitGrowing == Init => IInv
<1> SUFFICES ASSUME Init PROVE IInv
  OBVIOUS
<1>1. 1 \in Versions
  BY FlowAssumption DEF Versions
<1>2. Types
  BY <1>1, FlowAssumption DEF Init, Types, PRState
<1>3. Growing
  BY <1>1 DEF Init, Growing, Proposed, Versions
<1> QED BY <1>2, <1>3 DEF IInv

LEMMA StepTypes == Types /\ [Next]_vars => Types'
<1> SUFFICES ASSUME Types, [Next]_vars PROVE Types'
  OBVIOUS
<1>1. ASSUME NEW v \in Versions, Release(v) PROVE Types'
  BY <1>1 DEF Release, Types, graph
<1>2. ASSUME NEW v \in Versions, Withdraw(v) PROVE Types'
  BY <1>2 DEF Withdraw, Types, graph
<1>3. ASSUME NEW v \in Versions, Push(v) PROVE Types'
  BY <1>3 DEF Push, Types, graph
<1>4. ASSUME NEW v \in Versions, Merge(v) \/ Close(v) PROVE Types'
  BY <1>4 DEF Merge, Close, Types, graph, PRState
<1>5. CASE Fetch
  <2>1. data' \in Bad..MaxVersion
    BY <1>5, AnswersAre DEF Fetch, Types
  <2> QED BY <1>5, <2>1 DEF Fetch, Types, world
<1>6. CASE UpdateNode \/ UpdatePRs
  BY <1>6 DEF UpdateNode, UpdatePRs, Types, world
<1>7. CASE Prep
  <2>1. new' \in None..MaxVersion
    BY <1>7, NewVersionType DEF Prep
  <2> QED BY <1>7, <2>1 DEF Prep, Types, world
<1>8. CASE Migrate
  BY <1>8 DEF Migrate, Types, PRState
<1>9. CASE UNCHANGED vars
  BY <1>9 DEF vars, Types
<1> QED BY <1>1, <1>2, <1>3, <1>4, <1>5, <1>6, <1>7, <1>8, <1>9 DEF Next

LEMMA StepGrowing ==
  ASSUME IInv, [Next]_vars, withdrawals' = 0, pushes' = 0
  PROVE  Growing'
<1>1. Types /\ Types'
  BY StepTypes DEF IInv
<1> USE DEF PRState
<1>2. withdrawals = 0 /\ pushes = 0
  BY <1>1 DEF Next, Release, Withdraw, Push, Merge, Close, Fetch, UpdateNode, UpdatePRs, Prep, Migrate, world, vars, Types
<1>3. Growing
  BY <1>2 DEF IInv
<1>4. ASSUME NEW v \in Versions, Release(v) PROVE Growing'
  BY <1>4, <1>3 DEF Release, Growing, Proposed, graph
<1>5. ASSUME NEW v \in Versions, Withdraw(v) \/ Push(v) PROVE FALSE
  BY <1>5, <1>1, <1>2 DEF Withdraw, Push, Types
<1>6. ASSUME NEW v \in Versions, Merge(v) \/ Close(v) PROVE Growing'
  <2>1. Proposed' = Proposed /\ v \in Proposed
    BY <1>6, <1>1 DEF Merge, Close, Proposed, Types
  <2> QED BY <1>6, <1>1, <1>3, <2>1 DEF Merge, Close, Growing, Proposed, graph, Types
<1>7. CASE Fetch
  <2>1. data' \in Versions => data' \in released /\ \A u \in released : u <= data'
    BY <1>7, <1>1, <1>3, AnswersAre DEF Fetch, Types, Growing, Versions
  <2>2. data' \in Versions => new <= data'
    BY <2>1, <1>1, <1>3 DEF Growing, Types, Versions
  <2>3. Proposed' = Proposed
    BY <1>7 DEF Fetch, world, Proposed
  <2> QED BY <1>7, <1>3, <2>1, <2>2, <2>3 DEF Fetch, Growing, world
<1>8. CASE UpdateNode
  BY <1>8, <1>3 DEF UpdateNode, Growing, Proposed, world
<1>9. CASE UpdatePRs
  BY <1>9, <1>3 DEF UpdatePRs, Growing, Proposed, world
<1>10. CASE Prep
  <2>1. CASE data \notin Versions
    BY <1>10, <2>1, <1>3 DEF Prep, NewVersion, Growing, Proposed, world
  <2>2. CASE data \in Versions
    <3>1. ~IsIgnored(attrs)
      BY <1>3 DEF IsIgnored, Growing
    <3>2. new' = Largest({data} \cup {attrs})
      BY <1>10, <2>2, <3>1 DEF Prep, NewVersion
    <3>3. {data} \cup {attrs} \in SUBSET Versions
      BY <2>2, <1>1 DEF Types
    <3>4. new' \in {data, attrs, None} /\ data <= new' /\ attrs <= new'
      BY <3>2, <3>3, LargestIs
    <3>5. attrs <= data
      <4>1. CASE attrs = 1
        BY <4>1, <2>2 DEF Versions
      <4>2. CASE attrs \in Proposed
        BY <4>2, <2>2, <1>1, <1>3 DEF Growing, Types, Versions
      <4> QED BY <4>1, <4>2, <1>3 DEF Growing
    <3>6. new' = data
      BY <3>4, <3>5, <2>2, <1>1 DEF Types, Versions
    <3>7. Proposed' = Proposed /\ data' = data
      BY <1>10 DEF Prep, world, Proposed
    <3>8. \A v \in Proposed : v <= data
      BY <1>1, <1>3, <2>2 DEF Growing, Types, Versions, Proposed
    <3> QED BY <1>10, <1>1, <1>3, <3>6, <3>7, <3>8, <2>2 DEF Prep, Growing, world, Types, Versions
  <2> QED BY <2>1, <2>2
<1>11. CASE Migrate
  <2>1. new \in Versions
    BY <1>11 DEF Migrate, IsFiltered
  <2>2. Proposed' = Proposed \cup {new}
    BY <1>11, <1>1, <2>1 DEF Migrate, Proposed, Types
  <2>3. \A v \in Versions : v # new => prs'[v] = prs[v] /\ seen'[v] = seen[v]
    BY <1>11, <1>1 DEF Migrate, Types
  <2>4. seen'[new] = "open" /\ prs'[new] = "open"
    BY <1>11, <1>1, <2>1 DEF Migrate, Types
  <2> QED BY <1>11, <1>3, <2>1, <2>2, <2>3, <2>4 DEF Migrate, Growing, Proposed, Versions
<1>12. CASE UNCHANGED vars
  BY <1>12, <1>3 DEF vars, Growing, Proposed
<1> QED BY <1>4, <1>5, <1>6, <1>7, <1>8, <1>9, <1>10, <1>11, <1>12 DEF Next

LEMMA Invariant == Spec => []IInv
<1>1. IInv /\ [Next]_vars => IInv'
  BY StepTypes, StepGrowing DEF IInv
<1> QED BY <1>1, InitGrowing, PTL DEF Spec

\* A version that is excluded, or not newer than the recipe that the graph knows,
\* is not proposed, whatever is withdrawn or pushed.
THEOREM FlowNoKnownDowngrade == Spec => NoKnownDowngrade
<1>1. Types /\ [Next]_vars => \A v \in Versions : Opened(v) => v > attrs /\ v \notin excluded
  <2> SUFFICES ASSUME Types, [Next]_vars, NEW v \in Versions, Opened(v)
               PROVE  v > attrs /\ v \notin excluded
    OBVIOUS
  <2>1. Migrate /\ v = new
    BY OpenedByMigrate
  <2> QED BY <2>1 DEF Migrate, IsFiltered, IsIgnored, Types, Versions
<1>2. IInv => Types
  BY DEF IInv
<1> QED BY <1>1, <1>2, Invariant, PTL DEF Spec, NoKnownDowngrade

\* Each pull request is an upgrade of the recipe as it is on GitHub, although the
\* bot works with old data, as long as nothing is withdrawn or pushed.
THEOREM FlowUpgradesOnly == Spec => UpgradesOnly
<1>1. IInv /\ [Next]_vars =>
        (withdrawals = 0 /\ pushes = 0 => \A v \in Versions : Opened(v) => v > recipe)
  <2> SUFFICES ASSUME IInv, [Next]_vars, withdrawals = 0, pushes = 0,
                      NEW v \in Versions, Opened(v)
               PROVE  v > recipe
    OBVIOUS
  <2>1. Types /\ Growing
    BY DEF IInv
  <2>2. Migrate /\ v = new
    BY <2>1, OpenedByMigrate
  <2>3. v > attrs /\ v # 1
    BY <2>1, <2>2 DEF Migrate, IsFiltered, Types, Versions
  <2>4. v \notin Proposed
    BY DEF Opened, Proposed
  <2> QED BY <2>1, <2>2, <2>3, <2>4 DEF Growing, Types, Versions
<1> QED BY <1>1, Invariant, PTL DEF Spec, UpgradesOnly

-----------------------------------------------------------------------------
(* VersionStatus: it takes the steps of VersionFlow, and fails. *)

LEMMA StatusInvariant == StatusSpec => []IInv
<1>1. StatusInit => IInv
  BY InitGrowing DEF StatusInit
<1>2. IInv /\ [StatusNext]_statusVars => IInv'
  <2>1. [StatusNext]_statusVars => [Next]_vars
    BY DEF StatusNext, statusVars, Fail, Succeed, Next
  <2>2. IInv /\ [Next]_vars => IInv'
    BY StepTypes, StepGrowing DEF IInv
  <2> QED
    BY <2>1, <2>2
<1> QED
  BY <1>1, <1>2, PTL DEF StatusSpec

\* As long as nothing is withdrawn or pushed, prep and the report merge the versions to
\* the same one.
LEMMA SameVersion ==
  ASSUME Types, Growing
  PROVE  StatusVersion = NewVersion
<1>1. FilterVersion(data) = data /\ FilterVersion(new) = new
  BY DEF FilterVersion, IsIgnored, Growing
<1>2. CASE data \notin Versions
  BY <1>1, <1>2 DEF StatusVersion, OkVersion, NewVersion
<1>3. CASE data \in Versions
  <2>1. NewVersion = Largest({data} \cup {attrs})
    BY <1>3 DEF NewVersion, IsIgnored, Growing
  <2>2. attrs <= data /\ attrs \in Nat /\ data \in Nat
    BY <1>3 DEF Growing, Types, Versions
  <2>3. {data} \cup {attrs} \in SUBSET Versions
    BY <1>3 DEF Types
  <2>4. NewVersion = data
    <3>1. NewVersion \in {data, attrs, None} /\ data <= NewVersion
      BY <2>1, <2>3, LargestIs
    <3> QED
      BY <1>3, <2>2, <3>1 DEF Versions
  <2>5. CASE new \notin Versions
    BY <1>1, <1>3, <2>4, <2>5 DEF StatusVersion, OkVersion
  <2>6. CASE new \in Versions
    <3>1. {data, new} \in SUBSET Versions /\ new <= data /\ None < data
      BY <1>3, <2>6 DEF Growing, Versions
    <3>2. Max({data, new}) = data
      <4>1. Max({data, new}) = CHOOSE x \in {data, new} : \A y \in {data, new} : x >= y
        BY DEF Max
      <4>2. data \in {data, new} /\ \A y \in {data, new} : data >= y
        BY <2>2, <3>1, <2>6 DEF Versions
      <4>3. \A x \in {data, new} : (\A y \in {data, new} : x >= y) => x = data
        BY <2>2, <3>1, <2>6 DEF Versions
      <4> QED
        BY <4>1, <4>2, <4>3
    <3> QED
      BY <1>1, <1>3, <2>4, <2>6, <3>2 DEF StatusVersion, OkVersion
  <2> QED
    BY <2>5, <2>6
<1> QED
  BY <1>2, <1>3

\* What the next prep and the next pass would propose is on the page, in the queue or
\* among the errors (write_version_migrator_status).
THEOREM StatusNothingHidden == StatusSpec => []NothingHidden
<1>1. IInv => NothingHidden
  <2> SUFFICES ASSUME IInv, withdrawals = 0, pushes = 0, ~IsFiltered(NewVersion)
               PROVE  Queued \cup Errored # {}
    BY DEF NothingHidden
  <2>1. StatusVersion = NewVersion
    BY SameVersion DEF IInv
  <2>2. StatusVersion \in Versions /\ IsShown
    BY <2>1 DEF IsFiltered, IsShown, OkVersion
  <2> QED
    BY <2>2 DEF Queued, Errored
<1> QED
  BY <1>1, StatusInvariant, PTL

-----------------------------------------------------------------------------
(* VersionJobs *)

JobsTypes ==
  /\ upstream \in [Nodes -> 1..MaxReleases]
  /\ repo \in [Nodes -> Answer] /\ disk \in [Nodes -> Answer]
  /\ pc \in {"clone", "collect", "batch", "end"}
  /\ left \in SUBSET Nodes /\ nChanged \in Nat /\ failed \in BOOLEAN
  /\ failures \in Nat /\ crashes \in Nat

\* What is not deployed is counted, and without a failed deploy the count stays
\* below the size of a batch until the batch is deployed.
Counted == pc # "clone" => Cardinality(Undeployed) <= nChanged
BatchOpen ==
  pc # "clone" /\ ~failed => nChanged <= BatchSize - (IF pc = "collect" THEN 1 ELSE 0)
NothingLeft == pc = "clone" /\ ~failed /\ crashes = 0 => Undeployed = {}

JobsIInv == JobsTypes /\ Counted /\ BatchOpen /\ NothingLeft

\* The number of the feedstocks that are not deployed is a natural number, and zero
\* only if there are none.
LEMMA UndeployedFinite ==
  /\ IsFiniteSet(Undeployed) /\ Cardinality(Undeployed) \in Nat
  /\ Cardinality(Undeployed) = 0 => Undeployed = {}
<1>1. IsFiniteSet(Nodes) /\ Undeployed \subseteq Nodes
  BY JobsAssumption DEF Undeployed
<1>2. IsFiniteSet(Undeployed)
  BY <1>1, FS_Subset
<1> QED BY <1>2, FS_CardinalityType, FS_EmptySet

\* One answer makes at most one feedstock undeployed, and only if it is a change.
LEMMA CollectCounts ==
  ASSUME JobsTypes, Counted, NEW n \in Nodes, Collect(n)
  PROVE  Cardinality(Undeployed') <= nChanged' /\ nChanged' \in Nat
<1>1. PICK a \in Answers(n) :
        /\ disk' = [disk EXCEPT ![n] = a]
        /\ nChanged' = nChanged + IF Changed(disk[n], a) THEN 1 ELSE 0
  BY DEF Collect
<1>2. Cardinality(Undeployed) <= nChanged
  BY DEF Counted, Collect
<1>3. CASE disk[n] = a
  <2>1. Undeployed' = Undeployed /\ nChanged' = nChanged
    BY <1>1, <1>3 DEF JobsTypes, Undeployed, Changed, Collect
  <2> QED BY <2>1, <1>2 DEF JobsTypes
<1>4. CASE disk[n] # a
  <2>1. Undeployed' \subseteq Undeployed \cup {n} /\ nChanged' = nChanged + 1
    BY <1>1, <1>4 DEF JobsTypes, Undeployed, Changed, Collect
  <2>2. /\ IsFiniteSet(Undeployed \cup {n})
        /\ Cardinality(Undeployed \cup {n}) <= Cardinality(Undeployed) + 1
        /\ Cardinality(Undeployed \cup {n}) \in Nat
    <3>1. /\ IsFiniteSet(Undeployed \cup {n})
          /\ n \in Undeployed => Cardinality(Undeployed \cup {n}) = Cardinality(Undeployed)
          /\ n \notin Undeployed => Cardinality(Undeployed \cup {n}) = Cardinality(Undeployed) + 1
      BY UndeployedFinite, FS_AddElement
    <3>2. CASE n \in Undeployed
      BY <3>1, <3>2, UndeployedFinite
    <3>3. CASE n \notin Undeployed
      BY <3>1, <3>3, UndeployedFinite
    <3> QED BY <3>2, <3>3
  <2>3. Cardinality(Undeployed') <= Cardinality(Undeployed \cup {n}) /\ Cardinality(Undeployed') \in Nat
    BY <2>1, <2>2, FS_Subset, FS_CardinalityType
  <2> QED BY <2>1, <2>2, <2>3, <1>2, UndeployedFinite DEF JobsTypes
<1> QED BY <1>3, <1>4

LEMMA NothingUndeployed == ASSUME disk = repo PROVE Undeployed = {} /\ Cardinality(Undeployed) = 0
BY FS_EmptySet DEF Undeployed

LEMMA JobsInitInv == JobsInit => JobsIInv
<1> SUFFICES ASSUME JobsInit PROVE JobsIInv
  OBVIOUS
<1>1. JobsTypes
  <2>1. 1 \in 1..MaxReleases /\ Missing \in Answer
    BY JobsAssumption DEF Answer, Missing, Raised
  <2> QED BY <2>1 DEF JobsInit, JobsTypes
<1> QED BY <1>1, NothingUndeployed DEF JobsInit, JobsIInv, Counted, BatchOpen, NothingLeft

LEMMA JobsStepInv == JobsIInv /\ [JobsNext]_jobsVars => JobsIInv'
<1> SUFFICES ASSUME JobsIInv, [JobsNext]_jobsVars PROVE JobsIInv'
  OBVIOUS
<1> USE DEF JobsIInv
<1>1. ASSUME NEW n \in Nodes, NewRelease(n) PROVE JobsIInv'
  <2>1. JobsTypes'
    BY <1>1, JobsAssumption DEF NewRelease, JobsTypes
  <2> QED BY <1>1, <2>1 DEF NewRelease, Counted, BatchOpen, NothingLeft, Undeployed
<1>2. ASSUME NEW n \in Nodes, Collect(n) PROVE JobsIInv'
  <2>1. Cardinality(Undeployed') <= nChanged' /\ nChanged' \in Nat
    BY <1>2, CollectCounts
  <2>2. Answers(n) \subseteq Answer
    BY JobsAssumption DEF JobsTypes, Answers, Answer, Missing, Raised
  <2>3. JobsTypes'
    BY <1>2, <2>1, <2>2 DEF Collect, JobsTypes
  <2>4. BatchOpen'
    <3>1. ~failed => nChanged <= BatchSize - 1
      BY <1>2 DEF Collect, BatchOpen
    <3>2. nChanged' \in {nChanged, nChanged + 1}
      BY <1>2 DEF Collect, JobsTypes
    <3> QED BY <1>2, <2>1, <3>1, <3>2, JobsAssumption DEF Collect, BatchOpen, JobsTypes
  <2> QED BY <1>2, <2>1, <2>3, <2>4 DEF Collect, Counted, NothingLeft
<1>3. CASE Clone
  <2>1. JobsTypes'
    BY <1>3 DEF Clone, JobsTypes
  <2>2. (disk = repo)'
    BY <1>3 DEF Clone
  <2>3. Cardinality(Undeployed') = 0
    BY <2>2, FS_EmptySet DEF Undeployed
  <2> QED BY <1>3, <2>1, <2>3, JobsAssumption DEF Clone, Counted, BatchOpen, NothingLeft
<1>4. CASE Finish
  <2>1. JobsTypes' /\ Undeployed' = Undeployed
    BY <1>4 DEF Finish, JobsTypes, Undeployed
  <2>2. nChanged = 0 => Undeployed = {}
    BY <1>4, UndeployedFinite DEF Finish, Counted, JobsTypes
  <2> QED BY <1>4, <2>1, <2>2, JobsAssumption DEF Finish, Counted, BatchOpen, NothingLeft, JobsTypes
<1>5. CASE DeploySucceeds
  <2>1. JobsTypes'
    BY <1>5 DEF DeploySucceeds, AfterDeploy, JobsTypes
  <2>2. (disk = repo)'
    BY <1>5 DEF DeploySucceeds
  <2>3. Undeployed' = {} /\ Cardinality(Undeployed') = 0
    BY <2>2, FS_EmptySet DEF Undeployed
  <2> QED BY <1>5, <2>1, <2>3, JobsAssumption DEF DeploySucceeds, AfterDeploy, Counted, BatchOpen, NothingLeft
<1>6. CASE DeployFails
  <2>1. JobsTypes'
    BY <1>6 DEF DeployFails, AfterDeploy, JobsTypes
  <2>2. Undeployed' \subseteq Undeployed
    BY <1>6 DEF DeployFails, Undeployed
  <2>3. Cardinality(Undeployed') <= Cardinality(Undeployed) /\ Cardinality(Undeployed') \in Nat
    BY <2>2, UndeployedFinite, FS_Subset, FS_CardinalityType
  <2>4. Cardinality(Undeployed') <= nChanged'
    BY <1>6, <2>3, UndeployedFinite DEF DeployFails, Counted, JobsTypes
  <2> QED BY <1>6, <2>1, <2>4 DEF DeployFails, Counted, BatchOpen, NothingLeft
<1>7. CASE Crash
  BY <1>7 DEF Crash, JobsTypes, Counted, BatchOpen, NothingLeft
<1>8. CASE UNCHANGED jobsVars
  BY <1>8 DEF jobsVars, JobsTypes, Counted, BatchOpen, NothingLeft, Undeployed
<1> QED BY <1>1, <1>2, <1>3, <1>4, <1>5, <1>6, <1>7, <1>8 DEF JobsNext

LEMMA JobsInvariant == JobsSpec => []JobsIInv
BY JobsInitInv, JobsStepInv, PTL DEF JobsSpec

\* n_changed counts at least what is not in the graph repository, and a job that
\* ends well leaves nothing behind.
THEOREM JobsNothingForgotten == JobsSpec => []NothingForgotten
<1>1. JobsIInv => NothingForgotten
  BY DEF JobsIInv, Counted, NothingLeft, NothingForgotten
<1> QED BY <1>1, JobsInvariant, PTL

\* A job that is lost before a deploy has failed takes less than a batch with it.
THEOREM JobsLossIsBounded == JobsSpec => []LossIsBounded
<1>1. JobsIInv => LossIsBounded
  BY UndeployedFinite, JobsAssumption DEF JobsIInv, JobsTypes, Counted, BatchOpen, LossIsBounded
<1> QED BY <1>1, JobsInvariant, PTL

-----------------------------------------------------------------------------
(* VersionSources *)

Named == {"PyPI", "CRAN", "CratesIO", "NPM", "Github", "GithubReleases", "NVIDIA", "ROSDistro", "GitTags"}
OneGithub(s) == \A i, j \in DOMAIN s : s[i] = "Github" /\ s[j] = "Github" => i = j

\* Until Github has been asked, its list of prefixes is the default.
AskInv ==
  /\ DOMAIN answer = Feedstocks
  /\ asked # {} => \E f \in Feedstocks : asked = {f}
  /\ nth \in Nat \ {0}
  /\ asked # {} /\ (\A i \in DOMAIN sources : i < nth => sources[i] # "Github")
       => removed = DefaultPrefixes
  /\ OthersDoNotMatter

\* The names of the sources, one after the other.
LEMMA SourcesAre ==
  /\ ToSet(Sources) = Named
  /\ Sources \in Seq(Named) /\ OneGithub(Sources)
<1>1. DOMAIN Sources = 1..9
  BY DEF Sources
<1>2. Sources \in Seq(Named)
  BY DEF Sources, Named
<1>3. OneGithub(Sources)
  BY <1>1 DEF Sources, OneGithub
<1>4. ToSet(Sources) = {Sources[i] : i \in 1..9}
  BY <1>1 DEF ToSet
<1>5. {Sources[i] : i \in 1..9} = Named
  BY DEF Sources, Named
<1> QED
  BY <1>2, <1>3, <1>4, <1>5

\* What is asked is a sequence with one Github.
LEMMA AskedOnce ==
  ASSUME AskInit
  PROVE  sources \in Seq(Named) /\ OneGithub(sources)
  BY SourcesAre, SourcesAssumption DEF AskInit, OneGithub

LEMMA AskInitInv == AskInit => AskInv
<1> SUFFICES ASSUME AskInit PROVE AskInv
  OBVIOUS
<1>2. OthersDoNotMatter
  BY DEF AskInit, OthersDoNotMatter, HasVersion
<1> QED
  BY <1>2 DEF AskInit, AskInv

\* Of all sources only Github looks at the prefixes.
LEMMA OnlyGithub ==
  ASSUME NEW s \in Named, s # "Github", NEW f, NEW ps, NEW qs
  PROVE  FoundBy(s, f, ps) = FoundBy(s, f, qs)
  BY DEF Named, FoundBy

\* The source that is asked makes of the tags what it makes of them for the feedstock alone.
LEMMA AskedAlone ==
  ASSUME sources \in Seq(Named), OneGithub(sources), AskInv, Asking
  PROVE  /\ nth \in DOMAIN sources
         /\ FoundBy(sources[nth], Current, removed)
              = FoundBy(sources[nth], Current, DefaultPrefixes)
<1>1. nth \in DOMAIN sources /\ sources[nth] \in Named /\ DOMAIN sources \subseteq Nat
  BY DEF Asking, AskInv
<1>2. CASE sources[nth] = "Github"
  <2>1. \A i \in DOMAIN sources : i < nth => sources[i] # "Github"
    BY <1>1, <1>2 DEF OneGithub
  <2> QED
    BY <1>1, <2>1 DEF Asking, AskInv
<1>3. CASE sources[nth] # "Github"
  BY <1>1, <1>3, OnlyGithub
<1> QED
  BY <1>1, <1>2, <1>3

\* What a source finds depends on nothing else than what does not change.
LEMMA SameFound ==
  ASSUME UNCHANGED facts, NEW s \in Named, NEW f, NEW ps
  PROVE  FoundBy(s, f, ps)' = FoundBy(s, f, ps)
<1>a. tags' = tags /\ prefix' = prefix /\ allowed' = allowed /\ ignoring' = ignoring
  BY DEF facts
<1>b. \A w : IsTagIgnored(w)' <=> IsTagIgnored(w)
  BY <1>a DEF IsTagIgnored
<1>c. \A w : Usable(w)' <=> Usable(w)
  BY <1>a DEF Usable, IsVersionIgnored
<1>d. \A t : IfUsable(t)' = IfUsable(t)
  BY <1>c DEF IfUsable
<1>e. \A ts, these : Newest(ts, these)' = Newest(ts, these)
  BY <1>c DEF Newest
<1>1. \A ts : PyPI(ts)' = PyPI(ts) /\ CRAN(ts)' = CRAN(ts) /\ CratesIO(ts)' = CratesIO(ts)
  BY <1>d DEF PyPI, CRAN, CratesIO
<1>2. \A ts : NPM(ts)' = NPM(ts) /\ ROSDistro(ts)' = ROSDistro(ts) /\ NVIDIA(ts)' = NVIDIA(ts)
  BY <1>d DEF NPM, ROSDistro, NVIDIA
<1>3. \A ts : GithubReleases(ts)' = GithubReleases(ts) /\ GitTags(ts)' = GitTags(ts)
  BY <1>a, <1>b, <1>d, <1>e DEF GithubReleases, GitTags
<1>4. \A ts, qs : FromFeed(ts, qs)' = FromFeed(ts, qs)
  BY <1>b, <1>e DEF FromFeed
<1>5. WithPrefix(ps, f)' = WithPrefix(ps, f)
  BY <1>a DEF WithPrefix
<1> QED
  BY <1>a, <1>1, <1>2, <1>3, <1>4, <1>5, Zenon DEF Named, FoundBy

LEMMA AskNextInv ==
  ASSUME sources \in Seq(Named), OneGithub(sources), AskInv, [AskNext]_askVars
  PROVE  AskInv'
<1>s. UNCHANGED facts
  BY DEF AskNext, Ask, NotForThis, Raises, SourceAnswers, Ends, askVars, facts
<1>t. sources' = sources
  BY <1>s DEF facts
<1>u. ToSet(sources) \subseteq Named
  BY DEF ToSet
\* The property after the step, in terms of the sources before it.
<1>v. (\A f \in Feedstocks : HasVersion(f)' => \E s \in ToSet(sources) : answer'[f] = FoundBy(s, f, DefaultPrefixes))
        => OthersDoNotMatter'
  <2>1. \A f, s : s \in ToSet(sources) => FoundBy(s, f, DefaultPrefixes)' = FoundBy(s, f, DefaultPrefixes)
    BY <1>s, <1>u, SameFound
  <2> QED
    BY <1>t, <2>1, Zenon DEF OthersDoNotMatter
\* Nobody is told anything else.
<1>w. answer' = answer => OthersDoNotMatter'
  BY <1>v DEF AskInv, OthersDoNotMatter, HasVersion
<1>a. ASSUME asked # {} PROVE Current \in Feedstocks /\ asked = {Current}
  BY <1>a DEF AskInv, Current
<1>1. ASSUME NEW f \in Feedstocks, Ask(f) PROVE AskInv'
  BY <1>1, <1>w DEF Ask, FreshSources, AskInv
<1>b. ASSUME Asking, PrefixGrows, nth' = nth + 1, asked' = asked
      PROVE  (\A i \in DOMAIN sources : i < nth' => sources[i] # "Github") => removed' = DefaultPrefixes
  <2>1. nth \in DOMAIN sources /\ nth \in Nat /\ DOMAIN sources \subseteq Nat
    BY <1>b DEF Asking, AskInv
  <2> QED
    BY <1>b, <2>1 DEF PrefixGrows, Asking, AskInv
<1>2. CASE NotForThis
  <2>1. nth \in DOMAIN sources /\ nth \in Nat /\ DOMAIN sources \subseteq Nat
    BY <1>2 DEF NotForThis, Asking, AskInv
  <2> QED
    BY <1>2, <1>t, <1>w, <2>1 DEF NotForThis, AskInv
<1>3. CASE Raises
  BY <1>3, <1>b, <1>t, <1>w DEF Raises, AskInv, Asking
<1>4. CASE SourceAnswers
  <2> DEFINE t == FoundBy(sources[nth], Current, removed)
  <2>1. CASE t = NoVersion
    BY <1>4, <1>b, <1>t, <1>w, <2>1 DEF SourceAnswers, AskInv, Asking
  <2>2. CASE t # NoVersion
    <3>1. /\ asked' = {} /\ nth' = nth
          /\ answer' = [answer EXCEPT ![Current] = IF IsVersionIgnored(t) THEN NoVersion ELSE t]
      BY <1>4, <2>2 DEF SourceAnswers
    <3>2. nth \in DOMAIN sources /\ t = FoundBy(sources[nth], Current, DefaultPrefixes)
      BY <1>4, AskedAlone DEF SourceAnswers
    <3>3. Current \in Feedstocks /\ DOMAIN answer = Feedstocks
      BY <1>4, <1>a DEF SourceAnswers, Asking, AskInv
    <3>4. OthersDoNotMatter'
      <4> SUFFICES ASSUME NEW f \in Feedstocks, HasVersion(f)'
                   PROVE  \E s \in ToSet(sources) : answer'[f] = FoundBy(s, f, DefaultPrefixes)
        BY <1>v
      <4>1. CASE f = Current
        <5>1. answer'[f] = t
          BY <3>1, <3>3, <4>1 DEF HasVersion
        <5>2. sources[nth] \in ToSet(sources)
          BY <3>2 DEF ToSet
        <5> QED
          BY <3>2, <4>1, <5>1, <5>2
      <4>2. CASE f # Current
        BY <3>1, <3>3, <4>2 DEF AskInv, OthersDoNotMatter, HasVersion
      <4> QED
        BY <4>1, <4>2
    <3> QED
      BY <3>1, <3>3, <3>4 DEF AskInv
  <2> QED
    BY <2>1, <2>2
<1>5. CASE Ends
  <2>1. OthersDoNotMatter'
    <3>1. DOMAIN answer = Feedstocks
      BY DEF AskInv
    <3>2. ASSUME NEW f \in Feedstocks, HasVersion(f)' PROVE answer'[f] = answer[f]
      BY <1>5, <3>1, <3>2 DEF Ends, HasVersion
    <3>3. ASSUME NEW f \in Feedstocks, HasVersion(f)'
          PROVE  \E s \in ToSet(sources) : answer'[f] = FoundBy(s, f, DefaultPrefixes)
      BY <3>2, <3>3 DEF AskInv, OthersDoNotMatter, HasVersion
    <3> QED
      BY <1>v, <3>3
  <2> QED
    BY <1>5, <1>t, <2>1 DEF Ends, AskInv
<1>6. CASE UNCHANGED askVars
  BY <1>6, <1>w DEF askVars, AskInv
<1> QED
  BY <1>1, <1>2, <1>3, <1>4, <1>5, <1>6 DEF AskNext

\* What a feedstock is told is what some source finds for it alone.
THEOREM FeedstocksAlone == AskSpec => []OthersDoNotMatter
<1> DEFINE Once == sources \in Seq(Named) /\ OneGithub(sources)
           Inv == AskInv /\ Once
<1>1. AskInit => Inv
  BY AskInitInv, AskedOnce
<1>2. Inv /\ [AskNext]_askVars => Inv'
  <2>1. [AskNext]_askVars => sources' = sources
    BY DEF AskNext, Ask, NotForThis, Raises, SourceAnswers, Ends, askVars, facts
  <2> QED
    BY <2>1, AskNextInv DEF OneGithub
<1>3. Inv => OthersDoNotMatter
  BY DEF AskInv
<1> QED
  BY <1>1, <1>2, <1>3, PTL DEF AskSpec

-----------------------------------------------------------------------------
(* NextVersion *)

\* FlattenSeq as the function that it is defined by.
Joined(ss, g, n) == IF n = 1 THEN ss[n] ELSE g[n - 1] \o ss[n]
IsJoining(g, ss, n) == g = [m \in 1..n |-> Joined(ss, g, m)]
Joining(ss, n) == CHOOSE g : IsJoining(g, ss, n)

LEMMA FlattenIsJoining ==
  ASSUME NEW ss, Len(ss) # 0
  PROVE  FlattenSeq(ss) = Joining(ss, Len(ss))[Len(ss)]
BY DEF FlattenSeq, Joining, IsJoining, Joined

LEMMA JoiningExists ==
  ASSUME NEW ss, NEW n \in Nat
  PROVE  IsJoining(Joining(ss, n), ss, n)
<1> DEFINE Without == {m \in Nat : ~\E g : IsJoining(g, ss, m)}
<1> SUFFICES ASSUME Without # {} PROVE FALSE
  <2>1. ~(n \in Without) => \E g : IsJoining(g, ss, n)
    OBVIOUS
  <2> QED BY <2>1 DEF Joining
<1>1. PICK m \in Without : \A k \in Without : m <= k
  <2>1. Without \subseteq Nat
    OBVIOUS
  <2> HIDE DEF Without
  <2> QED BY <2>1, LeastNumber
<1>2. m # 0
  <2>1. IsJoining([k \in 1..0 |-> 0], ss, 0)
    BY DEF IsJoining
  <2> QED BY <2>1
<1>3. PICK g : IsJoining(g, ss, m - 1)
  <2>1. m - 1 \in Nat /\ ~(m <= m - 1)
    BY <1>2
  <2> QED BY <1>1, <2>1
<1> DEFINE f == [k \in 1..m |-> IF k = m THEN Joined(ss, g, m) ELSE g[k]]
<1>4. ASSUME NEW k \in 1..m PROVE f[k] = Joined(ss, f, k)
  <2>1. CASE k = m
    <3>1. m # 1 => f[m - 1] = g[m - 1]
      BY <1>2
    <3> QED BY <2>1, <3>1 DEF Joined
  <2>2. CASE k # m
    <3>1. k \in 1..(m - 1) /\ f[k] = g[k]
      BY <2>2
    <3>2. g[k] = Joined(ss, g, k)
      BY <1>3, <3>1 DEF IsJoining
    <3>3. k # 1 => f[k - 1] = g[k - 1]
      BY <3>1
    <3> QED BY <3>1, <3>2, <3>3 DEF Joined
  <2> QED BY <2>1, <2>2
<1>5. IsJoining(f, ss, m)
  <2>1. f = [k \in 1..m |-> f[k]]
    OBVIOUS
  <2> HIDE DEF f
  <2> QED BY <1>4, <2>1 DEF IsJoining
<1> QED BY <1>5

\* What is in a sequence of sequences of a set's members is a sequence of them.
LEMMA FlattenKeeps ==
  ASSUME NEW S, NEW ss \in Seq(Seq(S))
  PROVE  FlattenSeq(ss) \in Seq(S)
<1>1. CASE Len(ss) = 0
  BY <1>1 DEF FlattenSeq
<1>2. CASE Len(ss) # 0
  <2> DEFINE n == Len(ss)
             g == Joining(ss, n)
             Not == {m \in 1..n : g[m] \notin Seq(S)}
  <2>1. n \in Nat /\ n \in 1..n /\ \A m \in 1..n : ss[m] \in Seq(S)
    BY <1>2
  <2>2. \A m \in 1..n : g[m] = Joined(ss, g, m)
    BY <2>1, JoiningExists DEF IsJoining
  <2> HIDE DEF n, g
  <2>3. ASSUME Not # {} PROVE FALSE
    <3>1. PICK m \in Not : \A k \in Not : m <= k
      <4>1. Not \subseteq Nat
        BY <2>1
      <4> HIDE DEF Not
      <4> QED BY <2>3, <4>1, LeastNumber
    <3>2. CASE m = 1
      BY <2>1, <2>2, <3>1, <3>2 DEF Joined
    <3>3. CASE m # 1
      <4>1. m - 1 \in 1..n /\ ~(m <= m - 1)
        BY <2>1, <3>1, <3>3
      <4>2. g[m - 1] \in Seq(S)
        BY <3>1, <4>1
      <4>3. g[m] = g[m - 1] \o ss[m] /\ ss[m] \in Seq(S)
        BY <2>1, <2>2, <3>1, <3>3 DEF Joined
      <4>4. \A s, t \in Seq(S) : s \o t \in Seq(S)
        OBVIOUS
      <4>5. g[m] \in Seq(S)
        BY <4>2, <4>3, <4>4
      <4> QED BY <3>1, <4>5
    <3> QED BY <3>2, <3>3
  <2>4. g[n] \in Seq(S)
    BY <2>1, <2>3
  <2> QED BY <1>2, <2>4, FlattenIsJoining DEF n, g
<1> QED BY <1>1, <1>2

\* The parts that are incremented.
LEMMA BumpableAre ==
  ASSUME NEW v \in Seq(Parts), NEW start \in Nat \ {0}, NEW inc
  PROVE  Bumpable(v, start, inc) \in Seq(start..Len(v))
<1> DEFINE IfCan(k) == IF CanBump(v[k], inc) THEN <<k>> ELSE <<>>
           ss == [j \in 1..(Len(v) - start + 1) |-> IfCan(Len(v) + 1 - j)]
<1>1. ASSUME NEW k \in start..Len(v) PROVE IfCan(k) \in Seq(start..Len(v))
  <2>1. <<k>> \in Seq(start..Len(v)) /\ <<>> \in Seq(start..Len(v))
    OBVIOUS
  <2> QED BY <2>1
<1>2. \A j \in 1..(Len(v) - start + 1) : Len(v) + 1 - j \in start..Len(v)
  OBVIOUS
<1>3. CASE Len(v) - start + 1 \in Nat
  <2> HIDE DEF IfCan
  <2>1. ss \in Seq(Seq(start..Len(v)))
    BY <1>1, <1>2, <1>3
  <2> HIDE DEF ss
  <2>2. FlattenSeq(ss) \in Seq(start..Len(v))
    BY <2>1, FlattenKeeps
  <2> QED BY <2>2 DEF Bumpable, ss, IfCan
<1>4. CASE Len(v) - start + 1 \notin Nat
  <2>1. 1..(Len(v) - start + 1) = 1..0
    BY <1>4
  <2> HIDE DEF IfCan
  <2>2. ss = [j \in 1..0 |-> ss[j]]
    BY <2>1
  <2> HIDE DEF ss
  <2>3. ss \in Seq(start..Len(v)) /\ Len(ss) = 0
    BY <2>2
  <2>4. FlattenSeq(ss) = ss
    BY <2>3 DEF FlattenSeq
  <2> QED BY <2>3, <2>4 DEF Bumpable, ss, IfCan
<1> QED BY <1>3, <1>4

\* What an increment does to the parts up to its own.
LEMMA BumpIs ==
  ASSUME NEW v \in Seq(Parts), NEW k \in DOMAIN v, NEW d \in Nat, NEW inc
  PROVE  /\ BumpAt(v, k, d, inc) \in Seq(Parts) /\ Len(BumpAt(v, k, d, inc)) = Len(v)
         /\ \A j \in 1..(k - 1) : BumpAt(v, k, d, inc)[j] = v[j]
         /\ BumpAt(v, k, d, inc)[k].n = v[k].n + d
<1> DEFINE w == BumpAt(v, k, d, inc)
<1>1. DOMAIN v = 1..Len(v) /\ Len(v) \in Nat /\ \A j \in DOMAIN v : v[j] \in Parts
  OBVIOUS
<1>2. \A j \in DOMAIN v : StartAgain(v[j], inc) \in Parts
  BY <1>1 DEF StartAgain, CanBump, Parts
<1>3. [v[k] EXCEPT !.n = @ + d] \in Parts /\ [v[k] EXCEPT !.n = @ + d].n = v[k].n + d
  BY <1>1 DEF Parts
<1>4. w = [j \in 1..Len(v) |-> IF j < k THEN v[j]
                                ELSE IF j = k THEN [v[j] EXCEPT !.n = @ + d] ELSE StartAgain(v[j], inc)]
  BY <1>1 DEF BumpAt
<1>5. \A j \in 1..Len(v) : w[j] \in Parts
  BY <1>1, <1>2, <1>3, <1>4
<1>6. DOMAIN w = 1..Len(v) /\ w = [j \in 1..Len(v) |-> w[j]]
  BY <1>4
<1>7. (\A j \in 1..(k - 1) : w[j] = v[j]) /\ w[k].n = v[k].n + d
  BY <1>1, <1>3, <1>4
<1> HIDE DEF w
<1>8. w \in Seq(Parts) /\ Len(w) = Len(v)
  BY <1>1, <1>5, <1>6
<1> QED BY <1>7, <1>8 DEF w

\* The first part in which w differs from v is one or two more.
Follows(w, v) ==
  /\ w \in Seq(Parts) /\ Len(w) = Len(v)
  /\ \E k \in DOMAIN v : /\ \A j \in 1..(k - 1) : w[j] = v[j]
                         /\ w[k].n \in {v[k].n + 1, v[k].n + 2}

LEMMA CandidatesFollow ==
  ASSUME NEW v \in Seq(Parts), NEW inc
  PROVE  NextVersions(v, inc) \in Seq({w \in Seq(Parts) : Follows(w, v)})
<1> DEFINE F == {w \in Seq(Parts) : Follows(w, v)}
           K == Bumpable(v, 1, inc)
           From(k, d) == LET w == BumpAt(v, k, d, inc) IN <<w>> \o YieldOnce(w, k + 1, inc)
<1>1. ASSUME NEW k \in DOMAIN v, NEW d \in {1, 2} PROVE From(k, d) \in Seq(F)
  <2> DEFINE w == BumpAt(v, k, d, inc)
             L == Bumpable(w, k + 1, inc)
  <2>1. /\ w \in Seq(Parts) /\ Len(w) = Len(v) /\ w[k].n = v[k].n + d
        /\ \A j \in 1..(k - 1) : w[j] = v[j]
    BY BumpIs
  <2>2. k \in Nat \ {0} /\ k + 1 \in Nat \ {0} /\ k <= Len(v) /\ DOMAIN v = 1..Len(v)
    OBVIOUS
  <2> HIDE DEF w
  <2>3. w \in F
    BY <2>1, <2>2 DEF Follows
  <2>4. L \in Seq((k + 1)..Len(w))
    BY <2>1, <2>2, BumpableAre
  <2>5. ASSUME NEW l \in (k + 1)..Len(w) PROVE BumpAt(w, l, 1, inc) \in F
    <3>1. l \in DOMAIN w
      BY <2>1, <2>2
    <3>2. /\ BumpAt(w, l, 1, inc) \in Seq(Parts) /\ Len(BumpAt(w, l, 1, inc)) = Len(w)
          /\ \A j \in 1..(l - 1) : BumpAt(w, l, 1, inc)[j] = w[j]
      BY <2>1, <3>1, BumpIs
    <3>3. k \in 1..(l - 1) /\ 1..(k - 1) \subseteq 1..(l - 1)
      BY <2>1, <2>2
    <3> HIDE DEF F
    <3>4. Follows(BumpAt(w, l, 1, inc), v)
      BY <2>1, <2>2, <3>2, <3>3 DEF Follows
    <3> QED BY <3>2, <3>4 DEF F
  <2> HIDE DEF L, F
  <2>6. YieldOnce(w, k + 1, inc) \in Seq(F)
    <3>1. YieldOnce(w, k + 1, inc) = [j \in DOMAIN L |-> BumpAt(w, L[j], 1, inc)]
      BY DEF YieldOnce, L
    <3>2. DOMAIN L = 1..Len(L) /\ Len(L) \in Nat /\ \A j \in DOMAIN L : L[j] \in (k + 1)..Len(w)
      BY <2>4
    <3> QED BY <2>5, <3>1, <3>2
  <2>7. <<w>> \o YieldOnce(w, k + 1, inc) \in Seq(F)
    BY <2>3, <2>6
  <2> QED BY <2>7 DEF w
<1>2. K \in Seq(DOMAIN v)
  BY BumpableAre
<1> DEFINE ss == [j \in DOMAIN K |-> From(K[j], 1) \o From(K[j], 2)]
<1> HIDE DEF From, F, K
<1>3. \A k \in DOMAIN v : From(k, 1) \o From(k, 2) \in Seq(F)
  <2> TAKE k \in DOMAIN v
  <2>1. From(k, 1) \in Seq(F) /\ From(k, 2) \in Seq(F)
    BY <1>1
  <2> QED BY <2>1
<1>4. ss \in Seq(Seq(F))
  <2>1. DOMAIN K = 1..Len(K) /\ Len(K) \in Nat /\ \A j \in DOMAIN K : K[j] \in DOMAIN v
    BY <1>2
  <2> QED BY <1>3, <2>1
<1> HIDE DEF ss
<1>5. FlattenSeq(ss) \in Seq(F)
  BY <1>4, FlattenKeeps
<1> QED BY <1>5 DEF NextVersions, YieldTwice, ss, F, K, From

\* The search has gone up from the recipe's version, by at most two in the first part
\* that differs for each version that it found.
Reached(c, found) ==
  /\ c \in Seq(Parts) /\ Len(c) = Len(orig)
  /\ c = orig \/ Newer(c, orig)
  /\ \A k \in DOMAIN orig :
       (\A j \in 1..(k - 1) : c[j] = orig[j]) => c[k].n <= orig[k].n + 2 * found

SearchInv ==
  /\ orig \in Seq(Parts) /\ turn \in Nat \ {0} /\ count \in 0..MaxCount
  /\ phase = "search" =>
       /\ Reached(current, count) /\ good = current
       /\ current # orig => current \notin ignored /\ sha \notin {<<>>, <<RecipesHash>>}
  /\ ResultIsGood

LEMMA PartHasNumber ==
  ASSUME NEW v \in Seq(Parts), NEW j \in DOMAIN v
  PROVE  v[j].n \in Nat
<1>1. v[j] \in Parts
  OBVIOUS
<1> QED BY <1>1 DEF Parts

\* One more version that is found keeps to that.
LEMMA OneFurther ==
  ASSUME orig \in Seq(Parts), NEW found \in Nat, NEW c, Reached(c, found),
         NEW w \in Seq(Parts), Follows(w, c)
  PROVE  Reached(w, found + 1) /\ w # orig
<1>1. PICK k \in DOMAIN c : /\ \A j \in 1..(k - 1) : w[j] = c[j]
                            /\ w[k].n \in {c[k].n + 1, c[k].n + 2}
  BY DEF Follows
<1>2. /\ c \in Seq(Parts) /\ Len(w) = Len(orig) /\ Len(c) = Len(orig)
      /\ DOMAIN orig = 1..Len(orig) /\ DOMAIN c = 1..Len(orig) /\ Len(orig) \in Nat
  BY DEF Reached, Follows
<1>3. \A j \in 1..Len(orig) : orig[j].n \in Nat /\ c[j].n \in Nat /\ w[j].n \in Nat
  BY <1>2, PartHasNumber
<1>4. k \in 1..Len(orig) /\ k \in Nat /\ k \in 1..k
  BY <1>2
\* The version so far is above the recipe's where it differs first.
<1>5. \/ \A j \in 1..k : c[j] = orig[j]
      \/ \E m \in 1..k : c[m].n > orig[m].n /\ \A j \in 1..(m - 1) : c[j] = orig[j]
  <2>1. CASE c = orig
    BY <2>1
  <2>2. CASE Newer(c, orig)
    <3>1. PICK m \in DOMAIN orig : c[m].n > orig[m].n /\ \A j \in 1..(m - 1) : c[j] = orig[j]
      BY <2>2 DEF Newer
    <3> QED BY <1>2, <1>4, <3>1
  <2> QED BY <2>1, <2>2 DEF Reached
\* So is the next one.
<1>6. \E m \in 1..k : w[m].n > orig[m].n /\ \A j \in 1..(m - 1) : w[j] = orig[j]
  <2>1. CASE \A j \in 1..k : c[j] = orig[j]
    <3>1. c[k] = orig[k]
      BY <1>4, <2>1
    <3>2. w[k].n > orig[k].n
      BY <1>1, <1>3, <1>4, <3>1
    <3> QED BY <1>1, <1>4, <2>1, <3>2
  <2>2. CASE \E m \in 1..k : c[m].n > orig[m].n /\ \A j \in 1..(m - 1) : c[j] = orig[j]
    <3>1. PICK m \in 1..k : c[m].n > orig[m].n /\ \A j \in 1..(m - 1) : c[j] = orig[j]
      BY <2>2
    <3>2. \A j \in 1..(m - 1) : w[j] = orig[j]
      BY <1>1, <1>4, <3>1
    <3>3. w[m].n > orig[m].n
      <4>1. CASE m = k
        BY <1>1, <1>3, <1>4, <3>1, <4>1
      <4>2. CASE m # k
        BY <1>1, <1>4, <3>1, <4>2
      <4> QED BY <4>1, <4>2
    <3> QED BY <3>1, <3>2, <3>3
  <2> QED BY <1>5, <2>1, <2>2
<1>7. Newer(w, orig) /\ w # orig
  <2>1. PICK m \in 1..k : w[m].n > orig[m].n /\ \A j \in 1..(m - 1) : w[j] = orig[j]
    BY <1>6
  <2>2. m \in DOMAIN orig
    BY <1>2, <1>4
  <2>3. w # orig
    BY <1>2, <1>3, <2>1, <2>2
  <2> QED BY <1>2, <2>1, <2>2, <2>3 DEF Newer
<1>8. ASSUME NEW l \in DOMAIN orig, \A j \in 1..(l - 1) : w[j] = orig[j]
      PROVE  w[l].n <= orig[l].n + 2 * (found + 1)
  <2>1. CASE l < k
    <3>1. \A j \in 1..l : w[j] = c[j]
      BY <1>1, <1>2, <1>4, <2>1
    <3>2. c[l].n <= orig[l].n + 2 * found
      BY <1>2, <1>8, <3>1 DEF Reached
    <3>3. w[l] = c[l] /\ c[l].n \in Nat /\ orig[l].n \in Nat
      BY <1>2, <1>3, <3>1
    <3> QED BY <3>2, <3>3
  <2>2. CASE l = k
    <3>1. c[k].n <= orig[k].n + 2 * found
      BY <1>1, <1>2, <1>8, <2>2 DEF Reached
    <3>2. w[k].n \in {c[k].n + 1, c[k].n + 2} /\ c[k].n \in Nat /\ orig[k].n \in Nat
      BY <1>1, <1>3, <1>4
    <3> QED BY <2>2, <3>1, <3>2
  <2>3. CASE l > k
    <3>1. \A j \in 1..k : w[j] = orig[j]
      BY <1>2, <1>4, <1>8, <2>3
    <3>2. PICK m \in 1..k : w[m].n > orig[m].n
      BY <1>6
    <3> QED BY <1>3, <1>4, <3>1, <3>2
  <2> QED BY <1>2, <1>4, <2>1, <2>2, <2>3
<1> QED BY <1>2, <1>7, <1>8 DEF Reached

LEMMA SearchInitInv == SearchInit => SearchInv
<1> SUFFICES ASSUME SearchInit PROVE SearchInv
  OBVIOUS
<1>1. /\ orig \in Seq(Parts) /\ turn = 1 /\ count = 0 /\ MaxCount \in Nat
      /\ phase = "search" /\ current = orig /\ good = orig
  BY SearchAssumption DEF SearchInit
<1>2. Reached(current, count)
  <2>1. \A k \in DOMAIN orig : orig[k].n \in Nat
    BY <1>1, PartHasNumber
  <2> QED BY <1>1, <2>1 DEF Reached
<1> QED BY <1>1, <1>2 DEF SearchInv, ResultIsGood

LEMMA SearchNextInv == SearchInv /\ [SearchNext]_searchVars => SearchInv'
<1> SUFFICES ASSUME SearchInv, [SearchNext]_searchVars PROVE SearchInv'
  OBVIOUS
<1>1. MaxCount \in Nat /\ count \in Nat /\ turn \in Nat
  BY SearchAssumption DEF SearchInv
<1>2. CASE NotThere
  BY <1>1, <1>2 DEF NotThere, Trying, SearchInv, Reached, Newer, ResultIsGood
<1>3. CASE Accept
  <2>1. phase = "search" /\ turn \in DOMAIN Candidates /\ count < MaxCount
    <3>1. Candidates \in Seq({w \in Seq(Parts) : Follows(w, current)})
      BY <1>3, CandidatesFollow DEF Accept, Trying, Candidates, SearchInv, Reached
    <3> QED BY <1>3, <3>1 DEF Accept, Trying, SearchInv
  <2>2. current' \in Seq(Parts) /\ Follows(current', current)
    <3>1. Candidates \in Seq({w \in Seq(Parts) : Follows(w, current)})
      BY <2>1, CandidatesFollow DEF Candidates, SearchInv, Reached
    <3>2. current' = Candidates[turn]
      BY <1>3 DEF Accept
    <3> QED BY <2>1, <3>1, <3>2
  <2>3. Reached(current', count + 1) /\ current' # orig
    BY <1>1, <2>1, <2>2, OneFurther DEF SearchInv
  <2>4. /\ count' = count + 1 /\ turn' = 1 /\ good' = current' /\ phase' = phase
        /\ orig' = orig /\ ignored' = ignored /\ current' \notin ignored
    BY <1>3 DEF Accept
  <2>5. sha' \notin {<<>>, <<RecipesHash>>}
    <3>1. PICK h \in Hashes \ ({RecipesHash} \cup ToSet(sha)) : sha' = <<h>>
      BY <1>3 DEF Accept
    <3> QED BY <3>1
  <2>6. Reached(current, count)'
    BY <2>3, <2>4 DEF Reached, Newer
  <2> QED BY <1>1, <2>1, <2>4, <2>5, <2>6 DEF SearchInv, ResultIsGood
<1>4. CASE SameOrNoHash \/ NoUrl
  BY <1>1, <1>4 DEF SameOrNoHash, NoUrl, Trying, GiveUp, SearchInv, ResultIsGood
<1>5. CASE TimesOut
  BY <1>5 DEF TimesOut, SearchInv, ResultIsGood
<1>6. CASE Return
  <2>1. /\ phase = "search" /\ phase' = "done"
        /\ result' = IF current # orig THEN current ELSE <<>>
        /\ UNCHANGED <<orig, alpha, ignored, current, turn, sha, count, good>>
    BY <1>6 DEF Return
  <2>2. ASSUME result' # <<>> PROVE ResultIsGood'
    <3>1. result' = current /\ current # orig
      BY <2>1, <2>2
    <3>2. /\ Newer(current, orig) /\ good = current /\ current \notin ignored
          /\ sha \notin {<<>>, <<RecipesHash>>}
      BY <2>1, <3>1 DEF SearchInv, Reached
    <3>3. ASSUME NEW k \in DOMAIN orig, \A j \in 1..(k - 1) : current[j] = orig[j]
          PROVE  current[k].n <= orig[k].n + 2 * MaxCount
      <4>1. Reached(current, count) /\ count <= MaxCount
        BY <2>1 DEF SearchInv
      <4>2. orig[k].n \in Nat /\ current[k].n \in Nat
        <5>1. k \in DOMAIN current /\ current \in Seq(Parts) /\ orig \in Seq(Parts)
          BY <4>1 DEF SearchInv, Reached
        <5> QED BY <5>1, PartHasNumber
      <4>3. current[k].n <= orig[k].n + 2 * count
        BY <3>3, <4>1 DEF Reached
      <4> QED BY <1>1, <4>1, <4>2, <4>3
    <3> QED BY <2>1, <3>1, <3>2, <3>3 DEF ResultIsGood, Newer
  <2>3. ResultIsGood'
    BY <2>2 DEF ResultIsGood
  <2> QED BY <1>1, <2>1, <2>3 DEF SearchInv
<1>7. CASE UNCHANGED searchVars
  BY <1>7 DEF searchVars, SearchInv, Reached, Newer, ResultIsGood
<1> QED BY <1>2, <1>3, <1>4, <1>5, <1>6, <1>7 DEF SearchNext

\* The version that the search returns is that whose source was found last, newer than
\* the recipe's, not ignored, with another archive, and not far away.
THEOREM SearchResultIsGood == SearchSpec => []ResultIsGood
<1>1. SearchInv => ResultIsGood
  BY DEF SearchInv
<1> QED BY <1>1, SearchInitInv, SearchNextInv, PTL DEF SearchSpec

-----------------------------------------------------------------------------
(* RecipeVersion *)

\* What the types say of the sequences a recipe is made of.
LEMMA RecipeShape ==
  ASSUME NEW r \in MetaYamls
  PROVE  /\ Len(r.sources) \in Nat /\ DOMAIN r.sources = 1..Len(r.sources)
         /\ Len(r.vars) \in Nat /\ DOMAIN r.vars = 1..Len(r.vars)
         /\ \A i \in DOMAIN r.sources :
              /\ Len(r.sources[i].urls) \in Nat
              /\ DOMAIN r.sources[i].urls = 1..Len(r.sources[i].urls)
              /\ Len(r.sources[i].hashes) \in Nat
              /\ DOMAIN r.sources[i].hashes = 1..Len(r.sources[i].hashes)
              /\ DOMAIN r.sources[i].hashes \subseteq 1..MaxKeys
         /\ \A i \in DOMAIN r.sources : \A s \in Selectors(r, i) : IsSeq(s)
<1>1. RecipeOK(r)
  BY MetaAssumption
<1>2. \A s : IsSeq(s) => Len(s) \in Nat /\ DOMAIN s = 1..Len(s)
  BY DEF IsSeq
<1>3. ASSUME NEW i \in DOMAIN r.sources
      PROVE  /\ IsSeq(r.sources[i].urls) /\ IsSeq(r.sources[i].hashes)
             /\ Len(r.sources[i].hashes) <= MaxKeys
             /\ \A j \in DOMAIN r.sources[i].urls : IsSeq(r.sources[i].urls[j].sel)
             /\ \A j \in DOMAIN r.sources[i].hashes : IsSeq(r.sources[i].hashes[j].sel)
  BY <1>1, <1>3 DEF RecipeOK
<1>4. IsSeq(NoSelector)
  BY DEF IsSeq, NoSelector
<1>5. ASSUME NEW i \in DOMAIN r.sources, NEW s \in Selectors(r, i) PROVE IsSeq(s)
  BY <1>1, <1>3, <1>4 DEF Selectors, RecipeOK, ToSet
<1>6. \A i \in DOMAIN r.sources : DOMAIN r.sources[i].hashes \subseteq 1..MaxKeys
  BY <1>2, <1>3 DEF MaxKeys
<1> QED BY <1>1, <1>2, <1>3, <1>5, <1>6 DEF RecipeOK

LEMMA WithinItself ==
  ASSUME NEW s, IsSeq(s) PROVE Within(s, s)
<1>1. s \in Seq(ToSet(s)) /\ Len(s) \in Nat
  BY DEF IsSeq
<1>2. SubSeq(s, 1, Len(s)) = s
  BY <1>1, SubSeqProperties, SeqEqual
<1>3. 0 \in 0..Len(s) /\ 0 + Len(s) <= Len(s) /\ SubSeq(s, 0 + 1, 0 + Len(s)) = s
  BY <1>1, <1>2
<1> QED BY <1>3 DEF Within

LEMMA MinOfIs ==
  ASSUME NEW K, K \subseteq Nat, K # {} PROVE MinOf(K) \in K
BY LeastNumber DEF MinOf

LEMMA MaxOfIs ==
  ASSUME NEW n \in Nat, NEW K, K \subseteq 1..n, K # {} PROVE MaxOf(K) \in K
<1> DEFINE D == {n - k : k \in K}
<1>1. D \subseteq Nat /\ D # {}
  <2>1. \A k \in K : n - k \in Nat
    OBVIOUS
  <2> QED BY <2>1
<1>2. PICK d \in D : \A e \in D : d <= e
  <2> HIDE DEF D
  <2> QED BY <1>1, LeastNumber
<1>3. PICK m \in K : d = n - m
  OBVIOUS
<1>4. ASSUME NEW l \in K PROVE l <= m
  <2>1. d <= n - l
    BY <1>2
  <2> QED BY <2>1, <1>3
<1> QED BY <1>4 DEF MaxOf

\* A selector under which the code looks is that of what it finds, or this has none.
LEMMA SameSelector ==
  ASSUME NEW r \in MetaYamls, Unambiguous(r), NEW i \in DOMAIN r.sources,
         NEW s \in Selectors(r, i), NEW t \in Selectors(r, i)
  PROVE  s # NoSelector => (Within(s, t) <=> s = t)
<1>1. s # NoSelector /\ Within(s, t) => t # NoSelector
  <2>1. IsSeq(s)
    BY RecipeShape
  <2>2. SUFFICES ASSUME Within(s, NoSelector) PROVE s = NoSelector
    OBVIOUS
  <2>3. Len(s) <= 0 /\ s \in Seq(ToSet(s))
    BY <2>1, <2>2 DEF Within, NoSelector, IsSeq
  <2> QED BY <2>3 DEF NoSelector
<1>2. Within(s, t) /\ s # NoSelector => s = t
  BY <1>1 DEF Unambiguous
<1>3. Within(s, s)
  BY RecipeShape, WithinItself
<1> QED BY <1>2, <1>3

LEMMA SelectorsOfKeys ==
  ASSUME NEW r, NEW i \in DOMAIN r.sources
  PROVE  /\ NoSelector \in Selectors(r, i)
         /\ \A k \in DOMAIN r.vars : r.vars[k].sel \in Selectors(r, i)
         /\ \A j \in DOMAIN r.sources[i].urls : r.sources[i].urls[j].sel \in Selectors(r, i)
         /\ \A j \in DOMAIN r.sources[i].hashes : r.sources[i].hashes[j].sel \in Selectors(r, i)
BY DEF Selectors, ToSet

LEMMA NoSelectorHolds == \A p : Holds(NoSelector, p)
BY DEF Holds, NoSelector

\* The keys for a selector are read where it holds.
LEMMA KeysAreRead ==
  ASSUME NEW r \in MetaYamls, Unambiguous(r), NEW i \in DOMAIN r.sources,
         NEW s \in Selectors(r, i), NEW p \in Platforms, Holds(s, p)
  PROVE  /\ UrlKeys(r, i, s) \subseteq UrlKeysOn(r, p, i)
         /\ HashKeys(r, i, s) \subseteq HashesOn(r, p, i)
<1> DEFINE U == r.sources[i].urls
           H == r.sources[i].hashes
<1>1. ASSUME NEW u \in UrlKeys(r, i, s) PROVE u \in DOMAIN U /\ Holds(U[u].sel, p)
  <2> DEFINE With == {j \in DOMAIN U : s # NoSelector /\ Within(s, U[j].sel)}
  <2>1. CASE With # {}
    <3>1. UrlKeys(r, i, s) = {MaxOf(With)}
      BY <2>1 DEF UrlKeys
    <3>2. With \subseteq 1..Len(U) /\ Len(U) \in Nat
      BY RecipeShape
    <3>3. u \in With
      <4> HIDE DEF With, U
      <4> QED BY <2>1, <3>1, <3>2, MaxOfIs
    <3>4. U[u].sel \in Selectors(r, i)
      BY <3>3, SelectorsOfKeys
    <3> QED BY <3>3, <3>4, SameSelector
  <2>2. CASE With = {}
    <3>1. u \in DOMAIN U /\ U[u].sel = NoSelector
      BY <2>2 DEF UrlKeys
    <3> QED BY <3>1, NoSelectorHolds
  <2> QED BY <2>1, <2>2
<1>2. ASSUME NEW h \in HashKeys(r, i, s) PROVE h \in DOMAIN H /\ Holds(H[h].sel, p)
  <2>1. PICK type \in HashTypes : h \in HashKeysOf(r, i, s, type)
    BY DEF HashKeys
  <2> DEFINE With == {j \in DOMAIN H : s # NoSelector /\ H[j].type = type /\ Within(s, H[j].sel)}
  <2>2. CASE With # {}
    <3>1. HashKeysOf(r, i, s, type) = {MinOf(With)}
      BY <2>2 DEF HashKeysOf
    <3>2. With \subseteq Nat
      BY RecipeShape
    <3>3. h \in With
      <4> HIDE DEF With, H
      <4> QED BY <2>1, <2>2, <3>1, <3>2, MinOfIs
    <3>4. H[h].sel \in Selectors(r, i)
      BY <3>3, SelectorsOfKeys
    <3> QED BY <3>3, <3>4, SameSelector
  <2>3. CASE With = {}
    <3>1. h \in DOMAIN H /\ H[h].sel = NoSelector
      BY <2>1, <2>3 DEF HashKeysOf
    <3> QED BY <3>1, NoSelectorHolds
  <2> QED BY <2>2, <2>3
<1> QED BY <1>1, <1>2 DEF UrlKeysOn, HashesOn

\* The one place where a variable is set for a platform.
LEMMA SetOnce ==
  ASSUME NEW r \in MetaYamls, Buildable(r), NEW p \in Platforms, NEW n,
         NEW k \in DOMAIN r.vars, r.vars[k].name = n, Holds(r.vars[k].sel, p)
  PROVE  On(r, p, n) = k
<1> DEFINE K == {l \in DOMAIN r.vars : r.vars[l].name = n /\ Holds(r.vars[l].sel, p)}
<1>1. K = {k}
  BY DEF Buildable
<1>2. DOMAIN r.vars = 1..Len(r.vars) /\ Len(r.vars) \in Nat
  BY RecipeShape
<1>3. MaxOf({k}) \in {k}
  BY <1>2, MaxOfIs
<1> QED BY <1>1, <1>3 DEF On

LEMMA DefinedIsOn ==
  ASSUME NEW r \in MetaYamls, Buildable(r), Unambiguous(r), NEW i \in DOMAIN r.sources,
         NEW s \in Selectors(r, i), NEW p \in Platforms, Holds(s, p), NEW n,
         Defined(r, n, s) # {}
  PROVE  MaxOf(Defined(r, n, s)) = On(r, p, n)
<1>1. ASSUME NEW k \in Defined(r, n, s)
      PROVE  k \in DOMAIN r.vars /\ r.vars[k].name = n /\ Holds(r.vars[k].sel, p)
  <2>1. /\ k \in DOMAIN r.vars /\ r.vars[k].name = n
        /\ r.vars[k].sel = NoSelector \/ (s # NoSelector /\ Within(s, r.vars[k].sel))
    BY DEF Defined
  <2>2. r.vars[k].sel \in Selectors(r, i)
    BY <2>1, SelectorsOfKeys
  <2> QED BY <2>1, <2>2, SameSelector, NoSelectorHolds
<1>2. \A k \in Defined(r, n, s) : k = On(r, p, n)
  BY <1>1, SetOnce
<1>3. Len(r.vars) \in Nat /\ Defined(r, n, s) \subseteq 1..Len(r.vars)
  BY <1>1, RecipeShape
<1>4. MaxOf(Defined(r, n, s)) \in Defined(r, n, s)
  BY <1>3, MaxOfIs
<1> QED BY <1>2, <1>4

\* What _try_replace_hash changes is what a platform of the selector reads.
LEMMA ReplacesWhatIsRead ==
  ASSUME NEW r \in MetaYamls, Buildable(r), Unambiguous(r), NEW i \in DOMAIN r.sources,
         NEW s \in Selectors(r, i), NEW p \in Platforms, Holds(s, p),
         NEW h \in HashesOn(r, p, i), NEW slot \in Replaceable(r, i, h, s)
  PROVE  slot = SlotOn(r, p, i, h)
<1> DEFINE H == r.sources[i].hashes[h]
<1>1. h \in DOMAIN r.sources[i].hashes
  BY DEF HashesOn
<1>2. CASE H.var = <<>>
  BY <1>2 DEF Replaceable, SlotOn
<1>3. CASE H.var # <<>>
  <2> DEFINE cnames == ChecksumNames \cup {H.type} \cup ToSet(H.var)
  <2>1. PICK n \in cnames, k \in DOMAIN r.vars :
          /\ slot = Variable(r.vars[k]) /\ r.vars[k].name = n
          /\ r.vars[k].sel = s \/ r.vars[k].sel = NoSelector
    BY <1>3 DEF Replaceable
  <2>2. Holds(r.vars[k].sel, p)
    BY <2>1, NoSelectorHolds
  <2>3. n \in Names(r)
    BY <2>1 DEF Names
  <2>4. ToSet(H.var) = {H.var[1]}
    <3>1. IsSeq(H.var) /\ Len(H.var) = 1
      BY <1>1, <1>3, MetaAssumption DEF RecipeOK, Unambiguous
    <3>2. DOMAIN H.var = {1}
      BY <3>1 DEF IsSeq
    <3> QED BY <3>2 DEF ToSet
  <2>5. Names(r) \cap (ChecksumNames \cup {H.type}) \subseteq {H.var[1]}
    BY <1>1, <1>3 DEF Unambiguous
  <2>6. n = H.var[1]
    BY <2>3, <2>4, <2>5
  <2>7. On(r, p, n) = k
    BY <2>1, <2>2, SetOnce
  <2> QED BY <1>3, <2>1, <2>6, <2>7 DEF SlotOn
<1> QED BY <1>2, <1>3

\* What is downloaded for a selector is a URL of each platform where it holds.
LEMMA UrlIsRead ==
  ASSUME NEW r \in MetaYamls, Buildable(r), Unambiguous(r), NEW i \in DOMAIN r.sources,
         NEW s \in Selectors(r, i), NEW p \in Platforms, Holds(s, p),
         NEW u \in UrlKeys(r, i, s), NEW N, r.sources[i].urls[u].vars \subseteq N,
         \A n \in N : Defined(r, n, s) # {}
  PROVE  Url(r, i, u, [n \in N |-> MaxOf(Defined(r, n, s))]) \in UrlsOn(r, p, i)
<1> DEFINE V == r.sources[i].urls[u].vars
           f == [n \in N |-> MaxOf(Defined(r, n, s))]
           g == [n \in V |-> On(r, p, n)]
<1>1. \A n \in V : f[n] = g[n]
  BY DefinedIsOn
<1>2. Url(r, i, u, f) = Url(r, i, u, g)
  <2> HIDE DEF f, g
  <2> QED BY <1>1 DEF Url
<1>3. u \in UrlKeysOn(r, p, i)
  BY KeysAreRead
<1> QED BY <1>2, <1>3 DEF UrlsOn

\* The selector under which the code finds all that a platform reads for a source.
Cover(r, p, i) ==
  IF SelectorsOn(r, p, i) \subseteq {NoSelector} THEN NoSelector
  ELSE CHOOSE s \in SelectorsOn(r, p, i) \ {NoSelector} : TRUE

LEMMA CoverIs ==
  ASSUME NEW r \in MetaYamls, Unambiguous(r), NEW i \in DOMAIN r.sources, NEW p \in Platforms
  PROVE  /\ Cover(r, p, i) \in Selectors(r, i) /\ Holds(Cover(r, p, i), p)
         /\ SelectorsOn(r, p, i) \subseteq {NoSelector, Cover(r, p, i)}
<1>1. \A s \in SelectorsOn(r, p, i) : s \in Selectors(r, i) /\ Holds(s, p)
  BY SelectorsOfKeys DEF SelectorsOn, UrlKeysOn, HashesOn
<1>2. NoSelector \in Selectors(r, i) /\ Holds(NoSelector, p)
  BY SelectorsOfKeys, NoSelectorHolds
<1>3. CASE SelectorsOn(r, p, i) \subseteq {NoSelector}
  BY <1>2, <1>3 DEF Cover
<1>4. CASE ~(SelectorsOn(r, p, i) \subseteq {NoSelector})
  <2>1. Cover(r, p, i) \in SelectorsOn(r, p, i) \ {NoSelector}
    BY <1>4 DEF Cover
  <2>2. \A s, t \in SelectorsOn(r, p, i) \ {NoSelector} : s = t
    BY DEF Unambiguous
  <2> QED BY <1>1, <2>1, <2>2
<1> QED BY <1>3, <1>4

\* Under that selector the URL, the hash and their variables are found.
LEMMA CoverFinds ==
  ASSUME NEW r \in MetaYamls, Buildable(r), Unambiguous(r), NEW i \in DOMAIN r.sources,
         NEW p \in Platforms, NEW j \in HashesOn(r, p, i), NEW s, s = Cover(r, p, i)
  PROVE  /\ UrlKeys(r, i, s) # {} /\ HashKeys(r, i, s) = {j}
         /\ \A u \in UrlKeys(r, i, s) : \A n \in Used(r, i, u, j) \cap Names(r) : Defined(r, n, s) # {}
<1> DEFINE U == r.sources[i].urls
           H == r.sources[i].hashes
<1>1. /\ s \in Selectors(r, i) /\ Holds(s, p)
      /\ SelectorsOn(r, p, i) \subseteq {NoSelector, s}
  BY CoverIs
<1>2. UrlKeys(r, i, s) # {}
  <2>1. PICK u \in DOMAIN U : Holds(U[u].sel, p)
    BY DEF Buildable, UrlKeysOn
  <2>2. U[u].sel \in {NoSelector, s} /\ U[u].sel \in Selectors(r, i)
    BY <1>1, <2>1, SelectorsOfKeys DEF SelectorsOn, UrlKeysOn
  <2>3. s # NoSelector /\ U[u].sel = s => Within(s, U[u].sel)
    BY <1>1, <2>2, SameSelector
  <2> QED BY <2>1, <2>2, <2>3 DEF UrlKeys
<1>3. j \in DOMAIN H /\ H[j].sel \in {NoSelector, s} /\ H[j].sel \in Selectors(r, i)
  BY <1>1, SelectorsOfKeys DEF SelectorsOn, HashesOn
<1>4. HashKeys(r, i, s) # {}
  <2>1. H[j].type \in HashTypes
    BY <1>3, MetaAssumption DEF RecipeOK
  <2>2. s # NoSelector /\ H[j].sel = s => Within(s, H[j].sel)
    BY <1>1, <1>3, SameSelector
  <2>3. HashKeysOf(r, i, s, H[j].type) # {}
    BY <1>3, <2>2 DEF HashKeysOf
  <2> QED BY <2>1, <2>3 DEF HashKeys
<1>5. HashKeys(r, i, s) \subseteq HashesOn(r, p, i) /\ UrlKeys(r, i, s) \subseteq UrlKeysOn(r, p, i)
  BY <1>1, KeysAreRead
<1>6. \A k \in HashesOn(r, p, i) : k = j
  BY DEF Unambiguous
<1>7. ASSUME NEW u \in UrlKeys(r, i, s), NEW n \in Used(r, i, u, j) \cap Names(r)
      PROVE  Defined(r, n, s) # {}
  <2>1. n \in NamesOn(r, p, i)
    BY <1>5 DEF Used, NamesOn
  <2>2. On(r, p, n) # 0
    BY <2>1 DEF Buildable
  <2>3. PICK k \in DOMAIN r.vars : r.vars[k].name = n /\ Holds(r.vars[k].sel, p)
    BY <2>2 DEF On
  <2>4. r.vars[k].sel \in {NoSelector, s} /\ r.vars[k].sel \in Selectors(r, i)
    BY <1>1, <2>1, <2>3, SelectorsOfKeys DEF SelectorsOn
  <2>5. s # NoSelector /\ r.vars[k].sel = s => Within(s, r.vars[k].sel)
    BY <1>1, <2>4, SameSelector
  <2> QED BY <2>3, <2>4, <2>5 DEF Defined
<1> QED BY <1>2, <1>4, <1>5, <1>6, <1>7

\* All slots that are read, and changed, are there.
LEMMA SlotIsThere ==
  ASSUME NEW r \in MetaYamls, NEW i \in DOMAIN r.sources, NEW s,
         NEW h \in DOMAIN r.sources[i].hashes, NEW slot \in Replaceable(r, i, h, s)
  PROVE  slot \in Slots(r)
<1>1. h \in 1..MaxKeys
  BY RecipeShape
<1> QED BY <1>1 DEF Replaceable, Slots

LEMMA SlotReadIsThere ==
  ASSUME NEW r \in MetaYamls, Buildable(r), Unambiguous(r), NEW i \in DOMAIN r.sources,
         NEW p \in Platforms, NEW j \in HashesOn(r, p, i)
  PROVE  SlotOn(r, p, i, j) \in Slots(r)
<1> DEFINE H == r.sources[i].hashes[j]
<1>1. j \in DOMAIN r.sources[i].hashes /\ j \in 1..MaxKeys
  BY RecipeShape DEF HashesOn
<1>2. CASE H.var = <<>>
  BY <1>1, <1>2 DEF SlotOn, Slots
<1>3. CASE H.var # <<>>
  <2>1. IsSeq(H.var) /\ Len(H.var) = 1
    BY <1>1, <1>3, MetaAssumption DEF RecipeOK, Unambiguous
  <2>2. H.var[1] \in ToSet(H.var)
    BY <2>1 DEF IsSeq, ToSet
  <2>3. H.var[1] \in NamesOn(r, p, i) \cap Names(r)
    BY <2>2 DEF NamesOn, Buildable
  <2>4. On(r, p, H.var[1]) # 0
    BY <2>3 DEF Buildable
  <2>5. PICK k \in DOMAIN r.vars : r.vars[k].name = H.var[1] /\ Holds(r.vars[k].sel, p)
    BY <2>4 DEF On
  <2>6. On(r, p, H.var[1]) = k
    BY <2>5, SetOnce
  <2> QED BY <1>3, <2>6 DEF SlotOn, Slots
<1> QED BY <1>2, <1>3

\* What is written was downloaded from where a platform gets the source; and of what the
\* loop has passed nothing is left as it was, unless something has failed.
IsOf(c, p, i, j) == c[1].type = meta.sources[i].hashes[j].type /\ c[1].url \in UrlsOn(meta, p, i)
Written(p, i, j) == content[SlotOn(meta, p, i, j)] # <<>>
Passed(p, i) == i < src \/ (i = src /\ Cover(meta, p, i) \notin selectors)

MetaTypes ==
  /\ meta \in MetaYamls /\ src \in 1..(Len(meta.sources) + 1)
  /\ DOMAIN content = Slots(meta)
  /\ step \in {"selectors", "written", "failed"} /\ edited \in BOOLEAN
  /\ InSource => selectors \subseteq Selectors(meta, src)

WrittenIsRight ==
  \A p \in Platforms, i \in DOMAIN meta.sources : \A j \in HashesOn(meta, p, i) :
    Written(p, i, j) => IsOf(content[SlotOn(meta, p, i, j)], p, i, j)

PassedIsWritten ==
  edited => \A p \in Platforms, i \in DOMAIN meta.sources : \A j \in HashesOn(meta, p, i) :
              Passed(p, i) => Written(p, i, j)

MetaInv ==
  /\ MetaTypes /\ WrittenIsRight /\ PassedIsWritten
  /\ step = "written" => edited /\ src > Len(meta.sources)

LEMMA MetaInitInv == RecipesAreSound /\ MetaInit => MetaInv
<1> SUFFICES ASSUME RecipesAreSound, MetaInit PROVE MetaInv
  OBVIOUS
<1>1. meta \in MetaYamls /\ Buildable(meta) /\ Unambiguous(meta)
  BY DEF MetaInit, RecipesAreSound
<1>2. Len(meta.sources) \in Nat /\ DOMAIN meta.sources = 1..Len(meta.sources)
  BY <1>1, RecipeShape
<1>3. MetaTypes
  BY <1>1, <1>2 DEF MetaInit, MetaTypes, InSource
<1>4. WrittenIsRight
  <2> SUFFICES ASSUME NEW p \in Platforms, NEW i \in DOMAIN meta.sources,
                      NEW j \in HashesOn(meta, p, i), Written(p, i, j)
               PROVE  FALSE
    BY DEF WrittenIsRight
  <2>1. SlotOn(meta, p, i, j) \in Slots(meta)
    BY <1>1, SlotReadIsThere
  <2> QED BY <2>1 DEF MetaInit, Written
<1>5. PassedIsWritten
  <2>1. \A p \in Platforms, i \in DOMAIN meta.sources : Cover(meta, p, i) \in Selectors(meta, i)
    BY <1>1, CoverIs
  <2> QED BY <1>2, <2>1 DEF MetaInit, PassedIsWritten, Passed
<1> QED BY <1>3, <1>4, <1>5 DEF MetaInit, MetaInv

\* A selector that is passed over without a word is not the one that finds all.
LEMMA PassedOver ==
  ASSUME NEW s \in selectors, MetaInv, RecipesAreSound, NothingToDo(s) \/ Skip(s),
         NEW p \in Platforms, NEW j \in HashesOn(meta, p, src)
  PROVE  s # Cover(meta, p, src)
<1> SUFFICES ASSUME s = Cover(meta, p, src) PROVE FALSE
  OBVIOUS
<1>1. meta \in MetaYamls /\ Buildable(meta) /\ Unambiguous(meta)
  BY DEF MetaInv, MetaTypes, RecipesAreSound
<1>2. src \in DOMAIN meta.sources
  BY <1>1, RecipeShape DEF NothingToDo, Skip, InSource, MetaInv, MetaTypes
<1>3. /\ UrlKeys(meta, src, s) # {} /\ HashKeys(meta, src, s) = {j}
      /\ \A u \in UrlKeys(meta, src, s) :
           \A n \in Used(meta, src, u, j) \cap Names(meta) : Defined(meta, n, s) # {}
  BY <1>1, <1>2, CoverFinds
<1> QED BY <1>3 DEF NothingToDo, Skip

LEMMA HashIsRight ==
  ASSUME NEW s \in selectors, NEW u, NEW h, MetaInv, RecipesAreSound, Hash(s, u, h)
  PROVE  MetaInv'
<1>1. meta \in MetaYamls /\ Buildable(meta) /\ Unambiguous(meta)
  BY DEF MetaInv, MetaTypes, RecipesAreSound
<1>2. Len(meta.sources) \in Nat /\ DOMAIN meta.sources = 1..Len(meta.sources) /\ src \in DOMAIN meta.sources
  BY <1>1, RecipeShape DEF Hash, Ready, InSource, MetaInv, MetaTypes
<1>3. /\ u \in UrlKeys(meta, src, s) /\ h \in HashKeys(meta, src, s)
      /\ \A n \in Used(meta, src, u, h) : Defined(meta, n, s) # {}
      /\ s \in Selectors(meta, src) /\ step = "selectors"
  BY DEF Hash, Ready, InSource, MetaInv, MetaTypes
<1> DEFINE N == Used(meta, src, u, h)
           found == [url |-> Url(meta, src, u, [n \in N |-> MaxOf(Defined(meta, n, s))]),
                     type |-> meta.sources[src].hashes[h].type]
<1>4. PICK slot \in Replaceable(meta, src, h, s) : content' = [content EXCEPT ![slot] = <<found>>]
  BY DEF Hash
<1>5. UNCHANGED <<meta, src, edited, faulty, undone, step>> /\ selectors' = selectors \ {s}
  BY DEF Hash
<1>6. \A q \in Platforms : Holds(s, q) => h \in HashesOn(meta, q, src)
  BY <1>1, <1>2, <1>3, KeysAreRead
<1>7. ASSUME NEW q \in Platforms, Holds(s, q)
      PROVE  found.url \in UrlsOn(meta, q, src) /\ slot = SlotOn(meta, q, src, h)
  <2>1. meta.sources[src].urls[u].vars \subseteq N
    BY DEF Used
  <2>2. Url(meta, src, u, [n \in N |-> MaxOf(Defined(meta, n, s))]) \in UrlsOn(meta, q, src)
    BY <1>1, <1>2, <1>3, <1>7, <2>1, UrlIsRead
  <2> QED BY <1>1, <1>2, <1>3, <1>4, <1>6, <1>7, <2>2, ReplacesWhatIsRead
<1>8. PICK q \in Platforms : Holds(s, q)
  BY <1>1, <1>2, <1>3 DEF Buildable
<1>9. slot \in Slots(meta)
  <2>1. h \in DOMAIN meta.sources[src].hashes
    BY <1>6, <1>8 DEF HashesOn
  <2> QED BY <1>1, <1>2, <1>4, <2>1, SlotIsThere
<1>10. content'[slot] = <<found>> /\ DOMAIN content' = Slots(meta)
  BY <1>4, <1>9 DEF MetaInv, MetaTypes
<1>11. <<found>> # <<>> /\ <<found>>[1] = found
  OBVIOUS
<1>12. \A x : x # slot /\ x \in Slots(meta) => content'[x] = content[x]
  BY <1>4 DEF MetaInv, MetaTypes
<1>13. MetaTypes'
  BY <1>5, <1>10 DEF MetaInv, MetaTypes, InSource
<1>14. WrittenIsRight'
  <2> SUFFICES ASSUME NEW p \in Platforms, NEW i \in DOMAIN meta.sources,
                      NEW j \in HashesOn(meta, p, i), Written(p, i, j)'
               PROVE  IsOf(content[SlotOn(meta, p, i, j)], p, i, j)'
    BY <1>5 DEF WrittenIsRight
  <2>1. CASE SlotOn(meta, p, i, j) = slot
    <3>1. SlotOn(meta, p, i, j) = SlotOn(meta, q, src, h)
      BY <1>7, <1>8, <2>1
    <3>2. /\ meta.sources[src].hashes[h].type = meta.sources[i].hashes[j].type
          /\ UrlsOn(meta, q, src) = UrlsOn(meta, p, i)
      BY <1>1, <1>2, <1>6, <1>8, <3>1 DEF Buildable
    <3>3. found.url \in UrlsOn(meta, p, i) /\ found.type = meta.sources[i].hashes[j].type
      BY <1>7, <1>8, <3>2
    <3>4. content'[SlotOn(meta, p, i, j)] = <<found>> /\ <<found>>[1] = found
      BY <1>10, <1>11, <2>1
    <3> QED BY <1>5, <3>3, <3>4 DEF IsOf
  <2>2. CASE SlotOn(meta, p, i, j) # slot
    <3>1. content'[SlotOn(meta, p, i, j)] = content[SlotOn(meta, p, i, j)]
      BY <1>1, <1>12, <2>2, SlotReadIsThere
    <3> QED BY <1>5, <3>1 DEF IsOf, Written, WrittenIsRight, MetaInv
  <2> QED BY <2>1, <2>2
<1>15. PassedIsWritten'
  <2> SUFFICES ASSUME edited, NEW p \in Platforms, NEW i \in DOMAIN meta.sources,
                      NEW j \in HashesOn(meta, p, i), Passed(p, i)'
               PROVE  content'[SlotOn(meta, p, i, j)] # <<>>
    BY <1>5 DEF PassedIsWritten, Written
  <2>1. SlotOn(meta, p, i, j) \in Slots(meta)
    BY <1>1, SlotReadIsThere
  <2>2. CASE Passed(p, i)
    <3>1. content[SlotOn(meta, p, i, j)] # <<>>
      BY <2>2 DEF MetaInv, PassedIsWritten, Written
    <3> HIDE DEF found
    <3> QED BY <1>10, <1>12, <1>11, <2>1, <3>1
  <2>3. CASE ~Passed(p, i)
    <3>1. i = src /\ s = Cover(meta, p, i)
      BY <1>5, <2>3 DEF Passed
    <3>2. h = j
      BY <1>1, <1>3, <3>1, CoverFinds
    <3>3. Holds(s, p)
      BY <1>1, <1>2, <3>1, CoverIs
    <3>4. slot = SlotOn(meta, p, i, j)
      BY <1>7, <3>1, <3>2, <3>3
    <3> HIDE DEF found
    <3> QED BY <1>10, <1>11, <3>4
  <2> QED BY <2>2, <2>3
<1> QED BY <1>3, <1>5, <1>13, <1>14, <1>15 DEF MetaInv

\* A step that changes no hash.
LEMMA NoHashChanges ==
  ASSUME MetaInv, MetaTypes', UNCHANGED <<meta, content>>,
         step' = "written" => edited' /\ src' > Len(meta.sources),
         edited' => edited /\ \A p \in Platforms, i \in DOMAIN meta.sources : \A j \in HashesOn(meta, p, i) :
                               Passed(p, i)' => Passed(p, i)
  PROVE  MetaInv'
<1>1. WrittenIsRight'
  BY DEF MetaInv, WrittenIsRight, Written, IsOf
<1>2. PassedIsWritten'
  BY DEF MetaInv, PassedIsWritten, Written
<1> QED BY <1>1, <1>2 DEF MetaInv

LEMMA MetaNextInv == RecipesAreSound /\ MetaInv /\ [MetaNext]_metaVars => MetaInv'
<1> SUFFICES ASSUME RecipesAreSound, MetaInv, [MetaNext]_metaVars PROVE MetaInv'
  OBVIOUS
<1>1. meta \in MetaYamls /\ Buildable(meta) /\ Unambiguous(meta)
  BY DEF MetaInv, MetaTypes, RecipesAreSound
<1>2. /\ Len(meta.sources) \in Nat /\ DOMAIN meta.sources = 1..Len(meta.sources)
      /\ src \in 1..(Len(meta.sources) + 1)
  BY <1>1, RecipeShape DEF MetaInv, MetaTypes
<1>3. ASSUME NEW s \in selectors, NothingToDo(s) \/ Skip(s) PROVE MetaInv'
  <2>1. /\ UNCHANGED <<meta, content, src, edited, faulty, undone, step>>
        /\ selectors' = selectors \ {s} /\ step = "selectors"
    BY <1>3 DEF NothingToDo, Skip, InSource
  <2>2. MetaTypes'
    BY <2>1 DEF MetaInv, MetaTypes, InSource
  <2>3. \A p \in Platforms, i \in DOMAIN meta.sources : \A j \in HashesOn(meta, p, i) :
          Passed(p, i)' => Passed(p, i)
    BY <1>3, <2>1, PassedOver DEF Passed
  <2> QED BY <2>1, <2>2, <2>3, NoHashChanges
<1>4. ASSUME NEW s \in selectors, NEW u, NEW h, MissingVariable(s) \/ CannotHash(s, u, h) PROVE MetaInv'
  <2>1. /\ UNCHANGED <<meta, content, src, step>> /\ edited' = FALSE
        /\ selectors' = selectors \ {s} /\ step = "selectors"
    BY <1>4 DEF MissingVariable, CannotHash, Ready, Fails, InSource
  <2>2. MetaTypes'
    BY <2>1 DEF MetaInv, MetaTypes, InSource
  <2> QED BY <2>1, <2>2, NoHashChanges
<1>5. ASSUME NoUrls PROVE MetaInv'
  <2>1. /\ UNCHANGED <<meta, content, src, step>>
        /\ selectors' = {} /\ step = "selectors" /\ meta.sources[src].urls = <<>>
        /\ src <= Len(meta.sources)
    BY <1>5 DEF NoUrls, InSource
  <2>2. src \in DOMAIN meta.sources
    BY <1>2, <2>1
  <2>3. edited' = edited \/ edited' = FALSE
    BY <1>5 DEF NoUrls, Fails
  <2>4. MetaTypes'
    BY <2>1, <2>3 DEF MetaInv, MetaTypes, InSource
  <2>5. \A p \in Platforms : HashesOn(meta, p, src) = {}
    <3>1. \A p : UrlKeysOn(meta, p, src) = {}
      BY <2>1 DEF UrlKeysOn
    <3> QED BY <1>1, <2>2, <3>1 DEF Buildable
  <2>6. \A p \in Platforms, i \in DOMAIN meta.sources : \A j \in HashesOn(meta, p, i) :
          Passed(p, i)' => Passed(p, i)
    BY <2>1, <2>5 DEF Passed
  <2> QED BY <2>1, <2>3, <2>4, <2>6, NoHashChanges DEF MetaInv, MetaTypes
<1>6. ASSUME NextSource PROVE MetaInv'
  <2>1. /\ UNCHANGED <<meta, content, edited, faulty, undone, step>> /\ src' = src + 1
        /\ selectors = {} /\ step = "selectors" /\ src <= Len(meta.sources)
        /\ selectors' = IF src' <= Len(meta.sources) THEN Selectors(meta, src') ELSE {}
    BY <1>6 DEF NextSource, InSource
  <2>2. MetaTypes'
    BY <1>2, <2>1 DEF MetaInv, MetaTypes, InSource
  <2>3. ASSUME NEW p \in Platforms, NEW i \in DOMAIN meta.sources, Passed(p, i)' PROVE Passed(p, i)
    <3>1. Cover(meta, p, i) \in Selectors(meta, i)
      BY <1>1, CoverIs
    <3>2. i \in Nat /\ i <= Len(meta.sources) /\ (i < src + 1 \/ (i = src + 1 /\ Cover(meta, p, i) \notin selectors'))
      BY <1>2, <2>1, <2>3 DEF Passed
    <3>3. i < src + 1
      BY <2>1, <3>1, <3>2
    <3> QED BY <1>2, <2>1, <3>3, <3>2 DEF Passed
  <2> QED BY <2>1, <2>2, <2>3, NoHashChanges
<1>7. ASSUME Write PROVE MetaInv'
  <2>1. /\ UNCHANGED <<meta, content, src, selectors, edited, undone>>
        /\ step' \in {"written", "failed"} /\ step = "selectors" /\ src > Len(meta.sources)
        /\ step' = "written" => edited
    BY <1>2, <1>7 DEF Write, InSource
  <2>2. MetaTypes'
    BY <2>1 DEF MetaInv, MetaTypes, InSource
  <2> QED BY <2>1, <2>2, NoHashChanges DEF Passed
<1>8. ASSUME UNCHANGED metaVars PROVE MetaInv'
  <2>1. MetaTypes'
    BY <1>8 DEF metaVars, MetaInv, MetaTypes, InSource
  <2> QED BY <1>8, <2>1, NoHashChanges DEF metaVars, MetaInv, Passed
<1> QED BY <1>3, <1>4, <1>5, <1>6, <1>7, <1>8, HashIsRight DEF MetaNext

\* In a meta.yaml that is written, the hash that a platform reads is that
\* of the archive it downloads: of every recipe that can be built, unless it is one of the
\* four kinds that Unambiguous excludes.
THEOREM MetaYamlHashes ==
  ASSUME RecipesAreSound PROVE MetaSpec => []HashesAreNew
<1>1. MetaInit => MetaInv
  BY MetaInitInv
<1>2. MetaInv /\ [MetaNext]_metaVars => MetaInv'
  BY MetaNextInv
<1>3. MetaInv => HashesAreNew
  <2> SUFFICES ASSUME MetaInv, step = "written", NEW p \in Platforms, NEW i \in DOMAIN meta.sources,
                      NEW j \in HashesOn(meta, p, i)
               PROVE  LET c == content[SlotOn(meta, p, i, j)]
                      IN  c # <<>> /\ c[1].type = meta.sources[i].hashes[j].type
                          /\ c[1].url \in UrlsOn(meta, p, i)
    BY DEF HashesAreNew
  <2>1. meta \in MetaYamls /\ edited /\ src > Len(meta.sources) /\ src \in Nat
    BY RecipeShape DEF MetaInv, MetaTypes
  <2>2. i < src
    BY <2>1, RecipeShape
  <2>3. Written(p, i, j)
    BY <2>1, <2>2 DEF MetaInv, PassedIsWritten, Passed
  <2> QED BY <2>3 DEF MetaInv, WrittenIsRight, Written, IsOf
<1> QED BY <1>1, <1>2, <1>3, PTL DEF MetaSpec

-----------------------------------------------------------------------------
(* RecipeVersionV1 *)

SamePlace(k, l) == rendered[k].place = rendered[l].place
SameSource(k, l) == SamePlace(k, l) /\ rendered[k].variant = rendered[l].variant

\* The first form that can be had of a source.
FirstForm(r, f) ==
  \E k \in DOMAIN FormsOf(r) :
    /\ FormsOf(r)[k] = f /\ Try(r, f)
    /\ \A l \in 1..(k - 1) : ~Try(r, FormsOf(r)[l])

V1Type ==
  /\ rendered \in Recipes /\ at \in Nat \ {0}
  /\ hash \in [DOMAIN rendered -> {hash[k] : k \in DOMAIN rendered}]
  /\ DOMAIN form = Places

\* Of what was looked at before: the form of a place is the first that can be had, each
\* hash is of it, and all that is rendered from the place and the variant has it.
FormIsFirst ==
  \A k \in DOMAIN rendered :
    IF \E j \in DOMAIN rendered : j < at /\ SamePlace(k, j)
    THEN Uniform(rendered[k].place) => FirstForm(rendered[k], form[rendered[k].place])
    ELSE form[rendered[k].place] = Given
HashIsOfForm ==
  \A k \in DOMAIN rendered :
    IF \E j \in DOMAIN rendered : j < at /\ SameSource(k, j)
    THEN Uniform(rendered[k].place) => hash[k] = NewHash(rendered[k], form[rendered[k].place])
    ELSE hash[k] = OldHash(rendered[k])

V1Inv ==
  /\ V1Type
  /\ stage = "start" => at = 1
  /\ updated => FormIsFirst /\ HashIsOfForm
  /\ stage = "written" => updated /\ at > Len(rendered)

LEMMA RecipeIsSeq ==
  ASSUME rendered \in Recipes
  PROVE  /\ Len(rendered) \in Nat /\ DOMAIN rendered = 1..Len(rendered)
         /\ \A k, l \in DOMAIN rendered : SamePlace(k, l) => rendered[k].const = rendered[l].const
  BY RecipesAssumption DEF SamePlace

\* What is tried for a source is a sequence of forms.
LEMMA FormsAreForms ==
  ASSUME NEW r
  PROVE  FormsOf(r) \in Seq(AllForms)
<1>1. OfPyPI \in Seq(AllForms) /\ Munged \in Seq(AllForms) /\ Given \in AllForms
  BY RecipesAssumption DEF AllForms
<1>2. <<Given>> \in Seq(AllForms) /\ <<>> \in Seq(AllForms)
  BY <1>1
<1>3. <<Given>> \o Munged \in Seq(AllForms)
  BY <1>1, <1>2
<1>4. OfPyPI \o (<<Given>> \o Munged) \in Seq(AllForms)
  BY <1>1, <1>3
<1>5. FormsOf(r) \in Seq(AllForms)
  <2>1. CASE r.const
    BY <1>1, <1>2, <1>3, <1>4, <2>1 DEF FormsOf, TryPyPI, GenTransformed
  <2>2. CASE ~r.const
    BY <1>1, <1>2, <1>3, <1>4, <2>2 DEF FormsOf, TryPyPI, GenTransformed
  <2> QED
    BY <2>1, <2>2
<1> QED
  BY <1>5

\* Forms are in an order, so that only one is the first.
LEMMA OneFirstForm ==
  ASSUME NEW r, NEW f, NEW g, FirstForm(r, f), FirstForm(r, g)
  PROVE  f = g
<1> DEFINE F == FormsOf(r)
<1>1. F \in Seq(AllForms)
  BY FormsAreForms
<1>2. DOMAIN F = 1..Len(F) /\ Len(F) \in Nat
  BY <1>1
<1>3. PICK k \in 1..Len(F) : F[k] = f /\ Try(r, f) /\ \A n \in 1..(k - 1) : ~Try(r, F[n])
  BY <1>2 DEF FirstForm
<1>4. PICK l \in 1..Len(F) : F[l] = g /\ Try(r, g) /\ \A n \in 1..(l - 1) : ~Try(r, F[n])
  BY <1>2 DEF FirstForm
<1>5. ~(k < l) /\ ~(l < k)
  BY <1>2, <1>3, <1>4
<1> QED
  BY <1>2, <1>3, <1>4, <1>5

LEMMA OldIsNotNew ==
  ASSUME NEW r, NEW s, NEW f
  PROVE  /\ OldHash(r) = OldHash(s) <=> r.place = s.place /\ r.variant = s.variant
         /\ NewHash(r, f) = OldHash(s) => r.place = s.place /\ r.variant = s.variant
<1>1. \A x, p, v : <<"new", x>> # <<Old, p, v>>
  OBVIOUS
<1> QED
  BY <1>1 DEF OldHash, NewHash

LEMMA V1InitInv == V1Init => V1Inv
<1> SUFFICES ASSUME V1Init PROVE V1Inv
  OBVIOUS
<1>1. \A k, j \in DOMAIN rendered : ~(j < at)
  BY RecipeIsSeq DEF V1Init
<1>2. V1Type
  BY DEF V1Init, V1Type
<1>3. FormIsFirst
  BY <1>1 DEF V1Init, FormIsFirst, Places
<1>4. HashIsOfForm
  BY <1>1 DEF V1Init, HashIsOfForm
<1> QED
  BY <1>2, <1>3, <1>4 DEF V1Init, V1Inv

\* A source is found: what was put in for its place and variant before is the same.
LEMMA FoundKeeps ==
  ASSUME V1Inv, updated, NEW f \in AllForms, FormFound(f)
  PROVE  FormIsFirst' /\ HashIsOfForm'
<1> DEFINE r == rendered[at]
           p == r.place
<1>1. at \in DOMAIN rendered /\ rendered \in Recipes /\ at \in Nat \ {0}
  BY RecipeIsSeq DEF FormFound, First, Here, V1Inv, V1Type
<1>2. /\ FormIsFirst /\ HashIsOfForm
      /\ rendered' = rendered /\ there' = there /\ at' = at + 1
      /\ form' = [form EXCEPT ![p] = IF @ = Given THEN f ELSE @]
      /\ hash' = [k \in DOMAIN hash |->
                     IF hash[k] = OldHash(r) THEN NewHash(r, f) ELSE hash[k]]
  BY DEF FormFound, Replace, V1Inv
<1>3. FirstForm(r, f)
  BY DEF FormFound, First, FirstForm
<1>4. DOMAIN hash = DOMAIN rendered /\ DOMAIN form = Places /\ p \in Places
  BY <1>1 DEF V1Inv, V1Type, Places
<1>5. \A k \in DOMAIN rendered : SamePlace(k, at) => rendered[k].const = r.const
  BY <1>1, RecipeIsSeq
<1>6. ASSUME NEW k \in DOMAIN rendered, SamePlace(k, at), Uniform(p)
      PROVE  \A g \in AllForms : Try(rendered[k], g) <=> Try(r, g)
  BY <1>1, <1>6 DEF Uniform, SamePlace
<1>7. ASSUME NEW k \in DOMAIN rendered, SamePlace(k, at), Uniform(p), NEW g
      PROVE  FirstForm(rendered[k], g) <=> FirstForm(r, g)
  <2>1. FormsOf(rendered[k]) = FormsOf(r)
    BY <1>5, <1>7 DEF FormsOf
  <2>2. /\ \A n \in DOMAIN FormsOf(r) : FormsOf(r)[n] \in AllForms
        /\ \A n \in DOMAIN FormsOf(r) : \A l \in 1..(n - 1) : l \in DOMAIN FormsOf(r)
    BY FormsAreForms
  <2> QED
    BY <1>6, <1>7, <2>1, <2>2 DEF FirstForm
<1>8. ASSUME Uniform(p), NEW j \in DOMAIN rendered, j < at, SamePlace(at, j)
      PROVE  form[p] = f
  <2>1. FirstForm(r, form[p])
    BY <1>1, <1>2, <1>8 DEF FormIsFirst
  <2> QED
    BY <1>3, <2>1, OneFirstForm
<1>9. Uniform(p) => form'[p] = f
  <2>1. CASE \E j \in DOMAIN rendered : j < at /\ SamePlace(at, j)
    BY <1>2, <1>4, <1>8, <2>1
  <2>2. CASE ~\E j \in DOMAIN rendered : j < at /\ SamePlace(at, j)
    <3>1. form[p] = Given
      BY <1>1, <1>2, <2>2 DEF FormIsFirst
    <3> QED
      BY <1>2, <1>4, <3>1
  <2> QED
    BY <2>1, <2>2
<1>10. \A j \in DOMAIN rendered : j < at' <=> j < at \/ j = at
  BY <1>1, <1>2, RecipeIsSeq
<1>11. /\ \A q : Uniform(q)' <=> Uniform(q)
       /\ \A q, g : FirstForm(q, g)' <=> FirstForm(q, g)
       /\ \A k, j : (SamePlace(k, j)' <=> SamePlace(k, j)) /\ (SameSource(k, j)' <=> SameSource(k, j))
  BY <1>2 DEF Uniform, FirstForm, SamePlace, SameSource, Try
<1>12. FormIsFirst'
  <2> SUFFICES ASSUME NEW k \in DOMAIN rendered
               PROVE  IF \E j \in DOMAIN rendered : j < at' /\ SamePlace(k, j)
                      THEN Uniform(rendered[k].place) => FirstForm(rendered[k], form'[rendered[k].place])
                      ELSE form'[rendered[k].place] = Given
    BY <1>2, <1>11 DEF FormIsFirst
  <2>1. CASE SamePlace(k, at)
    <3>1. rendered[k].place = p
      BY <2>1 DEF SamePlace
    <3>2. \E j \in DOMAIN rendered : j < at' /\ SamePlace(k, j)
      BY <1>1, <1>10, <2>1
    <3>3. Uniform(p) => FirstForm(rendered[k], f)
      BY <1>3, <1>7, <2>1
    <3> QED
      BY <1>9, <3>1, <3>2, <3>3
  <2>2. CASE ~SamePlace(k, at)
    <3>1. rendered[k].place # p
      BY <2>2 DEF SamePlace
    <3>2. form'[rendered[k].place] = form[rendered[k].place]
      BY <1>2, <1>4, <3>1 DEF Places
    <3>3. (\E j \in DOMAIN rendered : j < at' /\ SamePlace(k, j)) <=> (\E j \in DOMAIN rendered : j < at /\ SamePlace(k, j))
      BY <1>10, <2>2
    <3> QED
      BY <1>2, <3>2, <3>3 DEF FormIsFirst
  <2> QED
    BY <2>1, <2>2
<1>13. HashIsOfForm'
  <2> SUFFICES ASSUME NEW k \in DOMAIN rendered
               PROVE  IF \E j \in DOMAIN rendered : j < at' /\ SameSource(k, j)
                      THEN Uniform(rendered[k].place) => hash'[k] = NewHash(rendered[k], form'[rendered[k].place])
                      ELSE hash'[k] = OldHash(rendered[k])
    BY <1>2, <1>11 DEF HashIsOfForm
  <2>1. hash'[k] = IF hash[k] = OldHash(r) THEN NewHash(r, f) ELSE hash[k]
    BY <1>2, <1>4
  <2>2. CASE SameSource(k, at)
    <3>1. rendered[k].place = p /\ OldHash(rendered[k]) = OldHash(r) /\ SamePlace(k, at)
      BY <2>2 DEF SameSource, SamePlace, OldHash
    <3>2. NewHash(rendered[k], f) = NewHash(r, f)
      BY <1>5, <2>2, <3>1 DEF NewHash, Archive, SameSource, SamePlace
    <3>3. ASSUME Uniform(p) PROVE hash'[k] = NewHash(rendered[k], f)
      <4>1. CASE \E j \in DOMAIN rendered : j < at /\ SameSource(k, j)
        <5>1. PICK j \in DOMAIN rendered : j < at /\ SameSource(k, j)
          BY <4>1
        <5>2. SamePlace(at, j)
          BY <3>1, <5>1 DEF SamePlace, SameSource
        <5>3. form[p] = f
          BY <1>8, <3>3, <5>1, <5>2
        <5>4. hash[k] = NewHash(rendered[k], f)
          BY <1>2, <3>1, <3>3, <4>1, <5>3 DEF HashIsOfForm
        <5> QED
          BY <2>1, <3>2, <5>4
      <4>2. CASE ~\E j \in DOMAIN rendered : j < at /\ SameSource(k, j)
        BY <1>2, <2>1, <3>1, <3>2, <4>2 DEF HashIsOfForm
      <4> QED
        BY <4>1, <4>2
    <3>4. \E j \in DOMAIN rendered : j < at' /\ SameSource(k, j)
      BY <1>1, <1>10, <2>2
    <3> QED
      BY <1>9, <3>1, <3>3, <3>4
  <2>3. CASE ~SameSource(k, at)
    <3>1. (\E j \in DOMAIN rendered : j < at' /\ SameSource(k, j)) <=> (\E j \in DOMAIN rendered : j < at /\ SameSource(k, j))
      BY <1>10, <2>3
    <3>2. ~(rendered[k].place = p /\ rendered[k].variant = r.variant)
      BY <2>3 DEF SameSource, SamePlace
    <3>3. CASE ~\E j \in DOMAIN rendered : j < at /\ SameSource(k, j)
      <4>1. hash[k] = OldHash(rendered[k])
        BY <1>2, <3>3 DEF HashIsOfForm
      <4> QED
        BY <2>1, <3>1, <3>2, <3>3, <4>1, OldIsNotNew
    <3>4. ASSUME NEW j \in DOMAIN rendered, j < at, SameSource(k, j), Uniform(rendered[k].place)
          PROVE  hash'[k] = NewHash(rendered[k], form'[rendered[k].place])
      <4>1. hash[k] = NewHash(rendered[k], form[rendered[k].place])
        BY <1>2, <3>4 DEF HashIsOfForm
      <4>2. hash'[k] = hash[k]
        BY <2>1, <3>2, <4>1, OldIsNotNew
      <4>3. form'[rendered[k].place] = form[rendered[k].place]
        <5>1. CASE rendered[k].place = p
          BY <1>8, <1>9, <3>4, <5>1 DEF SameSource, SamePlace
        <5>2. CASE rendered[k].place # p
          BY <1>2, <1>4, <5>2 DEF Places
        <5> QED
          BY <5>1, <5>2
      <4> QED
        BY <4>1, <4>2, <4>3
    <3> QED
      BY <3>1, <3>3, <3>4
  <2> QED
    BY <2>2, <2>3
<1> QED
  BY <1>12, <1>13

LEMMA V1NextInv == V1Inv /\ [V1Next]_v1Vars => V1Inv'
<1> SUFFICES ASSUME V1Inv, [V1Next]_v1Vars PROVE V1Inv'
  OBVIOUS
<1>a. /\ rendered \in Recipes /\ at \in Nat \ {0} /\ DOMAIN form = Places
      /\ hash \in [DOMAIN rendered -> {hash[k] : k \in DOMAIN rendered}] /\ DOMAIN hash = DOMAIN rendered
  BY DEF V1Inv, V1Type
\* Steps after which no source is put in.
<1>b. ASSUME UNCHANGED <<rendered, there, hash, form, at, updated>> PROVE
        V1Type' /\ (updated' => FormIsFirst' /\ HashIsOfForm')
  <2>1. V1Type'
    BY <1>b DEF V1Inv, V1Type, Places
  <2>2. FormIsFirst => FormIsFirst'
    BY <1>b DEF FormIsFirst, SamePlace, FirstForm, Uniform, Try
  <2>3. HashIsOfForm => HashIsOfForm'
    BY <1>b DEF HashIsOfForm, SamePlace, SameSource, Uniform, Try
  <2> QED
    BY <1>b, <2>1, <2>2, <2>3 DEF V1Inv
<1>1. CASE StartRecipe
  BY <1>1, <1>b DEF StartRecipe, V1Inv
<1>2. ASSUME NEW f \in AllForms, FormFound(f) PROVE V1Inv'
  <2>1. updated => FormIsFirst' /\ HashIsOfForm'
    BY <1>2, FoundKeeps
  <2>2. /\ rendered' = rendered /\ at' = at + 1 /\ updated' = updated /\ stage' = stage /\ stage = "sources"
        /\ DOMAIN form' = Places /\ DOMAIN hash' = DOMAIN rendered
    BY <1>2, <1>a DEF FormFound, Replace, First, Here
  <2>3. hash' \in [DOMAIN rendered -> {hash'[k] : k \in DOMAIN rendered}]
    BY <1>2, <1>a DEF FormFound, Replace
  <2>4. V1Type'
    BY <1>a, <2>2, <2>3 DEF V1Type, Places
  <2> QED
    BY <2>1, <2>2, <2>4 DEF V1Inv
<1>3. ASSUME NEW f \in AllForms, NoHash(f) PROVE V1Inv'
  BY <1>3, <1>b DEF NoHash, Here, V1Inv
<1>4. CASE NotFound
  <2>1. V1Type'
    BY <1>4, <1>a DEF NotFound, V1Type, Places
  <2> QED
    BY <1>4, <2>1 DEF NotFound, Here, V1Inv
<1>5. CASE FinishRecipe
  <2>1. ~(at <= Len(rendered)) => at > Len(rendered)
    BY <1>a, RecipeIsSeq
  <2> QED
    BY <1>5, <1>b, <2>1 DEF FinishRecipe, Here, V1Inv
<1>6. CASE UNCHANGED v1Vars
  BY <1>6, <1>b DEF v1Vars, V1Inv
<1> QED
  BY <1>1, <1>2, <1>3, <1>4, <1>5, <1>6 DEF V1Next

\* In a recipe.yaml that is written, each hash is that of the archive of the URL beside
\* it, although hashes and templates are replaced wherever they occur and are rendered
\* several times (update_version_v1).
THEOREM RecipeYamlHashes == V1Spec => []HashesFollowUrls
<1>1. V1Init => V1Inv
  BY V1InitInv
<1>2. V1Inv /\ [V1Next]_v1Vars => V1Inv'
  BY V1NextInv
<1>3. V1Inv => HashesFollowUrls
  <2> SUFFICES ASSUME V1Inv, stage = "written", NEW k \in DOMAIN rendered, Uniform(rendered[k].place)
               PROVE  hash[k] = NewHash(rendered[k], form[rendered[k].place])
    BY DEF HashesFollowUrls
  <2>1. HashIsOfForm /\ at > Len(rendered) /\ at \in Nat /\ rendered \in Recipes
    BY DEF V1Inv, V1Type
  <2>2. k < at /\ SameSource(k, k)
    BY <2>1, RecipeIsSeq DEF SameSource, SamePlace
  <2> QED
    BY <2>1, <2>2 DEF HashIsOfForm
<1> QED
  BY <1>1, <1>2, <1>3, PTL DEF V1Spec
===============================================================================
