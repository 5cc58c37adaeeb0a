----------------------------- MODULE Nodes_proofs -----------------------------
(* The status pages and their lists, for any number of migrations and of failed *)
(* runs; the attributes of a feedstock, for any platforms and commits; the jobs *)
(* that decide which nodes there are, for any feedstocks; and the requirements  *)
(* and run exports that are known of them, for any recipes.                     *)
EXTENDS StatusReport, FeedstockNode, NodeJobs, TLAPS

\* The lists of a status directory agree, and what is listed has a page.
Agree(s) ==
  /\ s.total = UNION {s.page[k] : k \in Kinds \ {"none"}}
  /\ \A k, l \in Kinds \ {"none"} : k # l => s.page[k] \cap s.page[l] = {}
  /\ \A m \in s.total : s.closed[m] = Never /\ m \in s.json

\* The age in the list of what was closed is how long a migration is not in the
\* other list, until it is two weeks.
Dated(s) ==
  \A m \in Migrators \ s.total :
    IF s.closed[m] = Never THEN since[m] = TwoWeeks ELSE s.closed[m] = since[m]

Fresh == \A m \in repo.total : since[m] = 0

\* What the job has removed so far, and what it still has of repo.
Working ==
  /\ pc = "pages" => /\ clone.total = repo.total /\ clone.page = repo.page
                     /\ clone.closed = repo.closed /\ repo.json \subseteq clone.json
  /\ pc = "remove" => \A m \in repo.json \ clone.json : since[m] = TwoWeeks
  /\ pc # "idle" => Agree(clone) /\ Dated(clone)

IInv == TypeOK /\ Agree(repo) /\ Dated(repo) /\ Fresh /\ Working

LEMMA AgedType ==
  ASSUME NEW s \in Status
  PROVE  /\ Aged(s) \in Status
         /\ Aged(s).total = s.total /\ Aged(s).page = s.page /\ Aged(s).json = s.json
         /\ \A m \in Migrators : Aged(s).closed[m] = Older(s.closed[m])
<1>1. \A x \in Age \cup {Never} : Older(x) \in Age \cup {Never}
  BY ReportAssumption DEF Age, Never, Older
<1> QED BY <1>1 DEF Status, Aged

LEMMA InitInv == Init => IInv
<1> SUFFICES ASSUME Init PROVE IInv
  OBVIOUS
<1>1. Empty \in Status /\ TwoWeeks \in Age
  BY ReportAssumption DEF Empty, Status, Age
<1>2. Agree(Empty)
  BY DEF Agree, Empty
<1>3. TypeOK
  BY <1>1, ReportAssumption DEF Init, TypeOK, Kinds
<1> QED BY <1>2, <1>3 DEF Init, IInv, Dated, Fresh, Working, Empty

LEMMA StepInv == IInv /\ [Next]_vars => IInv'
<1> SUFFICES ASSUME IInv, [Next]_vars PROVE IInv'
  OBVIOUS
<1> USE DEF IInv
<1>1. ASSUME NEW m \in Migrators, NEW k \in Kinds, MakeMigrators(m, k) PROVE IInv'
  BY <1>1 DEF MakeMigrators, TypeOK, Dated, Fresh, Working
<1>2. CASE Tick
  <2>1. repo \in Status /\ clone \in Status
    BY DEF TypeOK
  <2>2. \A x \in Age : Older(x) \in Age
    BY ReportAssumption DEF Age, Older, Never
  <2>3. 0 \in Age
    BY ReportAssumption DEF Age
  <2>4. TypeOK'
    BY <1>2, <2>1, <2>2, <2>3, AgedType DEF Tick, TypeOK
  <2>5. Agree(repo')
    <3>1. \A m \in repo.total : m \in Migrators /\ Older(repo.closed[m]) = Never
      BY <2>1 DEF Agree, Older, Status
    <3>2. /\ repo'.total = repo.total /\ repo'.page = repo.page /\ repo'.json = repo.json
          /\ \A m \in Migrators : repo'.closed[m] = Older(repo.closed[m])
      BY <1>2, <2>1, AgedType DEF Tick
    <3> QED BY <3>1, <3>2 DEF Agree
  <2>6. Fresh'
    BY <1>2, <2>1, AgedType DEF Tick, Fresh, Status
  <2>7. Dated(repo)'
    <3> SUFFICES ASSUME NEW m \in Migrators \ repo.total
                 PROVE  IF Aged(repo).closed[m] = Never THEN since'[m] = TwoWeeks
                        ELSE Aged(repo).closed[m] = since'[m]
      BY <1>2, <2>1, AgedType DEF Tick, Dated
    <3>1. since'[m] = Older(since[m]) /\ Aged(repo).closed[m] = Older(repo.closed[m])
      BY <1>2, <2>1, AgedType DEF Tick
    <3>2. since[m] \in Age /\ repo.closed[m] \in Age \cup {Never}
      BY <2>1 DEF TypeOK, Status
    <3> QED BY <3>1, <3>2, ReportAssumption DEF Dated, Older, Never, Age
  <2> QED BY <1>2, <2>4, <2>5, <2>6, <2>7 DEF Tick, Working
<1>3. ASSUME NEW f \in Filters, Start(f) PROVE IInv'
  <2>1. TypeOK'
    BY <1>3 DEF Start, TypeOK
  <2> QED BY <1>3, <2>1 DEF Start, Dated, Fresh, Working, Agree
<1>4. ASSUME NEW m \in Migrators, Page(m) PROVE IInv'
  <2>1. /\ clone' \in Status /\ clone'.total = clone.total /\ clone'.page = clone.page
        /\ clone'.closed = clone.closed /\ clone'.json = clone.json \cup {m}
    BY <1>4 DEF Page, TypeOK, Status
  <2>2. TypeOK'
    BY <1>4, <2>1 DEF Page, TypeOK
  <2>3. Agree(clone') /\ Dated(clone)'
    BY <1>4, <2>1 DEF Page, Working, Agree, Dated
  <2> QED BY <1>4, <2>1, <2>2, <2>3 DEF Page, Working, Dated, Fresh
<1>5. CASE WriteLists
  <2> DEFINE page == [k \in Kinds \ {"none"} |-> {m \in NewTotal : loaded[m] = k}]
             closed == RecentlyClosed(repo.closed, repo.total)
  <2>1. clone \in Status /\ repo \in Status /\ pc = "pages"
    BY <1>5 DEF WriteLists, TypeOK
  <2>2. closed \in [Migrators -> Age \cup {Never}]
    BY <2>1, ReportAssumption DEF RecentlyClosed, Status, Age
  <2>3. NewTotal \subseteq Migrators
    BY ReportAssumption DEF NewTotal, TypeOK
  <2>4. /\ clone' \in Status /\ clone'.total = NewTotal /\ clone'.page = page
        /\ clone'.closed = closed /\ clone'.json = clone.json
    BY <1>5, <2>1, <2>2, <2>3 DEF WriteLists, Status
  <2>5. TypeOK'
    BY <1>5, <2>4 DEF WriteLists, TypeOK
  <2>6. Agree(clone')
    <3>1. NewTotal = UNION {page[k] : k \in Kinds \ {"none"}}
      <4>1. \A m \in NewTotal : loaded[m] \in Kinds \ {"none"}
        BY <2>3 DEF NewTotal, TypeOK
      <4> QED BY <4>1
    <3>2. \A m \in NewTotal : closed[m] = Never
      BY <2>3 DEF RecentlyClosed
    <3>3. NewTotal \subseteq clone.json
      BY <1>5 DEF WriteLists
    <3> QED BY <2>4, <3>1, <3>2, <3>3 DEF Agree
  <2>7. Dated(clone)'
    <3> SUFFICES ASSUME NEW m \in Migrators \ NewTotal
                 PROVE  IF closed[m] = Never THEN since[m] = TwoWeeks ELSE closed[m] = since[m]
      BY <1>5, <2>4 DEF WriteLists, Dated
    <3>1. closed[m] = IF repo.closed[m] \in 0..(TwoWeeks - 1) THEN repo.closed[m]
                      ELSE IF m \in repo.total THEN 0 ELSE Never
      BY DEF RecentlyClosed
    <3>2. since[m] \in Age /\ repo.closed[m] \in Age \cup {Never}
      BY <2>1 DEF TypeOK, Status
    <3>3. CASE m \in repo.total
      BY <3>1, <3>3, ReportAssumption DEF Agree, Fresh, Never
    <3>4. CASE m \notin repo.total
      BY <3>1, <3>2, <3>4, ReportAssumption DEF Dated, Age, Never
    <3> QED BY <3>3, <3>4
  <2>8. repo.json \subseteq clone.json
    BY <2>1 DEF Working
  <2> QED BY <1>5, <2>4, <2>5, <2>6, <2>7, <2>8 DEF WriteLists, Working, Dated, Fresh
<1>6. ASSUME NEW m \in Migrators, Remove(m) PROVE IInv'
  <2>1. /\ clone' \in Status /\ clone'.total = clone.total /\ clone'.page = clone.page
        /\ clone'.closed = clone.closed /\ clone'.json = clone.json \ {m}
    BY <1>6 DEF Remove, TypeOK, Status
  <2>2. TypeOK'
    BY <1>6, <2>1 DEF Remove, TypeOK
  <2>3. m \notin clone.total /\ since[m] = TwoWeeks
    BY <1>6 DEF Remove, OldFiles, Working, Dated
  <2>4. Agree(clone') /\ Dated(clone)'
    BY <1>6, <2>1, <2>3 DEF Remove, Working, Agree, Dated
  <2> QED BY <1>6, <2>1, <2>2, <2>3, <2>4 DEF Remove, Working, Dated, Fresh
<1>7. ASSUME Finish \/ Fail,
             pc # "idle", repo' \in {repo, clone}, pc' = "idle",
             since' = [m \in Migrators |-> IF m \in repo'.total THEN 0 ELSE since[m]]
      PROVE  Agree(repo') /\ Dated(repo)' /\ Fresh' /\ Working'
  <2>1. Agree(repo') /\ Dated(repo') /\ repo' \in Status
    BY <1>7 DEF Working, TypeOK
  <2>2. Dated(repo)'
    BY <1>7, <2>1 DEF Dated
  <2>3. Fresh'
    BY <1>7, <2>1 DEF Fresh, Status
  <2> QED BY <1>7, <2>1, <2>2, <2>3 DEF Working
<1>8. CASE Finish
  <2>1. TypeOK'
    BY <1>8, ReportAssumption DEF Finish, TypeOK, Age
  <2> QED BY <1>7, <1>8, <2>1 DEF Finish
<1>9. CASE Fail
  <2>1. TypeOK'
    BY <1>9, ReportAssumption DEF Fail, TypeOK, Age
  <2> QED BY <1>7, <1>9, <2>1 DEF Fail
<1>10. CASE UNCHANGED vars
  BY <1>10 DEF vars, TypeOK, Dated, Fresh, Working
<1> QED BY <1>1, <1>2, <1>3, <1>4, <1>5, <1>6, <1>8, <1>9, <1>10 DEF Next, Job

LEMMA Invariant == Spec => []IInv
BY InitInv, StepInv, PTL DEF Spec

\* The pages, their lists and their ages have their types.
THEOREM ReportTypeOK == Spec => []TypeOK
BY Invariant, PTL DEF IInv

\* Each migration is in one list, after runs that failed anywhere.
THEOREM ReportListedOnce == Spec => []ListedOnce
<1>1. IInv => ListedOnce
  BY DEF IInv, Agree, ListedOnce
<1> QED BY <1>1, Invariant, PTL

\* A page is kept two weeks after the list last had its migration.
THEOREM ReportKeptTwoWeeks == Spec => KeptTwoWeeks
<1>1. IInv /\ [Next]_vars => \A m \in repo.json \ repo'.json : since[m] = TwoWeeks
  <2> SUFFICES ASSUME IInv, [Next]_vars, repo' # repo
               PROVE  \A m \in repo.json \ repo'.json : since[m] = TwoWeeks
    OBVIOUS
  <2>1. CASE Tick
    BY <2>1, AgedType DEF Tick, IInv, TypeOK
  <2>2. CASE Finish \/ Fail
    BY <2>2 DEF Finish, Fail, IInv, Working, TypeOK
  <2> QED BY <2>1, <2>2 DEF Next, Job, MakeMigrators, Start, Page, WriteLists, Remove, vars
<1> QED BY <1>1, Invariant, PTL DEF Spec, KeptTwoWeeks

-----------------------------------------------------------------------------
(* FeedstockNode: the attributes of one feedstock over its commits *)

NodeAttrs ==
  [raw : Nat, config : Nat, provider : SUBSET Extra, meta : Nat, requirements : Nat,
   platforms : SUBSET AllPlatforms, info : [AllPlatforms -> Nat],
   ci : Nat, version : Nat, error : BOOLEAN, archived : BOOLEAN]

\* An attribute from a commit can be told from one that is missing.
AttrsType ==
  /\ commit \in Nat \ {0} /\ content \in Contents
  /\ attrs \in NodeAttrs

\* What a load leaves when it does not raise is whole, whatever was there before.
LEMMA PopulatedIsWhole ==
  ASSUME AttrsType, attrs' = Populated(attrs)
  PROVE  attrs' \in NodeAttrs /\ NodeIsWhole'
<1> DEFINE a == WithConfig(attrs)
           parsed == WithPlatforms(a)
           found == PlatformsOf(a)
<1>1. /\ content.ci \in SUBSET Platforms /\ content.provider \in SUBSET Extra
      /\ commit \in Nat /\ commit # 0
  BY DEF AttrsType, Contents
<1>2. /\ Stripped(attrs) \in NodeAttrs
      /\ Stripped(attrs).raw = commit
      /\ Stripped(attrs).meta = 0 /\ Stripped(attrs).requirements = 0
      /\ Stripped(attrs).info = None /\ Stripped(attrs).ci = 0
  BY DEF AttrsType, NodeAttrs, Stripped, None
<1>3. /\ a \in NodeAttrs /\ a.raw = commit /\ a.meta = 0 /\ a.requirements = 0
      /\ a.info = None /\ a.ci = 0
  BY <1>1, <1>2 DEF NodeAttrs, WithConfig
<1> HIDE DEF a
<1>4. found \in SUBSET AllPlatforms
  BY <1>1, <1>3 DEF NodeAttrs, PlatformsOf, AllPlatforms
<1>5. /\ parsed \in NodeAttrs /\ parsed.raw = commit /\ parsed.meta = 0
      /\ parsed.requirements = 0 /\ parsed.info = None
      /\ parsed.ci \in {0, commit} /\ parsed.platforms = found
  BY <1>1, <1>3, <1>4 DEF NodeAttrs, WithPlatforms
<1> DEFINE info == [p \in AllPlatforms |->
                      IF p \in parsed.platforms THEN commit ELSE parsed.info[p]]
           full == [parsed EXCEPT !.meta = commit, !.requirements = commit,
                                  !.info = info, !.version = VersionOf(attrs)]
<1>6. \A p \in AllPlatforms : info[p] = IF p \in found THEN commit ELSE 0
  BY <1>5 DEF None
<1>7. VersionOf(attrs) \in Nat
  BY <1>1 DEF AttrsType, NodeAttrs, VersionOf
<1> HIDE DEF parsed, found
<1>8. info \in [AllPlatforms -> Nat]
  BY <1>1, <1>6
<1> HIDE DEF info
<1>9. /\ full \in NodeAttrs /\ full.raw = commit /\ full.meta = commit
      /\ full.requirements = commit /\ full.info = info /\ full.platforms = found
      /\ full.ci \in {0, commit}
  BY <1>1, <1>5, <1>7, <1>8 DEF NodeAttrs
<1>10. {p \in AllPlatforms : info[p] # 0} = found
  BY <1>1, <1>4, <1>6
<1>11. CASE content.config = "bad"
  <2>1. attrs' = [Stripped(attrs) EXCEPT !.error = TRUE]
    BY <1>11 DEF Populated
  <2> QED
    BY <1>1, <1>2, <2>1
    DEF NodeAttrs, NodeIsWhole, PlatformInfo, OneCommit, None
<1>12. CASE content.config # "bad" /\ content.renders = "empty"
  <2>1. attrs' = [parsed EXCEPT !.error = TRUE]
    BY <1>12 DEF Populated, parsed, a
  <2> QED
    BY <1>1, <1>5, <2>1
    DEF NodeAttrs, NodeIsWhole, PlatformInfo, OneCommit, None
<1>13. CASE content.config # "bad" /\ content.renders # "empty"
  <2>1. attrs' = full
    BY <1>13 DEF Populated, parsed, a, info
  <2>2. PlatformInfo'
    BY <1>1, <1>9, <1>10, <2>1 DEF PlatformInfo
  <2>3. OneCommit'
    BY <1>1, <1>6, <1>9, <2>1 DEF OneCommit
  <2> QED
    BY <1>9, <2>1, <2>2, <2>3 DEF NodeIsWhole
<1> QED
  BY <1>11, <1>12, <1>13

\* The inductive invariant holds at first and is kept by every step.
LEMMA WholeAtFirst == FeedstockInit => AttrsType /\ NodeIsWhole
<1> SUFFICES ASSUME FeedstockInit PROVE AttrsType /\ NodeIsWhole
  OBVIOUS
<1>1. AttrsType
  BY DEF FeedstockInit, AttrsType, NodeAttrs, None
<1>2. NodeIsWhole
  BY DEF FeedstockInit, NodeIsWhole, PlatformInfo, OneCommit, None
<1> QED
  BY <1>1, <1>2

LEMMA StaysWhole ==
  AttrsType /\ NodeIsWhole /\ [FeedstockNext]_feedstockVars
    => (AttrsType /\ NodeIsWhole)'
<1> SUFFICES ASSUME AttrsType, NodeIsWhole, [FeedstockNext]_feedstockVars
             PROVE  AttrsType' /\ NodeIsWhole'
  OBVIOUS
<1> USE DEF NodeIsWhole, PlatformInfo, OneCommit
<1>1. CASE LoadNothing
  BY <1>1 DEF AttrsType, NodeAttrs, LoadNothing
<1>2. CASE LoadRaises
  BY <1>2 DEF AttrsType, NodeAttrs, LoadRaises
<1>3. CASE Load
  BY <1>3, PopulatedIsWhole DEF AttrsType, Load
<1>4. CASE Push
  BY <1>4 DEF AttrsType, Push
<1>5. CASE Archive
  BY <1>5 DEF AttrsType, NodeAttrs, Archive
<1>6. CASE UNCHANGED feedstockVars
  BY <1>6 DEF AttrsType, feedstockVars
<1> QED
  BY <1>1, <1>2, <1>3, <1>4, <1>5, <1>6 DEF FeedstockNext

\* The attributes of a node are those of one load (load_feedstock, populate_feedstock_attributes):
\* those of another commit are stripped before, and a load that raises leaves them as they were.
THEOREM NodeAlwaysWhole == FeedstockSpec => []NodeIsWhole
  BY WholeAtFirst, StaysWhole, PTL DEF FeedstockSpec

-----------------------------------------------------------------------------
(* NodeJobs: the jobs that decide which nodes there are *)

NodeFile == [data : {"none", "empty", "real"}, archived : BOOLEAN]
ListOf == [Feedstocks -> {"absent", "active", "archived"}]
Entry == {"absent", "active", "archived"}

JobsType ==
  /\ github \in ListOf /\ list \in ListOf
  /\ node \in [Names -> NodeFile]
  /\ make.on \in BOOLEAN /\ (make.on => make.list \in ListOf /\ make.base \in [Names -> NodeFile])
  /\ gather.on \in BOOLEAN /\ (gather.on => gather.list \in ListOf /\ gather.base \in ListOf)
  /\ update \in [Changing -> {Idle} \cup [on : {TRUE}, list : Entry \cup {"done"},
                                              base : NodeFile, mine : NodeFile]]
  /\ event \in [Changing -> {Idle} \cup [on : {TRUE}, list : Entry]]

\* A file without data that says that its feedstock is not archived is of one that
\* cannot be rendered, and that one never has data.
Explained(n, file) ==
  /\ file.data = "empty" => file.archived \/ n \in Broken
  /\ file.data = "real" => n \notin Broken

AllExplained ==
  /\ \A n \in Names : Explained(n, node[n])
  /\ make.on => \A n \in Names : Explained(n, make.base[n])
  /\ \A f \in Changing : update[f].on => Explained(f, update[f].base) /\ Explained(f, update[f].mine)

JobsInv == JobsType /\ AllExplained

\* What loading and archiving make of a file.
LEMMA FileUpdates ==
  ASSUME NEW n, NEW file \in NodeFile, Explained(n, file)
  PROVE  /\ Loaded(n, file) \in NodeFile /\ Explained(n, Loaded(n, file))
         /\ ArchivedIn(file) \in NodeFile /\ Explained(n, ArchivedIn(file))
  BY DEF NodeFile, Explained, Loaded, ArchivedIn, Real

\* A deploy leaves one of the two files.
LEMMA DeployedOneOf ==
  ASSUME NEW base, NEW mine, NEW now, NEW byGit
  PROVE  Deployed(base, mine, now, byGit) \in {mine, now}
  BY DEF Deployed

LEMMA InvAtFirst == JobsInit => JobsInv
<1> SUFFICES ASSUME JobsInit PROVE JobsInv
  OBVIOUS
<1>1. NoNode \in NodeFile /\ Real \in NodeFile
  BY DEF NoNode, Real, NodeFile
<1>2. JobsType
  BY <1>1 DEF JobsInit, JobsType, ListOf, Idle
<1>3. AllExplained
  BY NodesAssumption DEF JobsInit, AllExplained, Explained, NoNode, Real, Idle
<1> QED
  BY <1>2, <1>3 DEF JobsInv

\* A step that changes neither the files nor the clones of the two jobs.
LEMMA OtherStep ==
  ASSUME JobsInv, JobsType', node' = node, make' = make, update' = update
  PROVE  JobsInv'
  BY DEF JobsInv, AllExplained

LEMMA InvIsKept == JobsInv /\ [JobsNext]_jobsVars => JobsInv'
<1> SUFFICES ASSUME JobsInv, [JobsNext]_jobsVars PROVE JobsInv'
  OBVIOUS
<1> USE DEF JobsInv, JobsType
<1>a. Changing \subseteq Feedstocks /\ Feedstocks \subseteq Names
  BY DEF Feedstocks, Names
<1>1. CASE CloneForGraph
  BY <1>1 DEF CloneForGraph, repository, AllExplained
<1>2. CASE MakeGraph
  <2>1. PICK byGit \in BOOLEAN :
          node' = [n \in Names |-> Deployed(make.base[n], AfterEdges[n], node[n], byGit)]
    BY <1>2 DEF MakeGraph
  <2>2. \A n \in Names : AfterEdges[n] \in NodeFile /\ Explained(n, AfterEdges[n])
    BY <1>2, FileUpdates DEF MakeGraph, AfterEdges, AllExplained
  <2>3. \A n \in Names : node'[n] \in {AfterEdges[n], node[n]}
    BY <2>1, DeployedOneOf
  <2>4. node' \in [Names -> NodeFile] /\ \A n \in Names : Explained(n, node'[n])
    BY <2>1, <2>2, <2>3 DEF AllExplained
  <2> QED
    BY <1>2, <2>4 DEF MakeGraph, Idle, AllExplained
<1>3. CASE Gather
  <2>1. JobsType'
    BY <1>3 DEF Gather, repository
  <2> QED
    BY <1>3, <2>1, OtherStep DEF Gather, repository
<1>4. CASE DeployList
  <2>1. list' \in {gather.list, list}
    BY <1>4, DeployedOneOf DEF DeployList
  <2>2. JobsType'
    BY <1>4, <2>1 DEF DeployList, Idle
  <2> QED
    BY <1>4, <2>2, OtherStep DEF DeployList
<1>5. CASE Dies
  <2>1. CASE make' = Idle /\ UNCHANGED <<update, gather, event>>
    BY <1>5, <2>1 DEF Dies, repository, Idle, AllExplained
  <2>2. CASE gather' = Idle /\ UNCHANGED <<make, update, event>>
    <3>1. JobsType'
      BY <1>5, <2>2 DEF Dies, repository, Idle
    <3> QED
      BY <1>5, <2>2, <3>1, OtherStep DEF Dies, repository
  <2>3. ASSUME NEW f \in Changing, event' = [event EXCEPT ![f] = Idle],
               UNCHANGED <<make, update, gather>>
        PROVE  JobsInv'
    <3>1. JobsType'
      BY <1>5, <2>3 DEF Dies, repository
    <3> QED
      BY <1>5, <2>3, <3>1, OtherStep DEF Dies, repository
  <2> QED
    BY <1>5, <2>1, <2>2, <2>3 DEF Dies
<1>6. ASSUME NEW f \in Changing, CloneForUpdate(f) PROVE JobsInv'
  <2>1. node[f] \in NodeFile /\ list[f] \in Entry /\ Explained(f, node[f])
    BY <1>a DEF ListOf, Entry, AllExplained
  <2>2. \A g \in Changing :
          update'[g] = IF g = f THEN [on |-> TRUE, list |-> list[f], base |-> node[f], mine |-> node[f]]
                       ELSE update[g]
    BY <1>6 DEF CloneForUpdate
  <2>3. JobsType'
    BY <1>6, <2>1 DEF CloneForUpdate, repository
  <2> QED
    BY <1>6, <2>1, <2>2, <2>3 DEF CloneForUpdate, repository, AllExplained
<1>7. ASSUME NEW f \in Changing, UpdateNode(f) \/ UpdateArchived(f) PROVE JobsInv'
  <2>a. update[f].on /\ update[f] # Idle
    BY <1>7 DEF UpdateNode, UpdateArchived, Idle
  <2>1. /\ update[f] \in [on : {TRUE}, list : Entry \cup {"done"}, base : NodeFile, mine : NodeFile]
        /\ Explained(f, update[f].mine)
    BY <2>a DEF AllExplained
  <2>2. PICK file \in NodeFile :
          /\ Explained(f, file)
          /\ update' = [update EXCEPT ![f] = [update[f] EXCEPT !.mine = file, !.list = "done"]]
    BY <1>7, <2>1, FileUpdates DEF UpdateNode, UpdateArchived
  <2>3. \A g \in Changing :
          update'[g] = IF g = f THEN [update[f] EXCEPT !.mine = file, !.list = "done"] ELSE update[g]
    BY <2>2
  <2>4. [update[f] EXCEPT !.mine = file, !.list = "done"]
          \in [on : {TRUE}, list : Entry \cup {"done"}, base : NodeFile, mine : NodeFile]
    BY <2>1
  <2>5. JobsType'
    BY <1>7, <2>2, <2>4 DEF UpdateNode, UpdateArchived, repository
  <2> QED
    BY <1>7, <2>1, <2>2, <2>3, <2>5 DEF UpdateNode, UpdateArchived, repository, AllExplained
<1>8. ASSUME NEW f \in Changing, DeployUpdate(f) PROVE JobsInv'
  <2>a. update[f].on /\ update[f] # Idle
    BY <1>8 DEF DeployUpdate, Idle
  <2>1. /\ update[f].mine \in NodeFile /\ Explained(f, update[f].mine)
        /\ Explained(f, node[f]) /\ f \in Names
    BY <2>a, <1>a DEF AllExplained
  <2>b. PICK byGit \in BOOLEAN :
          node' = [node EXCEPT ![f] = Deployed(update[f].base, update[f].mine, node[f], byGit)]
    BY <1>8 DEF DeployUpdate
  <2>c. Deployed(update[f].base, update[f].mine, node[f], byGit) \in {update[f].mine, node[f]}
    BY DeployedOneOf
  <2>2. PICK file \in {update[f].mine, node[f]} : node' = [node EXCEPT ![f] = file]
    BY <2>b, <2>c
  <2>3. JobsType'
    BY <1>8, <2>1, <2>2 DEF DeployUpdate, Idle
  <2>4. \A n \in Names : Explained(n, node'[n])
    BY <2>1, <2>2 DEF AllExplained
  <2> QED
    BY <1>8, <2>3, <2>4 DEF DeployUpdate, Idle, AllExplained
<1>9. ASSUME NEW f \in Changing, EventLists(f) PROVE JobsInv'
  <2>1. github[f] \in Entry
    BY <1>a DEF ListOf, Entry
  <2>2. JobsType'
    BY <1>9, <1>a, <2>1 DEF EventLists, ListOf, Entry
  <2> QED
    BY <1>9, <2>2, OtherStep DEF EventLists
<1>10. ASSUME NEW f \in Changing, EventLoads(f) PROVE JobsInv'
  <2>1. f \in Names /\ Explained(f, node[f]) /\ node[f] \in NodeFile
    BY <1>a DEF AllExplained
  <2>2. PICK file \in NodeFile : Explained(f, file) /\ node' = [node EXCEPT ![f] = file]
    BY <1>10, <2>1, FileUpdates DEF EventLoads
  <2>3. JobsType'
    BY <1>10, <2>1, <2>2 DEF EventLoads
  <2>4. \A n \in Names : Explained(n, node'[n])
    BY <2>1, <2>2 DEF AllExplained
  <2> QED
    BY <1>10, <2>3, <2>4 DEF EventLoads, AllExplained
<1>11. ASSUME NEW f \in Changing, Moves(f) PROVE JobsInv'
  <2>1. JobsType'
    BY <1>11, <1>a DEF Moves, repository, jobs, ListOf
  <2> QED
    BY <1>11, <2>1, OtherStep DEF Moves, repository, jobs
<1>12. CASE UNCHANGED jobsVars
  BY <1>12 DEF jobsVars, repository, jobs, AllExplained
<1> QED
  BY <1>1, <1>2, <1>3, <1>4, <1>5, <1>6, <1>7, <1>8, <1>9, <1>10, <1>11, <1>12 DEF JobsNext

\* The step that could put a stub over a node.
LEMMA GraphKeeps == JobsInv => KeepsKnown
<1> SUFFICES ASSUME JobsInv, NEW f \in Feedstocks, MakeGraph,
                    make.list[f] # "absent", node[f].data = "real"
             PROVE  node'[f].data = "real"
  BY DEF KeepsKnown
<1>1. f \in Names /\ make.base[f] \in NodeFile /\ Explained(f, make.base[f]) /\ f \notin Broken
  BY DEF MakeGraph, Names, JobsInv, JobsType, AllExplained, Explained
<1>2. PICK byGit \in BOOLEAN :
        node'[f] = Deployed(make.base[f], AfterEdges[f], node[f], byGit)
  BY <1>1 DEF MakeGraph
<1>3. AfterEdges[f] \in {make.base[f], ArchivedIn(make.base[f])}
  BY <1>1 DEF AfterEdges
<1>4. CASE make.base[f].data = "none"
  <2>1. f \in Stubs
    BY <1>4 DEF Stubs, Known
  <2>2. AfterEdges[f] = make.base[f]
    BY <1>1, <2>1 DEF AfterEdges
  <2> QED
    BY <1>2, <2>2 DEF Deployed
<1>5. CASE make.base[f].data = "empty"
  <2>1. ArchivedIn(make.base[f]) = make.base[f]
    BY <1>1, <1>5 DEF Explained, ArchivedIn, NodeFile
  <2> QED
    BY <1>2, <1>3, <2>1 DEF Deployed
<1>6. CASE make.base[f].data = "real"
  BY <1>2, <1>3, <1>6 DEF Deployed, ArchivedIn
<1> QED
  BY <1>1, <1>4, <1>5, <1>6 DEF NodeFile

\* make_graph never deploys a stub over a node whose attributes were loaded, whatever update_node,
\* gather_nodes and the events deploy at the same time.
THEOREM LoadedIsKept == JobsSpec => KnownIsKept
  BY InvAtFirst, InvIsKept, GraphKeeps, PTL DEF JobsSpec, KnownIsKept

-----------------------------------------------------------------------------
(* RunExports, for any feedstocks and recipes: the requirements of a feedstock  *)
(* follow its recipe through a graph that was made of the nodes, and are loaded *)
(* with it again.                                                               *)
CONSTANTS Requiring, Packages, CompilerStubs, Recipes, First, MaxEdits
VARIABLES recipe, required, graph, loading, making, edits

RE == INSTANCE RunExports WITH
  Feedstocks <- Requiring, Stubs <- CompilerStubs,
  node <- required, update <- loading, make <- making

\* No feedstock makes a package with the name of another one.
OwnNames ==
  \A f, g \in Requiring : \A r \in Recipes[f] : g \in r.outputs => f = g

\* What is known of a feedstock, the lookup table and the edges, when all is of the recipes.
Full(f) == [requirements |-> RE!Wanted(f), strong |-> RE!StrongExports(recipe[f]),
            outputs |-> recipe[f].outputs]

Lut == [p \in Packages |-> {f \in Requiring : p \in recipe[f].outputs}]
Current(g) == g.nodes = Requiring /\ g.lut = Lut /\ g.strong = RE!Exporters

EdgesOfToday ==
  UNION {UNION {RE!Makers(p) \X {f} : p \in RE!All(RE!Wanted(f))} : f \in Requiring}

\* Everything there is, and whatever a job works on, is of the recipes as they are.
AllOfToday ==
  /\ required = [f \in Requiring |-> Full(f)]
  /\ Current(graph) /\ graph.edges = EdgesOfToday
  /\ loading = [f \in Requiring |-> loading[f]]
  /\ \A f \in Requiring :
       /\ loading[f].at = "cloned" => Current(loading[f].graph)
       /\ loading[f].at # "idle" => loading[f].node = Full(f)
  /\ making.at = "cloned" => making.nodes = required

\* The recipes are among those that there may be.
RecipesOK ==
  /\ recipe \in [Requiring -> UNION {Recipes[f] : f \in Requiring}]
  /\ \A f \in Requiring : recipe[f] \in Recipes[f]

\* To add the same packages again changes nothing.
LEMMA AddedTwice ==
  ASSUME NEW Q \in [RE!Sections -> SUBSET Packages], NEW o \in SUBSET Packages
  PROVE  LET W == RE!InHostAndRun(Q, o)
         IN  /\ W \in [RE!Sections -> SUBSET Packages]
             /\ RE!InHostAndRun(W, o) = W
             /\ RE!All(W) = RE!All(Q) \cup o
<1> DEFINE W == RE!InHostAndRun(Q, o)
<1>1. W = [s \in RE!Sections |-> IF s \in {"host", "run"} THEN Q[s] \cup o ELSE Q[s]]
  BY DEF RE!Sections, RE!InHostAndRun
<1>2. W \in [RE!Sections -> SUBSET Packages]
  BY <1>1
<1>3. RE!InHostAndRun(W, o)
        = [s \in RE!Sections |-> IF s \in {"host", "run"} THEN W[s] \cup o ELSE W[s]]
  <2> HIDE DEF W
  <2> QED BY <1>2 DEF RE!Sections, RE!InHostAndRun
<1>4. \A s \in RE!Sections : (IF s \in {"host", "run"} THEN W[s] \cup o ELSE W[s]) = W[s]
  BY <1>1
<1>5. RE!InHostAndRun(W, o) = W
  <2> HIDE DEF W
  <2> QED BY <1>2, <1>3, <1>4
<1>6. RE!All(W) = RE!All(Q) \cup o
  <2>1. \A x : x \in RE!All(W) <=> \E s \in RE!Sections : x \in W[s]
    BY DEF RE!All
  <2>2. \A x : x \in RE!All(Q) <=> \E s \in RE!Sections : x \in Q[s]
    BY DEF RE!All
  <2>3. \A s \in RE!Sections : W[s] = IF s \in {"host", "run"} THEN Q[s] \cup o ELSE Q[s]
    BY <1>1
  <2>4. "host" \in RE!Sections
    BY DEF RE!Sections
  <2> HIDE DEF W
  <2> QED BY <2>1, <2>2, <2>3, <2>4
<1> QED BY <1>2, <1>5, <1>6

\* Who makes a package is known from a lookup table of today.
LEMMA LaunderIsMakers ==
  ASSUME NEW names \in SUBSET Packages
  PROVE  RE!Launder(Lut, names) = UNION {RE!Makers(p) : p \in names}
<1>1. \A p \in names : (IF Lut[p] = {} THEN {p} ELSE Lut[p]) = RE!Makers(p)
  BY DEF Lut, RE!Makers
<1> QED BY <1>1 DEF RE!Launder

\* A feedstock is the only one that is found by its name.
LEMMA OwnMaker ==
  ASSUME OwnNames, RecipesOK, NEW f \in Requiring
  PROVE  RE!Makers(f) = {f}
<1>1. \A g \in Requiring : f \in recipe[g].outputs => f = g
  BY DEF OwnNames, RecipesOK
<1> QED BY <1>1 DEF RE!Makers

\* Who makes what makes a package: nobody else.
LEMMA MakersOfMakers ==
  ASSUME OwnNames, RecipesOK, NEW p, NEW q \in RE!Makers(p)
  PROVE  RE!Makers(q) \subseteq {q}
<1>1. CASE q \in Requiring
  BY <1>1, OwnMaker
<1>2. CASE q \notin Requiring
  BY <1>2 DEF RE!Makers
<1> QED BY <1>1, <1>2

\* Requirements are packages, by section.
LEMMA ExtractType ==
  ASSUME RE!Assumptions, RecipesOK, NEW f \in Requiring
  PROVE  RE!Extract(recipe[f]) \in [RE!Sections -> SUBSET Packages]
<1>1. \A b \in recipe[f].blocks : b.reqs \in [RE!Sections -> SUBSET Packages]
  BY DEF RE!Assumptions, RecipesOK
<1>2. \A s \in RE!Sections : UNION {b.reqs[s] : b \in RE!Sectioned(recipe[f])} \subseteq Packages
  BY <1>1 DEF RE!Sectioned
<1>3. UNION {b.reqs.run : b \in recipe[f].blocks \ RE!Sectioned(recipe[f])} \subseteq Packages
  BY <1>1 DEF RE!Sections
<1> DEFINE Value(s) == (UNION {b.reqs[s] : b \in RE!Sectioned(recipe[f])})
             \cup (IF s = "run"
                   THEN UNION {b.reqs.run : b \in recipe[f].blocks \ RE!Sectioned(recipe[f])}
                   ELSE {})
<1>4. \A s \in RE!Sections : Value(s) \in SUBSET Packages
  <2> TAKE s \in RE!Sections
  <2>1. CASE s = "run"
    BY <1>2, <1>3, <2>1
  <2>2. CASE s # "run"
    BY <1>2, <2>2
  <2> QED BY <2>1, <2>2
<1>5. RE!Extract(recipe[f]) = [s \in RE!Sections |-> Value(s)]
  BY DEF RE!Extract
<1> HIDE DEF Value
<1> QED BY <1>4, <1>5

\* The strong run exports that reach a feedstock.
ExportsTo(f) == (UNION {RE!Makers(p) : p \in RE!All(RE!Extract(recipe[f]))}) \cap RE!Exporters

LEMMA WantedType ==
  ASSUME RE!Assumptions, RecipesOK, NEW f \in Requiring
  PROVE  RE!Wanted(f) \in [RE!Sections -> SUBSET Packages]
<1> DEFINE R == RE!Extract(recipe[f])
           E == ExportsTo(f)
<1>1. R \in [RE!Sections -> SUBSET Packages]
  BY ExtractType
<1>2. E \in SUBSET Packages
  <2>1. \A p \in RE!All(R) : RE!Makers(p) \subseteq Requiring \cup {p}
    BY DEF RE!Makers
  <2>2. RE!All(R) \in SUBSET Packages
    BY <1>1 DEF RE!All
  <2> QED BY <2>1, <2>2 DEF ExportsTo, RE!Assumptions
<1>3. RE!InHostAndRun(R, E) \in [RE!Sections -> SUBSET Packages]
  <2> HIDE DEF R, E
  <2> QED BY <1>1, <1>2, AddedTwice
<1> QED BY <1>3 DEF RE!Wanted, ExportsTo

\* The run exports that are added are the same, whether they are there already or not.
LEMMA ExportsOnce ==
  ASSUME RE!Assumptions, OwnNames, RecipesOK, NEW f \in Requiring, NEW g, Current(g)
  PROVE  /\ RE!AddRunExports(RE!Populated(recipe[f]), g) = Full(f)
         /\ RE!AddRunExports(Full(f), g) = Full(f)
<1> DEFINE R == RE!Extract(recipe[f])
           E == ExportsTo(f)
           W == RE!InHostAndRun(R, E)
<1>1. R \in [RE!Sections -> SUBSET Packages]
  BY ExtractType
<1>2. RE!All(R) \in SUBSET Packages
  BY <1>1 DEF RE!All
<1>3. E \in SUBSET Packages
  <2>1. \A p \in RE!All(R) : RE!Makers(p) \subseteq Requiring \cup {p}
    BY DEF RE!Makers
  <2> QED BY <1>2, <2>1 DEF ExportsTo, RE!Assumptions
<1>4. /\ W \in [RE!Sections -> SUBSET Packages]
      /\ RE!InHostAndRun(W, E) = W
      /\ RE!All(W) = RE!All(R) \cup E
  <2> HIDE DEF R, E
  <2> QED BY <1>1, <1>3, AddedTwice
<1>5. (UNION {RE!Makers(p) : p \in RE!All(R) \cup E}) \cap RE!Exporters = E
  <2>1. \A q \in E : RE!Makers(q) \subseteq {q}
    BY MakersOfMakers DEF ExportsTo
  <2> QED BY <2>1 DEF ExportsTo
<1>6. RE!Wanted(f) = W
  BY DEF RE!Wanted, ExportsTo
<1>7. /\ RE!Launder(g.lut, RE!All(R)) \cap g.strong = E
      /\ RE!Launder(g.lut, RE!All(W)) \cap g.strong = E
  <2>1. RE!All(W) \in SUBSET Packages
    BY <1>2, <1>3, <1>4
  <2>0. g.lut = Lut /\ g.strong = RE!Exporters
    BY DEF Current
  <2>2. RE!Launder(g.lut, RE!All(R)) \cap g.strong = E
    <3>1. RE!Launder(Lut, RE!All(R)) = UNION {RE!Makers(p) : p \in RE!All(R)}
      <4> HIDE DEF R
      <4> QED BY <1>2, LaunderIsMakers
    <3>2. RE!Launder(g.lut, RE!All(R)) = RE!Launder(Lut, RE!All(R))
      BY <2>0, Zenon
    <3>3. E = (UNION {RE!Makers(p) : p \in RE!All(R)}) \cap RE!Exporters
      BY DEF ExportsTo
    <3> HIDE DEF R, E
    <3> QED BY <2>0, <3>1, <3>2, <3>3
  <2>3. RE!Launder(g.lut, RE!All(W)) \cap g.strong
          = (UNION {RE!Makers(p) : p \in RE!All(W)}) \cap RE!Exporters
    <3>1. RE!Launder(Lut, RE!All(W)) = UNION {RE!Makers(p) : p \in RE!All(W)}
      <4> HIDE DEF W
      <4> QED BY <2>1, LaunderIsMakers
    <3>2. RE!Launder(g.lut, RE!All(W)) = RE!Launder(Lut, RE!All(W))
      BY <2>0, Zenon
    <3> HIDE DEF W
    <3> QED BY <2>0, <3>1, <3>2
  <2> QED BY <1>4, <1>5, <2>2, <2>3
<1>8. /\ RE!Populated(recipe[f])
           = [requirements |-> R, strong |-> RE!StrongExports(recipe[f]),
              outputs |-> recipe[f].outputs]
      /\ Full(f) = [requirements |-> W, strong |-> RE!StrongExports(recipe[f]),
                    outputs |-> recipe[f].outputs]
  BY <1>6 DEF RE!Populated, Full
<1>9. ASSUME NEW Q \in {R, W}, NEW a,
             a = [requirements |-> Q, strong |-> RE!StrongExports(recipe[f]),
                  outputs |-> recipe[f].outputs]
      PROVE  RE!AddRunExports(a, g) = Full(f)
  <2>1. RE!Deps(a, g.lut) \cap g.strong = E
    BY <1>7, <1>9 DEF RE!Deps
  <2>2. RE!InHostAndRun(Q, E) = W
    BY <1>4
  <2>3. RE!AddRunExports(a, g) = [a EXCEPT !.requirements = RE!InHostAndRun(a.requirements, E)]
    BY <2>1 DEF RE!AddRunExports
  <2>4. a.requirements = Q
    BY <1>9
  <2>5. RE!AddRunExports(a, g) = [a EXCEPT !.requirements = W]
    <3> HIDE DEF W, R, E
    <3> QED BY <2>2, <2>3, <2>4
  <2>6. [a EXCEPT !.requirements = W]
          = [requirements |-> W, strong |-> RE!StrongExports(recipe[f]),
             outputs |-> recipe[f].outputs]
    <3> HIDE DEF W, R, E
    <3> QED BY <1>9
  <2> HIDE DEF W, R, E
  <2> QED BY <1>8, <2>5, <2>6
<1> QED BY <1>8, <1>9

\* As long as the recipes are the same, what is of today stays so.
LEMMA SameToday ==
  ASSUME recipe' = recipe
  PROVE  /\ Lut' = Lut /\ RE!Exporters' = RE!Exporters /\ EdgesOfToday' = EdgesOfToday
         /\ \A f : Full(f)' = Full(f)
<1>1. \A f : RE!Extract(recipe[f])' = RE!Extract(recipe[f])
  OBVIOUS
<1>2. \A p : RE!Makers(p)' = RE!Makers(p)
  BY DEF RE!Makers
<1>3. Lut' = Lut /\ RE!Exporters' = RE!Exporters
  BY DEF Lut, RE!Exporters
<1>4. \A f : RE!Wanted(f)' = RE!Wanted(f)
  BY DEF RE!Wanted, RE!Makers, RE!Exporters
<1> QED BY <1>3, <1>4 DEF EdgesOfToday, Full, RE!Wanted, RE!Makers, RE!Exporters

\* The graph that is made of nodes of today is of today.
LEMMA GraphOfToday ==
  ASSUME RE!Assumptions, RecipesOK,
         required = [f \in Requiring |-> Full(f)], making.nodes = required
  PROVE  /\ RE!OutputsLut(making.nodes) = Lut /\ RE!Strong(making.nodes) = RE!Exporters
         /\ RE!Edges = EdgesOfToday
<1>1. \A f \in Requiring : /\ making.nodes[f].outputs = recipe[f].outputs
                            /\ making.nodes[f].strong = RE!StrongExports(recipe[f])
                            /\ making.nodes[f].requirements = RE!Wanted(f)
  BY DEF Full
<1>2. RE!OutputsLut(making.nodes) = Lut
  BY <1>1 DEF RE!OutputsLut, Lut
<1>3. RE!Strong(making.nodes) = RE!Exporters
  BY <1>1 DEF RE!Strong, RE!Exporters
<1>4. \A f \in Requiring : RE!All(RE!Wanted(f)) \in SUBSET Packages
  BY WantedType DEF RE!All
<1>5. \A f \in Requiring :
        RE!Deps(making.nodes[f], RE!OutputsLut(making.nodes))
          = UNION {RE!Makers(p) : p \in RE!All(RE!Wanted(f))}
  BY <1>1, <1>2, <1>4, LaunderIsMakers DEF RE!Deps
<1>6. \A f \in Requiring :
        RE!Deps(making.nodes[f], RE!OutputsLut(making.nodes)) \X {f}
          = UNION {RE!Makers(p) \X {f} : p \in RE!All(RE!Wanted(f))}
  <2> SUFFICES ASSUME NEW f \in Requiring
               PROVE  (UNION {RE!Makers(p) : p \in RE!All(RE!Wanted(f))}) \X {f}
                        = UNION {RE!Makers(p) \X {f} : p \in RE!All(RE!Wanted(f))}
    BY <1>5
  <2> QED OBVIOUS
<1> DEFINE Made(f) == RE!Deps(making.nodes[f], RE!OutputsLut(making.nodes)) \X {f}
           Today(f) == UNION {RE!Makers(p) \X {f} : p \in RE!All(RE!Wanted(f))}
<1>7. RE!Edges = UNION {Made(f) : f \in Requiring}
  BY DEF RE!Edges
<1>8. EdgesOfToday = UNION {Today(f) : f \in Requiring}
  BY DEF EdgesOfToday
<1>9. \A f \in Requiring : Made(f) = Today(f)
  BY <1>6
<1> HIDE DEF Made, Today
<1>10. {Made(f) : f \in Requiring} = {Today(f) : f \in Requiring}
  BY <1>9
<1> QED BY <1>2, <1>3, <1>7, <1>8, <1>10

\* A step that edits no recipe leaves everything of today.
LEMMA TodayStays ==
  ASSUME RE!Assumptions, OwnNames, RecipesOK,
         AllOfToday, [RE!Next]_RE!vars, recipe' = recipe
  PROVE  AllOfToday'
<1>0. /\ Lut' = Lut /\ RE!Exporters' = RE!Exporters /\ EdgesOfToday' = EdgesOfToday
      /\ \A f : Full(f)' = Full(f)
  BY SameToday
<1>a. \A g : Current(g) => /\ g.nodes = Requiring /\ g.lut = Lut' /\ g.strong = RE!Exporters'
  BY <1>0 DEF Current
<1> DEFINE Same == /\ required' = [f \in Requiring |-> Full(f)]
                   /\ Current(graph') /\ graph'.edges = EdgesOfToday
                   /\ loading' = [f \in Requiring |-> loading'[f]]
                   /\ \A f \in Requiring :
                        /\ loading'[f].at = "cloned" => Current(loading'[f].graph)
                        /\ loading'[f].at # "idle" => loading'[f].node = Full(f)
                   /\ making'.at = "cloned" => making'.nodes = required'
<1>b. Same => AllOfToday'
  BY <1>0, <1>a DEF AllOfToday, Current
<1>1. CASE RE!StartGraph
  BY <1>1, <1>b DEF RE!StartGraph, AllOfToday
<1>2. CASE RE!MakeGraph
  <2>1. making.nodes = required
    BY <1>2 DEF RE!MakeGraph, AllOfToday
  <2>2. /\ graph'.nodes = Requiring /\ graph'.lut = Lut /\ graph'.strong = RE!Exporters
        /\ graph'.edges = EdgesOfToday
    BY <1>2, <2>1, GraphOfToday DEF RE!MakeGraph, AllOfToday
  <2>3. making'.at # "cloned" /\ required' = required /\ loading' = loading
    BY <1>2 DEF RE!MakeGraph, RE!Idle
  <2> QED BY <1>b, <2>2, <2>3 DEF AllOfToday, Current
<1>3. ASSUME NEW f \in Requiring, RE!StartUpdate(f)
      PROVE  AllOfToday'
  BY <1>3, <1>b DEF RE!StartUpdate, AllOfToday
<1>4. ASSUME NEW f \in Requiring, NEW a \in {RE!Populated(recipe[f]), Full(f)}, RE!Updated(f, a)
      PROVE  AllOfToday'
  <2>1. RE!AddRunExports(a, loading[f].graph) = Full(f) /\ f \in loading[f].graph.nodes
    BY <1>4, ExportsOnce DEF AllOfToday, Current, RE!Updated
  <2>2. loading' = [loading EXCEPT ![f] = [at |-> "loaded", node |-> Full(f)]]
    BY <1>4, <2>1 DEF RE!Updated
  <2>3. graph' = graph /\ making' = making /\ required' = required
    BY <1>4 DEF RE!Updated
  <2> QED BY <1>b, <2>2, <2>3 DEF AllOfToday
<1>5. ASSUME NEW f \in Requiring, RE!UpdateNode(f) \/ RE!SkipNode(f)
      PROVE  AllOfToday'
  <2>1. CASE RE!UpdateNode(f)
    BY <1>4, <2>1 DEF RE!UpdateNode
  <2>2. CASE RE!SkipNode(f)
    <3>1. loading[f].node = Full(f)
      BY <2>2 DEF RE!SkipNode, RE!Updated, AllOfToday
    <3> QED BY <1>4, <2>2, <3>1 DEF RE!SkipNode
  <2> QED BY <1>5, <2>1, <2>2
<1>6. ASSUME NEW f \in Requiring, RE!DeployNode(f)
      PROVE  AllOfToday'
  <2>1. required' = required
    BY <1>6 DEF RE!DeployNode, AllOfToday
  <2> QED BY <1>6, <1>b, <2>1 DEF RE!DeployNode, RE!Idle, AllOfToday
<1>7. ASSUME NEW f \in Requiring, RE!React(f)
      PROVE  AllOfToday'
  <2>1. PICK a \in {RE!Populated(recipe[f]), required[f]} :
          required' = [required EXCEPT ![f] = RE!AddRunExports(a, graph)]
    BY <1>7 DEF RE!React
  <2>2. required[f] = Full(f) /\ Current(graph)
    BY DEF AllOfToday
  <2>3. RE!AddRunExports(a, graph) = Full(f)
    BY <2>1, <2>2, ExportsOnce
  <2>4. required' = required
    BY <2>1, <2>3 DEF AllOfToday
  <2> QED BY <1>7, <1>b, <2>4 DEF RE!React, AllOfToday
<1>8. ASSUME NEW f \in Requiring, RE!Edit(f)
      PROVE  AllOfToday'
  BY <1>8, <1>b DEF RE!Edit, AllOfToday
<1>9. CASE UNCHANGED RE!vars
  BY <1>9, <1>b DEF RE!vars, AllOfToday
<1> QED BY <1>1, <1>2, <1>3, <1>5, <1>6, <1>7, <1>8, <1>9 DEF RE!Next

\* An edit puts one of those recipes in the place of another.
LEMMA RecipesStayOK ==
  ASSUME RE!Assumptions
  PROVE  (RE!Init => RecipesOK) /\ (RecipesOK /\ [RE!Next]_RE!vars => RecipesOK')
<1>1. RE!Init => RecipesOK
  BY DEF RE!Init, RecipesOK, RE!Assumptions
<1>2. ASSUME RecipesOK, [RE!Next]_RE!vars PROVE RecipesOK'
  <2>1. ASSUME NEW f \in Requiring, RE!Edit(f) PROVE RecipesOK'
    <3>1. PICK r \in Recipes[f] : recipe' = [recipe EXCEPT ![f] = r]
      BY <2>1 DEF RE!Edit
    <3>2. r \in UNION {Recipes[g] : g \in Requiring}
      OBVIOUS
    <3> QED BY <1>2, <3>1, <3>2 DEF RecipesOK
  <2>2. ASSUME NEW f \in Requiring, RE!StartUpdate(f) \/ RE!UpdateNode(f) \/ RE!SkipNode(f)
                                    \/ RE!DeployNode(f) \/ RE!React(f)
        PROVE  recipe' = recipe
    BY <2>2 DEF RE!StartUpdate, RE!UpdateNode, RE!SkipNode, RE!DeployNode, RE!React, RE!Updated
  <2>3. recipe' = recipe => RecipesOK'
    BY <1>2 DEF RecipesOK
  <2> QED
    BY <1>2, <2>1, <2>2, <2>3 DEF RE!Next, RE!vars, RE!StartGraph, RE!MakeGraph
<1> QED BY <1>1, <1>2

\* The parts of the specification without the instance, for PTL.
ExportsVars == <<recipe, required, graph, loading, making, edits>>
ExportsInit == RE!Init
ExportsNext == RE!Next
TodayKept == [][AllOfToday /\ UNCHANGED recipe => AllOfToday']_ExportsVars
TodayIsArrived == AllOfToday => RE!Arrived

\* Once requirements, run exports and edges have followed the recipes everywhere, no run
\* of make_graph and no push event undoes it, unless a recipe is edited: to load a
\* feedstock again, to skip it because it cannot be loaded, or to add the run exports a
\* second time gives the same.
THEOREM ArrivedStays ==
  ASSUME RE!Assumptions, OwnNames
  PROVE  RE!Spec => /\ [][AllOfToday /\ UNCHANGED recipe => AllOfToday']_ExportsVars
                    /\ [](AllOfToday => RE!Arrived)
<1>1. RE!Spec => ExportsInit /\ [][ExportsNext]_ExportsVars
  BY DEF RE!Spec, RE!vars, ExportsInit, ExportsNext, ExportsVars
<1>2. ExportsInit => RecipesOK
  BY RecipesStayOK DEF ExportsInit
<1>3. RecipesOK /\ [ExportsNext]_ExportsVars => RecipesOK'
  BY RecipesStayOK DEF ExportsNext, ExportsVars, RE!vars
<1>4. RecipesOK /\ [ExportsNext]_ExportsVars
        => [AllOfToday /\ UNCHANGED recipe => AllOfToday']_ExportsVars
  BY TodayStays DEF ExportsNext, ExportsVars, RE!vars
<1>5. TodayIsArrived
  BY DEF TodayIsArrived, AllOfToday, RE!Arrived, Full, EdgesOfToday
<1>6. ExportsInit /\ [][ExportsNext]_ExportsVars => TodayKept /\ []TodayIsArrived
  BY <1>2, <1>3, <1>4, <1>5, PTL DEF TodayKept
<1> QED BY <1>1, <1>6 DEF TodayKept, TodayIsArrived
==============================================================================
