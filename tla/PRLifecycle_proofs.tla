-------------------------- MODULE PRLifecycle_proofs --------------------------
(***************************************************************************)
(* The proof that an entry of pr_info never refers to an object that is    *)
(* not there, for any number of pull requests, crashes, reopenings and     *)
(* steps of maintainers.                                                   *)
(***************************************************************************)
EXTENDS PRLifecycle, TLAPS

Entries == [form : {"none", "ref", "collapsed"}, label : BOOLEAN, rerun : BOOLEAN]
Stages == {"idle", "refresh", "labels", "dirty", "write"}

LifecycleType ==
  /\ gh \in [PRs -> Data] /\ json \in [PRs -> Data] /\ entry \in [PRs -> Entries]
  /\ work \in [Workers -> [pc : Stages, pr : PRs, data : Data]]
  /\ clone # <<>> => clone \in [PRs -> Data] /\ base \in [PRs -> Data]
  /\ prep # <<>> => prep \in [PRs -> Data]

\* There is no data of a pull request that there is not.
NoneInvented ==
  /\ \A i \in PRs : json[i].state # "none" => gh[i].state # "none"
  /\ clone # <<>> => \A i \in PRs : clone[i].state # "none" => gh[i].state # "none"

\* A worker has an object, and update-prs works on its clone.
WorkersHaveData ==
  \A w \in Workers : work[w].pc # "idle" =>
    /\ work[w].data.state # "none" /\ gh[work[w].pr].state # "none"
    /\ w = "prs" => clone # <<>>

\* What update-prs deploys is there.
ChangedIsThere == clone # <<>> => \A i \in PRs : clone[i] # base[i] => clone[i].state # "none"

LifecycleInv ==
  LifecycleType /\ NoneInvented /\ WorkersHaveData /\ ChangedIsThere /\ NoDanglingRef

\* What the initial values are made of.
LEMMA Values ==
  /\ Nothing \in Data /\ Opened \in Data /\ NoEntry \in Entries
  /\ Nothing.state = "none" /\ Opened.state = "open" /\ NoEntry.form = "none"
  BY DEF Nothing, Opened, Data, NoEntry, Entries

\* What GitHub answers about a pull request that there is, and what refresh_pr makes of it.
LEMMA Answers ==
  ASSUME LifecycleType, NEW i \in PRs, NEW d \in Data, NEW f, f \in Fetched(i, d) \cup Refreshed(i, d),
         gh[i].state # "none", d.state # "none"
  PROVE  f \in Data /\ f.state # "none"
  BY DEF LifecycleType, Fetched, Refreshed

LEMMA LifecycleInit == Init => LifecycleInv
<1> SUFFICES ASSUME Init PROVE LifecycleInv
  OBVIOUS
<1>1. 1 \in PRs /\ Idle \in [pc : Stages, pr : PRs, data : Data] /\ Idle.pc = "idle"
  BY Values, LifecycleAssumption DEF PRs, Idle, Stages
<1>2. [NoEntry EXCEPT !.form = "ref"] \in Entries
  BY DEF NoEntry, Entries
<1>3. LifecycleType
  BY <1>1, <1>2, Values DEF Init, LifecycleType
<1> QED
  BY <1>1, <1>3, Values DEF Init, LifecycleInv, NoneInvented, WorkersHaveData, ChangedIsThere, NoDanglingRef

\* GitHub may change while nothing is forgotten: the pull requests there are stay.
LEMMA GithubStep ==
  ASSUME LifecycleInv, gh' \in [PRs -> Data],
         \A i \in PRs : gh[i].state # "none" => gh'[i].state # "none",
         UNCHANGED <<json, entry, work, base, clone, prep>>
  PROVE  LifecycleInv'
  BY DEF LifecycleInv, LifecycleType, NoneInvented, WorkersHaveData, ChangedIsThere, NoDanglingRef

\* A worker goes on to the next stage with data of its pull request.
LEMMA WorkerStep ==
  ASSUME LifecycleInv, NEW w \in Workers, NEW pc \in Stages, NEW d \in Data, d.state # "none",
         work[w].pc # "idle", GoOn(w, pc, d), gh' \in [PRs -> Data],
         \A i \in PRs : gh[i].state # "none" => gh'[i].state # "none",
         UNCHANGED <<json, entry, base, clone, prep>>
  PROVE  LifecycleInv'
<1> USE DEF LifecycleInv, LifecycleType
<1>1. work' = [work EXCEPT ![w] = [work[w] EXCEPT !.pc = pc, !.data = d]]
  BY DEF GoOn
<1>2. [work[w] EXCEPT !.pc = pc, !.data = d] \in [pc : Stages, pr : PRs, data : Data]
  OBVIOUS
<1>3. LifecycleType'
  BY <1>1, <1>2
<1>4. WorkersHaveData'
  BY <1>1 DEF WorkersHaveData
<1> QED
  BY <1>3, <1>4 DEF NoneInvented, ChangedIsThere, NoDanglingRef

\* A worker is done; what it wrote, if anything, is an object that is there.
LEMMA WorkerDone ==
  ASSUME LifecycleInv, NEW w \in Workers, work' = [work EXCEPT ![w] = Idle], 1 \in PRs,
         json' = json \/ json' = [json EXCEPT ![work[w].pr] = work[w].data],
         work[w].pc # "idle", UNCHANGED <<gh, entry, base, clone, prep>>
  PROVE  LifecycleInv'
<1> USE DEF LifecycleInv, LifecycleType
<1>1. Idle \in [pc : Stages, pr : PRs, data : Data] /\ Idle.pc = "idle"
  BY Values DEF Idle, Stages
<1>2. work[w].data \in Data /\ work[w].pr \in PRs
  OBVIOUS
<1>3. LifecycleType'
  BY <1>1, <1>2
<1>4. WorkersHaveData'
  BY <1>1 DEF WorkersHaveData
<1>5. \A i \in PRs : json'[i] = json[i] \/ (i = work[w].pr /\ json'[i] = work[w].data)
  OBVIOUS
<1>6. NoneInvented' /\ NoDanglingRef'
  BY <1>5 DEF NoneInvented, NoDanglingRef, WorkersHaveData
<1> QED
  BY <1>3, <1>4, <1>6 DEF ChangedIsThere

\* refresh, close_out_labels and close_out_dirty_prs.
LEMMA Looks == ASSUME LifecycleInv, NEW w \in Workers, Step(w) PROVE LifecycleInv'
<1> DEFINE i == work[w].pr
           d == work[w].data
<1> USE DEF At
<1>1. work[w].pc # "idle" /\ i \in PRs /\ d \in Data /\ d.state # "none" /\ gh[i].state # "none"
  BY DEF Step, Refresh, CloseLabelled, CloseDirty, LifecycleInv, LifecycleType, WorkersHaveData
<1>2. ASSUME NEW data \in Data, NEW pc \in {"labels", "dirty", "write"}, data.state # "none",
             GoOn(w, pc, data), UNCHANGED <<gh, json, entry, base, clone, prep>>
      PROVE  LifecycleInv'
  BY <1>1, <1>2, WorkerStep DEF Stages, LifecycleInv, LifecycleType
<1>3. ASSUME gh' = [gh EXCEPT ![i].state = "closed"]
      PROVE  /\ gh' \in [PRs -> Data] /\ gh'[i].state = "closed"
             /\ \A j \in PRs : gh[j].state # "none" => gh'[j].state # "none"
  BY <1>1, <1>3 DEF LifecycleInv, LifecycleType, Data
<1>4. CASE Refresh(w)
  <2>1. PICK f \in Refreshed(i, d) : GoOn(w, "labels", f)
    BY <1>4 DEF Refresh
  <2>2. f \in Data /\ f.state # "none"
    BY <1>1, <2>1, Answers DEF LifecycleInv
  <2> QED
    BY <1>2, <1>4, <2>1, <2>2 DEF Refresh, Repo, Clones
<1>5. CASE CloseLabelled(w)
  <2>1. PICK f \in IF HasLabel(d) THEN Fetched(i, d) ELSE {d} :
           IF HasLabel(f)
           THEN /\ gh' = [gh EXCEPT ![i].state = "closed"]
                /\ GoOn(w, "dirty", gh'[i])
           ELSE /\ \E g \in Refreshed(i, SecondLook(w, HasLabel, f)) : GoOn(w, "dirty", g)
                /\ UNCHANGED gh
    BY <1>5 DEF CloseLabelled
  <2>2. f \in Data /\ f.state # "none"
    BY <1>1, <2>1, Answers DEF LifecycleInv
  <2>3. CASE HasLabel(f)
    BY <1>1, <1>3, <1>5, <2>1, <2>3, WorkerStep DEF CloseLabelled, Repo, Clones, Stages
  <2>4. CASE ~HasLabel(f)
    <3>1. SecondLook(w, HasLabel, f) \in {f, d}
      BY DEF SecondLook
    <3>2. PICK g \in Refreshed(i, SecondLook(w, HasLabel, f)) : GoOn(w, "dirty", g)
      BY <2>1, <2>4
    <3>3. g \in Data /\ g.state # "none"
      BY <1>1, <2>2, <3>1, <3>2, Answers DEF LifecycleInv
    <3> QED
      BY <1>2, <1>5, <2>1, <2>4, <3>2, <3>3 DEF CloseLabelled, Repo, Clones
  <2> QED
    BY <2>3, <2>4
<1>6. CASE CloseDirty(w)
  <2>1. CASE ~IsDirty(d)
    BY <1>1, <1>2, <1>6, <2>1 DEF CloseDirty, Repo, Clones
  <2>2. CASE IsDirty(d)
    <3>1. PICK f \in Fetched(i, d) :
            \/ /\ gh' = [gh EXCEPT ![i].state = "closed"]
               /\ GoOn(w, "write", [gh'[i] EXCEPT !.label = TRUE])
            \/ GoOn(w, "write", SecondLook(w, IsDirty, f)) /\ UNCHANGED gh
      BY <1>6, <2>2 DEF CloseDirty
    <3>2. f \in Data /\ f.state # "none"
      BY <1>1, <3>1, Answers DEF LifecycleInv
    <3>3. CASE gh' = [gh EXCEPT ![i].state = "closed"] /\ GoOn(w, "write", [gh'[i] EXCEPT !.label = TRUE])
      <4>1. [gh'[i] EXCEPT !.label = TRUE] \in Data /\ [gh'[i] EXCEPT !.label = TRUE].state # "none"
        BY <1>1, <1>3, <3>3 DEF Data
      <4> QED
        BY <1>1, <1>3, <1>6, <3>3, <4>1, WorkerStep DEF CloseDirty, Repo, Clones, Stages
    <3>4. CASE GoOn(w, "write", SecondLook(w, IsDirty, f)) /\ UNCHANGED gh
      <4>1. SecondLook(w, IsDirty, f) \in {f, d}
        BY DEF SecondLook
      <4> QED
        BY <1>1, <1>2, <1>6, <3>2, <3>4, <4>1 DEF CloseDirty, Repo, Clones
    <3> QED
      BY <3>1, <3>3, <3>4
  <2> QED
    BY <2>1, <2>2
<1> QED
  BY <1>4, <1>5, <1>6 DEF Step

LEMMA LifecycleNext == LifecycleInv /\ [Next]_vars => LifecycleInv'
<1> SUFFICES ASSUME LifecycleInv, [Next]_vars PROVE LifecycleInv'
  OBVIOUS
<1> USE DEF Repo, Clones, Counters, OnGithub, At
<1>a. 1 \in PRs
  BY LifecycleAssumption DEF PRs
<1>1. ASSUME NEW w \in Workers, Step(w) PROVE LifecycleInv'
  BY <1>1, Looks
<1>2. ASSUME NEW w \in Workers, Crash(w) PROVE LifecycleInv'
  BY <1>2, <1>a, WorkerDone DEF Crash
<1>3. CASE WriteEvent
  BY <1>3, <1>a, WorkerDone DEF WriteEvent
<1>4. CASE WritePrs
  <2> DEFINE i == work["prs"].pr
             d == work["prs"].data
  <2>1. /\ "prs" \in Workers /\ i \in PRs /\ d \in Data /\ d.state # "none" /\ gh[i].state # "none"
        /\ clone # <<>>
    BY <1>4 DEF WritePrs, LifecycleInv, LifecycleType, WorkersHaveData
  <2>2. clone' \in [PRs -> Data] /\ \A j \in PRs : clone'[j] = IF j = i THEN d ELSE clone[j]
    BY <1>4, <2>1 DEF WritePrs, LifecycleInv, LifecycleType
  <2>3. Idle \in [pc : Stages, pr : PRs, data : Data] /\ Idle.pc = "idle"
    BY <1>a, Values DEF Idle, Stages
  <2>4. LifecycleType'
    BY <1>4, <2>1, <2>2, <2>3 DEF WritePrs, LifecycleInv, LifecycleType
  <2>5. NoneInvented' /\ ChangedIsThere'
    BY <1>4, <2>1, <2>2 DEF WritePrs, LifecycleInv, NoneInvented, ChangedIsThere
  <2>6. WorkersHaveData'
    BY <1>4, <2>3 DEF WritePrs, LifecycleInv, LifecycleType, WorkersHaveData
  <2> QED
    BY <1>4, <2>4, <2>5, <2>6 DEF WritePrs, LifecycleInv, NoDanglingRef
<1>5. CASE CloneForPrs
  BY <1>5 DEF CloneForPrs, LifecycleInv, LifecycleType, NoneInvented, WorkersHaveData,
              ChangedIsThere, NoDanglingRef
<1>6. CASE DeployPrs
  <2>1. /\ \A i \in PRs : json'[i] = json[i] \/ (json'[i] = clone[i] /\ clone[i] # base[i])
        /\ json' \in [PRs -> Data]
    BY <1>6 DEF DeployPrs, LifecycleInv, LifecycleType
  <2>2. LifecycleType'
    BY <1>6, <2>1 DEF DeployPrs, LifecycleInv, LifecycleType
  <2>3. NoneInvented' /\ ChangedIsThere'
    BY <1>6, <2>1 DEF DeployPrs, LifecycleInv, NoneInvented, ChangedIsThere
  <2>5. DOMAIN entry = PRs /\ entry' = entry /\ clone # <<>>
    BY <1>6 DEF DeployPrs, LifecycleInv, LifecycleType
  <2>6. \A i \in PRs : json[i].state # "none" => json'[i].state # "none"
    BY <1>6, <2>1, <2>5 DEF LifecycleInv, ChangedIsThere
  <2>7. NoDanglingRef'
    BY <2>5, <2>6 DEF LifecycleInv, NoDanglingRef
  <2>4. WorkersHaveData'
    BY <1>6 DEF DeployPrs, LifecycleInv, WorkersHaveData
  <2> QED
    BY <2>2, <2>3, <2>4, <2>7 DEF LifecycleInv
<1>7. CASE PrepClone
  BY <1>7 DEF PrepClone, LifecycleInv, LifecycleType, NoneInvented, WorkersHaveData,
              ChangedIsThere, NoDanglingRef
<1>8. CASE PrepDeploy
  <2>1. ASSUME NEW i \in PRs PROVE Marked(i, Collapsed(i, entry[i])) \in Entries
    <3>1. entry[i] \in Entries /\ prep[i].label \in BOOLEAN
      BY <1>8 DEF PrepDeploy, LifecycleInv, LifecycleType, Data
    <3>2. Collapsed(i, entry[i]) \in Entries
      BY <3>1 DEF Collapsed, Entries
    <3> QED
      BY <3>1, <3>2 DEF Marked, Entries
  <2>2. \A i \in PRs : entry'[i].form = "ref" =>
          entry[i].form = "ref" /\ ~CanBeArchived(i, prep[i]) /\ json'[i] = json[i]
    BY <1>8 DEF PrepDeploy, LifecycleInv, LifecycleType, Entries, Marked, Collapsed
  <2>3. \A i \in PRs : json'[i] \in {Nothing, json[i]}
    BY <1>8 DEF PrepDeploy
  <2>4. LifecycleType'
    BY <1>8, <2>1, Values DEF PrepDeploy, LifecycleInv, LifecycleType
  <2>5. NoneInvented'
    BY <1>8, <2>3, Values DEF PrepDeploy, LifecycleInv, NoneInvented
  <2>6. DOMAIN entry = PRs /\ DOMAIN entry' = PRs
    BY <2>4 DEF LifecycleInv, LifecycleType
  <2>7. NoDanglingRef'
    BY <2>2, <2>6 DEF LifecycleInv, NoDanglingRef
  <2> QED
    BY <1>8, <2>4, <2>5, <2>7 DEF PrepDeploy, LifecycleInv, WorkersHaveData, ChangedIsThere
<1>9. ASSUME NEW i \in PRs, SubmitPrs(i) PROVE LifecycleInv'
  <2> DEFINE Given == [pc |-> "refresh", pr |-> i, data |-> clone[i]]
  <2>1. /\ clone[i] \in Data /\ clone[i].state # "none" /\ gh[i].state # "none" /\ clone # <<>>
        /\ Given \in [pc : Stages, pr : PRs, data : Data]
    BY <1>9 DEF SubmitPrs, CanBeArchived, LifecycleInv, LifecycleType, NoneInvented, Stages
  <2>2. work' = [work EXCEPT !["prs"] = Given]
    BY <1>9 DEF SubmitPrs
  <2>3. LifecycleType'
    BY <1>9, <2>1, <2>2 DEF SubmitPrs, LifecycleInv, LifecycleType
  <2>4. WorkersHaveData'
    BY <1>9, <2>1, <2>2 DEF SubmitPrs, LifecycleInv, LifecycleType, WorkersHaveData
  <2> QED
    BY <1>9, <2>3, <2>4 DEF SubmitPrs, LifecycleInv, NoneInvented, ChangedIsThere, NoDanglingRef
<1>10. ASSUME NEW i \in PRs, StartEvent(i) PROVE LifecycleInv'
  <2> DEFINE Given == [pc |-> "refresh", pr |-> i, data |-> json[i]]
  <2>1. /\ json[i] \in Data /\ json[i].state # "none" /\ gh[i].state # "none"
        /\ Given \in [pc : Stages, pr : PRs, data : Data]
    BY <1>10 DEF StartEvent, LifecycleInv, LifecycleType, NoneInvented, Stages
  <2>2. work' = [work EXCEPT !["event"] = Given]
    BY <1>10 DEF StartEvent
  <2>3. LifecycleType'
    BY <1>10, <2>1, <2>2 DEF StartEvent, LifecycleInv, LifecycleType
  <2>4. WorkersHaveData'
    BY <1>10, <2>1, <2>2 DEF StartEvent, LifecycleInv, LifecycleType, WorkersHaveData
  <2> QED
    BY <1>10, <2>3, <2>4 DEF StartEvent, LifecycleInv, NoneInvented, ChangedIsThere, NoDanglingRef
<1>11. ASSUME NEW i \in PRs, Issue(i) PROVE LifecycleInv'
  <2>1. /\ gh' = [gh EXCEPT ![i] = Opened] /\ json' = [json EXCEPT ![i] = Opened]
        /\ entry' = [entry EXCEPT ![i] = [entry[i] EXCEPT !.form = "ref"]]
        /\ UNCHANGED <<work, base, clone, prep>>
    BY <1>11 DEF Issue
  <2>2. [entry[i] EXCEPT !.form = "ref"] \in Entries
    BY DEF LifecycleInv, LifecycleType, Entries
  <2>3. LifecycleType'
    BY <2>1, <2>2, Values DEF LifecycleInv, LifecycleType
  <2>4. ASSUME NEW j \in PRs
        PROVE  \/ gh'[j].state # "none" /\ json'[j].state # "none" /\ j = i
               \/ gh'[j] = gh[j] /\ json'[j] = json[j] /\ entry'[j] = entry[j] /\ j # i
    <3>1. CASE j = i
      BY <2>1, <3>1, Values DEF LifecycleInv, LifecycleType
    <3>2. CASE j # i
      BY <2>1, <3>2 DEF LifecycleInv, LifecycleType
    <3> QED
      BY <3>1, <3>2
  <2>5. NoneInvented' /\ NoDanglingRef' /\ ChangedIsThere'
    BY <2>1, <2>4 DEF LifecycleInv, NoneInvented, NoDanglingRef, ChangedIsThere
  <2>6. WorkersHaveData'
    BY <2>1, <2>4 DEF LifecycleInv, LifecycleType, WorkersHaveData
  <2> QED
    BY <2>3, <2>5, <2>6 DEF LifecycleInv
<1>12. ASSUME NEW i \in PRs,
              AddLabel(i) \/ HumanCloses(i) \/ Conflict(i) \/ Reopen(i) \/ Settle(i)
       PROVE  LifecycleInv'
  <2>a. gh \in [PRs -> Data] /\ gh[i] \in Data
    BY DEF LifecycleInv, LifecycleType
  <2>b. PICK d \in Data : (gh[i].state # "none" => d.state # "none") /\ gh' = [gh EXCEPT ![i] = d]
    <3>1. CASE AddLabel(i)
      BY <2>a, <3>1 DEF AddLabel, Data
    <3>2. CASE HumanCloses(i)
      BY <2>a, <3>2 DEF HumanCloses, Data
    <3>3. CASE Conflict(i)
      BY <2>a, <3>3 DEF Conflict, Data
    <3>4. CASE Reopen(i)
      BY <2>a, <3>4 DEF Reopen, Data
    <3>5. CASE Settle(i)
      BY <2>a, <3>5 DEF Settle
    <3> QED
      BY <1>12, <3>1, <3>2, <3>3, <3>4, <3>5
  <2>1. gh' \in [PRs -> Data] /\ \A j \in PRs : gh[j].state # "none" => gh'[j].state # "none"
    BY <2>a, <2>b
  <2> QED
    BY <1>12, <2>1, GithubStep DEF AddLabel, HumanCloses, Conflict, Reopen, Settle
<1>13. CASE UNCHANGED vars
  BY <1>13, GithubStep DEF vars, LifecycleInv, LifecycleType
<1> QED
  BY <1>1, <1>2, <1>3, <1>4, <1>5, <1>6, <1>7, <1>8, <1>9, <1>10, <1>11, <1>12, <1>13 DEF Next, Bot

\* An entry of pr_info that refers to a pr_json object finds it: neither the collapse by
\* prep, nor a worker that writes an old copy of the object, nor the deploy of an older
\* clone leaves a reference without an object (_remove_closed_pr_json, update_prs).
THEOREM RefsAreThere == Spec => []NoDanglingRef
<1>1. LifecycleInv => NoDanglingRef
  BY DEF LifecycleInv
<1> QED
  BY <1>1, LifecycleInit, LifecycleNext, PTL DEF Spec
=============================================================================
