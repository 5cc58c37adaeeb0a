----------------------------- MODULE PRLifecycle -----------------------------
(***************************************************************************)
(* The pull requests of one migration of one feedstock after they were     *)
(* opened: two workers, the hourly update-prs job and the job that reacts  *)
(* to an event of GitHub, refresh the pr_json objects and close what has   *)
(* the label bot-rerun or conflicts; the prep step of the bot-bot job      *)
(* collapses what is closed and marks what is to be rerun; auto-tick then  *)
(* opens the next pull request.                                            *)
(***************************************************************************)
EXTENDS Integers, FiniteSets

CONSTANTS
  MaxPRs,       \* bound: pull requests ever opened
  MaxHuman,     \* bound: steps of maintainers and conflicts
  MaxCrashes,   \* bound: workers that die
  MaxReopens,   \* bound: pull requests reopened
  Workers       \* SUBSET {"prs", "event"}

ASSUME LifecycleAssumption ==
  /\ MaxPRs \in Nat \ {0}
  /\ {MaxHuman, MaxCrashes, MaxReopens} \subseteq Nat
  /\ Workers \subseteq {"prs", "event"}

PRs == 1..MaxPRs

VARIABLES
  gh,        \* [PRs -> Data]: the truth
  settled,   \* the pull requests that were closed long ago: Last-Modified is older
             \* than pull_request_reopen_window
  json,      \* [PRs -> Data]: the pr_json objects of the graph repository
  entry,     \* [PRs -> Entry]: the PRed entries of pr_info
  work,      \* [Workers -> the pull request it is at, how far, its copy]
  base, clone,   \* what update-prs has cloned and made of it, or <<>>
  prep,      \* what prep has cloned, or <<>>
  human, crashes, reopens,
  promised   \* history: [PRs -> why the bot closed it, announcing another one]

vars == <<gh, settled, json, entry, work, base, clone, prep, human, crashes, reopens,
          promised>>

Data == [state : {"none", "open", "closed"}, label : BOOLEAN, dirty : BOOLEAN]
Nothing == [state |-> "none", label |-> FALSE, dirty |-> FALSE]
Opened  == [Nothing EXCEPT !.state = "open"]

NoEntry == [form |-> "none", label |-> FALSE, rerun |-> FALSE]
Idle == [pc |-> "idle", pr |-> 1, data |-> Nothing]

Init ==
  /\ gh = [i \in PRs |-> IF i = 1 THEN Opened ELSE Nothing]
  /\ json = gh
  /\ entry = [i \in PRs |-> IF i = 1 THEN [NoEntry EXCEPT !.form = "ref"] ELSE NoEntry]
  /\ work = [w \in Workers |-> Idle]
  /\ base = <<>> /\ clone = <<>> /\ prep = <<>>
  /\ settled = {}
  /\ human = 0 /\ crashes = 0 /\ reopens = 0
  /\ promised = [i \in PRs |-> "no"]

Repo     == <<json, entry>>
Clones   == <<base, clone, prep>>
Counters == <<human, crashes, reopens>>

-----------------------------------------------------------------------------
(* GitHub *)

Human == human < MaxHuman /\ human' = human + 1
OnGithub == UNCHANGED <<settled, Repo, work, Clones, crashes, promised>>

AddLabel(i) ==
  /\ Human /\ gh[i].state = "open"
  /\ gh' = [gh EXCEPT ![i].label = TRUE]
  /\ UNCHANGED reopens /\ OnGithub

HumanCloses(i) ==
  /\ Human /\ gh[i].state = "open"
  /\ gh' = [gh EXCEPT ![i].state = "closed"]
  /\ UNCHANGED reopens /\ OnGithub

Conflict(i) ==
  /\ Human /\ gh[i].state = "open"
  /\ gh' = [gh EXCEPT ![i].dirty = ~@]
  /\ UNCHANGED reopens /\ OnGithub

Reopen(i) ==
  /\ reopens < MaxReopens /\ reopens' = reopens + 1
  /\ gh[i].state = "closed" /\ promised[i] = "no"
  /\ gh' = [gh EXCEPT ![i].state = "open"]
  /\ UNCHANGED human /\ OnGithub

\* The window in which it can be reopened has passed.
Settle(i) ==
  /\ gh[i].state = "closed" /\ i \notin settled
  /\ settled' = settled \cup {i}
  /\ UNCHANGED <<gh, Repo, work, Clones, Counters, promised>>

\* Mutant of Fetched: 304 is believed whatever has changed.
FetchedStale(i, d) == {gh[i], d}

\* lazy_update_pr_json: new data, or the old ones when GitHub answers 304, which
\* it does although the pull request has got conflicts (unless the refresh is
\* forced, every pr_refresh_age_days).
Fetched(i, d) ==
  {gh[i]} \cup IF d.state = gh[i].state /\ d.label = gh[i].label THEN {d} ELSE {}

-----------------------------------------------------------------------------
(* A worker: _combined_update_function and _react_to_pr *)

At(w, pc) == work[w].pc = pc
GoOn(w, pc, d) == work' = [work EXCEPT ![w].pc = pc, ![w].data = d]

\* pr_can_be_archived with archive_empty_prs; a missing object loads as empty.
CanBeArchived(i, d) == d.state = "none" \/ (d.state = "closed" /\ i \in settled)

CloneForPrs ==
  /\ "prs" \in Workers /\ clone = <<>>
  /\ base' = json /\ clone' = json
  /\ UNCHANGED <<gh, Repo, work, prep, Counters, settled, promised>>

\* update-prs submits every entry of the clone that cannot be archived.
SubmitPrs(i) ==
  /\ clone # <<>> /\ At("prs", "idle")
  /\ entry[i].form = "ref" /\ clone[i] = base[i] /\ ~CanBeArchived(i, clone[i])
  /\ work' = [work EXCEPT !["prs"] = [pc |-> "refresh", pr |-> i, data |-> clone[i]]]
  /\ UNCHANGED <<gh, Repo, Clones, Counters, settled, promised>>

\* react-to-event loads the object through the API. An object that is not there
\* has no "state": refresh_pr raises ten times and the job fails.
StartEvent(i) ==
  /\ "event" \in Workers /\ work["event"].pc = "idle"
  /\ json[i].state # "none"
  /\ work' = [work EXCEPT !["event"] = [pc |-> "refresh", pr |-> i, data |-> json[i]]]
  /\ UNCHANGED <<gh, Repo, Clones, Counters, settled, promised>>

\* refresh_pr: what is closed is not asked for again.
Refreshed(i, d) == IF d.state = "open" THEN Fetched(i, d) ELSE {d}

Refresh(w) ==
  /\ At(w, "refresh")
  /\ \E f \in Refreshed(work[w].pr, work[w].data) : GoOn(w, "labels", f)
  /\ UNCHANGED <<gh, Repo, Clones, Counters, settled, promised>>

\* close_out_labels and close_out_dirty_prs look again, then close what is still
\* open and still concerned. In update-prs what the second look found is kept in
\* any case, the event job drops it unless the pull request is concerned.
SecondLook(w, concerned(_), f) ==
  IF w = "prs" \/ concerned(f) THEN f ELSE work[w].data

HasLabel(d) == d.state = "open" /\ d.label

\* (Ends with the refresh before the conflicts are looked at.)
CloseLabelled(w) ==
  /\ At(w, "labels")
  /\ LET i == work[w].pr
         d == work[w].data
         Looked == IF HasLabel(d) THEN Fetched(i, d) ELSE {d}
     IN  \E f \in Looked :
           IF HasLabel(f)
           THEN /\ gh' = [gh EXCEPT ![i].state = "closed"]
                /\ promised' = [promised EXCEPT ![i] = "label"]
                /\ GoOn(w, "dirty", gh'[i])
           ELSE /\ \E g \in Refreshed(i, SecondLook(w, HasLabel, f)) : GoOn(w, "dirty", g)
                /\ UNCHANGED <<gh, promised>>
  /\ UNCHANGED <<Repo, Clones, Counters, settled>>

IsDirty(d) == d.state = "open" /\ d.dirty

\* The label bot-rerun is added to the data only, not on GitHub. (A draft, and
\* one to which others have committed, stays open.)
CloseDirty(w) ==
  /\ At(w, "dirty")
  /\ LET i == work[w].pr IN
       IF ~IsDirty(work[w].data) THEN GoOn(w, "write", work[w].data) /\ UNCHANGED <<gh, promised>>
       ELSE \E f \in Fetched(i, work[w].data) :
              \/ /\ IsDirty(f) /\ gh[i].state = "open"
                 /\ gh' = [gh EXCEPT ![i].state = "closed"]
                 /\ promised' = [promised EXCEPT ![i] = "dirty"]
                 /\ GoOn(w, "write", [gh'[i] EXCEPT !.label = TRUE])
              \/ /\ GoOn(w, "write", SecondLook(w, IsDirty, f))
                 /\ UNCHANGED <<gh, promised>>
  /\ UNCHANGED <<Repo, Clones, Counters, settled>>

\* The event job writes through the API, whatever is there by now.
WriteEvent ==
  /\ "event" \in Workers /\ At("event", "write")
  /\ json' = [json EXCEPT ![work["event"].pr] = work["event"].data]
  /\ work' = [work EXCEPT !["event"] = Idle]
  /\ UNCHANGED <<gh, entry, Clones, Counters, settled, promised>>

\* `with pr_json as attrs: attrs.update(**res)`
WritePrs ==
  /\ "prs" \in Workers /\ At("prs", "write")
  /\ clone' = [clone EXCEPT ![work["prs"].pr] = work["prs"].data]
  /\ work' = [work EXCEPT !["prs"] = Idle]
  /\ UNCHANGED <<gh, Repo, base, prep, Counters, settled, promised>>

\* deploy-to-github --no-pull: the files that have changed overwrite those of the
\* graph repository (API), or give way to other changes of them (git).
DeployPrs ==
  /\ clone # <<>> /\ At("prs", "idle")
  /\ base' = <<>> /\ clone' = <<>>
  /\ \E overwrite \in BOOLEAN :
       json' = [i \in PRs |-> IF clone[i] # base[i] /\ (overwrite \/ json[i] = base[i])
                              THEN clone[i] ELSE json[i]]
  /\ UNCHANGED <<gh, entry, work, prep, Counters, settled, promised>>

\* A GitHub error (the pull request is left as it was), an exception that ends
\* the job, a delete_branch that fails after the close, or a lost runner. Leaving
\* the context by an exception writes what the event job has got by then, and it
\* starts again.
Crash(w) ==
  /\ crashes < MaxCrashes /\ crashes' = crashes + 1
  /\ ~At(w, "idle")
  /\ work' = [work EXCEPT ![w] = Idle]
  /\ \/ w = "event" /\ json' = [json EXCEPT ![work[w].pr] = work[w].data]
     \/ UNCHANGED json
  /\ UNCHANGED <<gh, settled, entry, Clones, human, reopens, promised>>

-----------------------------------------------------------------------------
(* bot-bot: prep and the migration *)

PrepClone ==
  /\ prep = <<>>
  /\ prep' = json
  /\ UNCHANGED <<gh, settled, Repo, work, base, clone, Counters, promised>>

\* Mutant of Collapsed: what is to be rerun keeps its reference.
CollapsedUnlabelled(i, e) ==
  IF e.form = "ref" /\ CanBeArchived(i, prep[i]) /\ ~prep[i].label
  THEN [e EXCEPT !.form = "collapsed"] ELSE e

\* _remove_closed_pr_json
Collapsed(i, e) ==
  IF e.form = "ref" /\ CanBeArchived(i, prep[i])
  THEN [e EXCEPT !.form = "collapsed", !.label = prep[i].label] ELSE e

\* Mutant of Marked: only what is still referenced is looked at.
MarkedOnlyRefs(i, e) == [e EXCEPT !.rerun = @ \/ (e.form = "ref" /\ prep[i].label)]

\* _update_nodes_with_bot_rerun
Marked(i, e) ==
  [e EXCEPT !.rerun = @ \/ (IF e.form = "ref" THEN prep[i].label ELSE e.label)]

\* The deploy of prep: pr_info, and the objects that were removed.
PrepDeploy ==
  /\ prep # <<>>
  /\ entry' = [i \in PRs |-> Marked(i, Collapsed(i, entry[i]))]
  /\ json' = [i \in PRs |-> IF CanBeArchived(i, prep[i]) THEN Nothing ELSE json[i]]
  /\ prep' = <<>>
  /\ UNCHANGED <<gh, work, base, clone, Counters, settled, promised>>

\* auto-tick, when none of the entries is the one of the migration any more.
Issue(i) ==
  /\ prep = <<>>
  /\ gh[i].state = "none" /\ i > 1
  /\ \A j \in 1..(i - 1) : entry[j].rerun
  /\ gh' = [gh EXCEPT ![i] = Opened]
  /\ json' = [json EXCEPT ![i] = Opened]
  /\ entry' = [entry EXCEPT ![i].form = "ref"]
  /\ UNCHANGED <<work, Clones, Counters, settled, promised>>

-----------------------------------------------------------------------------
Step(w) ==
  Refresh(w) \/ CloseLabelled(w) \/ CloseDirty(w)

Bot ==
  \/ \E w \in Workers : Step(w) \/ Crash(w)
  \/ WriteEvent \/ WritePrs \/ CloneForPrs \/ DeployPrs \/ PrepClone \/ PrepDeploy
  \/ \E i \in PRs : SubmitPrs(i) \/ StartEvent(i) \/ Issue(i)

Next ==
  \/ Bot
  \/ \E i \in PRs : AddLabel(i) \/ HumanCloses(i) \/ Conflict(i) \/ Reopen(i) \/ Settle(i)

Spec == Init /\ [][Next]_vars

\* update-prs and bot-bot run again and again, update-prs gets to every entry in
\* the end (frac_update_pr_json); events may be lost but the jobs end.
FairSpec ==
  /\ Spec
  /\ \A w \in Workers : WF_vars(Step(w))
  /\ WF_vars(WriteEvent) /\ WF_vars(WritePrs)
  /\ WF_vars(CloneForPrs) /\ SF_vars(DeployPrs)
  /\ WF_vars(PrepClone) /\ WF_vars(PrepDeploy)
  /\ \A i \in PRs : SF_vars(SubmitPrs(i)) /\ SF_vars(Issue(i)) /\ WF_vars(Settle(i))

-----------------------------------------------------------------------------
(* Properties *)

\* Of a pull request that the bot has closed because of conflicts, saying that it will
\* make another one, the other one comes, although the label is in the data only: "This
\* will cause the _update_nodes_with_bot_rerun to trigger properly and shouldn't be
\* overridden".
DirtyPromiseKept ==
  \A i \in 1..(MaxPRs - 1) : promised[i] = "dirty" ~> gh[i + 1].state # "none"

\* An entry that refers to an object always finds it: a collapse that races the
\* workers leaves an object without an entry behind, never the other way round.
NoDanglingRef ==
  \A i \in DOMAIN entry : entry[i].form = "ref" => json[i].state # "none"
=============================================================================
