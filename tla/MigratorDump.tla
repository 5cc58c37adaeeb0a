----------------------------- MODULE MigratorDump ------------------------------
(***************************************************************************)
(* How migrators get from the job that makes them (bot-make-migrators) to  *)
(* those that use them: dump_migrators writes one migrators/<name>.json    *)
(* each and removes the others, load_migrators reads what there is.  What  *)
(* is deployed when the job ends on the way is what it has written so far. *)
(***************************************************************************)
EXTENDS Integers, FiniteSets

CONSTANTS
  Migrators,   \* all there ever are, without the version migrator
  Name,        \* their report_name
  Plans,       \* what initialize_migrators may make: migrators with their pr_limits
  Nominal,     \* pr_limit in a migration's yaml
  MaxChanges,  \* bound: changes of the migrations or of their limits
  MaxFaults    \* bound: dumps of a migrator that raise, and jobs that are cancelled

Assumptions ==
  /\ \A w \in Plans : DOMAIN w \subseteq Migrators
  /\ MaxChanges \in Nat /\ MaxFaults \in Nat

VARIABLES
  wanted,   \* the migrators that initialize_migrators makes now, with their limits
  paused,   \* those that are paused in their yaml
  store,    \* the hashmap migrators: what is in the file of a name
  job,      \* bot-make-migrators
  running,  \* what load_migrators gave auto-tick last
  changes, faults

vars == <<wanted, paused, store, job, running, changes, faults>>

Names == {Name[m] : m \in Migrators}
NoJob == [on |-> FALSE]
NoFile == [of |-> "none"]

Init ==
  /\ wanted \in Plans
  /\ paused = {}
  /\ store = [n \in Names |-> NoFile]
  /\ job = NoJob /\ running = {} /\ changes = 0 /\ faults = 0

\* A migration is added, removed or paused, or pull requests were made.
Change ==
  /\ changes < MaxChanges /\ changes' = changes + 1
  /\ wanted' \in Plans
  /\ paused' \in SUBSET DOMAIN wanted'
  /\ UNCHANGED <<store, job, running, faults>>

Fault == faults < MaxFaults /\ faults' = faults + 1

-----------------------------------------------------------------------------
\* initialize_migrators: the pinning migrators are shuffled, so they come in any order.
Initialize ==
  /\ ~job.on
  /\ job' = [on |-> TRUE, todo |-> {[of |-> m, limit |-> wanted[m], paused |-> m \in paused] :
                                      m \in DOMAIN wanted},
             made |-> DOMAIN wanted, old |-> {n \in Names : store[n] # NoFile}, new |-> {}]
  /\ UNCHANGED <<wanted, paused, store, running, changes, faults>>

\* to_lazy_json_data
Data(m) == m

Done(m, new) == job' = [job EXCEPT !.todo = @ \ {m}, !.new = new]

\* A second migrator of the same name raises an error that is logged.
Duplicate(m) ==
  /\ Name[m.of] \in job.new /\ Done(m, job.new)
  /\ UNCHANGED <<wanted, paused, store, running, changes, faults>>

\* to_lazy_json_data, or writing the file, raises; that is logged too.
DumpRaises(m) ==
  /\ Name[m.of] \notin job.new /\ Fault
  /\ \/ Done(m, job.new)
     \/ Done(m, job.new \cup {Name[m.of]})
  /\ UNCHANGED <<wanted, paused, store, running, changes>>

Dump(m) ==
  /\ Name[m.of] \notin job.new /\ Done(m, job.new \cup {Name[m.of]})
  /\ store' = [store EXCEPT ![Name[m.of]] = Data(m)]
  /\ UNCHANGED <<wanted, paused, running, changes, faults>>

\* Mutant of ToRemove: old files stay.
NothingToRemove == {}

ToRemove == job.old \ job.new

RemoveOld ==
  /\ job.on /\ job.todo = {}
  /\ store' = [n \in Names |-> IF n \in ToRemove THEN NoFile ELSE store[n]]
  /\ job' = NoJob
  /\ UNCHANGED <<wanted, paused, running, changes, faults>>

\* The job is cancelled, and deploys.
Cancelled ==
  /\ job.on /\ Fault /\ job' = NoJob
  /\ UNCHANGED <<wanted, paused, store, running, changes>>

\* make_from_lazy_json_data of all of them, without those that are paused.
Load ==
  /\ running' = {store[n] : n \in {k \in Names : store[k] # NoFile /\ ~store[k].paused}}
  /\ UNCHANGED <<wanted, paused, store, job, changes, faults>>

Next ==
  \/ Change \/ Initialize \/ RemoveOld \/ Cancelled \/ Load
  \/ job.on /\ \E m \in job.todo : Duplicate(m) \/ DumpRaises(m) \/ Dump(m)

-----------------------------------------------------------------------------
Distinct == \A m, o \in DOMAIN wanted : m # o => Name[m] # Name[o]

Current == {[of |-> m, limit |-> wanted[m], paused |-> FALSE] : m \in DOMAIN wanted \ paused}

\* When migrations stay as they are and have names of their own, those that run are all of
\* them, and no others, with the limits they have now, whatever failed or was cancelled.
AllRun == <>[]Distinct => <>[](running = Current)
=============================================================================
