----------------------------- MODULE MCMigrations -----------------------------
(* Migrations for TLC: which feedstocks a migration rebuilds and in which    *)
(* order, its pull requests over many runs, its page of the status report,   *)
(* how migrators reach the job that runs them, and how a new version becomes *)
(* a pin. `part` says which of them a behaviour is about; the rest rests.    *)
EXTENDS MigrationStatus, MigrationScope, Sequences, TLC

CONSTANTS a, b, c, pkg

VARIABLES
  part,
  wanted, paused, store, job, running, changes, faults,                     \* MigratorDump
  version, exports, pin, creator, prs, migrations, rebuilt, builtFor        \* PinUpdates

dump  == <<wanted, paused, store, job, running, changes, faults>>
pins  == <<version, exports, pin, creator, prs, migrations, rebuilt, builtFor>>

\* The graph of the migration: a ring that is broken by hand, a is before b before c.
MCFeedstocks == {a, b, c}
Ring == {<<a, b>>, <<b, a>>, <<b, c>>}
RingBroken == [n \in MCFeedstocks |-> IF n = a THEN {b} ELSE {}]

\* A page of it is made while nothing else is waited for. Two more passes over it:
\* one that waits for another migration, and one whose pull requests are rerun.
Waiting == INSTANCE GraphMigration WITH WaitsFor <- TRUE
Reruns == INSTANCE GraphMigration WITH MaxReruns <- 1, MaxTroubles <- 0

\* A pinned package, and three feedstocks that may depend on it and in a ring on
\* each other.
MCAllFeedstocks == {pkg, a, b, c}
MCPinned == {pkg}
MCSections == {"build", "host", "run"}
MCDepPairs == {<<a, pkg>>, <<b, pkg>>, <<c, pkg>>, <<b, a>>, <<c, b>>, <<a, c>>}
MCMaySections ==
  [p \in MCDepPairs |->
    IF p[2] # pkg THEN MCSections ELSE IF p[1] = b THEN {"host", "build"} ELSE {"host"}]
MCMayKinds ==
  [n \in MCAllFeedstocks |-> IF n = b THEN {"plain", "noarch", "bad", "other_platform"} ELSE {"plain"}]
MCAllowlists == {{}, {b}}

\* Three migrators, two of which have one name.
Dump == INSTANCE MigratorDump WITH
  Migrators <- {a, b, c}, Name <- a :> a @@ b :> b @@ c :> a,
  Plans <- {a :> 5 @@ b :> 5, a :> 2 @@ b :> 5, b :> 5 @@ c :> 2, a :> 5 @@ c :> 5, b :> 5},
  Nominal <- 5, MaxChanges <- 1, MaxFaults <- 1

Pins == INSTANCE PinUpdates WITH
  FirstPin <- <<1, 0>>, Versions <- {<<1, 0, 1>>, <<1, 2>>, <<1, 2, 1>>, <<2>>, <<2, 1, 3>>},
  RunExports <- {{}, {[mine |-> TRUE, levels |-> 2]}, {[mine |-> FALSE, levels |-> 3]},
                 {[mine |-> TRUE, levels |-> 1], [mine |-> TRUE, levels |-> 3]},
                 {[mine |-> TRUE, levels |-> 0]}},
  Fallback <- 1, Rejects <- TRUE

ASSUME InstanceAssumptions ==
  Dump!Assumptions /\ Pins!Assumptions

-----------------------------------------------------------------------------
ScopeRests ==
  /\ section = 0 /\ kind = 0 /\ options = 0 /\ stage = "none" /\ graph = 0 /\ toPluck = {}
  /\ inMigration = {} /\ trimmed = 0

DumpRests ==
  /\ wanted = <<>> /\ paused = {} /\ store = 0 /\ job = 0 /\ running = {}
  /\ changes = 0 /\ faults = 0

MCInit ==
  /\ part \in {"graph", "reruns", "status", "scope", "dump", "pins"}
  /\ StatusInit
  /\ IF part = "scope" THEN ScopeInit ELSE ScopeRests
  /\ IF part = "dump" THEN Dump!Init ELSE DumpRests
  /\ Pins!Init /\ (part # "pins" => exports = {})

Graph   == part = "graph" /\ Waiting!Next /\ UNCHANGED <<part, note, settled, scopeVars, dump, pins>>
Again   == part = "reruns" /\ Reruns!Next /\ UNCHANGED <<part, note, settled, scopeVars, dump, pins>>
Page    == part = "status" /\ StatusNext /\ UNCHANGED <<part, scopeVars, dump, pins>>
Scoping == part = "scope" /\ ScopeNext /\ UNCHANGED <<part, statusVars, dump, pins>>
Dumping == part = "dump" /\ Dump!Next /\ UNCHANGED <<part, statusVars, scopeVars, pins>>
ToPins  == part = "pins" /\ Pins!Next /\ UNCHANGED <<part, statusVars, scopeVars, dump>>

MCNext == Graph \/ Again \/ Page \/ Scoping \/ Dumping \/ ToPins

MCVars == <<part, statusVars, scopeVars, dump, pins>>

\* What the bot and the people around it do in the end.
Answers ==
  \E n \in Nodes : Waiting!CloseOnGithub(n) \/ Waiting!Refresh(n) \/ Waiting!Repair(n) \/ Waiting!OtherMigration(n)

\* Every job runs again and again, a pass reaches a feedstock that is due now and
\* then (the random ties and the back-off of `order`), somebody closes every pull
\* request in the end, and update-prs sees it.
MCSpec ==
  /\ MCInit /\ [][MCNext]_MCVars
  /\ SF_vars(part = "graph" /\ Waiting!MakeMigrators) /\ SF_vars(part = "graph" /\ Waiting!StartPass)
  /\ SF_vars(part = "graph" /\ \E n \in Nodes : Waiting!Issue(n))
  /\ WF_vars(part = "graph" /\ Waiting!EndPass) /\ WF_vars(part = "graph" /\ Answers)
  /\ WF_dump(part = "dump" /\ Dump!Initialize) /\ WF_dump(part = "dump" /\ Dump!RemoveOld)
  /\ WF_dump(part = "dump" /\ Dump!Load)
  /\ WF_dump(part = "dump" /\ job.on /\ \E m \in job.todo : Dump!Duplicate(m) \/ Dump!Dump(m))
  /\ WF_pins(part = "pins" /\ Pins!MakeMigrators)
  /\ WF_pins(part = "pins" /\ \E r \in creator : Pins!Propose(r))
  /\ WF_pins(part = "pins" /\ (Pins!Merge \/ Pins!Rebuild \/ Pins!CloseOut))

-----------------------------------------------------------------------------
\* Unless it is halted by an entry that was lost, the migration comes to its end:
\* every feedstock that is not archived has a pull request and the pinning has one.
MigrationEnds ==
  part = "graph" =>
    <>[](Halted \/ \A n \in Nodes : health[n] = "archived" \/ record[n] # "none")

\* When migrations stay as they are and have names of their own, those that run are
\* all of them, with the limits they have now, whatever failed or was cancelled.
AllRun == part = "dump" => Dump!AllRun

\* In the end a new version is inside of its pin, or the maintainers did not want it.
PinFollows == part = "pins" => Pins!PinFollows
=============================================================================
