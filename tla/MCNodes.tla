-------------------------------- MODULE MCNodes --------------------------------
(* What the jobs around the graph write, for TLC: the status pages of two       *)
(* migrations; the jobs that decide which nodes there are; the requirements of  *)
(* two feedstocks, one of them with strong run exports; and one feedstock's     *)
(* attributes over its commits.                                                 *)
EXTENDS StatusReport, FeedstockNode, NodeJobs, TLC

CONSTANTS
  a, b,                        \* migrations
  old, new, compiler,          \* feedstocks, and a package that is not one
  mpi, solver, openmpi, stub,  \* two feedstocks, an output and a compiler stub
  linux, osx, arm              \* platforms

VARIABLES
  part,
  recipe, required, graph, loading, making, edits   \* RunExports

exports == <<recipe, required, graph, loading, making, edits>>

TheMigrators == {a, b}
AllOfThem == {TheMigrators}

\* The one that changes requires the package, the other one requires both.
MCNeeds == [f \in {old, new} |-> IF f = old THEN {new, compiler} ELSE {compiler}]

Of(out, asList, strong, reqs) ==
  [outputs |-> {out}, blocks |-> {[list |-> asList, strong |-> strong, reqs |-> reqs]}]

\* mpi has strong run exports and an output of another name, or neither; solver
\* requires that output, in a list.
NoReqs == [build |-> {}, host |-> {}, run |-> {}, test |-> {}]
StrongMpi == Of(openmpi, FALSE, TRUE, [NoReqs EXCEPT !.build = {stub}])
PlainMpi == Of(mpi, FALSE, FALSE, NoReqs)
Solver == Of(solver, TRUE, FALSE, [NoReqs EXCEPT !.run = {openmpi}])

Exports == INSTANCE RunExports WITH
  Feedstocks <- {mpi, solver}, Packages <- {mpi, solver, openmpi, stub}, Stubs <- {stub},
  First <- (mpi :> StrongMpi @@ solver :> Solver),
  Recipes <- (mpi :> {StrongMpi, PlainMpi} @@ solver :> {Solver}),
  MaxEdits <- 1, node <- required, update <- loading, make <- making

ASSUME InstanceAssumptions == Exports!Assumptions

-----------------------------------------------------------------------------
MCInit ==
  /\ part \in {"report", "jobs", "exports", "feedstock"}
  /\ Init /\ JobsInit /\ Exports!Init
  /\ FeedstockInit /\ (part # "feedstock" => content = Bare)

Report == part = "report" /\ Next /\ UNCHANGED <<part, jobsVars, exports, feedstockVars>>
AroundGraph == part = "jobs" /\ JobsNext /\ UNCHANGED <<part, vars, exports, feedstockVars>>
Exporting == part = "exports" /\ Exports!Next /\ UNCHANGED <<part, vars, jobsVars, feedstockVars>>
Loading == part = "feedstock" /\ FeedstockNext /\ UNCHANGED <<part, vars, jobsVars, exports>>

MCNext == Report \/ AroundGraph \/ Exporting \/ Loading

MCVars == <<part, vars, jobsVars, exports, feedstockVars>>

\* The jobs are on a schedule, and some time render each feedstock. Nothing is assumed of
\* the events.
MCSpec ==
  /\ MCInit /\ [][MCNext]_MCVars
  /\ WF_exports(part = "exports" /\ (Exports!StartGraph \/ Exports!MakeGraph))
  /\ \A f \in {mpi, solver} :
       /\ WF_exports(part = "exports" /\ (Exports!StartUpdate(f) \/ Exports!DeployNode(f)))
       /\ SF_exports(part = "exports" /\ Exports!UpdateNode(f))

-----------------------------------------------------------------------------
\* Requirements, run exports and edges follow the recipes.
ExportsArrive == <>[](part = "exports" => Exports!Arrived)
=============================================================================
