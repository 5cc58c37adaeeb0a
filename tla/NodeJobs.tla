------------------------------- MODULE NodeJobs --------------------------------
(***************************************************************************)
(* Which feedstocks there are, according to GitHub, to all_feedstocks.json *)
(* (bot-feedstocks), to node_attrs (bot-update-nodes) and to the graph     *)
(* (bot-make-graph).  Each job works on a clone of the graph repository    *)
(* that others change meanwhile, and deploys the files it changed; a push  *)
(* event writes to the repository at once.                                 *)
(***************************************************************************)
EXTENDS FiniteSets, Integers

CONSTANTS
  Settled,   \* feedstocks that are active, listed and loaded all the time
  Changing,  \* feedstocks that are made, archived and unarchived
  Broken,    \* those of Changing that cannot be rendered
  Others,    \* packages that no feedstock is named after
  Needs,     \* the requirements of a feedstock
  MaxMoves   \* bound: changes on GitHub

ASSUME NodesAssumption ==
  /\ Broken \subseteq Changing
  /\ Settled \cap Changing = {} /\ (Settled \cup Changing) \cap Others = {}
  /\ Needs \in [Settled \cup Changing -> SUBSET (Settled \cup Changing \cup Others)]
  /\ MaxMoves \in Nat

Feedstocks == Settled \cup Changing
Names == Feedstocks \cup Others

VARIABLES
  github,    \* "absent", "active" or "archived"
  list,      \* what all_feedstocks.json says of a feedstock
  node,      \* node_attrs/<name>.json: what is in it, and its archived
  nodes, edges,  \* graph.json
  make,      \* bot-make-graph: its clone, and its node files
  update,    \* a feedstock in bot-update-nodes: its clone, and its node file
  gather,    \* bot-feedstocks: the list it makes
  event,     \* the list as a push event saw it, between its two steps
  moves

repository == <<list, node, nodes, edges>>
jobs == <<make, update, gather, event>>
jobsVars == <<github, repository, jobs, moves>>

Idle == [on |-> FALSE]

NoNode == [data |-> "none", archived |-> FALSE]
Real == [data |-> "real", archived |-> FALSE]

JobsInit ==
  /\ github = [f \in Feedstocks |-> IF f \in Settled THEN "active" ELSE "absent"]
  /\ list = github
  /\ node = [n \in Names |-> IF n \in Settled THEN Real ELSE NoNode]
  /\ nodes = Settled /\ edges = {}
  /\ make = Idle /\ gather = Idle
  /\ update = [f \in Changing |-> Idle] /\ event = [f \in Changing |-> Idle]
  /\ moves = 0

Listed(l, s) == {f \in Feedstocks : l[f] = s}

-----------------------------------------------------------------------------
(* try_load_feedstock with mark_not_archived, and deploy *)

Loaded(f, a) ==
  IF f \notin Broken THEN Real
  ELSE IF a.data = "none" THEN [a EXCEPT !.data = "empty"] ELSE a

ArchivedIn(a) == [data |-> IF a.data = "none" THEN "empty" ELSE a.data, archived |-> TRUE]

\* A file the job changed: through the API it is written over whatever is there now, by
\* git that of others is kept if there is a conflict.
Deployed(base, mine, now, byGit) ==
  IF mine = base \/ (byGit /\ now # base) THEN now ELSE mine

-----------------------------------------------------------------------------
(* bot-make-graph *)

CloneForGraph ==
  /\ ~make.on
  /\ make' = [on |-> TRUE, list |-> list, base |-> node]
  /\ UNCHANGED <<github, repository, update, gather, event, moves>>

\* tot_names: the lists, and the node files there are.
Known == {f \in Feedstocks : make.list[f] # "absent"}
           \cup {n \in Names : make.base[n].data # "none"}

WithListed == nodes \cup Listed(make.list, "active")

\* The edges of the nodes that have requirements.
NewEdges ==
  UNION {{<<d, n>> : d \in Needs[n]} :
           n \in {m \in WithListed \cap Feedstocks : make.base[m].data = "real"}}
Dependencies == {e[1] : e \in NewEdges}

\* Mutant of Stubs: a new node gets a file.
NoStubs == {}

\* For these there must be no file, they are loaded by another job.
Stubs == {d \in Known : make.base[d].data = "none"}

AfterEdges ==
  [n \in Names |-> IF n \in Dependencies \ (WithListed \cup Stubs)
                   THEN ArchivedIn(make.base[n]) ELSE make.base[n]]

MakeGraph ==
  /\ make.on
  /\ \E byGit \in BOOLEAN :
       node' = [n \in Names |-> Deployed(make.base[n], AfterEdges[n], node[n], byGit)]
  /\ nodes' = WithListed \cup Dependencies
  /\ edges' = NewEdges
  /\ make' = Idle
  /\ UNCHANGED <<github, list, update, gather, event, moves>>

-----------------------------------------------------------------------------
(* bot-update-nodes: its jobs share the names out between them, so that one does not    *)
(* see another's.                                                                       *)

CloneForUpdate(f) ==
  /\ ~update[f].on
  /\ update' = [update EXCEPT ![f] =
                  [on |-> TRUE, list |-> list[f], base |-> node[f], mine |-> node[f]]]
  /\ UNCHANGED <<github, repository, make, gather, event, moves>>

\* One that is active, as far as the clone knows, is loaded with some probability.
UpdateNode(f) ==
  /\ update[f].on /\ update[f].list = "active"
  /\ update' = [update EXCEPT ![f].mine = Loaded(f, @), ![f].list = "done"]
  /\ UNCHANGED <<github, repository, make, gather, event, moves>>

UpdateArchived(f) ==
  /\ update[f].on /\ update[f].list = "archived"
  /\ update' = [update EXCEPT ![f].mine = ArchivedIn(@), ![f].list = "done"]
  /\ UNCHANGED <<github, repository, make, gather, event, moves>>

DeployUpdate(f) ==
  /\ update[f].on /\ update[f].list # "archived"
  /\ \E byGit \in BOOLEAN :
       node' = [node EXCEPT ![f] = Deployed(update[f].base, update[f].mine, @, byGit)]
  /\ update' = [update EXCEPT ![f] = Idle]
  /\ UNCHANGED <<github, list, nodes, edges, make, gather, event, moves>>

-----------------------------------------------------------------------------
(* bot-feedstocks, and push events *)

Gather ==
  /\ ~gather.on
  /\ gather' = [on |-> TRUE, list |-> github, base |-> list]
  /\ UNCHANGED <<github, repository, make, update, event, moves>>

DeployList ==
  /\ gather.on
  /\ \E byGit \in BOOLEAN : list' = Deployed(gather.base, gather.list, list, byGit)
  /\ gather' = Idle
  /\ UNCHANGED <<github, node, nodes, edges, make, update, event, moves>>

\* _update_feedstocks
EventLists(f) ==
  /\ ~event[f].on /\ github[f] # "absent"
  /\ list' = [list EXCEPT ![f] = github[f]]
  /\ event' = [event EXCEPT ![f] = [on |-> TRUE, list |-> github[f]]]
  /\ UNCHANGED <<github, node, nodes, edges, make, update, gather, moves>>

EventLoads(f) ==
  /\ event[f].on
  /\ node' = [node EXCEPT ![f] = IF event[f].list = "archived"
                                 THEN ArchivedIn(Loaded(f, @)) ELSE Loaded(f, @)]
  /\ event' = [event EXCEPT ![f] = Idle]
  /\ UNCHANGED <<github, list, nodes, edges, make, update, gather, moves>>

\* A job is cancelled, or fails before it deploys.
Dies ==
  /\ \/ make.on /\ make' = Idle /\ UNCHANGED <<update, gather, event>>
     \/ gather.on /\ gather' = Idle /\ UNCHANGED <<make, update, event>>
     \/ \E f \in Changing : /\ event[f].on /\ event' = [event EXCEPT ![f] = Idle]
                            /\ UNCHANGED <<make, update, gather>>
  /\ UNCHANGED <<github, repository, moves>>

Moves(f) ==
  /\ moves < MaxMoves /\ moves' = moves + 1
  /\ github' = [github EXCEPT ![f] = IF @ = "active" THEN "archived" ELSE "active"]
  /\ UNCHANGED <<repository, jobs>>

JobsNext ==
  \/ CloneForGraph \/ MakeGraph \/ Gather \/ DeployList \/ Dies
  \/ \E f \in Changing : \/ CloneForUpdate(f) \/ UpdateNode(f) \/ UpdateArchived(f)
                         \/ DeployUpdate(f) \/ EventLists(f) \/ EventLoads(f) \/ Moves(f)

JobsSpec == JobsInit /\ [][JobsNext]_jobsVars

-----------------------------------------------------------------------------
\* A node that has been loaded is never put back to a stub by the job that makes the
\* graph, if the feedstock was in the list that job saw.
KeepsKnown ==
  \A f \in Feedstocks : MakeGraph /\ make.list[f] # "absent" /\ node[f].data = "real"
                           => node'[f].data = "real"
KnownIsKept == [][KeepsKnown]_jobsVars
=============================================================================
