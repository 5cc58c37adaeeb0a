----------------------------- MODULE MCGraphData -----------------------------
(* The graph data for TLC: the calls of the GitHub API on one file, LazyJson *)
(* objects (two jobs that share a database and the graph repository, and one *)
(* job with a file cache), and the two syncs of whole hashmaps. `part` says  *)
(* which of them a behaviour is about; the variables of the others rest.     *)
EXTENDS GithubApi, LazyJson, SyncHashmap, TLC

CONSTANTS
  c1, c2, c3, v1, v2, v3,           \* GithubApi
  j1, j2, o1, o2, db, repo, e1, e2, \* LazyJson
  k1, k2, k3                        \* SyncHashmap

VARIABLE part

\* v3 is what another job may have left in the file.
MCContents == {v1, v2, v3, Absent}
MCWanted == c1 :> v1 @@ c2 :> v2 @@ c3 :> Absent

\* Two objects of different jobs, without a file cache.
MCJobOf == o1 :> j1 @@ o2 :> j2
Db   == [store |-> db, writes |-> TRUE]
Repo == [store |-> repo, writes |-> TRUE]
Raw  == [store |-> repo, writes |-> FALSE]
MCBackendsOf == j1 :> <<Db, Repo>> @@ j2 :> <<Db, Repo>>
MCUseCache == j1 :> FALSE @@ j2 :> FALSE

\* One job that caches a database and writes its clone too.
OneJob == INSTANCE LazyJson WITH
  Jobs <- {j1}, JobOf <- o1 :> j1 @@ o2 :> j1,
  BackendsOf <- j1 :> <<Db, Raw, File, Repo>>, UseCache <- j1 :> TRUE

\* sync_lazy_json_across_backends: all keys, to two backends, while others write.
MCDests == <<"file", "copy">>
MCMaps == <<"pr_info", "pr_json">>

\* lazy_json_override_backends: some keys, back to the database.
SyncBack == INSTANCE SyncHashmap WITH
  Source <- "file", Dests <- <<"mongodb">>, Maps <- <<"node_attrs">>,
  Keys <- {k1, k2, k3}, Override <- TRUE, Archives <- FALSE, MaxWrites <- 4, MaxFailures <- 1

ASSUME InstanceAssumptions ==
  OneJob!LazyConstants /\ SyncBack!SyncConstants

-----------------------------------------------------------------------------
MCInit ==
  /\ part \in {"api", "two jobs", "one job", "sync all", "sync back"}
  /\ Init /\ (part # "api" => file = Absent)
  /\ IF part = "two jobs" THEN LazyInit ELSE OneJob!LazyInit
  /\ IF part = "sync all" THEN SyncInit ELSE SyncBack!SyncInit
  /\ part \notin {"sync all", "sync back"} => maps = SyncBack!Nowhere

Api ==
  part = "api" /\ Next /\ UNCHANGED <<part, lazyVars, syncVars>>

LazyObjects ==
  /\ \/ part = "two jobs" /\ LazyNext
     \/ part = "one job" /\ OneJob!LazyNext
  /\ UNCHANGED <<part, vars, syncVars>>

Syncs ==
  /\ \/ part = "sync all" /\ SyncNext
     \/ part = "sync back" /\ SyncBack!SyncNext
  /\ UNCHANGED <<part, vars, lazyVars>>

MCNext == Api \/ LazyObjects \/ Syncs

MCVars == <<part, vars, lazyVars, syncVars>>

MCSpec ==
  /\ MCInit /\ [][MCNext]_MCVars
  /\ \A c \in Clients : WF_vars(part = "api" /\ Step(c))

-----------------------------------------------------------------------------
\* Every call of the API is over in the end, whatever the others write.
EveryCallEnds ==
  part = "api" => \A c \in Clients : <>(pc[c] \in {"returned", "raised"})

\* "syncs any changed data to the other backends as needed" (README.md), "sync
\* changes to all backends" (_dump): after a block that ends without an
\* exception every backend that is written holds the data of the object.
SyncedOnExit ==
  [][part = "two jobs" =>
       \A o \in Objects :
         open[o] /\ ~open'[o] /\ data[o] # NotLoaded /\ mishaps' = mishaps =>
           \A s \in Stores : store[s] = data[o]]_MCVars
=============================================================================
