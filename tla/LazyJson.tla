------------------------------- MODULE LazyJson -------------------------------
(***************************************************************************)
(* LazyJson objects (lazy_json_backends.py) that stand for one entry of a  *)
(* hashmap, in the processes of several jobs. An object loads the entry    *)
(* from the file cache or the primary backend, keeps it in memory, and     *)
(* writes it back to the cache and to every backend when its `with` block  *)
(* ends, one backend at a time.                                            *)
(*                                                                         *)
(* The dictionary is the set of the edits made to it. A value that is      *)
(* stored is such a set, Missing, or Torn: a file whose writer died.        *)
(***************************************************************************)
EXTENDS Integers, Sequences, FiniteSets

CONSTANTS
  Jobs,         \* the processes
  Objects,      \* the LazyJson objects of all processes
  JobOf,        \* [Objects -> Jobs]
  Edits,        \* the edits, each made at most once
  Stores,       \* what the jobs share: the graph repository, a database
  Disk,         \* stands for the job's own directory
  BackendsOf,   \* [Jobs -> Seq(Backend)]: CF_TICK_GRAPH_DATA_BACKENDS
  UseCache,     \* [Jobs -> BOOLEAN]: CF_TICK_GRAPH_DATA_USE_FILE_CACHE
  MaxMishaps,   \* bound: writes that fail, processes that die
  Missing, Torn, NotLoaded

\* A backend reads and, unless it is read only, writes a store or the disk.
Backend == [store : Stores \cup {Disk}, writes : BOOLEAN]
File    == [store |-> Disk, writes |-> TRUE]

LazyConstants ==
  /\ JobOf \in [Objects -> Jobs]
  /\ UseCache \in [Jobs -> BOOLEAN]
  /\ BackendsOf \in [Jobs -> Seq(Backend)]
  /\ \A j \in Jobs : BackendsOf[j] # <<>>
  /\ MaxMishaps \in Nat
  /\ Disk \notin Stores
  /\ \A d \in SUBSET Edits : d # Missing /\ d # Torn /\ d # NotLoaded
  /\ Cardinality({Missing, Torn, NotLoaded}) = 3

ASSUME LazyAssumption == LazyConstants

VARIABLES
  disk,      \* [Jobs -> Value]: the file of the entry
  store,     \* [Stores -> Value]
  data,      \* [Objects -> sets of edits or NotLoaded]: _data
  hash,      \* [Objects -> a set, Missing (for "") or NotLoaded]: _data_hash_at_load
  open,      \* [Objects -> BOOLEAN]: a `with` block of the object is open
  pos,       \* [Objects -> Nat]: the next write of _dump, 0 outside of it
  used,      \* the edits made so far
  mishaps    \* writes that failed and processes that died so far

\* History: the edits of the blocks that ended well, those committed when the
\* object's block began or its data were loaded before it, whether the data
\* were, and the edits that were stored or committed and that a later write lacks.
VARIABLES committed, seen, peeked, dropped

objects == <<data, hash, open, pos>>
history == <<committed, seen, peeked, dropped>>
lazyVars    == <<disk, store, objects, used, mishaps, history>>


LazyInit ==
  /\ disk = [j \in Jobs |-> Missing]
  /\ store = [s \in Stores |-> Missing]
  /\ data = [o \in Objects |-> NotLoaded]
  /\ hash = data
  /\ open = [o \in Objects |-> FALSE]
  /\ pos = [o \in Objects |-> 0]
  /\ used = {} /\ mishaps = 0
  /\ committed = {} /\ dropped = {}
  /\ seen = [o \in Objects |-> {}] /\ peeked = open

-----------------------------------------------------------------------------
(* Helpers *)

Mishap == mishaps < MaxMishaps /\ mishaps' = mishaps + 1

\* What the entry is a dictionary of; a missing one is empty.
DictOf(v) == IF v \in {Missing, Torn} THEN {} ELSE v

\* What a store holds, or the disk of job j.
Held(j, s) == IF s = Disk THEN disk[j] ELSE store[s]

\* _load takes a cached file before the primary backend.
Cached(j) == UseCache[j] /\ disk[j] # Missing
SourceOf(j) == IF Cached(j) THEN disk[j] ELSE Held(j, Head(BackendsOf[j]).store)

\* What it has loaded is cached, unless the primary backend is the file one.
Caches(j) == UseCache[j] /\ ~Cached(j) /\ Head(BackendsOf[j]) # File

\* What _dump goes through: the cache, then each backend, but the file one is not written
\* a second time.
Targets(j) ==
  LET Backends == BackendsOf[j]
      Rest(b) == IF b = File THEN [File EXCEPT !.writes = FALSE] ELSE b
  IN  IF UseCache[j]
      THEN [n \in 1..(Len(Backends) + 1) |-> IF n = 1 THEN File ELSE Rest(Backends[n - 1])]
      ELSE Backends

\* A process is one thread: while an object writes, the others of its job wait.
Runs(o) == \A p \in Objects : JobOf[p] = JobOf[o] /\ pos[p] # 0 => p = o

\* Mutant of Purge: the data stay in memory.
PurgeNothing(o) == UNCHANGED <<data, hash>>

\* The end of _dump(purge=True).
Purge(o) ==
  /\ data' = [data EXCEPT ![o] = NotLoaded]
  /\ hash' = [hash EXCEPT ![o] = NotLoaded]

-----------------------------------------------------------------------------
(* Operations *)

\* _load, at the first access in a `with` block or outside of any.
Load(o) ==
  LET j == JobOf[o] IN
  /\ Runs(o)
  /\ data[o] = NotLoaded
  /\ SourceOf(j) # Torn
  /\ data' = [data EXCEPT ![o] = DictOf(SourceOf(j))]
  /\ hash' = [hash EXCEPT ![o] = SourceOf(j)]
  /\ disk' = IF Caches(j) THEN [disk EXCEPT ![j] = DictOf(SourceOf(j))] ELSE disk
  /\ seen' = IF open[o] THEN seen ELSE [seen EXCEPT ![o] = committed]
  /\ peeked' = [peeked EXCEPT ![o] = ~open[o]]
  /\ UNCHANGED <<store, open, pos, used, mishaps, committed, dropped>>

\* A torn file does not parse: the access raises, and again in __exit__.
LoadRaises(o) ==
  /\ Runs(o)
  /\ open[o] /\ data[o] = NotLoaded
  /\ SourceOf(JobOf[o]) = Torn
  /\ open' = [open EXCEPT ![o] = FALSE]
  /\ UNCHANGED <<disk, store, data, hash, pos, used, mishaps, history>>

\* __enter__
Enter(o) ==
  /\ Runs(o)
  /\ ~open[o]
  /\ open' = [open EXCEPT ![o] = TRUE]
  /\ seen' = IF peeked[o] THEN seen ELSE [seen EXCEPT ![o] = committed]
  /\ UNCHANGED <<disk, store, data, hash, pos, used, mishaps, committed, peeked, dropped>>

\* __setitem__ and the like, after _load.
Edit(o) ==
  /\ Runs(o)
  /\ open[o] /\ pos[o] = 0
  /\ data[o] # NotLoaded
  /\ \E e \in Edits \ used :
       /\ used' = used \cup {e}
       /\ data' = [data EXCEPT ![o] = @ \cup {e}]
  /\ UNCHANGED <<disk, store, hash, open, pos, mishaps, history>>

\* __exit__ of a block that has changed nothing (_dump loads what is not loaded).
ExitUnchanged(o) ==
  /\ Runs(o)
  /\ open[o] /\ pos[o] = 0
  /\ data[o] # NotLoaded /\ data[o] = hash[o]
  /\ open' = [open EXCEPT ![o] = FALSE]
  /\ Purge(o)
  /\ peeked' = [peeked EXCEPT ![o] = FALSE]
  /\ UNCHANGED <<disk, store, pos, used, mishaps, committed, seen, dropped>>

\* __exit__ of a block that has: the hash is replaced before anything is written.
BeginDump(o) ==
  /\ Runs(o)
  /\ open[o] /\ pos[o] = 0
  /\ data[o] # NotLoaded /\ data[o] # hash[o]
  /\ hash' = [hash EXCEPT ![o] = data[o]]
  /\ pos' = [pos EXCEPT ![o] = 1]
  /\ UNCHANGED <<disk, store, data, open, used, mishaps, history>>

Target(o) == Targets(JobOf[o])[pos[o]]
Writing(o) == pos[o] \in 1..Len(Targets(JobOf[o]))

\* The edits that are lost where b was, when o has been written there.
Loses(o, b) == (committed \cup DictOf(Held(JobOf[o], b.store))) \ data[o]

\* hset of the next backend; those that are read only ignore it.
Write(o) ==
  LET j == JobOf[o] b == Target(o) IN
  /\ Writing(o)
  /\ disk' = IF b = File THEN [disk EXCEPT ![j] = data[o]] ELSE disk
  /\ store' = IF b.writes /\ b # File THEN [store EXCEPT ![b.store] = data[o]] ELSE store
  /\ dropped' = IF b.writes THEN dropped \cup Loses(o, b) ELSE dropped
  /\ pos' = [pos EXCEPT ![o] = @ + 1]
  /\ UNCHANGED <<data, hash, open, used, mishaps, committed, seen, peeked>>

\* hset raises, after it has taken effect or not: __exit__ is left before the purge,
\* the block is over. A file was truncated when it was opened.
WriteFails(o) ==
  LET j == JobOf[o] b == Target(o) IN
  /\ Writing(o) /\ b.writes
  /\ Mishap
  /\ \/ UNCHANGED <<disk, store, dropped>>
     \/ /\ b = File
        /\ disk' = [disk EXCEPT ![j] = Torn]
        /\ UNCHANGED <<store, dropped>>
     \/ /\ b # File
        /\ store' = [store EXCEPT ![b.store] = data[o]]
        /\ dropped' = dropped \cup Loses(o, b)
        /\ UNCHANGED disk
  /\ pos' = [pos EXCEPT ![o] = 0]
  /\ open' = [open EXCEPT ![o] = FALSE]
  /\ peeked' = [peeked EXCEPT ![o] = TRUE]
  /\ UNCHANGED <<data, hash, used, committed, seen>>

\* All is written: the data are purged and the block ends.
EndExit(o) ==
  /\ pos[o] = Len(Targets(JobOf[o])) + 1
  /\ Purge(o)
  /\ pos' = [pos EXCEPT ![o] = 0]
  /\ open' = [open EXCEPT ![o] = FALSE]
  /\ committed' = committed \cup data[o]
  /\ peeked' = [peeked EXCEPT ![o] = FALSE]
  /\ UNCHANGED <<disk, store, used, mishaps, seen, dropped>>

\* The process dies and a new one takes its place, on the same disk or on that
\* of a new runner; a file it was writing is torn.
Crash(j) ==
  LET mine == {o \in Objects : JobOf[o] = j}
      Reset(f, v) == [o \in Objects |-> IF o \in mine THEN v ELSE f[o]]
      tears == \E o \in mine : Writing(o) /\ Target(o) = File
  IN
  /\ Mishap
  /\ disk' \in {disk, [disk EXCEPT ![j] = Missing]}
               \cup (IF tears THEN {[disk EXCEPT ![j] = Torn]} ELSE {})
  /\ data' = Reset(data, NotLoaded)
  /\ hash' = Reset(hash, NotLoaded)
  /\ open' = Reset(open, FALSE)
  /\ pos' = Reset(pos, 0)
  /\ peeked' = Reset(peeked, FALSE)
  /\ UNCHANGED <<store, used, committed, seen, dropped>>

LazyNext ==
  \/ \E o \in Objects :
       \/ Load(o) \/ LoadRaises(o) \/ Enter(o) \/ Edit(o) \/ ExitUnchanged(o) \/ BeginDump(o)
       \/ Write(o) \/ WriteFails(o) \/ EndExit(o)
  \/ \E j \in Jobs : Crash(j)

LazySpec == LazyInit /\ [][LazyNext]_lazyVars

-----------------------------------------------------------------------------
(* Properties *)

\* No update is lost between blocks that do not overlap: what an earlier block
\* has committed is overwritten only by an object whose block had begun before,
\* or that had kept data loaded before its block (or left by a failed write).
KeepsSeen ==
  \A o \in Objects :
    pos[o] # 0 /\ pos'[o] = pos[o] + 1 =>
      (dropped' \ dropped) \cap seen[o] = {}
KeepsEdits == [][KeepsSeen]_lazyVars
=============================================================================
