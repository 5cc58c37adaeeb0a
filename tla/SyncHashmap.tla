------------------------------ MODULE SyncHashmap ------------------------------
(***************************************************************************)
(* sync_lazy_json_hashmap and its two callers: the sync of all hashmaps    *)
(* from the primary backend (sync_lazy_json_across_backends), and the one  *)
(* at the end of lazy_json_override_backends. Hashes are listed, keys are  *)
(* deleted and then copied in batches; other jobs write to the database at *)
(* any time, and a backend may fail.                                       *)
(***************************************************************************)
EXTENDS Integers, Sequences, FiniteSets

CONSTANTS
  Source, Dests,   \* the backend that is read, and the sequence of those written
  Maps,            \* the hashmaps, in the order of the sync
  Keys,
  KeysToSync,      \* keys_to_sync; Keys for None
  BatchSize,       \* n_per_batch
  Override,        \* the caller is lazy_json_override_backends
  Shared,          \* the backend other jobs write to
  Archives,        \* pull requests are archived while the sync runs
  MaxWrites,       \* bound: writes of others and of the body
  MaxFailures        \* bound: calls of a backend that fail

Backends == {Source} \cup {Dests[j] : j \in DOMAIN Dests}

SyncConstants ==
  /\ Dests \in Seq(Backends) \ {<<>>} /\ Source \notin {Dests[j] : j \in DOMAIN Dests}
  /\ Maps \in Seq({Maps[m] : m \in DOMAIN Maps}) \ {<<>>}
  /\ KeysToSync \subseteq Keys /\ BatchSize \in Nat \ {0}
  /\ {Override, Archives} \subseteq BOOLEAN /\ Shared \in Backends
  /\ {MaxWrites, MaxFailures} \subseteq Nat

ASSUME SyncAssumption == SyncConstants

\* What a hashmap has for a key: the number of the write, 0 for none, and whether it
\* refers to the object of this key in the next hashmap.
Unset == [n |-> 0, ref |-> FALSE]

VARIABLES
  maps,     \* [backend -> [index of a map -> [key -> value]]]
  current,  \* CF_TICK_GRAPH_DATA_BACKENDS
  phase,
  i, j,     \* map and destination of the sync
  hashes,   \* [Backends -> [key -> value]], as listed
  todo,     \* all_nodes_to_get
  batch,    \* [nodes_to_get -> values]
  writes, failures,
  had,     \* history: what the source had of [map -> [key]] since the sync began
  theirs,   \* history: the last write of others, or what was there first
  late      \* history: the keys <<map, key>> they wrote since the sync began

histories == <<had, theirs, late>>
sync == <<i, j, hashes, todo, batch>>
syncVars == <<maps, current, phase, sync, writes, failures, histories>>

M == DOMAIN Maps
Nothing == [k \in Keys |-> Unset]
Nowhere == [b \in Backends |-> [m \in M |-> Nothing]]

SyncInit ==
  \* What an earlier sync left: the same objects for some of the keys.
  /\ \E here \in [Backends -> SUBSET Keys] :
       maps = [b \in Backends |-> [m \in M |-> [k \in Keys |->
                 IF k \in here[b] THEN [n |-> 1, ref |-> m < Len(Maps)] ELSE Unset]]]
  /\ current = IF Override THEN <<Dests[1], Source>> ELSE <<Source>> \o Dests
  /\ phase = IF Override THEN "enter" ELSE "listSource"
  /\ i = 1 /\ j = 1 /\ hashes = [b \in Backends |-> Nothing] /\ todo = {} /\ batch = <<>>
  /\ writes = 1 /\ failures = 0
  /\ had = [m \in M |-> [k \in Keys |-> {maps[Source][m][k]}]]
  /\ theirs = maps /\ late = {}

PutValue(b, m, k, v) == maps' = [maps EXCEPT ![b][m][k] = v]

Saw(b, m, k, v) ==
  IF b # Source THEN UNCHANGED had
  ELSE had' = [had EXCEPT ![m][k] = IF phase = "body" THEN {v} ELSE @ \cup {v}]

-----------------------------------------------------------------------------
(* Other jobs, with the database *)

Late(ks) == late' = IF phase = "body" THEN {} ELSE late \cup ks

\* The object comes before the reference to it.
OtherWrites ==
  \E m \in M, k \in Keys, ref \in BOOLEAN :
    LET v == [n |-> writes + 1, ref |-> ref]
    IN  /\ writes < MaxWrites /\ writes' = writes + 1
        /\ ref => m < Len(Maps) /\ maps[Shared][m + 1][k] # Unset
        /\ maps[Shared][m][k].ref => ref
        /\ PutValue(Shared, m, k, v) /\ Saw(Shared, m, k, v)
        /\ theirs' = [theirs EXCEPT ![Shared][m][k] = v] /\ Late({<<m, k>>})
        /\ UNCHANGED <<current, phase, sync, failures>>

\* _remove_closed_pr_json, in one transaction: the reference is replaced and the object
\* is removed.
OtherArchives ==
  \E m \in M, k \in Keys :
    LET v == [n |-> writes + 1, ref |-> FALSE]
        new == [maps[Shared] EXCEPT ![m][k] = v, ![m + 1][k] = Unset]
    IN  /\ Archives /\ writes < MaxWrites /\ writes' = writes + 1
        /\ m < Len(Maps) /\ maps[Shared][m][k].ref
        /\ maps' = [maps EXCEPT ![Shared] = new]
        /\ had' = IF Shared # Source THEN had
                   ELSE [had EXCEPT ![m][k] = @ \cup {v}, ![m + 1][k] = @ \cup {Unset}]
        /\ theirs' = [theirs EXCEPT ![Shared] = new] /\ Late({<<m, k>>, <<m + 1, k>>})
        /\ UNCHANGED <<current, phase, sync, failures>>

-----------------------------------------------------------------------------
(* lazy_json_override_backends *)

EnterOverride ==
  /\ phase = "enter" /\ current' = <<Source>> /\ phase' = "body"
  /\ UNCHANGED <<maps, sync, writes, failures, histories>>

\* The body writes and removes keys, its own ones as the callers mean it to.
BodyWrites ==
  \E m \in M, k \in KeysToSync, v \in {Unset, [n |-> writes + 1, ref |-> FALSE]} :
    /\ phase = "body" /\ writes < MaxWrites /\ writes' = writes + 1
    /\ PutValue(Source, m, k, v) /\ Saw(Source, m, k, v)
    /\ UNCHANGED <<current, phase, sync, failures, theirs, late>>

LeaveBody ==
  /\ phase = "body" /\ phase' = "listSource"
  /\ UNCHANGED <<maps, current, sync, writes, failures, histories>>

Restore == current' = IF Override THEN <<Dests[1], Source>> ELSE current

Leave ==
  /\ phase = "restore" /\ phase' = "done" /\ Restore
  /\ UNCHANGED <<maps, sync, writes, failures, histories>>

-----------------------------------------------------------------------------
(* sync_lazy_json_hashmap *)

\* ordered_collections
Hashmap(n) == n

Begin == {"listSource", "listDest", "delete", "pull", "put"}
Stay == UNCHANGED <<current, writes, failures, histories>>

ListSource ==
  /\ phase = "listSource"
  /\ hashes' = [hashes EXCEPT ![Source] = maps[Source][Hashmap(i)]]
  /\ todo' = {} /\ j' = 1 /\ phase' = "listDest"
  /\ UNCHANGED <<maps, i, batch>> /\ Stay

\* Nodes that are not there, or have another hash.
OutOfSync(d, h) == {k \in Keys : h[Source][k] # Unset /\ h[Source][k] # h[d][k]}

ListDest ==
  LET h == [hashes EXCEPT ![Dests[j]] = maps[Dests[j]][Hashmap(i)]]
  IN  /\ phase = "listDest"
      /\ hashes' = h /\ todo' = todo \cup (OutOfSync(Dests[j], h) \cap KeysToSync)
      /\ phase' = "delete"
      /\ UNCHANGED <<maps, i, j, batch>> /\ Stay

ToDelete(d) == {k \in KeysToSync : hashes[d][k] # Unset /\ hashes[Source][k] = Unset}

Delete ==
  /\ phase = "delete"
  /\ maps' = [maps EXCEPT ![Dests[j]][Hashmap(i)] =
                [k \in Keys |-> IF k \in ToDelete(Dests[j]) THEN Unset ELSE @[k]]]
  /\ IF j < Len(Dests) THEN j' = j + 1 /\ phase' = "listDest" ELSE j' = 1 /\ phase' = "pull"
  /\ UNCHANGED <<i, hashes, todo, batch>> /\ Stay

\* The nodes popped from the set.
Batches == {ks \in SUBSET todo : Cardinality(ks) = IF Cardinality(todo) < BatchSize
                                                  THEN Cardinality(todo) ELSE BatchSize}

Values(ks) == [k \in ks |-> maps[Source][Hashmap(i)][k]]

Pull ==
  /\ phase = "pull" /\ todo # {}
  /\ \E ks \in Batches :
       /\ \A k \in ks : maps[Source][Hashmap(i)][k] # Unset
       /\ todo' = todo \ ks /\ batch' = Values(ks)
  /\ phase' = "put"
  /\ UNCHANGED <<maps, i, j, hashes>> /\ Stay

\* Mutant of Sent: one list of destinations is enough.
SentToFirst(d) == DOMAIN batch \cap OutOfSync(Dests[1], hashes)

Sent(d) == DOMAIN batch \cap OutOfSync(d, hashes)

PutBatch ==
  /\ phase = "put"
  /\ maps' = [maps EXCEPT ![Dests[j]][Hashmap(i)] =
                [k \in Keys |-> IF k \in Sent(Dests[j]) THEN batch[k] ELSE @[k]]]
  /\ IF j < Len(Dests) THEN j' = j + 1 /\ phase' = "put" ELSE j' = 1 /\ phase' = "pull"
  /\ UNCHANGED <<i, hashes, todo, batch>> /\ Stay

\* The next hashmap, or the end.
NextMap ==
  /\ phase = "pull" /\ todo = {}
  /\ batch' = <<>>
  /\ IF i < Len(Maps)
     THEN i' = i + 1 /\ phase' = "listSource"
     ELSE UNCHANGED i /\ phase' = IF Override THEN "restore" ELSE "done"
  /\ UNCHANGED <<maps, j, hashes, todo>> /\ Stay

\* An exception of a backend; the restoration is below the sync in the same clause.
Raise == phase' = "raised" /\ UNCHANGED <<current, writes, sync, histories>>

\* A key of the batch is gone.
KeyIsGone ==
  /\ phase = "pull" /\ \E ks \in Batches : \E k \in ks : maps[Source][Hashmap(i)][k] = Unset
  /\ Raise /\ UNCHANGED <<maps, failures>>

\* A call fails, after a part of the keys or before any.
CallFails ==
  /\ phase \in Begin /\ failures < MaxFailures /\ failures' = failures + 1
  /\ \/ UNCHANGED maps
     \/ /\ phase = "put"
        /\ \E ks \in SUBSET Sent(Dests[j]) :
             maps' = [maps EXCEPT ![Dests[j]][Hashmap(i)] =
                        [k \in Keys |-> IF k \in ks THEN batch[k] ELSE @[k]]]
  /\ Raise

SyncNext ==
  \/ OtherWrites \/ OtherArchives
  \/ EnterOverride \/ BodyWrites \/ LeaveBody \/ Leave
  \/ ListSource \/ ListDest \/ Delete \/ Pull \/ PutBatch \/ NextMap
  \/ KeyIsGone \/ CallFails

SyncSpec == SyncInit /\ [][SyncNext]_syncVars

-----------------------------------------------------------------------------
Ended == phase \in {"restore", "done"}

\* A sync that ends leaves in every destination a value the source had while the sync
\* ran, unless another job has written this key of the destination.
FreshWhenDone ==
  Ended => \A b \in DOMAIN maps, m \in DOMAIN had, k \in KeysToSync :
             \/ maps[b][m][k] \in had[m][k]
             \/ b = Shared /\ <<m, k>> \in late
=============================================================================
