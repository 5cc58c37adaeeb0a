------------------------------- MODULE GithubApi -------------------------------
(***************************************************************************)
(* Writing one file of the graph repository through the GitHub API: the    *)
(* retry loops of GithubAPILazyJsonBackend.hset and _hdel_one and of       *)
(* push_file_via_gh_api and delete_file_via_gh_api, which are the same. A  *)
(* try reads the content and its blob sha, and writes if the content is    *)
(* not what it should be; GitHub refuses the write if the file no longer   *)
(* has that sha. The sha is a hash of the content, so that the model       *)
(* compares contents.                                                      *)
(***************************************************************************)
EXTENDS Integers

CONSTANTS
  Clients,     \* the calls in progress, of several jobs
  Contents,    \* what the file may hold
  Absent,      \* the content of a file that does not exist
  Wanted,      \* [Clients -> Contents]: Absent for a deletion
  MaxTries,    \* ntries
  MaxFaults    \* bound: requests that fail for another reason than a conflict

ASSUME WantedAssumption == Wanted \in [Clients -> Contents] /\ Absent \in Contents
ASSUME TriesAssumption == MaxTries \in Nat \ {0} /\ MaxFaults \in Nat

VARIABLES
  file,      \* the content in the repository
  pc,        \* [Clients -> {"get", "put", "returned", "raised"}]
  read,      \* [Clients -> Contents]: the content of the try's get_contents
  tries,     \* [Clients -> Nat]: the tries that have failed
  faults

\* History: the commits to the file, and the clients for which it has been as
\* they asked.
VARIABLES commits, met

vars == <<file, pc, read, tries, faults, commits, met>>

Init ==
  /\ file \in Contents
  /\ pc = [c \in Clients |-> "get"]
  /\ read = [c \in Clients |-> Absent]
  /\ tries = [c \in Clients |-> 0]
  /\ faults = 0
  /\ commits = 0
  /\ met = [c \in Clients |-> FALSE]

-----------------------------------------------------------------------------

Fault == faults < MaxFaults /\ faults' = faults + 1

Goto(c, where) == pc' = [pc EXCEPT ![c] = where]

\* Mutants of Again: the sha of the first try is used again; that, and no limit.
AgainSameSha(c) ==
  /\ tries' = [tries EXCEPT ![c] = @ + 1]
  /\ Goto(c, IF tries[c] + 1 < MaxTries THEN "put" ELSE "raised")
AgainForever(c) == Goto(c, "put") /\ UNCHANGED tries

\* The `except` clause: sleep and try again, or raise after the last try.
Again(c) ==
  /\ tries' = [tries EXCEPT ![c] = @ + 1]
  /\ Goto(c, IF tries[c] + 1 < MaxTries THEN "get" ELSE "raised")

\* get_contents; nothing is written if the file is as it should be.
Get(c) ==
  /\ pc[c] = "get"
  /\ read' = [read EXCEPT ![c] = file]
  /\ Goto(c, IF file = Wanted[c] THEN "returned" ELSE "put")
  /\ met' = [met EXCEPT ![c] = @ \/ file = Wanted[c]]
  /\ UNCHANGED <<file, tries, faults, commits>>

Commit(c) ==
  /\ pc[c] = "put"
  /\ file = read[c]
  /\ file' = Wanted[c]
  /\ commits' = commits + 1
  /\ met' = [met EXCEPT ![c] = TRUE]
  /\ UNCHANGED read

\* create_file, update_file or delete_file with the sha of the file.
Put(c) == Commit(c) /\ Goto(c, "returned") /\ UNCHANGED <<tries, faults>>

\* The commit is made, but its answer is lost or late.
PutUnanswered(c) == Commit(c) /\ Fault /\ Again(c)

\* Mutant of PutConflict: the refusal is taken for success.
ConflictIgnored(c) ==
  /\ pc[c] = "put" /\ file # read[c]
  /\ Goto(c, "returned")
  /\ UNCHANGED <<file, read, tries, faults, commits, met>>

\* Another client has written: 409, or 422 for a create_file.
PutConflict(c) ==
  /\ pc[c] = "put" /\ file # read[c]
  /\ Again(c)
  /\ UNCHANGED <<file, read, faults, commits, met>>

\* A request fails and changes nothing.
RequestFails(c) ==
  /\ pc[c] \in {"get", "put"}
  /\ Fault
  /\ Again(c)
  /\ UNCHANGED <<file, read, commits, met>>

Step(c) == Get(c) \/ Put(c) \/ PutUnanswered(c) \/ PutConflict(c) \/ RequestFails(c)

\* All calls are over.
Done == (\A c \in Clients : pc[c] \in {"returned", "raised"}) /\ UNCHANGED vars

Next == (\E c \in Clients : Step(c)) \/ Done

\* Each call runs in a job of its own and takes its next step in the end.
Spec == Init /\ [][Next]_vars

-----------------------------------------------------------------------------
(* Properties *)

TypeOK ==
  /\ file \in Contents
  /\ pc \in [Clients -> {"get", "put", "returned", "raised"}]
  /\ read \in [Clients -> Contents]
  /\ tries \in [Clients -> Nat]
  /\ faults \in Nat /\ commits \in Nat
  /\ met \in [Clients -> BOOLEAN]

\* A call never raises because of a few other writers: each failed try stands
\* for a fault or for a commit made meanwhile, so that MaxTries of them are
\* needed before a call gives up.
ContentionBound ==
  \A c \in Clients : pc[c] = "raised" => commits + faults >= MaxTries

\* The retry loops implement AtomicFile.
Status(c) == IF pc[c] \in {"get", "put"} THEN "called" ELSE pc[c]
Atomic == INSTANCE AtomicFile WITH status <- [c \in Clients |-> Status(c)]
IsAtomicFile == Atomic!Spec
=============================================================================
