------------------------------ MODULE AtomicFile ------------------------------
(***************************************************************************)
(* What the callers of GithubAPILazyJsonBackend.hset and hdel (and of      *)
(* push_file_via_gh_api and delete_file_via_gh_api) rely on: an operation  *)
(* overwrites or deletes a file of the graph repository in one step, and   *)
(* returns only after the file has been as it asked at some moment since   *)
(* the call. Until then it may take effect more than once; one that raises *)
(* may have taken effect or not.                                           *)
(***************************************************************************)
CONSTANTS Clients, Contents, Wanted

VARIABLES
  file,      \* what the file holds, one of Contents
  status,    \* [Clients -> {"called", "returned", "raised"}]
  met        \* [Clients -> BOOLEAN]: the file has been as the client asked

vars == <<file, status, met>>

Init ==
  /\ file \in Contents
  /\ status = [c \in Clients |-> "called"]
  /\ met = [c \in Clients |-> FALSE]

TakeEffect(c) ==
  /\ status[c] = "called"
  /\ file' = Wanted[c]
  /\ met' = [met EXCEPT ![c] = TRUE]
  /\ \E s \in {"called", "returned", "raised"} : status' = [status EXCEPT ![c] = s]

\* The file is already as the client wants it.
Observe(c) ==
  /\ status[c] = "called"
  /\ file = Wanted[c]
  /\ met' = [met EXCEPT ![c] = TRUE]
  /\ status' = [status EXCEPT ![c] = "returned"]
  /\ UNCHANGED file

Raise(c) ==
  /\ status[c] = "called"
  /\ status' = [status EXCEPT ![c] = "raised"]
  /\ UNCHANGED <<file, met>>

Next == \E c \in Clients : TakeEffect(c) \/ Observe(c) \/ Raise(c)

Spec == Init /\ [][Next]_vars
=============================================================================
