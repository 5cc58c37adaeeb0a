-------------------------------- MODULE Deploy --------------------------------
(***************************************************************************)
(* deploy.py: at the end of a job, what it has changed in its clone of the *)
(* graph repository goes to the repository, while other jobs commit there. *)
(* Few files are first sent through the GitHub API, one atomic operation   *)
(* each (module GithubApi); when that fails, and for many files, they are  *)
(* committed in batches, merged with what has come in and pushed.          *)
(*                                                                         *)
(* A tree maps each file to "absent" or to a content. The job edits a file *)
(* to "mine" or stages its deletion; the others write "theirs" or delete.  *)
(***************************************************************************)
EXTENDS Integers, FiniteSets

CONSTANTS
  Files,
  GitOnly,      \* the option git_only
  NoPull,       \* the option no_pull
  ApiLimit,     \* more files than that are not sent through the API
  MaxBatch,     \* max_per_batch
  MaxTries,     \* max_tries of pull and push
  MaxOthers,    \* bound: commits of other jobs during the deploy
  MaxFaults     \* bound: requests and pushes that fail by themselves

ASSUME DeployAssumption ==
  /\ GitOnly \in BOOLEAN /\ NoPull \in BOOLEAN
  /\ MaxBatch \in Nat \ {0} /\ MaxTries \in Nat \ {0}
  /\ ApiLimit \in Nat /\ MaxOthers \in Nat /\ MaxFaults \in Nat
  /\ IsFiniteSet(Files)

VARIABLES
  remote, rev,   \* the tree of the graph repository and the number of its commits
  base, seen,    \* the tree last merged or cloned, and its number
  head,          \* the tree of the clone's HEAD
  work,          \* the tree of the clone's directory
  staged,        \* the files whose deletion is in the index
  merging,       \* a merge has stopped at a conflict
  pc,
  add, delete,   \* files_to_add, files_to_delete
  done, again,   \* files_done, files_to_try_again
  tries, pulls,  \* num_try, pull_itr
  others, faults

\* History: the files that have been in the repository as the job wants them, what
\* other jobs have made of each file since the clone, and the job's changes.
VARIABLES shown, contested, wanted

job     == <<base, seen, head, work, staged, merging, add, delete, done, again,
             tries, pulls>>
vars    == <<remote, rev, job, pc, others, faults, shown, contested, wanted>>

Contents == {"absent", "old", "mine", "theirs"}
Trees    == [Files -> Contents]
Wishes   == {"keep", "edit", "delete"}

\* What a file is when the wish is fulfilled.
Fulfils(f, c) ==
  \/ wanted[f] = "edit" /\ c = "mine"
  \/ wanted[f] = "delete" /\ c = "absent"

\* The job has edited and removed files (lazy_json_backends) in a fresh clone.
Init ==
  /\ base \in [Files -> {"absent", "old"}]
  /\ wanted \in [Files -> Wishes]
  /\ \A f \in Files : wanted[f] = "delete" => base[f] = "old"
  /\ remote = base /\ head = base /\ rev = 0 /\ seen = 0
  /\ work = [f \in Files |-> CASE wanted[f] = "keep"   -> base[f]
                               [] wanted[f] = "edit"   -> "mine"
                               [] wanted[f] = "delete" -> "absent"]
  /\ staged = {f \in Files : wanted[f] = "delete"}
  /\ merging = FALSE
  /\ pc = "start"
  /\ add = {} /\ delete = {} /\ done = {} /\ again = {}
  /\ tries = 0 /\ pulls = 0 /\ others = 0 /\ faults = 0
  /\ shown = {} /\ contested = [f \in Files |-> {}]

-----------------------------------------------------------------------------
(* Helpers *)

Fault == faults < MaxFaults /\ faults' = faults + 1

\* The repository's tree becomes t, which is a commit if it is another tree.
Publish(t) ==
  /\ remote' = t
  /\ rev' = IF t = remote THEN rev ELSE rev + 1
  /\ shown' = shown \cup {f \in Files : Fulfils(f, t[f])}

\* git pull -s recursive -X theirs: what the others have changed since the last
\* merge is taken, and wins where both have changed a file.
Incoming == {f \in Files : remote[f] # base[f]}

Merged(t) == [f \in Files |-> IF f \in Incoming THEN remote[f] ELSE t[f]]

\* Edits not yet committed that the merge would have to overwrite: git stops before
\* it begins ("error: Your local changes ... would be overwritten by merge").
\* Deletions are staged, so the batch's commit has taken all of them.
Blocking == {f \in Incoming : work[f] # head[f]}

\* A file that one side has deleted and the other has changed is a conflict.
DeletedByThem(t) == {f \in Incoming : remote[f] = "absent" /\ t[f] \notin {"absent", base[f]}}
DeletedByUs(t)   == {f \in Incoming : t[f] = "absent" /\ remote[f] # "absent" /\ base[f] # "absent"}

\* A merge of the tree t is made: files not committed stay as they are.
Merge(t) ==
  /\ head' = Merged(t)
  /\ work' = [f \in Files |-> IF work[f] = t[f] THEN Merged(t)[f] ELSE work[f]]
  /\ base' = remote /\ seen' = rev
  /\ UNCHANGED merging

\* A merge of the tree t has stopped, and all that follow stop at once.
StopMerge(t) ==
  /\ head' = t
  /\ merging' = TRUE
  /\ UNCHANGED <<work, base, seen>>

\* _pull_changes. `raises` says whether it ends by an exception. What blocks the
\* merge is committed and the merge tried again; what they have deleted and the
\* job has changed is removed; but no more than one of the two is done, and a
\* file the job has deleted and they have changed is never resolved.
PullChanges(raises) ==
  LET saved == [f \in Files |-> IF f \in Blocking THEN work[f] ELSE head[f]] IN
  \/ /\ merging /\ raises
     /\ UNCHANGED <<head, work, base, seen, merging>>
  \/ /\ ~merging /\ Blocking # {}
     /\ raises <=> DeletedByThem(saved) \cup DeletedByUs(saved) # {}
     /\ IF raises THEN StopMerge(saved) ELSE Merge(saved)
  \/ /\ ~merging /\ Blocking = {}
     /\ raises <=> DeletedByUs(head) # {}
     /\ IF raises THEN StopMerge(head) ELSE Merge(head)

-----------------------------------------------------------------------------
(* The deploy *)

\* The files are collected; more than ApiLimit of them go by git.
Start ==
  /\ pc = "start"
  /\ delete' = staged
  /\ add' = {f \in Files : work[f] \notin {"absent", head[f]}}
  /\ pc' = IF GitOnly THEN "git"
           ELSE IF Cardinality(add') + Cardinality(delete') <= ApiLimit THEN "api"
           ELSE "restore"
  /\ again' = {}
  /\ UNCHANGED <<remote, rev, base, seen, head, work, staged, merging, done, tries,
                 pulls, others, faults, shown, contested, wanted>>

\* The file whose turn it is: all those to add come before those to delete.
ApiNext(f) ==
  IF add \subseteq done THEN f \in delete \ done ELSE f \in add \ done

\* push_file_via_gh_api or delete_file_via_gh_api.
ApiWrite(f) ==
  /\ pc = "api"
  /\ ApiNext(f)
  /\ Publish([remote EXCEPT ![f] = work[f]])
  /\ done' = done \cup {f}
  /\ UNCHANGED <<base, seen, head, work, staged, merging, pc, add, delete, again,
                 tries, pulls, others, faults, contested, wanted>>

\* It raises, after it has taken effect or not: do_git_ops. A file to add is put
\* in files_to_try_again, a file to delete is not.
ApiFails(f) ==
  /\ pc = "api"
  /\ ApiNext(f)
  /\ Fault
  /\ \E t \in {remote, [remote EXCEPT ![f] = work[f]]} : Publish(t)
  /\ again' = IF f \in add THEN {f} ELSE {}
  /\ pc' = "restore"
  /\ UNCHANGED <<base, seen, head, work, staged, merging, add, delete, done, tries,
                 pulls, others, contested, wanted>>

ApiDone ==
  /\ pc = "api"
  /\ add \cup delete \subseteq done
  /\ pc' = "apiDone"
  /\ UNCHANGED <<remote, rev, job, others, faults, shown, contested, wanted>>

\* reset_and_restore_file for each file that is done.
Restored ==
  /\ work' = [f \in Files |-> IF f \in done THEN head[f] ELSE work[f]]
  /\ staged' = staged \ done

\* The API has failed, or was not tried.
GoOnWithGit ==
  /\ pc = "restore"
  /\ Restored
  /\ add' = (add \ done) \cup again
  /\ pc' = "git"
  /\ UNCHANGED <<remote, rev, base, seen, head, merging, delete, done, again, tries,
                 pulls, others, faults, shown, contested, wanted>>

\* The API has sent everything.
EndApi ==
  /\ pc = "apiDone"
  /\ Restored
  /\ pc' = IF done # {} /\ ~NoPull THEN "lastPull" ELSE "ended"
  /\ UNCHANGED <<remote, rev, base, seen, head, merging, add, delete, done, again,
                 tries, pulls, others, faults, shown, contested, wanted>>

LastPull ==
  /\ pc = "lastPull"
  /\ \E raises \in BOOLEAN :
       PullChanges(raises) /\ pc' = IF raises THEN "raised" ELSE "ended"
  /\ UNCHANGED <<remote, rev, staged, add, delete, done, again, tries, pulls, others,
                 faults, shown, contested, wanted>>

-----------------------------------------------------------------------------
(* The batches *)

EndGit ==
  /\ pc = "git"
  /\ add = {}
  /\ pc' = "ended"
  /\ UNCHANGED <<remote, rev, job, others, faults, shown, contested, wanted>>

\* Up to MaxBatch files that exist are added and committed, with the deletions
\* that are staged; files that are gone by now are dropped.
Batch ==
  /\ pc = "git"
  /\ \E batch \in SUBSET add :
       LET here == {f \in batch : work[f] # "absent"} IN
       /\ batch # {}
       /\ Cardinality(here) <= MaxBatch
       /\ Cardinality(here) < MaxBatch => batch = add
       /\ add' = add \ batch
       /\ IF here = {}
          THEN pc' = "git" /\ UNCHANGED <<head, staged, pulls, tries>>
          ELSE /\ head' = [f \in Files |-> IF f \in here THEN work[f]
                                           ELSE IF f \in staged THEN "absent"
                                           ELSE head[f]]
               /\ staged' = {}
               /\ tries' = 0 /\ pulls' = 0
               /\ pc' = "pull"
  /\ UNCHANGED <<remote, rev, base, seen, work, merging, delete, done, again, others,
                 faults, shown, contested, wanted>>

\* Two pulls, the second only if the first has not raised.
Pull ==
  /\ pc = "pull"
  /\ \E raises \in BOOLEAN :
       /\ PullChanges(raises)
       /\ pulls' = pulls + 1
       /\ pc' = IF raises \/ pulls' = 2 THEN "push" ELSE "pull"
  /\ UNCHANGED <<remote, rev, staged, add, delete, done, again, tries, others, faults,
                 shown, contested, wanted>>

\* Mutant of Push: the push is forced.
ForcedPush ==
  /\ pc = "push"
  /\ Publish(head)
  /\ base' = head /\ seen' = rev'
  /\ pc' = "git"
  /\ UNCHANGED <<head, work, staged, merging, add, delete, done, again, tries, pulls,
                 others, faults, contested, wanted>>

\* git push: accepted if HEAD has all the commits of the repository.
Push ==
  /\ pc = "push"
  /\ seen = rev
  /\ Publish(head)
  /\ base' = head /\ seen' = rev'
  /\ pc' = "git"
  /\ UNCHANGED <<head, work, staged, merging, add, delete, done, again, tries, pulls,
                 others, faults, contested, wanted>>

\* The push is rejected, or fails: num_try, pull_itr and what is done next.
PushFailed(num, itr, next) ==
  /\ pc = "push"
  /\ IF seen # rev THEN UNCHANGED faults ELSE Fault
  /\ tries' = num /\ pulls' = itr /\ pc' = next
  /\ UNCHANGED <<remote, rev, base, seen, head, work, staged, merging, add, delete,
                 done, again, others, shown, contested, wanted>>

AfterTry(num) == IF num = MaxTries THEN "raised" ELSE "pull"

\* Mutants of PushFails: pushing again without a pull, tries that are not counted,
\* an exhausted batch that is given up in silence.
PushAgain     == PushFailed(tries + 1, 0, IF tries + 1 = MaxTries THEN "raised" ELSE "push")
PushForever   == PushFailed(tries, 0, "pull")
PushGivenUp   == PushFailed(tries + 1, 0, IF tries + 1 = MaxTries THEN "git" ELSE "pull")

\* Try again, and raise after MaxTries.
PushFails == PushFailed(tries + 1, 0, AfterTry(tries + 1))

-----------------------------------------------------------------------------
\* Another job changes or deletes a file.
OtherCommits ==
  /\ others < MaxOthers
  /\ others' = others + 1
  /\ \E f \in Files, c \in {"theirs", "absent"} :
       /\ remote[f] # c
       /\ Publish([remote EXCEPT ![f] = c])
       /\ contested' = [contested EXCEPT ![f] = @ \cup {c}]
  /\ UNCHANGED <<job, pc, faults, wanted>>

Over == pc \in {"ended", "raised"} /\ UNCHANGED vars

Step ==
  \/ Start \/ ApiDone \/ GoOnWithGit \/ EndApi \/ LastPull \/ EndGit \/ Batch \/ Pull
  \/ Push \/ PushFails
  \/ \E f \in Files : ApiWrite(f) \/ ApiFails(f)

Next == Step \/ OtherCommits \/ Over

\* The deploy is a sequential program whose commands have time limits.
Spec == Init /\ [][Next]_vars
FairSpec == Spec /\ WF_vars(Step)

-----------------------------------------------------------------------------
(* Properties *)

TypeOK ==
  /\ {remote, base, head, work} \subseteq Trees
  /\ rev \in Nat /\ seen \in Nat
  /\ merging \in BOOLEAN
  /\ pc \in {"start", "api", "restore", "apiDone", "lastPull", "git", "pull", "push",
             "ended", "raised"}
  /\ {staged, add, delete, done, again, shown} \subseteq SUBSET Files
  /\ tries \in 0..MaxTries /\ pulls \in 0..2
  /\ others \in 0..MaxOthers /\ faults \in 0..MaxFaults
  /\ wanted \in [Files -> Wishes]
  /\ contested \in [Files -> SUBSET {"theirs", "absent"}]

\* The deploy never changes a file of the repository that the job has not
\* changed: merging and pushing whole trees does not bring back an old state.
ForeignKept ==
  [][\A f \in Files : wanted[f] = "keep" /\ remote'[f] # remote[f] => others' # others]_vars

\* A deploy that ends without an exception has had each edited file in the
\* repository, unless another job has written the file since the clone.
EditsDelivered ==
  pc = "ended" => \A f \in Files : wanted[f] = "edit" => f \in shown \/ contested[f] # {}

\* The deploy gives up only over a file that one job has deleted and another has
\* changed (when there are fewer other commits and faults than tries).
RaisedOnlyOverDeletion ==
  pc = "raised" =>
    \E f \in Files :
      \/ wanted[f] = "delete" /\ "theirs" \in contested[f]
      \/ wanted[f] = "edit" /\ "absent" \in contested[f]

\* The deploy comes to an end, whatever the others do.
DeployEnds == <>(pc \in {"ended", "raised"})

\* "git delete via API failed - trying via git CLI": a deploy that ends without
\* an exception has deleted what the job has deleted.
DeletionsDelivered ==
  pc = "ended" => \A f \in Files : wanted[f] = "delete" => f \in shown \/ contested[f] # {}
=============================================================================
