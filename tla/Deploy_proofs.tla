---------------------------- MODULE Deploy_proofs ----------------------------
(* The deploy, for any number of files, tries and commits of other jobs. *)
EXTENDS Deploy, FiniteSetTheorems, TLAPS

\* The type invariant is inductive with the bounds of the two counters of the loop
\* over push and pull.
Loop ==
  /\ pc = "pull" => pulls < 2
  /\ pc \in {"pull", "push"} => tries < MaxTries

\* The clone knows the tree of the repository exactly when it knows its last commit.
Known == seen <= rev /\ (seen = rev => base = remote)

\* A file that the job does not touch is in the clone what it was when the clone
\* was last merged, and is never sent.
Untouched ==
  \A f \in Files :
    wanted[f] = "keep" =>
      head[f] = base[f] /\ work[f] = base[f] /\ f \notin staged \cup add \cup delete \cup again

\* An edit that nobody contests and that has not been in the repository is in the
\* directory, and is still to be sent or is committed and to be pushed.
Pending(f) == wanted[f] = "edit" /\ contested[f] = {} /\ f \notin shown
Kept ==
  \A f \in Files :
    Pending(f) =>
      /\ remote[f] = base[f] /\ base[f] \in {"absent", "old"}
      /\ work[f] = "mine" /\ head[f] \in {base[f], "mine"}
      /\ f \notin staged \cup delete /\ f \notin done
      /\ pc = "start" \/ f \in add \/ head[f] = "mine"
      /\ head[f] = "mine" => pc \in {"pull", "push", "raised"}
      /\ pc \notin {"apiDone", "lastPull", "ended"}

IInv == TypeOK /\ Loop /\ Known /\ Untouched /\ Kept

LEMMA PublishType ==
  ASSUME TypeOK, NEW t \in Trees, Publish(t)
  PROVE  remote' \in Trees /\ rev' \in Nat /\ shown' \in SUBSET Files
BY DEF Publish, TypeOK

LEMMA MergedType ==
  ASSUME TypeOK, NEW t \in Trees PROVE Merged(t) \in Trees
BY DEF TypeOK, Trees, Merged

\* A pull leaves alone what no other job has changed, whether it raises or not.
LEMMA PullKeeps ==
  ASSUME TypeOK, Known, NEW raises \in BOOLEAN, PullChanges(raises), UNCHANGED <<remote, rev>>
  PROVE  /\ {head', work', base'} \subseteq Trees /\ seen' \in Nat /\ merging' \in BOOLEAN
         /\ Known'
         /\ \A f \in Files :
              head[f] = base[f] /\ work[f] = base[f] =>
                head'[f] = base'[f] /\ work'[f] = base'[f]
         /\ \A f \in Files :
              remote[f] = base[f] =>
                head'[f] = head[f] /\ work'[f] = work[f] /\ base'[f] = base[f]
<1> DEFINE saved == [f \in Files |-> IF f \in Blocking THEN work[f] ELSE head[f]]
<1>1. saved \in Trees /\ head \in Trees
  BY DEF TypeOK, Trees
<1>2. ASSUME NEW t \in {saved, head}, Merge(t) \/ StopMerge(t),
             t = saved \/ Blocking = {}
      PROVE  /\ {head', work', base'} \subseteq Trees /\ seen' \in Nat /\ merging' \in BOOLEAN
             /\ Known'
             /\ \A f \in Files :
                  head[f] = base[f] /\ work[f] = base[f] =>
                    head'[f] = base'[f] /\ work'[f] = base'[f]
             /\ \A f \in Files :
                  remote[f] = base[f] =>
                    head'[f] = head[f] /\ work'[f] = work[f] /\ base'[f] = base[f]
  <2>1. t \in Trees /\ Merged(t) \in Trees
    BY <1>1, MergedType
  <2>2. \A f \in Files : f \notin Blocking => t[f] = head[f]
    BY <1>2
  <2>3. CASE Merge(t)
    <3>1. /\ {head', work', base'} \subseteq Trees /\ seen' \in Nat /\ merging' \in BOOLEAN
          /\ Known'
      BY <2>1, <2>3 DEF Merge, TypeOK, Trees, Known
    <3>2. ASSUME NEW f \in Files, head[f] = base[f] /\ work[f] = base[f]
          PROVE  head'[f] = base'[f] /\ work'[f] = base'[f]
      BY <2>2, <2>3, <3>2 DEF Merge, Merged, Incoming, Blocking
    <3>3. ASSUME NEW f \in Files, remote[f] = base[f]
          PROVE  head'[f] = head[f] /\ work'[f] = work[f] /\ base'[f] = base[f]
      BY <2>2, <2>3, <3>3 DEF Merge, Merged, Incoming, Blocking
    <3> QED BY <3>1, <3>2, <3>3
  <2>4. CASE StopMerge(t)
    <3>1. /\ {head', work', base'} \subseteq Trees /\ seen' \in Nat /\ merging' \in BOOLEAN
          /\ Known'
      BY <2>1, <2>4 DEF StopMerge, TypeOK, Known
    <3>2. ASSUME NEW f \in Files, remote[f] = base[f] \/ head[f] = work[f]
          PROVE  head'[f] = head[f]
      BY <2>2, <2>4, <3>2 DEF StopMerge, Incoming, Blocking
    <3> QED BY <2>4, <3>1, <3>2 DEF StopMerge
  <2> QED BY <1>2, <2>3, <2>4
<1>3. CASE UNCHANGED <<head, work, base, seen, merging>>
  BY <1>3 DEF TypeOK, Known
<1> QED BY <1>2, <1>3 DEF PullChanges
\* What is published is a new commit, or nothing; what has been shown stays shown.
LEMMA PublishKeeps ==
  ASSUME TypeOK, Known, NEW t \in Trees, Publish(t)
  PROVE  /\ remote' = t /\ rev <= rev' /\ (t # remote => rev < rev')
         /\ shown \subseteq shown' /\ \A f \in Files : Fulfils(f, t[f]) => f \in shown'
BY DEF Publish, TypeOK, Known

\* A commit that the clone does not pull makes it lag behind.
LEMMA CommitKnown ==
  ASSUME TypeOK, Known, NEW t \in Trees, Publish(t), UNCHANGED <<base, seen>>
  PROVE  Known'
<1>1. CASE t = remote
  BY <1>1 DEF Publish, Known
<1>2. CASE t # remote
  BY <1>2 DEF Publish, Known, TypeOK
<1> QED BY <1>1, <1>2

LEMMA InitInv == Init => IInv
<1> SUFFICES ASSUME Init PROVE IInv
  OBVIOUS
<1>1. base \in Trees /\ work \in Trees
  BY DEF Init, Trees, Contents, Wishes
<1>2. TypeOK
  <2>1. {remote, base, head, work} \subseteq Trees /\ wanted \in [Files -> Wishes]
    BY <1>1 DEF Init
  <2>2. contested \in [Files -> SUBSET {"theirs", "absent"}]
    BY DEF Init
  <2>3. {staged, add, delete, done, again, shown} \subseteq SUBSET Files
    BY DEF Init
  <2>4. tries \in 0..MaxTries /\ pulls \in 0..2
    BY DeployAssumption DEF Init
  <2>5. others \in 0..MaxOthers /\ faults \in 0..MaxFaults
    BY DeployAssumption DEF Init
  <2>6. rev \in Nat /\ seen \in Nat /\ merging \in BOOLEAN /\ pc = "start"
    BY DEF Init
  <2> QED BY <2>1, <2>2, <2>3, <2>4, <2>5, <2>6 DEF TypeOK
<1>3. Loop /\ Known
  BY DEF Init, Loop, Known
<1>4. Untouched /\ Kept
  BY DEF Init, Untouched, Kept, Pending
<1> QED BY <1>2, <1>3, <1>4 DEF IInv

LEMMA StartInv == IInv /\ Start => IInv'
<1> SUFFICES ASSUME IInv, Start PROVE IInv'
  OBVIOUS
<1> USE DEF IInv
<1>1. pc' \in {"git", "api", "restore"}
  BY DEF Start
<1>2. TypeOK' /\ Loop' /\ Known'
  BY <1>1 DEF Start, TypeOK, Loop, Known
<1>3. Untouched'
  BY DEF Start, Untouched
<1>4. Kept'
  BY <1>1 DEF Start, Kept, Pending
<1> QED BY <1>2, <1>3, <1>4

LEMMA ApiInv ==
  ASSUME IInv, NEW f \in Files, ApiWrite(f) \/ ApiFails(f)
  PROVE  IInv'
<1> USE DEF IInv
<1>1. PICK t \in {remote, [remote EXCEPT ![f] = work[f]]} :
         Publish(t) /\ (ApiWrite(f) => t = [remote EXCEPT ![f] = work[f]])
  BY DEF ApiWrite, ApiFails
<1>2. t \in Trees /\ f \in add \cup delete
  BY DEF TypeOK, Trees, ApiWrite, ApiFails, ApiNext
<1>3. /\ UNCHANGED <<base, seen, head, work, staged, merging, add, delete, tries, pulls,
                      others, contested, wanted>>
      /\ pc = "api" /\ pc' \in {"api", "restore"} /\ faults' \in 0..MaxFaults
      /\ done' \in {done, done \cup {f}} /\ again' \in {again, {}, {f}}
      /\ f \in again' \ again => f \in add
      /\ done' # done => t = [remote EXCEPT ![f] = work[f]]
  BY <1>1, DeployAssumption DEF ApiWrite, ApiFails, Fault, TypeOK
<1>4. TypeOK' /\ Loop'
  BY <1>1, <1>2, <1>3, PublishType DEF TypeOK, Loop
<1>5. Known'
  BY <1>1, <1>2, <1>3, CommitKnown
<1>6. Untouched'
  BY <1>2, <1>3 DEF Untouched
<1>7. ASSUME NEW g \in Files, Pending(g)'
      PROVE  Pending(g) /\ remote'[g] = remote[g] /\ g \notin done'
  <2>1. Pending(g)
    BY <1>1, <1>2, <1>3, <1>7, PublishKeeps DEF Pending
  <2>2. CASE g # f
    BY <1>1, <1>2, <1>3, <2>1, <2>2, PublishKeeps DEF TypeOK, Trees, Kept
  <2>3. CASE g = f /\ t = remote
    BY <1>1, <1>2, <1>3, <2>1, <2>3, PublishKeeps DEF TypeOK, Trees, Kept, Pending, Fulfils
  <2>4. CASE g = f /\ t = [remote EXCEPT ![f] = work[f]]
    <3>1. t[f] = "mine" /\ wanted[f] = "edit"
      BY <2>1, <2>4 DEF Kept, Pending, TypeOK, Trees
    <3>2. f \in shown'
      BY <1>1, <1>2, <3>1, PublishKeeps DEF Fulfils
    <3> QED BY <3>2, <2>4, <1>7 DEF Pending
  <2> QED BY <1>1, <2>2, <2>3, <2>4
<1>8. Kept'
  BY <1>3, <1>7 DEF Kept
<1> QED BY <1>4, <1>5, <1>6, <1>8

LEMMA AfterApiInv == IInv /\ (ApiDone \/ GoOnWithGit \/ EndApi \/ EndGit) => IInv'
<1> SUFFICES ASSUME IInv, ApiDone \/ GoOnWithGit \/ EndApi \/ EndGit PROVE IInv'
  OBVIOUS
<1> USE DEF IInv
<1>1. CASE ApiDone
  BY <1>1 DEF ApiDone, TypeOK, Loop, Known, Untouched, Kept, Pending, job
<1>2. CASE GoOnWithGit
  <2>1. TypeOK' /\ Loop' /\ Known'
    BY <1>2 DEF GoOnWithGit, Restored, TypeOK, Trees, Loop, Known
  <2>2. Untouched'
    BY <1>2 DEF GoOnWithGit, Restored, Untouched
  <2>3. Kept'
    BY <1>2 DEF GoOnWithGit, Restored, Kept, Pending
  <2> QED BY <2>1, <2>2, <2>3
<1>3. CASE EndApi
  <2>1. TypeOK' /\ Loop' /\ Known'
    BY <1>3 DEF EndApi, Restored, TypeOK, Trees, Loop, Known
  <2>2. Untouched'
    BY <1>3 DEF EndApi, Restored, Untouched
  <2>3. Kept'
    BY <1>3 DEF EndApi, Restored, Kept, Pending
  <2> QED BY <2>1, <2>2, <2>3
<1>4. CASE EndGit
  BY <1>4 DEF EndGit, TypeOK, Loop, Known, Untouched, Kept, Pending, job
<1> QED BY <1>1, <1>2, <1>3, <1>4

LEMMA BatchInv == IInv /\ Batch => IInv'
<1> SUFFICES ASSUME IInv, Batch PROVE IInv'
  OBVIOUS
<1> USE DEF IInv
<1>1. PICK batch \in SUBSET add :
        /\ add' = add \ batch
        /\ IF {f \in batch : work[f] # "absent"} = {}
           THEN pc' = "git" /\ UNCHANGED <<head, staged, pulls, tries>>
           ELSE /\ head' = [f \in Files |-> IF f \in {g \in batch : work[g] # "absent"} THEN work[f]
                                            ELSE IF f \in staged THEN "absent" ELSE head[f]]
                /\ staged' = {} /\ tries' = 0 /\ pulls' = 0 /\ pc' = "pull"
  BY DEF Batch
<1>2. /\ pc = "git"
      /\ UNCHANGED <<remote, rev, base, seen, work, merging, delete, done, again, others,
                     faults, shown, contested, wanted>>
  BY DEF Batch
<1>3. TypeOK' /\ Loop' /\ Known'
  BY <1>1, <1>2, DeployAssumption DEF TypeOK, Trees, Contents, Loop, Known
<1>4. Untouched'
  BY <1>1, <1>2 DEF Untouched
<1>5. Kept'
  BY <1>1, <1>2 DEF Kept, Pending
<1> QED BY <1>3, <1>4, <1>5

LEMMA PullInv == IInv /\ (Pull \/ LastPull) => IInv'
<1> SUFFICES ASSUME IInv, Pull \/ LastPull PROVE IInv'
  OBVIOUS
<1> USE DEF IInv
<1>1. PICK raises \in BOOLEAN : PullChanges(raises)
  BY DEF Pull, LastPull
<1>2. /\ UNCHANGED <<remote, rev, staged, add, delete, done, again, tries, others, faults,
                     shown, contested, wanted>>
      /\ \/ pc = "pull" /\ pc' \in {"push", "pull"}
         \/ pc = "lastPull" /\ pc' \in {"raised", "ended"}
      /\ pulls' \in 0..2 /\ (pc' = "pull" => pulls' < 2)
  <2>1. CASE Pull
    <3>1. pc = "pull" /\ pulls' = pulls + 1 /\ pulls \in 0..2 /\ pulls < 2
      BY <2>1 DEF Pull, TypeOK, Loop
    <3>2. pc' \in {"push", "pull"} /\ (pc' = "pull" => pulls' # 2)
      BY <2>1 DEF Pull
    <3> QED BY <2>1, <3>1, <3>2 DEF Pull
  <2>2. CASE LastPull
    BY <2>2 DEF LastPull, TypeOK
  <2> QED BY <2>1, <2>2
<1>3. /\ {head', work', base'} \subseteq Trees /\ seen' \in Nat /\ merging' \in BOOLEAN
      /\ Known'
      /\ \A f \in Files :
           head[f] = base[f] /\ work[f] = base[f] =>
             head'[f] = base'[f] /\ work'[f] = base'[f]
      /\ \A f \in Files :
           remote[f] = base[f] =>
             head'[f] = head[f] /\ work'[f] = work[f] /\ base'[f] = base[f]
  BY <1>1, <1>2, PullKeeps
<1>4. TypeOK' /\ Loop'
  BY <1>2, <1>3 DEF TypeOK, Loop
<1>5. Untouched'
  BY <1>2, <1>3 DEF Untouched
<1>6. Kept'
  BY <1>2, <1>3 DEF Kept, Pending
<1> QED BY <1>3, <1>4, <1>5, <1>6

LEMMA PushInv == IInv /\ (Push \/ PushFails) => IInv'
<1> SUFFICES ASSUME IInv, Push \/ PushFails PROVE IInv'
  OBVIOUS
<1> USE DEF IInv
<1>1. CASE Push
  <2>1. head \in Trees /\ Publish(head)
    BY <1>1 DEF Push, TypeOK
  <2>2. TypeOK' /\ Loop' /\ Known'
    BY <1>1, <2>1, PublishType, PublishKeeps DEF Push, TypeOK, Loop, Known
  <2>3. Untouched'
    BY <1>1 DEF Push, Untouched
  <2>4. \A f \in Files : Pending(f)' => Pending(f) /\ head[f] # "mine"
    BY <1>1, <2>1, PublishKeeps DEF Push, Pending, Fulfils
  <2>5. Kept'
    BY <1>1, <2>1, <2>4, PublishKeeps DEF Push, Kept
  <2> QED BY <2>2, <2>3, <2>5
<1>2. CASE PushFails
  <2>1. faults' \in 0..MaxFaults
    BY <1>2, DeployAssumption DEF PushFails, PushFailed, Fault, TypeOK
  <2>2. TypeOK' /\ Loop' /\ Known'
    BY <1>2, <2>1, DeployAssumption DEF PushFails, PushFailed, AfterTry, TypeOK, Loop, Known
  <2>3. Untouched'
    BY <1>2 DEF PushFails, PushFailed, Untouched
  <2>4. Kept'
    BY <1>2 DEF PushFails, PushFailed, AfterTry, Kept, Pending
  <2> QED BY <2>2, <2>3, <2>4
<1> QED BY <1>1, <1>2

LEMMA OthersInv == IInv /\ OtherCommits => IInv'
<1> SUFFICES ASSUME IInv, OtherCommits PROVE IInv'
  OBVIOUS
<1> USE DEF IInv
<1>1. PICK f \in Files, c \in {"theirs", "absent"} :
        /\ remote[f] # c /\ Publish([remote EXCEPT ![f] = c])
        /\ contested' = [contested EXCEPT ![f] = @ \cup {c}]
  BY DEF OtherCommits
<1>2. [remote EXCEPT ![f] = c] \in Trees
  BY DEF TypeOK, Trees, Contents
<1>3. others' \in 0..MaxOthers /\ UNCHANGED <<job, pc, faults, wanted>>
  BY DeployAssumption DEF OtherCommits, TypeOK
<1>4. TypeOK'
  BY <1>1, <1>2, <1>3, PublishType DEF TypeOK, job
<1>5. Loop' /\ Untouched'
  BY <1>3 DEF Loop, Untouched, job
<1>8. Known'
  BY <1>1, <1>2, <1>3, CommitKnown DEF job
<1>6. \A g \in Files : Pending(g)' => Pending(g) /\ g # f /\ remote'[g] = remote[g]
  BY <1>1, <1>2, <1>3, PublishKeeps DEF Pending, TypeOK, Trees
<1>7. Kept'
  BY <1>3, <1>6 DEF Kept, job
<1> QED BY <1>4, <1>5, <1>7, <1>8

LEMMA Invariant == Spec => []IInv
<1>1. IInv /\ [Next]_vars => IInv'
  <2> SUFFICES ASSUME IInv, [Next]_vars PROVE IInv'
    OBVIOUS
  <2>1. CASE UNCHANGED vars
    BY <2>1 DEF vars, job, IInv, TypeOK, Loop, Known, Untouched, Kept, Pending
  <2> QED BY <2>1, StartInv, ApiInv, AfterApiInv, BatchInv, PullInv, PushInv, OthersInv DEF Next, Step, Over
<1> QED BY <1>1, InitInv, PTL DEF Spec

THEOREM DeployTypeOK == Spec => []TypeOK
BY Invariant, PTL DEF IInv

\* A deploy that ends without an exception has had each edit in the repository,
\* unless another job has written the file.
THEOREM DeployEditsDelivered == Spec => []EditsDelivered
<1>1. IInv => EditsDelivered
  BY DEF IInv, Kept, Pending, EditsDelivered
<1> QED BY <1>1, Invariant, PTL

\* The deploy changes no file of the repository that the job has not changed.
THEOREM DeployForeignKept == Spec => ForeignKept
<1>1. IInv /\ [Next]_vars =>
        \A f \in Files : wanted[f] = "keep" /\ remote'[f] # remote[f] => others' # others
  <2> SUFFICES ASSUME IInv, [Next]_vars, NEW f \in Files, wanted[f] = "keep",
                      remote'[f] # remote[f]
               PROVE  others' # others
    OBVIOUS
  <2>1. ASSUME NEW g \in Files, ApiWrite(g) \/ ApiFails(g) PROVE FALSE
    <3>1. g # f
      BY <2>1 DEF IInv, Untouched, ApiWrite, ApiFails, ApiNext
    <3> QED BY <2>1, <3>1 DEF ApiWrite, ApiFails, Publish, IInv, TypeOK, Trees
  <2>2. CASE Push
    BY <2>2 DEF Push, Publish, IInv, Known, Untouched
  <2>3. CASE OtherCommits
    BY <2>3 DEF OtherCommits, IInv, TypeOK
  <2> QED BY <2>1, <2>2, <2>3 DEF Next, Step, Over, Start, ApiDone, GoOnWithGit, EndApi, LastPull,
        EndGit, Batch, Pull, PushFails, PushFailed, vars
<1> QED BY <1>1, Invariant, PTL DEF Spec, ForeignKept

-----------------------------------------------------------------------------
(* Why a deploy gives up *)

\* One job has deleted a file that another has changed.
Excuse ==
  \E f \in Files :
    \/ wanted[f] = "delete" /\ "theirs" \in contested[f]
    \/ wanted[f] = "edit" /\ "absent" \in contested[f]

\* What the clone has made of a file is what it was when the clone was last merged
\* or what the job wants; what it was since may be committed and not in the directory.
Wished ==
  \A f \in Files :
    /\ wanted[f] = "edit" =>
         head[f] \in {base[f], "mine"} /\ work[f] \in {head[f], "mine"} /\ f \notin staged
    /\ wanted[f] = "delete" =>
         /\ head[f] \in {base[f], "absent"} /\ work[f] \in {head[f], "absent"}
         /\ (f \in staged => work[f] = "absent" \/ pc \in {"lastPull", "ended", "raised"})
    /\ pc \in {"pull", "push"} => f \notin staged

\* What is new in the repository since then, another job has written or this one.
Attributed ==
  \A f \in Files : remote[f] \in {base[f]} \cup contested[f] \/ Fulfils(f, remote[f])

\* Each failed try has used up a fault or the commit of another job, and a push that
\* will be rejected is about to.
Counted ==
  /\ pc # "raised"
  /\ pc \in {"pull", "push"} => tries <= faults + others
  /\ pc = "push" /\ seen # rev => tries < faults + others

RInv == Wished /\ Attributed /\ (Excuse \/ (~merging /\ Counted))

\* A tree made of the clone's files conflicts with what has come in only where there is
\* an excuse.
LEMMA ConflictIsExcused ==
  ASSUME IInv, Wished, Attributed, NEW t, \A f \in Files : t[f] \in {head[f], work[f]},
         DeletedByThem(t) \cup DeletedByUs(t) # {}
  PROVE  Excuse
<1>1. PICK f \in Incoming : f \in DeletedByThem(t) \cup DeletedByUs(t)
  BY DEF DeletedByThem, DeletedByUs
<1>2. f \in Files /\ remote[f] # base[f] /\ wanted[f] \in Wishes /\ t[f] \in {head[f], work[f]}
  BY <1>1 DEF Incoming, IInv, TypeOK
<1>3. wanted[f] # "keep"
  BY <1>1, <1>2 DEF DeletedByThem, DeletedByUs, IInv, Untouched
<1>4. CASE wanted[f] = "edit"
  <2>1. remote[f] = "absent"
    BY <1>1, <1>2, <1>4 DEF DeletedByThem, DeletedByUs, Wished
  <2>2. "absent" \in contested[f]
    BY <1>2, <1>4, <2>1 DEF Attributed, Fulfils
  <2> QED BY <1>2, <1>4, <2>2 DEF Excuse
<1>5. CASE wanted[f] = "delete"
  <2>1. remote[f] # "absent"
    BY <1>1, <1>2, <1>5 DEF DeletedByThem, DeletedByUs, Wished
  <2>2. remote[f] \in contested[f] /\ contested[f] \subseteq {"theirs", "absent"}
    BY <1>2, <1>5, <2>1 DEF Attributed, Fulfils, IInv, TypeOK
  <2> QED BY <1>2, <1>5, <2>1, <2>2 DEF Excuse
<1> QED BY <1>2, <1>3, <1>4, <1>5 DEF Wishes

\* A pull raises only with an excuse, and brings the clone up to date otherwise.
LEMMA PullExcused ==
  ASSUME IInv, Wished, Attributed, NEW raises \in BOOLEAN, PullChanges(raises),
         UNCHANGED <<remote, staged, contested, wanted>>,
         pc \in {"pull", "lastPull"}, pc' \in {"pull", "push", "ended", "raised"},
         pc = "lastPull" => pc' \in {"ended", "raised"}
  PROVE  /\ Wished' /\ Attributed'
         /\ Excuse \/ merging \/ (~raises /\ ~merging' /\ seen' = rev)
<1> DEFINE saved == [f \in Files |-> IF f \in Blocking THEN work[f] ELSE head[f]]
<1>0. /\ \A f \in Files : saved[f] \in {head[f], work[f]} /\ head[f] \in {head[f], work[f]}
      /\ \A f \in Files : f \notin Blocking => saved[f] = head[f]
  OBVIOUS
<1>1. ASSUME NEW t \in {saved, head}, Merge(t), t = saved \/ Blocking = {}
      PROVE  Wished' /\ Attributed' /\ seen' = rev /\ merging' = merging
  <2>1. ASSUME NEW f \in Files
        PROVE  /\ base'[f] = remote[f]
               /\ head'[f] = IF f \in Incoming THEN remote[f] ELSE t[f]
               /\ work'[f] = IF work[f] = t[f] THEN head'[f] ELSE work[f]
               /\ t[f] \in {head[f], work[f]}
               /\ f \notin Incoming => remote[f] = base[f]
               /\ f \in Incoming => work[f] = t[f]
    <3>1. t[f] \in {head[f], work[f]} /\ (f \in Incoming => work[f] = t[f])
      BY <1>0, <1>1 DEF Blocking
    <3> QED BY <1>1, <3>1 DEF Merge, Merged, Incoming
  <2>2. Wished'
    BY <2>1 DEF Wished
  <2>3. Attributed'
    BY <2>1 DEF Attributed, Fulfils
  <2> QED BY <1>1, <2>2, <2>3 DEF Merge
<1>2. ASSUME NEW t \in {saved, head}, StopMerge(t)
      PROVE  Wished' /\ Attributed'
  <2>1. \A f \in Files : t[f] \in {head[f], work[f]}
    BY <1>0, <1>2
  <2>2. head' = t /\ UNCHANGED <<work, base>>
    BY <1>2 DEF StopMerge
  <2>3. Wished'
    <3> SUFFICES ASSUME NEW f \in Files
                 PROVE  /\ wanted[f] = "edit" =>
                             /\ t[f] \in {base[f], "mine"} /\ work[f] \in {t[f], "mine"}
                             /\ f \notin staged
                        /\ wanted[f] = "delete" =>
                             /\ t[f] \in {base[f], "absent"} /\ work[f] \in {t[f], "absent"}
                             /\ (f \in staged =>
                                   work[f] = "absent" \/ pc' \in {"lastPull", "ended", "raised"})
                        /\ pc' \in {"pull", "push"} => f \notin staged
      BY <2>2 DEF Wished
    <3> QED BY <2>1 DEF Wished
  <2> QED BY <2>2, <2>3 DEF Attributed, Fulfils
<1>3. CASE merging /\ UNCHANGED <<head, work, base>>
  BY <1>3 DEF Wished, Attributed, Fulfils
<1>4. CASE merging /\ raises /\ UNCHANGED <<head, work, base, seen, merging>>
  BY <1>3, <1>4
<1>5. CASE ~merging /\ Blocking # {}
  <2>1. /\ raises <=> DeletedByThem(saved) \cup DeletedByUs(saved) # {}
        /\ IF raises THEN StopMerge(saved) ELSE Merge(saved)
    BY <1>5 DEF PullChanges
  <2>2. CASE raises
    BY <1>0, <1>2, <2>1, <2>2, ConflictIsExcused
  <2>3. CASE ~raises
    BY <1>1, <1>5, <2>1, <2>3
  <2> QED BY <2>2, <2>3
<1>6. CASE ~merging /\ Blocking = {}
  <2>1. /\ raises <=> DeletedByUs(head) # {}
        /\ IF raises THEN StopMerge(head) ELSE Merge(head)
    BY <1>6 DEF PullChanges
  <2>2. CASE raises
    BY <1>0, <1>2, <2>1, <2>2, ConflictIsExcused
  <2>3. CASE ~raises
    BY <1>1, <1>6, <2>1, <2>3
  <2> QED BY <2>2, <2>3
<1> QED BY <1>4, <1>5, <1>6 DEF PullChanges

LEMMA InitReasons == Init => RInv
<1> SUFFICES ASSUME Init PROVE RInv
  OBVIOUS
<1>1. Wished
  BY DEF Init, Wished
<1>2. Attributed /\ ~merging /\ Counted
  BY DEF Init, Attributed, Counted
<1> QED BY <1>1, <1>2 DEF RInv

\* Excuses do not go away.
LEMMA ExcuseStays ==
  ASSUME IInv, Excuse, wanted' = wanted,
         \A f \in Files : contested[f] \subseteq contested'[f]
  PROVE  Excuse'
BY DEF Excuse

\* Steps before the loop over pull and push, and after it.
LEMMA OutsideReasons ==
  ASSUME IInv, RInv, Start \/ ApiDone \/ GoOnWithGit \/ EndApi \/ EndGit \/ Batch
  PROVE  RInv'
<1>1. /\ UNCHANGED <<remote, rev, base, seen, merging, others, faults, contested, wanted>>
      /\ pc' \notin {"push", "raised"}
      /\ pc' = "pull" => tries' = 0
  BY DEF Start, ApiDone, GoOnWithGit, EndApi, EndGit, Batch, job
<1>2. Wished'
  <2>1. CASE Start
    BY <2>1 DEF RInv, Start, Wished
  <2>2. CASE ApiDone \/ EndGit
    BY <2>2 DEF RInv, ApiDone, EndGit, job, Wished
  <2>3. CASE GoOnWithGit
    BY <2>3 DEF RInv, GoOnWithGit, Restored, Wished
  <2>4. CASE EndApi
    BY <2>4 DEF RInv, EndApi, Restored, Wished
  <2>5. CASE Batch
    <3>1. PICK batch \in SUBSET add :
            IF {f \in batch : work[f] # "absent"} = {}
            THEN pc' = "git" /\ UNCHANGED <<head, staged>>
            ELSE /\ head' = [f \in Files |-> IF f \in {g \in batch : work[g] # "absent"} THEN work[f]
                                             ELSE IF f \in staged THEN "absent" ELSE head[f]]
                 /\ staged' = {} /\ pc' = "pull"
      BY <2>5 DEF Batch
    <3>2. pc = "git" /\ UNCHANGED <<base, work, wanted>>
      BY <2>5 DEF Batch
    <3> QED BY <3>1, <3>2 DEF RInv, Wished
  <2> QED BY <2>1, <2>2, <2>3, <2>4, <2>5
<1>3. Attributed' /\ (Excuse => Excuse')
  BY <1>1 DEF RInv, Attributed, Fulfils, Excuse
<1>4. Counted => Counted'
  BY <1>1 DEF Counted, IInv, TypeOK
<1> QED BY <1>1, <1>2, <1>3, <1>4 DEF RInv

LEMMA ApiReasons ==
  ASSUME IInv, RInv, NEW f \in Files, ApiWrite(f) \/ ApiFails(f)
  PROVE  RInv'
<1>1. PICK t \in {remote, [remote EXCEPT ![f] = work[f]]} : Publish(t)
  BY DEF ApiWrite, ApiFails
<1>2. /\ UNCHANGED <<base, head, work, staged, merging, tries, others, contested, wanted>>
      /\ pc = "api" /\ pc' \in {"api", "restore"} /\ f \in add \cup delete
  BY DEF ApiWrite, ApiFails, ApiNext
<1>3. Wished' /\ (Excuse => Excuse') /\ (Counted => Counted')
  BY <1>2 DEF RInv, Wished, Excuse, Counted
<1>4. wanted[f] \in {"edit", "delete"}
  BY <1>2 DEF IInv, Untouched, TypeOK, Wishes
<1>5. work[f] = base[f] \/ Fulfils(f, work[f])
  BY <1>4 DEF RInv, Wished, Fulfils
<1>6. Attributed'
  BY <1>1, <1>2, <1>5 DEF RInv, Attributed, Fulfils, Publish, IInv, TypeOK, Trees
<1> QED BY <1>2, <1>3, <1>6 DEF RInv

LEMMA PullReasons ==
  ASSUME IInv, IInv', RInv, Pull \/ LastPull
  PROVE  RInv'
<1>1. PICK raises \in BOOLEAN :
        /\ PullChanges(raises)
        /\ \/ pc = "pull" /\ pc' \in {"pull", "push"}
           \/ pc = "lastPull" /\ pc' = IF raises THEN "raised" ELSE "ended"
  BY DEF Pull, LastPull
<1>2. UNCHANGED <<remote, rev, staged, tries, others, faults, contested, wanted>>
  BY DEF Pull, LastPull
<1>3. /\ Wished' /\ Attributed'
      /\ Excuse \/ merging \/ (~raises /\ ~merging' /\ seen' = rev)
  BY <1>1, <1>2, PullExcused DEF RInv
<1>4. Excuse => Excuse'
  BY <1>2 DEF Excuse
<1>5. ASSUME Counted, ~raises, seen' = rev PROVE Counted'
  BY <1>1, <1>2, <1>5 DEF Counted
<1> QED BY <1>3, <1>4, <1>5 DEF RInv

\* Tries that are paid for by commits and faults do not run out.
LEMMA Room ==
  ASSUME NEW t \in Nat, NEW f \in Nat, NEW o \in Nat,
         NEW mf \in Nat, NEW mo \in Nat, NEW mt \in Nat,
         mo + mf < mt, f <= mf, o <= mo, t + 1 <= f + o
  PROVE  t + 1 # mt
OBVIOUS

\* With fewer commits and faults than tries, the last try is never used up.
LEMMA PushReasons ==
  ASSUME MaxOthers + MaxFaults < MaxTries, IInv, RInv, Push \/ PushFails
  PROVE  RInv'
<1>1. CASE Push
  <2>1. /\ remote' = head /\ base' = head /\ pc' = "git" /\ pc = "push"
        /\ UNCHANGED <<head, work, staged, merging, contested, wanted>>
    BY <1>1 DEF Push, Publish
  <2>2. Wished' /\ Attributed' /\ (Excuse => Excuse') /\ Counted'
    BY <2>1 DEF RInv, Wished, Attributed, Excuse, Counted
  <2> QED BY <2>1, <2>2 DEF RInv
<1>2. CASE PushFails
  <2>1. /\ UNCHANGED <<remote, rev, base, seen, head, work, staged, merging, others, contested,
                       wanted>>
        /\ pc = "push" /\ tries' = tries + 1
        /\ pc' = IF tries + 1 = MaxTries THEN "raised" ELSE "pull"
        /\ IF seen # rev THEN faults' = faults ELSE faults < MaxFaults /\ faults' = faults + 1
    BY <1>2 DEF PushFails, PushFailed, AfterTry, Fault
  <2>2. Wished' /\ Attributed' /\ (Excuse => Excuse')
    BY <2>1 DEF RInv, Wished, Attributed, Fulfils, Excuse
  <2>3. /\ tries \in Nat /\ faults \in Nat /\ others \in Nat /\ MaxTries \in Nat
        /\ MaxFaults \in Nat /\ MaxOthers \in Nat
        /\ faults <= MaxFaults /\ others <= MaxOthers /\ faults' \in Nat
    BY <2>1, DeployAssumption DEF IInv, TypeOK
  <2>4. ASSUME Counted PROVE Counted'
    <3>1. tries + 1 <= faults' + others /\ faults' <= MaxFaults
      <4>1. CASE seen # rev
        <5>1. tries < faults + others /\ faults' = faults
          BY <2>1, <2>4, <4>1 DEF Counted
        <5> QED BY <2>3, <5>1
      <4>2. CASE seen = rev
        <5>1. tries <= faults + others /\ faults' = faults + 1 /\ faults < MaxFaults
          BY <2>1, <2>4, <4>2 DEF Counted
        <5> QED BY <2>3, <5>1
      <4> QED BY <4>1, <4>2
    <3>2. tries + 1 # MaxTries
      <4>1. faults' <= MaxFaults /\ others <= MaxOthers /\ tries + 1 <= faults' + others
        BY <2>3, <3>1
      <4> QED BY <2>3, <4>1, Room
    <3>3. pc' = "pull"
      BY <2>1, <3>2
    <3> QED BY <2>1, <3>1, <3>3 DEF Counted
  <2> QED BY <2>1, <2>2, <2>4 DEF RInv
<1> QED BY <1>1, <1>2

LEMMA OthersReasons ==
  ASSUME IInv, RInv, OtherCommits
  PROVE  RInv'
<1>1. PICK f \in Files, c \in {"theirs", "absent"} :
        /\ Publish([remote EXCEPT ![f] = c])
        /\ contested' = [contested EXCEPT ![f] = @ \cup {c}]
  BY DEF OtherCommits
<1>2. others' = others + 1 /\ UNCHANGED <<job, pc, faults, wanted>>
  BY DEF OtherCommits
<1>3. Wished'
  BY <1>2 DEF RInv, Wished, job
<1>4. \A g \in Files : contested[g] \subseteq contested'[g] /\ (g = f => c \in contested'[g])
  BY <1>1 DEF IInv, TypeOK
<1>5. Attributed'
  BY <1>1, <1>2, <1>4 DEF RInv, Attributed, Fulfils, Publish, IInv, TypeOK, Trees, job
<1>6. Excuse => Excuse'
  BY <1>2, <1>4, ExcuseStays
<1>7. Counted => Counted'
  <2>1. tries \in Nat /\ faults \in Nat /\ others \in Nat
    BY DeployAssumption DEF IInv, TypeOK
  <2> QED BY <1>2, <2>1 DEF Counted, job
<1> QED BY <1>2, <1>3, <1>5, <1>6, <1>7 DEF RInv, job

\* When there are fewer commits of others and faults than tries, a deploy raises only
\* over a file that one job has deleted and another has changed.
THEOREM DeployRaisesOverDeletion ==
  ASSUME MaxOthers + MaxFaults < MaxTries
  PROVE  Spec => []RaisedOnlyOverDeletion
<1>1. IInv /\ IInv' /\ RInv /\ [Next]_vars => RInv'
  <2> SUFFICES ASSUME IInv, IInv', RInv, [Next]_vars PROVE RInv'
    OBVIOUS
  <2>1. CASE UNCHANGED vars
    BY <2>1 DEF vars, job, RInv, Wished, Attributed, Fulfils, Excuse, Counted
  <2> QED BY <2>1, OutsideReasons, ApiReasons, PullReasons, PushReasons, OthersReasons
          DEF Next, Step, Over
<1>2. RInv => RaisedOnlyOverDeletion
  BY DEF RInv, Counted, Excuse, RaisedOnlyOverDeletion
<1> QED BY <1>1, <1>2, InitReasons, Invariant, PTL DEF Spec
=============================================================================
