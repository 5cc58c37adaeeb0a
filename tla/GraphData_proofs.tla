--------------------------- MODULE GraphData_proofs ---------------------------
(***************************************************************************)
(* Proofs about the graph data: the calls of the GitHub API, for any       *)
(* number of clients, any contents and any limits; LazyJson objects, for   *)
(* any jobs, backends and edits; and the syncs of hashmaps, for any        *)
(* backends, hashmaps and keys.                                            *)
(***************************************************************************)
EXTENDS GithubApi, LazyJson, SyncHashmap, TLAPS

\* The failed tries of a call, the one that is bound to fail included, are paid
\* for by commits and faults; a call raises after MaxTries of them.
Paid(c) ==
  /\ tries[c] + (IF pc[c] = "put" /\ file # read[c] THEN 1 ELSE 0) <= commits + faults
  /\ pc[c] = "raised" => tries[c] >= MaxTries

IInv == TypeOK /\ \A c \in Clients : Paid(c)

\* The types hold at first and are kept by each step.
LEMMA TypeInit == Init => TypeOK
  BY WantedAssumption DEF Init, TypeOK

\* Every step keeps the types.
LEMMA TypeNext == TypeOK /\ [Next]_vars => TypeOK'
<1> SUFFICES ASSUME TypeOK, [Next]_vars PROVE TypeOK'
  OBVIOUS
<1> USE WantedAssumption
<1>1. ASSUME NEW c \in Clients, Again(c)
      PROVE  /\ tries' \in [Clients -> Nat]
             /\ pc' \in [Clients -> {"get", "put", "returned", "raised"}]
  BY <1>1 DEF Again, Goto, TypeOK
<1>2. ASSUME NEW c \in Clients, Get(c) PROVE TypeOK'
  BY <1>2 DEF Get, Goto, TypeOK
<1>3. ASSUME NEW c \in Clients, Put(c) PROVE TypeOK'
  BY <1>3 DEF Put, Commit, Goto, TypeOK
<1>4. ASSUME NEW c \in Clients, PutUnanswered(c) PROVE TypeOK'
  BY <1>1, <1>4 DEF PutUnanswered, Commit, Fault, TypeOK
<1>5. ASSUME NEW c \in Clients, PutConflict(c) PROVE TypeOK'
  BY <1>1, <1>5 DEF PutConflict, TypeOK
<1>6. ASSUME NEW c \in Clients, RequestFails(c) PROVE TypeOK'
  BY <1>1, <1>6 DEF RequestFails, Fault, TypeOK
<1>7. CASE UNCHANGED vars
  BY <1>7 DEF vars, TypeOK
<1> QED
  BY <1>2, <1>3, <1>4, <1>5, <1>6, <1>7 DEF Next, Step, Done

\* The calls are always in a well-typed state.
THEOREM TypeCorrect == Spec => []TypeOK
  BY TypeInit, TypeNext, PTL DEF Spec

-----------------------------------------------------------------------------
(* Contention *)

\* Nothing has failed at first.
LEMMA PaidInit == Init => IInv
  BY TypeInit DEF Init, IInv, Paid

\* What another client's step leaves of Paid: it changes none of the call's own
\* variables, and changes the file only by a commit.
LEMMA PaidByOthers ==
  ASSUME IInv, TypeOK', NEW c \in Clients,
         pc'[c] = pc[c], tries'[c] = tries[c], read'[c] = read[c],
         faults' >= faults, commits' >= commits,
         file' = file \/ commits' >= commits + 1
  PROVE  Paid(c)'
  BY DEF IInv, TypeOK, Paid

\* A try of c has failed and commits or faults have grown, or were due.
LEMMA PaidAgain ==
  ASSUME IInv, TypeOK', NEW c \in Clients, Again(c),
         \/ commits' + faults' >= commits + faults + 1
         \/ pc[c] = "put" /\ file # read[c] /\ commits' = commits /\ faults' = faults
  PROVE  Paid(c)'
<1>1. pc'[c] \in {"get", "raised"} /\ tries'[c] = tries[c] + 1
  BY TriesAssumption DEF Again, Goto, IInv, TypeOK
<1>2. pc'[c] = "raised" => tries'[c] >= MaxTries
  BY TriesAssumption DEF Again, Goto, IInv, TypeOK
<1>3. /\ tries[c] \in Nat /\ commits \in Nat /\ faults \in Nat
      /\ commits' \in Nat /\ faults' \in Nat
  BY DEF IInv, TypeOK
<1>4. tries[c] + (IF pc[c] = "put" /\ file # read[c] THEN 1 ELSE 0) <= commits + faults
  BY DEF IInv, Paid
<1>5. tries[c] + 1 <= commits' + faults'
  BY <1>3, <1>4
<1> QED
  BY <1>1, <1>2, <1>3, <1>5 DEF Paid

\* Each step keeps the bound, of its own client and of the others.
LEMMA PaidNext == IInv /\ [Next]_vars => IInv'
<1> SUFFICES ASSUME IInv, [Next]_vars PROVE IInv'
  OBVIOUS
<1>1. TypeOK'
  BY TypeNext DEF IInv
<1> SUFFICES ASSUME NEW d \in Clients PROVE Paid(d)'
  BY <1>1 DEF IInv
<1>2. ASSUME NEW c \in Clients, Get(c) PROVE Paid(d)'
  <2>1. CASE c = d
    BY <1>2, <2>1 DEF Get, Goto, IInv, TypeOK, Paid
  <2>2. CASE c # d
    BY <1>1, <1>2, <2>2, PaidByOthers DEF Get, Goto, IInv, TypeOK
  <2> QED
    BY <2>1, <2>2
<1>3. ASSUME NEW c \in Clients, Put(c) PROVE Paid(d)'
  <2>1. CASE c = d
    BY <1>3, <2>1 DEF Put, Commit, Goto, IInv, TypeOK, Paid
  <2>2. CASE c # d
    BY <1>1, <1>3, <2>2, PaidByOthers DEF Put, Commit, Goto, IInv, TypeOK
  <2> QED
    BY <2>1, <2>2
<1>4. ASSUME NEW c \in Clients, PutUnanswered(c) PROVE Paid(d)'
  <2>1. CASE c = d
    BY <1>1, <1>4, <2>1, PaidAgain DEF PutUnanswered, Commit, Fault, IInv, TypeOK
  <2>2. CASE c # d
    BY <1>1, <1>4, <2>2, PaidByOthers
    DEF PutUnanswered, Commit, Fault, Again, Goto, IInv, TypeOK
  <2> QED
    BY <2>1, <2>2
<1>5. ASSUME NEW c \in Clients, PutConflict(c) PROVE Paid(d)'
  <2>1. CASE c = d
    BY <1>1, <1>5, <2>1, PaidAgain DEF PutConflict
  <2>2. CASE c # d
    BY <1>1, <1>5, <2>2, PaidByOthers DEF PutConflict, Again, Goto, IInv, TypeOK
  <2> QED
    BY <2>1, <2>2
<1>6. ASSUME NEW c \in Clients, RequestFails(c) PROVE Paid(d)'
  <2>1. CASE c = d
    BY <1>1, <1>6, <2>1, PaidAgain DEF RequestFails, Fault, IInv, TypeOK
  <2>2. CASE c # d
    BY <1>1, <1>6, <2>2, PaidByOthers DEF RequestFails, Fault, Again, Goto, IInv, TypeOK
  <2> QED
    BY <2>1, <2>2
<1>7. CASE UNCHANGED vars
  BY <1>1, <1>7, PaidByOthers DEF vars, IInv, TypeOK
<1> QED
  BY <1>2, <1>3, <1>4, <1>5, <1>6, <1>7 DEF Next, Step, Done

\* However many clients there are, a call gives up only when commits and faults
\* have used up its tries.
THEOREM ContentionIsBounded == Spec => []ContentionBound
<1>1. IInv => ContentionBound
  BY TriesAssumption DEF IInv, TypeOK, Paid, ContentionBound
<1> QED
  BY <1>1, PaidInit, PaidNext, PTL DEF Spec

-----------------------------------------------------------------------------
(* The retry loops implement AtomicFile *)

\* The initial states are those of AtomicFile.
LEMMA RefinesInit == Init => Atomic!Init
  BY DEF Init, Atomic!Init, Status

\* Each step is a step of AtomicFile or changes nothing it can see.
LEMMA RefinesNext == TypeOK /\ [Next]_vars => [Atomic!Next]_(Atomic!vars)
<1> SUFFICES ASSUME TypeOK, [Next]_vars PROVE [Atomic!Next]_(Atomic!vars)
  OBVIOUS
<1> DEFINE st == [c \in Clients |-> Status(c)]
<1>a. ASSUME NEW c \in Clients, Again(c), pc[c] \in {"get", "put"}
      PROVE  /\ st[c] = "called"
             /\ \/ st' = st
                \/ st' = [st EXCEPT ![c] = "raised"]
  <2>1. CASE tries[c] + 1 < MaxTries
    BY <1>a, <2>1 DEF Again, Goto, Status, TypeOK
  <2>2. CASE ~(tries[c] + 1 < MaxTries)
    BY <1>a, <2>2 DEF Again, Goto, Status, TypeOK
  <2> QED
    BY <2>1, <2>2
<1>b. \A c \in Clients : st = [st EXCEPT ![c] = st[c]]
  OBVIOUS
<1>1. ASSUME NEW c \in Clients, Get(c) PROVE [Atomic!Next]_(Atomic!vars)
  <2>1. CASE file = Wanted[c]
    <3>1. st[c] = "called" /\ st' = [st EXCEPT ![c] = "returned"]
      BY <1>1, <2>1 DEF Get, Goto, Status, TypeOK
    <3>2. met' = [met EXCEPT ![c] = TRUE] /\ file' = file
      BY <1>1, <2>1 DEF Get, TypeOK
    <3> QED
      BY <2>1, <3>1, <3>2 DEF Atomic!Next, Atomic!Observe
  <2>2. CASE file # Wanted[c]
    <3>1. st' = st
      BY <1>1, <2>2 DEF Get, Goto, Status, TypeOK
    <3>2. met' = met
      <4>1. (met[c] \/ file = Wanted[c]) = met[c]
        BY <2>2 DEF TypeOK
      <4> QED
        BY <1>1, <4>1 DEF Get, TypeOK
    <3> QED
      BY <1>1, <3>1, <3>2 DEF Get, Atomic!vars
  <2> QED
    BY <2>1, <2>2
<1>2. ASSUME NEW c \in Clients, Put(c) PROVE [Atomic!Next]_(Atomic!vars)
  <2>1. st[c] = "called" /\ st' = [st EXCEPT ![c] = "returned"]
    BY <1>2 DEF Put, Commit, Goto, Status, TypeOK
  <2> QED
    BY <1>2, <2>1 DEF Put, Commit, Atomic!Next, Atomic!TakeEffect
<1>3. ASSUME NEW c \in Clients, PutUnanswered(c) PROVE [Atomic!Next]_(Atomic!vars)
  <2>1. st[c] = "called" /\ (st' = st \/ st' = [st EXCEPT ![c] = "raised"])
    BY <1>3, <1>a DEF PutUnanswered, Commit
  <2>2. \E s \in {"called", "returned", "raised"} : st' = [st EXCEPT ![c] = s]
    BY <1>b, <2>1
  <2> QED
    BY <1>3, <2>1, <2>2 DEF PutUnanswered, Commit, Atomic!Next, Atomic!TakeEffect
<1>4. ASSUME NEW c \in Clients, PutConflict(c) \/ RequestFails(c)
      PROVE  [Atomic!Next]_(Atomic!vars)
  <2>1. st[c] = "called" /\ (st' = st \/ st' = [st EXCEPT ![c] = "raised"])
    BY <1>4, <1>a DEF PutConflict, RequestFails
  <2>2. file' = file /\ met' = met
    BY <1>4 DEF PutConflict, RequestFails
  <2>3. CASE st' = st
    BY <2>2, <2>3 DEF Atomic!vars
  <2>4. CASE st' = [st EXCEPT ![c] = "raised"]
    BY <2>1, <2>2, <2>4 DEF Atomic!Next, Atomic!Raise
  <2> QED
    BY <2>1, <2>3, <2>4
<1>5. CASE UNCHANGED vars
  BY <1>5 DEF vars, Status, Atomic!vars
<1> QED
  BY <1>1, <1>2, <1>3, <1>4, <1>5 DEF Next, Step, Done

\* The callers may take a call for one atomic step, repeated at worst.
THEOREM RetriesAreAtomic == Spec => IsAtomicFile
  BY TypeCorrect, RefinesInit, RefinesNext, PTL DEF Spec, IsAtomicFile, Atomic!Spec

-----------------------------------------------------------------------------
(* LazyJson: the objects of one entry, in the processes of several jobs *)

\* The backend that all jobs read, and write too.
Primary == CHOOSE s \in Stores : \A job \in Jobs : Head(BackendsOf[job]) = [store |-> s, writes |-> TRUE]
OnePrimary == \E s \in Stores : \A job \in Jobs : Head(BackendsOf[job]) = [store |-> s, writes |-> TRUE]

\* A job that caches files is the only one: its cache would not follow the others.
CacheAlone == \A job \in Jobs : UseCache[job] => Jobs = {job}

LazyType ==
  /\ disk \in [Jobs -> (SUBSET Edits) \cup {Missing, Torn}]
  /\ store \in [Stores -> (SUBSET Edits) \cup {Missing}]
  /\ data \in [Objects -> (SUBSET Edits) \cup {NotLoaded}]
  /\ open \in [Objects -> BOOLEAN] /\ peeked \in [Objects -> BOOLEAN]
  /\ pos \in [Objects -> Nat]
  /\ committed \in SUBSET Edits /\ seen \in [Objects -> SUBSET Edits]

\* What is in es is in v, or was dropped.
Keeps(v, es) == es \subseteq DictOf(v) \cup dropped

\* What was committed is where objects load it from.
CommittedThere ==
  /\ Keeps(store[Primary], committed)
  /\ \A job \in Jobs : UseCache[job] /\ disk[job] \notin {Missing, Torn} => Keeps(disk[job], committed)

\* When the primary backend's turn is.
Turn(job) == IF UseCache[job] THEN 2 ELSE 1

\* What an object has written so far is there, and it is the only one of its job that writes.
WritingThere ==
  \A o \in Objects : pos[o] # 0 =>
    /\ data[o] # NotLoaded /\ open[o]
    /\ \A q \in Objects : JobOf[q] = JobOf[o] /\ pos[q] # 0 => q = o
    /\ pos[o] > Turn(JobOf[o]) => Keeps(store[Primary], data[o])
    /\ UseCache[JobOf[o]] /\ pos[o] > 1 /\ disk[JobOf[o]] \notin {Missing, Torn}
         => Keeps(disk[JobOf[o]], data[o])

\* What was committed when an object's block began is in its data.
SeenThere ==
  \A o \in Objects :
    /\ seen[o] \subseteq committed
    /\ data[o] # NotLoaded => seen[o] \subseteq data[o] \cup dropped
    /\ data[o] # NotLoaded /\ ~open[o] => peeked[o]

LazyInv == LazyType /\ CommittedThere /\ WritingThere /\ SeenThere

\* The backends of a job, and what its dump goes through.
LEMMA TargetsAre ==
  ASSUME LazyConstants, OnePrimary, NEW job \in Jobs
  PROVE  /\ Primary \in Stores /\ Primary # Disk
         /\ Head(BackendsOf[job]) = [store |-> Primary, writes |-> TRUE]
         /\ Head(BackendsOf[job]) # File
         /\ Len(Targets(job)) \in Nat /\ Len(Targets(job)) >= Turn(job)
         /\ \A n \in 1..Len(Targets(job)) : Targets(job)[n] \in Backend
         /\ Targets(job)[Turn(job)] = Head(BackendsOf[job])
         /\ UseCache[job] => \A n \in 1..Len(Targets(job)) :
                               Targets(job)[n] = File <=> n = 1
<1>1. /\ Primary \in Stores /\ Head(BackendsOf[job]) = [store |-> Primary, writes |-> TRUE]
  BY DEF OnePrimary, Primary
<1>2. /\ BackendsOf[job] \in Seq(Backend) /\ BackendsOf[job] # <<>>
      /\ UseCache[job] \in BOOLEAN /\ Disk \notin Stores
  BY DEF LazyConstants
<1>3. Head(BackendsOf[job]) # File /\ Primary # Disk
  BY <1>1, <1>2 DEF File
<1> DEFINE bs == BackendsOf[job]
           Rest(b) == IF b = File THEN [File EXCEPT !.writes = FALSE] ELSE b
<1>4. Len(bs) \in Nat \ {0} /\ bs[1] = Head(bs) /\ \A n \in 1..Len(bs) : bs[n] \in Backend
  BY <1>2
<1>5. \A b \in Backend : Rest(b) \in Backend /\ Rest(b) # File
  BY DEF Backend, File
<1>6. CASE ~UseCache[job]
  <2>1. Targets(job) = bs
    BY <1>6 DEF Targets
  <2> QED
    BY <1>1, <1>3, <1>4, <1>6, <2>1 DEF Turn
<1>7. CASE UseCache[job]
  <2>1. Targets(job) = [n \in 1..(Len(bs) + 1) |-> IF n = 1 THEN File ELSE Rest(bs[n - 1])]
    BY <1>7 DEF Targets
  <2>2. Len(Targets(job)) = Len(bs) + 1
    BY <1>4, <2>1
  <2>3. File \in Backend
    BY DEF Backend, File
  <2>4. \A n \in 1..(Len(bs) + 1) : n = 1 \/ n - 1 \in 1..Len(bs)
    BY <1>4
  <2>5. Targets(job)[2] = bs[1]
    BY <1>3, <1>4, <2>1
  <2>6. \A n \in 1..(Len(bs) + 1) :
          /\ Targets(job)[n] \in Backend
          /\ Targets(job)[n] = File <=> n = 1
    BY <1>4, <1>5, <2>1, <2>3, <2>4
  <2>7. Turn(job) = 2
    BY <1>7 DEF Turn
  <2>8. Len(Targets(job)) \in Nat /\ Len(Targets(job)) >= Turn(job)
    BY <1>4, <2>2, <2>7
  <2>9. Targets(job)[Turn(job)] = Head(BackendsOf[job])
    BY <1>4, <2>5, <2>7
  <2> QED
    BY <1>1, <1>3, <2>2, <2>6, <2>8, <2>9
<1> QED
  BY <1>2, <1>6, <1>7

\* A set of edits is none of the values that stand for something else.
LEMMA EditsAreSets ==
  ASSUME LazyConstants
  PROVE  \A d \in SUBSET Edits : d # Missing /\ d # Torn /\ d # NotLoaded /\ DictOf(d) = d
  BY DEF LazyConstants, DictOf

\* A write to one place, in full or not at all: what was there and is lost was dropped.
LEMMA Overwrites ==
  ASSUME NEW old, NEW new, NEW es, DictOf(new) = new,
         es \subseteq DictOf(old) \cup dropped,
         (DictOf(old)) \ new \subseteq dropped', dropped \subseteq dropped'
  PROVE  es \subseteq DictOf(new) \cup dropped'
  OBVIOUS

\* Nothing is stored and nothing is committed at first.
LEMMA LazyInitInv == LazyConstants /\ LazyInit => LazyInv
<1> SUFFICES ASSUME LazyConstants, LazyInit PROVE LazyInv
  OBVIOUS
<1>1. LazyType
  BY DEF LazyInit, LazyType
<1> QED
  BY <1>1 DEF LazyInit, LazyInv, LazyType, CommittedThere, WritingThere, SeenThere, Keeps, DictOf

\* Loading: the object gets what was committed, and the cache too.
LEMMA LoadKeeps ==
  ASSUME LazyConstants, OnePrimary, CacheAlone, LazyInv, NEW o \in Objects, Load(o)
  PROVE  LazyInv'
<1> DEFINE job == JobOf[o]
           dict == DictOf(SourceOf(job))
<1>a. job \in Jobs
  BY DEF LazyConstants
<1>b. Head(BackendsOf[job]).store = Primary /\ Primary # Disk /\ Primary \in Stores
  BY <1>a, TargetsAre
<1>1. job \in Jobs /\ Held(job, Head(BackendsOf[job]).store) = store[Primary]
  BY <1>a, <1>b DEF Held
<1>c. SourceOf(job) \in (SUBSET Edits) \cup {Missing}
  BY <1>1, <1>b DEF Load, SourceOf, Cached, LazyInv, LazyType
<1>2. SourceOf(job) \in (SUBSET Edits) \cup {Missing} /\ dict \in SUBSET Edits
  BY <1>c DEF DictOf
<1>3. committed \subseteq dict \cup dropped
  BY <1>1, <1>2 DEF Load, SourceOf, Cached, LazyInv, CommittedThere, Keeps, DictOf
<1>4. \A q \in Objects : JobOf[q] = job => pos[q] = 0
  BY DEF Load, Runs, LazyInv, WritingThere
<1>5. /\ data' = [data EXCEPT ![o] = dict]
      /\ disk' = IF Caches(job) THEN [disk EXCEPT ![job] = dict] ELSE disk
      /\ seen' = IF open[o] THEN seen ELSE [seen EXCEPT ![o] = committed]
      /\ peeked' = [peeked EXCEPT ![o] = ~open[o]]
      /\ UNCHANGED <<store, open, pos, used, mishaps, committed, dropped>>
  BY DEF Load
<1> HIDE DEF dict
<1>6. LazyType'
  BY <1>1, <1>2, <1>5 DEF LazyInv, LazyType
<1>7. CommittedThere'
  BY <1>1, <1>2, <1>3, <1>5, EditsAreSets DEF LazyInv, LazyType, CommittedThere, Keeps
<1>8. WritingThere'
  BY <1>1, <1>4, <1>5 DEF LazyInv, LazyType, WritingThere, Keeps
<1>9. SeenThere'
  BY <1>2, <1>3, <1>5 DEF LazyInv, LazyType, SeenThere
<1> QED
  BY <1>6, <1>7, <1>8, <1>9 DEF LazyInv

\* A write, done or half done, of object o to target b of its dump.
WroteTo(o, b) ==
  /\ disk' = IF b = File THEN [disk EXCEPT ![JobOf[o]] = data[o]] ELSE disk
  /\ store' = IF b.writes /\ b # File THEN [store EXCEPT ![b.store] = data[o]] ELSE store
  /\ dropped' = IF b.writes THEN dropped \cup Loses(o, b) ELSE dropped

\* What a write leaves: the places hold what was committed, or it was dropped.
LEMMA WriteKeepsCommitted ==
  ASSUME LazyConstants, OnePrimary, CacheAlone, LazyInv, NEW o \in Objects,
         pos[o] # 0, NEW b \in Backend, WroteTo(o, b), committed' = committed
  PROVE  /\ dropped \subseteq dropped'
         /\ disk' \in [Jobs -> (SUBSET Edits) \cup {Missing, Torn}]
         /\ store' \in [Stores -> (SUBSET Edits) \cup {Missing}]
         /\ CommittedThere'
         /\ \A es : Keeps(store[Primary], es) => Keeps(store[Primary], es)'
         /\ b = [store |-> Primary, writes |-> TRUE] => store'[Primary] = data[o]
<1>1. JobOf[o] \in Jobs /\ Disk \notin Stores
  BY DEF LazyConstants
<1>2. data[o] \in SUBSET Edits /\ DictOf(data[o]) = data[o]
  BY EditsAreSets DEF LazyInv, LazyType, WritingThere
<1>3. Primary \in Stores
  BY <1>1, TargetsAre
<1>4. b # File /\ b.writes => b.store \in Stores
  BY DEF Backend, File
<1>5. b = File => b.writes /\ Held(JobOf[o], b.store) = disk[JobOf[o]]
  BY DEF File, Held
<1>6. b # File /\ b.writes => Held(JobOf[o], b.store) = store[b.store]
  BY <1>1, <1>4 DEF Held
<1>7. dropped \subseteq dropped'
  BY DEF WroteTo
<1>8. /\ disk' \in [Jobs -> (SUBSET Edits) \cup {Missing, Torn}]
      /\ store' \in [Stores -> (SUBSET Edits) \cup {Missing}]
  BY <1>1, <1>2, <1>4 DEF WroteTo, LazyInv, LazyType
<1>9. store'[Primary] = store[Primary]
      \/ /\ store'[Primary] = data[o]
         /\ committed \cup DictOf(store[Primary]) \subseteq data[o] \cup dropped'
  BY <1>3, <1>4, <1>6 DEF WroteTo, Loses, LazyInv, LazyType
<1>10. \A job \in Jobs : \/ disk'[job] = disk[job]
                         \/ disk'[job] = data[o] /\ committed \subseteq data[o] \cup dropped'
  BY <1>1, <1>5 DEF WroteTo, Loses, LazyInv, LazyType
<1>11. \A es : Keeps(store[Primary], es) => Keeps(store[Primary], es)'
  BY <1>2, <1>7, <1>9 DEF Keeps
<1>12. CommittedThere'
  BY <1>2, <1>7, <1>9, <1>10, <1>11 DEF CommittedThere, Keeps, LazyInv
<1>13. b = [store |-> Primary, writes |-> TRUE] => store'[Primary] = data[o]
  BY <1>1, <1>3 DEF WroteTo, LazyInv, LazyType, File
<1> QED
  BY <1>7, <1>8, <1>11, <1>12, <1>13

\* A write to the next backend.
LEMMA WriteKeeps ==
  ASSUME LazyConstants, OnePrimary, CacheAlone, LazyInv, NEW o \in Objects, Write(o)
  PROVE  LazyInv'
<1> DEFINE job == JobOf[o]
           b == Target(o)
<1>a. job \in Jobs
  BY DEF LazyConstants
<1>b. Len(Targets(job)) \in Nat /\ pos[o] \in Nat /\ pos[o] \in 1..Len(Targets(job))
  BY <1>a, TargetsAre DEF Write, Writing, LazyInv, LazyType
<1>1. job \in Jobs /\ pos[o] \in Nat \ {0} /\ b \in Backend
  BY <1>a, <1>b, TargetsAre DEF Target
<1>2. WroteTo(o, b)
  BY DEF Write, WroteTo
<1>3. /\ pos' = [pos EXCEPT ![o] = pos[o] + 1]
      /\ UNCHANGED <<data, hash, open, used, mishaps, committed, seen, peeked>>
  BY DEF Write
<1>4. /\ pos[o] = Turn(job) => b = [store |-> Primary, writes |-> TRUE]
      /\ UseCache[job] => (b = File <=> pos[o] = 1)
  BY <1>1, TargetsAre DEF Write, Writing, Target
<1> HIDE DEF b
<1>5. /\ dropped \subseteq dropped' /\ CommittedThere'
      /\ \A es : Keeps(store[Primary], es) => Keeps(store[Primary], es)'
      /\ b = [store |-> Primary, writes |-> TRUE] => store'[Primary] = data[o]
  BY <1>1, <1>2, <1>3, WriteKeepsCommitted
<1>6. LazyType'
  BY <1>1, <1>2, <1>3, WriteKeepsCommitted DEF LazyInv, LazyType
<1>7. SeenThere'
  BY <1>3, <1>5 DEF LazyInv, SeenThere
<1>8. WritingThere'
  <2>1. \A q \in Objects : pos'[q] # 0 <=> pos[q] # 0
    BY <1>1, <1>3 DEF LazyInv, LazyType
  <2>2. SUFFICES ASSUME NEW q \in Objects, pos'[q] # 0
                 PROVE  /\ pos'[q] > Turn(JobOf[q]) => Keeps(store[Primary], data[q])'
                        /\ UseCache[JobOf[q]] /\ pos'[q] > 1 /\ disk'[JobOf[q]] \notin {Missing, Torn}
                             => Keeps(disk[JobOf[q]], data[q])'
    BY <1>3, <2>1 DEF LazyInv, WritingThere
  <2>3. pos[q] # 0 /\ (q # o => pos'[q] = pos[q] /\ (UseCache[JobOf[q]] => JobOf[q] # job))
    BY <1>1, <1>3, <2>1, <2>2 DEF LazyInv, LazyType, WritingThere
  <2>4. DictOf(data[o]) = data[o]
    BY <1>1, EditsAreSets DEF LazyInv, LazyType, WritingThere
  <2>5. CASE q # o
    <3>1. ~UseCache[JobOf[q]]
      BY <1>1, <2>3, <2>5 DEF CacheAlone, LazyConstants
    <3> QED
      BY <1>3, <1>5, <2>2, <2>3, <2>5, <3>1 DEF LazyInv, WritingThere
  <2>6. CASE q = o
    <3>1. pos'[o] > Turn(job) => Keeps(store[Primary], data[o])'
      <4>1. CASE pos[o] > Turn(job)
        BY <1>1, <1>3, <1>5, <4>1 DEF LazyInv, WritingThere
      <4>2. CASE pos[o] = Turn(job)
        BY <1>3, <1>4, <1>5, <2>4, <4>2 DEF Keeps
      <4> QED
        BY <1>1, <1>3, <4>1, <4>2 DEF Turn, LazyInv, LazyType
    <3>2. ASSUME UseCache[job], disk'[job] \notin {Missing, Torn}
          PROVE  Keeps(disk[job], data[o])'
      <4>1. CASE pos[o] = 1
        BY <1>1, <1>2, <1>3, <1>4, <2>4, <3>2, <4>1 DEF WroteTo, Keeps, LazyInv, LazyType
      <4>2. CASE pos[o] > 1
        BY <1>1, <1>2, <1>3, <1>4, <1>5, <3>2, <4>2 DEF WroteTo, Keeps, LazyInv, WritingThere
      <4> QED
        BY <1>1, <4>1, <4>2
    <3> QED
      BY <2>6, <3>1, <3>2
  <2> QED
    BY <2>5, <2>6
<1> QED
  BY <1>5, <1>6, <1>7, <1>8 DEF LazyInv

\* A write that raises, after it has taken effect or not.
LEMMA WriteFailsKeeps ==
  ASSUME LazyConstants, OnePrimary, CacheAlone, LazyInv, NEW o \in Objects, WriteFails(o)
  PROVE  LazyInv'
<1> DEFINE job == JobOf[o]
           b == Target(o)
<1>a. job \in Jobs
  BY DEF LazyConstants
<1>b. Len(Targets(job)) \in Nat /\ pos[o] \in Nat /\ pos[o] \in 1..Len(Targets(job))
  BY <1>a, TargetsAre DEF WriteFails, Writing, LazyInv, LazyType
<1>1. job \in Jobs /\ pos[o] \in Nat \ {0} /\ b \in Backend
  BY <1>a, <1>b, TargetsAre DEF Target
<1>2. /\ pos' = [pos EXCEPT ![o] = 0] /\ open' = [open EXCEPT ![o] = FALSE]
      /\ peeked' = [peeked EXCEPT ![o] = TRUE]
      /\ UNCHANGED <<data, hash, used, committed, seen>>
  BY DEF WriteFails
<1>3. \/ UNCHANGED <<disk, store, dropped>>
      \/ UNCHANGED <<store, dropped>> /\ disk' = [disk EXCEPT ![job] = Torn]
      \/ WroteTo(o, b)
  BY DEF WriteFails, WroteTo
<1> HIDE DEF b
<1>4. /\ dropped \subseteq dropped' /\ CommittedThere'
      /\ disk' \in [Jobs -> (SUBSET Edits) \cup {Missing, Torn}]
      /\ store' \in [Stores -> (SUBSET Edits) \cup {Missing}]
      /\ \A es : Keeps(store[Primary], es) => Keeps(store[Primary], es)'
  <2>1. CASE WroteTo(o, b)
    BY <1>1, <1>2, <2>1, WriteKeepsCommitted
  <2>2. CASE UNCHANGED <<disk, store, dropped>>
    BY <1>2, <2>2 DEF LazyInv, LazyType, CommittedThere, Keeps
  <2>3. CASE UNCHANGED <<store, dropped>> /\ disk' = [disk EXCEPT ![job] = Torn]
    BY <1>1, <1>2, <2>3 DEF LazyInv, LazyType, CommittedThere, Keeps
  <2> QED
    BY <1>3, <2>1, <2>2, <2>3
<1>5. LazyType'
  BY <1>2, <1>4 DEF LazyInv, LazyType
<1>6. SeenThere'
  BY <1>2, <1>4 DEF LazyInv, LazyType, SeenThere
<1>7. WritingThere'
  <2>1. SUFFICES ASSUME NEW q \in Objects, pos'[q] # 0
                 PROVE  UseCache[JobOf[q]] => FALSE
    BY <1>2, <1>4 DEF LazyInv, LazyType, WritingThere
  <2>2. q # o /\ pos[q] # 0 /\ JobOf[q] # job
    BY <1>1, <1>2, <2>1 DEF LazyInv, LazyType, WritingThere
  <2> QED
    BY <1>1, <2>2 DEF CacheAlone, LazyConstants
<1> QED
  BY <1>4, <1>5, <1>6, <1>7 DEF LazyInv

\* The end of a dump: what the block has made is committed, and is where it is loaded from.
LEMMA EndExitKeeps ==
  ASSUME LazyConstants, OnePrimary, CacheAlone, LazyInv, NEW o \in Objects, EndExit(o)
  PROVE  LazyInv'
<1> DEFINE job == JobOf[o]
<1>1. job \in Jobs /\ Len(Targets(job)) \in Nat /\ Len(Targets(job)) >= Turn(job)
  BY TargetsAre DEF LazyConstants
<1>2. pos[o] > Turn(job) /\ pos[o] > 1 /\ pos[o] # 0
  BY <1>1 DEF EndExit, Turn
<1>3. /\ data[o] \in SUBSET Edits /\ Keeps(store[Primary], data[o])
      /\ UseCache[job] /\ disk[job] \notin {Missing, Torn} => Keeps(disk[job], data[o])
  BY <1>1, <1>2 DEF LazyInv, LazyType, WritingThere
<1>4. /\ data' = [data EXCEPT ![o] = NotLoaded] /\ pos' = [pos EXCEPT ![o] = 0]
      /\ open' = [open EXCEPT ![o] = FALSE] /\ peeked' = [peeked EXCEPT ![o] = FALSE]
      /\ committed' = committed \cup data[o]
      /\ UNCHANGED <<disk, store, seen, dropped>>
  BY DEF EndExit, Purge
<1>5. LazyType'
  BY <1>3, <1>4 DEF LazyInv, LazyType
<1>6. CommittedThere'
  BY <1>1, <1>3, <1>4 DEF LazyInv, CommittedThere, Keeps, CacheAlone
<1>7. WritingThere' /\ SeenThere'
  BY <1>4 DEF LazyInv, LazyType, WritingThere, SeenThere, Keeps
<1> QED
  BY <1>5, <1>6, <1>7 DEF LazyInv

\* A process dies; another has its place, with or without its disk.
LEMMA CrashKeeps ==
  ASSUME LazyConstants, LazyInv, NEW job \in Jobs, Crash(job)
  PROVE  LazyInv'
<1> DEFINE Reset(f, v) == [o \in Objects |-> IF JobOf[o] = job THEN v ELSE f[o]]
<1>1. /\ data' = Reset(data, NotLoaded) /\ open' = Reset(open, FALSE)
      /\ pos' = Reset(pos, 0) /\ peeked' = Reset(peeked, FALSE)
      /\ disk' \in {disk, [disk EXCEPT ![job] = Missing], [disk EXCEPT ![job] = Torn]}
      /\ UNCHANGED <<store, committed, seen, dropped>>
  BY DEF Crash
<1>2. LazyType'
  BY <1>1 DEF LazyInv, LazyType
<1>3. CommittedThere'
  BY <1>1 DEF LazyInv, LazyType, CommittedThere, Keeps
<1>4. \A q \in Objects : pos'[q] # 0 => JobOf[q] # job /\ pos'[q] = pos[q] /\ data'[q] = data[q] /\ open'[q] = open[q]
  BY <1>1
<1>5. \A k \in Jobs : k # job => disk'[k] = disk[k]
  BY <1>1 DEF LazyInv, LazyType
<1>6. WritingThere'
  BY <1>1, <1>4, <1>5 DEF LazyInv, WritingThere, Keeps, LazyConstants
<1>7. SeenThere'
  BY <1>1 DEF LazyInv, LazyType, SeenThere
<1> QED
  BY <1>2, <1>3, <1>6, <1>7 DEF LazyInv

\* Every step keeps the invariant.
LEMMA LazyNextInv ==
  ASSUME LazyConstants, OnePrimary, CacheAlone, LazyInv, [LazyNext]_lazyVars
  PROVE  LazyInv'
<1> USE DEF history
<1>1. ASSUME NEW o \in Objects, LoadRaises(o) PROVE LazyInv'
  <2>1. pos[o] = 0 /\ data[o] = NotLoaded
    BY <1>1 DEF LoadRaises, LazyInv, WritingThere, Runs
  <2> QED
    BY <1>1, <2>1 DEF LoadRaises, LazyInv, LazyType, CommittedThere, WritingThere, SeenThere, Keeps
<1>2. ASSUME NEW o \in Objects, Enter(o) PROVE LazyInv'
  BY <1>2 DEF Enter, LazyInv, LazyType, CommittedThere, WritingThere, SeenThere, Keeps
<1>3. ASSUME NEW o \in Objects, Edit(o) PROVE LazyInv'
  <2>1. PICK e \in Edits : data' = [data EXCEPT ![o] = @ \cup {e}]
    BY <1>3 DEF Edit
  <2>2. data[o] \in SUBSET Edits /\ data'[o] \in SUBSET Edits
    BY <1>3, <2>1 DEF Edit, LazyInv, LazyType
  <2> QED
    BY <1>3, <2>1, <2>2 DEF Edit, LazyInv, LazyType, CommittedThere, WritingThere, SeenThere, Keeps
<1>4. ASSUME NEW o \in Objects, ExitUnchanged(o) PROVE LazyInv'
  BY <1>4 DEF ExitUnchanged, Purge, LazyInv, LazyType, CommittedThere, WritingThere, SeenThere, Keeps
<1>5. ASSUME NEW o \in Objects, BeginDump(o) PROVE LazyInv'
  <2>1. \A q \in Objects : JobOf[q] = JobOf[o] => pos[q] = 0
    BY <1>5 DEF BeginDump, Runs
  <2>2. Turn(JobOf[o]) >= 1
    BY DEF Turn
  <2> QED
    BY <1>5, <2>1, <2>2 DEF BeginDump, LazyInv, LazyType, CommittedThere, WritingThere, SeenThere, Keeps, Turn
<1>6. CASE UNCHANGED lazyVars
  BY <1>6 DEF lazyVars, objects, LazyInv, LazyType, CommittedThere, WritingThere, SeenThere, Keeps
<1> QED
  BY <1>1, <1>2, <1>3, <1>4, <1>5, <1>6, LoadKeeps, WriteKeeps, WriteFailsKeeps, EndExitKeeps,
     CrashKeeps DEF LazyNext

\* What a write loses is not in the data, and what was seen is.
LEMMA WritesKeepEdits ==
  ASSUME LazyConstants, LazyInv, [LazyNext]_lazyVars
  PROVE  KeepsSeen
<1> SUFFICES ASSUME NEW o \in Objects, pos[o] # 0, pos'[o] = pos[o] + 1
             PROVE  (dropped' \ dropped) \cap seen[o] = {}
  BY DEF KeepsSeen
<1>1. pos \in [Objects -> Nat]
  BY DEF LazyInv, LazyType
<1>2. CASE Write(o)
  <2>1. dropped' \subseteq dropped \cup Loses(o, Target(o))
    BY <1>2 DEF Write
  <2>2. seen[o] \subseteq data[o] \cup dropped
    BY DEF LazyInv, WritingThere, SeenThere
  <2> QED
    BY <2>1, <2>2 DEF Loses
<1>3. CASE ~Write(o)
  <2>1. \A q \in Objects : Write(q) => pos'[o] = pos[o]
    BY <1>1, <1>3 DEF Write
  <2>2. \A q \in Objects : BeginDump(q) => pos'[o] \in {pos[o], 1}
    BY <1>1 DEF BeginDump
  <2>3. \A q \in Objects : WriteFails(q) \/ EndExit(q) => pos'[o] \in {pos[o], 0}
    BY <1>1 DEF WriteFails, EndExit
  <2>4. \A q \in Objects : Load(q) \/ LoadRaises(q) \/ Enter(q) \/ Edit(q)
                          \/ ExitUnchanged(q) => pos' = pos
    BY DEF Load, LoadRaises, Enter, Edit, ExitUnchanged
  <2>5. \A job \in Jobs : Crash(job) => pos'[o] \in {pos[o], 0}
    BY <1>1 DEF Crash
  <2>6. UNCHANGED lazyVars => pos' = pos
    BY DEF lazyVars, objects
  <2>7. pos'[o] \in {pos[o], 0, 1}
    BY <2>1, <2>2, <2>3, <2>4, <2>5, <2>6 DEF LazyNext
  <2> QED
    BY <1>1, <2>7
<1> QED
  BY <1>2, <1>3

\* No update is lost between blocks that do not overlap (LazyJson.__enter__, _load, _dump): if all
\* jobs read one backend that they also write, and a job that caches files is alone, then what
\* was committed before an object's block began is not overwritten by it.
THEOREM LazyKeepsEdits ==
  ASSUME OnePrimary, CacheAlone
  PROVE  LazySpec => KeepsEdits
<1>1. LazyInit => LazyInv
  BY LazyInitInv, LazyAssumption
<1>2. LazyInv /\ [LazyNext]_lazyVars => LazyInv'
  BY LazyNextInv, LazyAssumption
<1>3. LazyInv /\ [LazyNext]_lazyVars => [KeepsSeen]_lazyVars
  BY WritesKeepEdits, LazyAssumption
<1> QED
  BY <1>1, <1>2, <1>3, PTL DEF LazySpec, KeepsEdits

-----------------------------------------------------------------------------
(* SyncHashmap: the sync of hashmaps from one backend to others *)

Value == [n : Nat, ref : BOOLEAN]

SyncType ==
  /\ maps \in [Backends -> [M -> [Keys -> Value]]]
  /\ had \in [M -> [Keys -> SUBSET Value]]
  /\ hashes \in [Backends -> [Keys -> Value]]
  /\ i \in M /\ j \in DOMAIN Dests /\ writes \in Nat
  /\ todo \subseteq KeysToSync
  /\ phase \in {"enter", "body", "listSource", "listDest", "delete", "pull", "put",
                "restore", "done", "raised"}
  /\ phase \in {"enter", "body"} => i = 1
  /\ phase = "pull" => j = 1
  /\ phase = "put" => DOMAIN batch \subseteq KeysToSync

\* The source has now what it had while the sync ran, and so has a destination for a
\* key, unless another job has written that.
SourceHad == \A m \in M, k \in Keys : maps[Source][m][k] \in had[m][k]

Known(b, m, k) == maps[b][m][k] \in had[m][k] \/ (b = Shared /\ <<m, k>> \in late)

\* The hashmaps that are done.
PassedFresh ==
  \A m \in M : m < i \/ Ended =>
    \A k \in KeysToSync, b \in Backends \ {Source} : Known(b, m, k)

\* What was listed and pulled is what the source had.
ListedHad ==
  /\ phase \in {"listDest", "delete", "pull", "put"} =>
       \A k \in Keys : hashes[Source][k] \in had[i][k]
  /\ phase = "put" => \A k \in DOMAIN batch : batch[k] \in had[i][k]

\* A key of the hashmap that is being synced and of a destination that has been listed
\* is in order, or it is to be deleted, pulled or written there.
Listed(n) == phase \in {"pull", "put"} \/ n < j \/ (n = j /\ phase = "delete")

InWork(n, k) ==
  \/ k \in todo /\ k \in OutOfSync(Dests[n], hashes)
  \/ phase = "put" /\ n >= j /\ k \in DOMAIN batch /\ k \in OutOfSync(Dests[n], hashes)
  \/ phase = "delete" /\ Dests[n] = Dests[j] /\ k \in ToDelete(Dests[n])

ListedInWork ==
  phase \in {"listDest", "delete", "pull", "put"} =>
    \A n \in DOMAIN Dests, k \in KeysToSync : Listed(n) => Known(Dests[n], i, k) \/ InWork(n, k)

SyncInv == SyncType /\ SourceHad /\ PassedFresh /\ ListedHad /\ ListedInWork

\* The places of the hashmaps and of the destinations.
LEMMA Places ==
  ASSUME SyncConstants
  PROVE  /\ Len(Maps) \in Nat /\ M = 1..Len(Maps) /\ 1 \in M
         /\ Len(Dests) \in Nat /\ DOMAIN Dests = 1..Len(Dests) /\ 1 \in DOMAIN Dests
         /\ Source \in Backends /\ Shared \in Backends /\ KeysToSync \subseteq Keys
         /\ \A n \in DOMAIN Dests : Dests[n] \in Backends \ {Source}
         /\ \A b \in Backends \ {Source} : \E n \in DOMAIN Dests : b = Dests[n]
  BY DEF SyncConstants, M, Backends

\* At first no hashmap is done and none is in work.
LEMMA SyncInitInv == SyncConstants /\ SyncInit => SyncInv
<1> SUFFICES ASSUME SyncConstants, SyncInit PROVE SyncInv
  OBVIOUS
<1> USE Places
<1>1. PICK here \in [Backends -> SUBSET Keys] :
        maps = [b \in Backends |-> [m \in M |-> [k \in Keys |->
                  IF k \in here[b] THEN [n |-> 1, ref |-> m < Len(Maps)] ELSE Unset]]]
  BY DEF SyncInit
<1>2. \A m \in M : [n |-> 1, ref |-> m < Len(Maps)] \in Value
  BY DEF Value
<1>3. Unset \in Value
  BY DEF Value, Unset
<1>4. maps \in [Backends -> [M -> [Keys -> Value]]]
  BY <1>1, <1>2, <1>3
<1>5. had = [m \in M |-> [k \in Keys |-> {maps[Source][m][k]}]]
  BY DEF SyncInit
<1>6. had \in [M -> [Keys -> SUBSET Value]] /\ SourceHad
  BY <1>4, <1>5 DEF SourceHad
<1>7. hashes \in [Backends -> [Keys -> Value]]
  BY <1>3 DEF SyncInit, Nothing
<1>8. SyncType
  BY <1>4, <1>6, <1>7 DEF SyncInit, SyncType
<1>9. PassedFresh /\ ListedHad /\ ListedInWork
  BY DEF SyncInit, PassedFresh, ListedHad, ListedInWork, Ended
<1> QED
  BY <1>6, <1>8, <1>9 DEF SyncInv

\* One entry of a table of tables.
LEMMA OneEntry ==
  ASSUME NEW A, NEW B, NEW S, NEW f \in [A -> [B -> S]], NEW a \in A, NEW b \in B, NEW s \in S
  PROVE  /\ [f EXCEPT ![a][b] = s] \in [A -> [B -> S]]
         /\ \A x \in A, y \in B : [f EXCEPT ![a][b] = s][x][y] = IF x = a /\ y = b THEN s ELSE f[x][y]
  OBVIOUS

\* One hashmap of a backend, and all of them.
LEMMA OneHashmap ==
  ASSUME NEW b \in Backends, maps \in [Backends -> [M -> [Keys -> Value]]]
  PROVE  /\ \A new \in [M -> [Keys -> Value]] :
              [maps EXCEPT ![b] = new] \in [Backends -> [M -> [Keys -> Value]]]
         /\ \A m \in M, row \in [Keys -> Value] :
              /\ [maps EXCEPT ![b][m] = row] \in [Backends -> [M -> [Keys -> Value]]]
              /\ \A c \in Backends, n \in M :
                   [maps EXCEPT ![b][m] = row][c][n] = IF c = b /\ n = m THEN row ELSE maps[c][n]
  OBVIOUS

\* A step that writes only what the history takes note of.
LEMMA NotedStep ==
  ASSUME SyncConstants, SyncInv, SyncType', phase # "body", SourceHad',
         \A m \in M, k \in Keys : had[m][k] \subseteq had'[m][k], late \subseteq late',
         \A b \in Backends \ {Source}, m \in M, k \in Keys :
           maps'[b][m][k] = maps[b][m][k] \/ (b = Shared /\ <<m, k>> \in late'),
         UNCHANGED <<phase, i, j, hashes, todo, batch>>
  PROVE  SyncInv'
<1> USE Places
<1>1. \A b \in Backends \ {Source}, m \in M, k \in KeysToSync : Known(b, m, k) => Known(b, m, k)'
  BY DEF Known
<1>2. PassedFresh'
  BY <1>1 DEF SyncInv, PassedFresh, Ended
<1>3. ListedHad'
  BY DEF SyncInv, SyncType, ListedHad
<1>4. ListedInWork'
  BY <1>1 DEF SyncInv, SyncType, ListedInWork, Listed, InWork, OutOfSync, ToDelete
<1> QED
  BY <1>2, <1>3, <1>4 DEF SyncInv

\* The values other jobs write.
LEMMA OtherValues ==
  ASSUME SyncType
  PROVE  /\ \A ref \in BOOLEAN : [n |-> writes + 1, ref |-> ref] \in Value
         /\ Unset \in Value /\ writes + 1 \in Nat
  BY DEF SyncType, Value, Unset

\* Another job writes a key, an object or a reference to one.
LEMMA OtherWritesKeeps == SyncConstants /\ SyncInv /\ OtherWrites => SyncInv'
<1> SUFFICES ASSUME SyncConstants, SyncInv, NEW m \in M, NEW k \in Keys, NEW ref \in BOOLEAN,
                    LET v == [n |-> writes + 1, ref |-> ref]
                    IN  /\ writes' = writes + 1
                        /\ PutValue(Shared, m, k, v) /\ Saw(Shared, m, k, v)
                        /\ Late({<<m, k>>})
                        /\ UNCHANGED <<current, phase, sync, failures>>
             PROVE  SyncInv'
  BY DEF OtherWrites
<1> USE Places
<1> DEFINE v == [n |-> writes + 1, ref |-> ref]
<1>1. v \in Value /\ writes' \in Nat
  BY OtherValues DEF SyncInv
<1>2. /\ maps' = [maps EXCEPT ![Shared][m][k] = v]
      /\ IF Shared # Source THEN had' = had
         ELSE had' = [had EXCEPT ![m][k] = IF phase = "body" THEN {v} ELSE @ \cup {v}]
      /\ UNCHANGED <<phase, i, j, hashes, todo, batch>>
      /\ phase # "body" => late' = late \cup {<<m, k>>}
  BY DEF PutValue, Saw, sync, Late
<1> HIDE DEF v
<1> DEFINE w == IF phase = "body" THEN {v} ELSE had[m][k] \cup {v}
<1>b. /\ w \in SUBSET Value /\ v \in w
      /\ IF Shared # Source THEN had' = had ELSE had' = [had EXCEPT ![m][k] = w]
  BY <1>1, <1>2 DEF SyncInv, SyncType
<1>c. phase # "body" => had[m][k] \subseteq w
  OBVIOUS
<1> HIDE DEF w
<1>f. had \in [M -> [Keys -> SUBSET Value]]
  BY DEF SyncInv, SyncType
<1>g. /\ [had EXCEPT ![m][k] = w] \in [M -> [Keys -> SUBSET Value]]
      /\ \A x \in M, y \in Keys :
           [had EXCEPT ![m][k] = w][x][y] = IF x = m /\ y = k THEN w ELSE had[x][y]
  BY <1>b, <1>f, OneEntry
<1>d. /\ had' \in [M -> [Keys -> SUBSET Value]]
      /\ Shared = Source => \A x \in M, y \in Keys :
                              had'[x][y] = IF x = m /\ y = k THEN w ELSE had[x][y]
  <2>1. CASE Shared = Source
    <3>1. had' = [had EXCEPT ![m][k] = w]
      BY <1>b, <2>1
    <3> QED
      BY <1>g, <3>1
  <2>2. CASE Shared # Source
    BY <1>b, <1>f, <2>2
  <2> QED
    BY <2>1, <2>2
<1>e. maps' \in [Backends -> [M -> [Keys -> Value]]]
  BY <1>1, <1>2 DEF SyncInv, SyncType
<1>3. SyncType'
  BY <1>1, <1>2, <1>d, <1>e DEF SyncInv, SyncType
<1>4. SourceHad'
  BY <1>1, <1>2, <1>b, <1>d DEF SyncInv, SyncType, SourceHad
<1>5. CASE phase = "body"
  BY <1>2, <1>3, <1>4, <1>5 DEF SyncInv, SyncType, PassedFresh, ListedHad, ListedInWork, Ended
<1>6. CASE phase # "body"
  <2>1. \A x \in M, y \in Keys : had[x][y] \subseteq had'[x][y]
    BY <1>b, <1>c, <1>d, <1>6
  <2>2. \A b \in Backends \ {Source}, x \in M, y \in Keys :
           maps'[b][x][y] = maps[b][x][y] \/ (b = Shared /\ <<x, y>> \in late')
    BY <1>1, <1>2, <1>6 DEF SyncInv, SyncType
  <2> QED
    BY <1>2, <1>3, <1>4, <1>6, <2>1, <2>2, NotedStep
<1> QED
  BY <1>5, <1>6

\* Another job archives a closed pull request.
LEMMA OtherArchivesKeeps == SyncConstants /\ SyncInv /\ OtherArchives => SyncInv'
<1>z. SUFFICES ASSUME SyncConstants, SyncInv, NEW m \in M, NEW k \in Keys,
                    LET v == [n |-> writes + 1, ref |-> FALSE]
                        new == [maps[Shared] EXCEPT ![m][k] = v, ![m + 1][k] = Unset]
                    IN  /\ writes' = writes + 1 /\ m < Len(Maps)
                        /\ maps' = [maps EXCEPT ![Shared] = new]
                        /\ had' = IF Shared # Source THEN had
                                  ELSE [had EXCEPT ![m][k] = @ \cup {v}, ![m + 1][k] = @ \cup {Unset}]
                        /\ Late({<<m, k>>, <<m + 1, k>>})
                        /\ UNCHANGED <<current, phase, sync, failures>>
             PROVE  SyncInv'
  BY DEF OtherArchives
<1> DEFINE v == [n |-> writes + 1, ref |-> FALSE]
           new == [maps[Shared] EXCEPT ![m][k] = v, ![m + 1][k] = Unset]
<1>y. SyncConstants /\ SyncInv
  BY <1>z
<1>0. v \in Value /\ writes' \in Nat /\ Unset \in Value
  BY <1>z, OtherValues DEF SyncInv
<1>1. v \in Value /\ writes' \in Nat /\ Unset \in Value /\ m + 1 \in M /\ m + 1 # m
  BY <1>0, <1>y, <1>z, Places
<1>2. /\ maps' = [maps EXCEPT ![Shared] = new]
      /\ had' = IF Shared # Source THEN had
                ELSE [had EXCEPT ![m][k] = @ \cup {v}, ![m + 1][k] = @ \cup {Unset}]
      /\ UNCHANGED <<phase, i, j, hashes, todo, batch>>
      /\ phase # "body" => late' = late \cup {<<m, k>>, <<m + 1, k>>}
  BY <1>z DEF sync, Late
<1> DEFINE rows == maps[Shared]
           step == [rows EXCEPT ![m][k] = v]
<1>b. rows \in [M -> [Keys -> Value]]
  BY <1>y, Places DEF SyncInv, SyncType
<1>c. new = [step EXCEPT ![m + 1][k] = Unset]
  OBVIOUS
<1> HIDE DEF v, new, rows
<1>d. /\ step \in [M -> [Keys -> Value]]
      /\ \A x \in M, y \in Keys : step[x][y] = IF x = m /\ y = k THEN v ELSE rows[x][y]
  BY <1>1, <1>b, OneEntry
<1> HIDE DEF step
<1>a. /\ new \in [M -> [Keys -> Value]]
      /\ \A x \in M, y \in Keys :
           new[x][y] = IF x = m /\ y = k THEN v
                       ELSE IF x = m + 1 /\ y = k THEN Unset ELSE rows[x][y]
  BY <1>1, <1>c, <1>d, OneEntry
<1> DEFINE mid == [had EXCEPT ![m][k] = had[m][k] \cup {v}]
           end == [mid EXCEPT ![m + 1][k] = had[m + 1][k] \cup {Unset}]
<1>e. had' = IF Shared # Source THEN had ELSE end
  BY <1>2
<1>f. /\ mid \in [M -> [Keys -> SUBSET Value]]
      /\ \A x \in M, y \in Keys :
           mid[x][y] = IF x = m /\ y = k THEN had[m][k] \cup {v} ELSE had[x][y]
  <2>1. had \in [M -> [Keys -> SUBSET Value]]
    BY <1>y DEF SyncInv, SyncType
  <2>2. had[m][k] \cup {v} \in SUBSET Value
    BY <1>1, <2>1
  <2> QED
    BY <2>1, <2>2, OneEntry
<1> HIDE DEF mid
<1>g. had[m + 1][k] \cup {Unset} \in SUBSET Value
  BY <1>y, <1>1 DEF SyncInv, SyncType
<1>h. /\ end \in [M -> [Keys -> SUBSET Value]]
      /\ \A x \in M, y \in Keys :
           end[x][y] = IF x = m + 1 /\ y = k THEN had[m + 1][k] \cup {Unset} ELSE mid[x][y]
  BY <1>1, <1>f, <1>g, OneEntry
<1> HIDE DEF end
<1>i. \A x \in M, y \in Keys :
        end[x][y] = IF x = m /\ y = k THEN had[x][y] \cup {v}
                    ELSE IF x = m + 1 /\ y = k THEN had[x][y] \cup {Unset} ELSE had[x][y]
  <2> TAKE x \in M, y \in Keys
  <2>1. CASE x = m /\ y = k
    BY <1>1, <1>f, <1>h, <2>1
  <2>2. CASE x = m + 1 /\ y = k
    BY <1>1, <1>h, <2>2
  <2>3. CASE ~(x = m /\ y = k) /\ ~(x = m + 1 /\ y = k)
    BY <1>f, <1>h, <2>3
  <2> QED
    BY <2>1, <2>2, <2>3
<1>j. maps' \in [Backends -> [M -> [Keys -> Value]]]
  <2>1. maps \in [Backends -> [M -> [Keys -> Value]]]
    BY <1>y DEF SyncInv, SyncType
  <2>2. maps' = [maps EXCEPT ![Shared] = new] /\ new \in [M -> [Keys -> Value]]
    BY <1>2, <1>a
  <2> QED
    BY <1>y, <2>1, <2>2, Places, OneHashmap
<1>k. Shared = Source => had' = end
  BY <1>e
<1>l. Shared # Source => had' = had
  BY <1>e
<1>3. SyncType'
  BY <1>y, <1>1, <1>2, <1>e, <1>h, <1>j DEF SyncInv, SyncType
<1>4. SourceHad'
  <2>1. CASE Shared # Source
    BY <1>y, <1>2, <1>e, <2>1, Places DEF SyncInv, SyncType, SourceHad
  <2>2. CASE Shared = Source
    <3>1. \A x \in M, y \in Keys : maps'[Source][x][y] = new[x][y]
      BY <1>y, <1>2, <2>2, Places DEF SyncInv, SyncType
    <3>2. \A x \in M, y \in Keys : rows[x][y] \in had[x][y]
      BY <1>y, <2>2 DEF rows, SyncInv, SourceHad
    <3> SUFFICES \A x \in M, y \in Keys : maps'[Source][x][y] \in had'[x][y]
      BY DEF SourceHad
    <3> QED
      <4> TAKE x \in M, y \in Keys
      <4>1. had'[x][y] = end[x][y] /\ maps'[Source][x][y] = new[x][y] /\ rows[x][y] \in had[x][y]
        BY <1>k, <2>2, <3>1, <3>2
      <4>2. CASE x = m /\ y = k
        <5>1. new[x][y] = v
          BY <1>a, <4>2
        <5>2. end[x][y] = had[x][y] \cup {v}
          BY <1>i, <4>2
        <5> QED
          BY <4>1, <5>1, <5>2, Zenon
      <4>3. CASE x = m + 1 /\ y = k
        <5>1. x # m /\ new[x][y] = Unset
          BY <1>1, <1>a, <4>3
        <5>2. end[x][y] = had[x][y] \cup {Unset}
          BY <1>i, <4>3, <5>1
        <5> QED
          BY <4>1, <5>1, <5>2, Zenon
      <4>4. CASE ~(x = m /\ y = k) /\ ~(x = m + 1 /\ y = k)
        BY <1>a, <1>i, <4>1, <4>4
      <4> QED
        BY <4>2, <4>3, <4>4
  <2> QED
    BY <2>1, <2>2
<1>5. CASE phase = "body"
  <2>1. phase' = "body" /\ i' = 1
    BY <1>y, <1>2, <1>5 DEF SyncInv, SyncType
  <2> QED
    BY <1>3, <1>4, <2>1, <1>y, Places DEF SyncInv, PassedFresh, ListedHad, ListedInWork, Ended
<1>6. CASE phase # "body"
  <2>1. \A x \in M, y \in Keys : had[x][y] \subseteq had'[x][y]
    <3> TAKE x \in M, y \in Keys
    <3>1. had[x][y] \subseteq end[x][y]
      BY <1>i
    <3> QED
      BY <1>k, <1>l, <3>1
  <2>2. \A b \in Backends \ {Source}, x \in M, y \in Keys :
           maps'[b][x][y] = maps[b][x][y] \/ (b = Shared /\ <<x, y>> \in late')
    <3>1. /\ Shared \in Backends /\ maps' = [maps EXCEPT ![Shared] = new]
          /\ maps \in [Backends -> [M -> [Keys -> Value]]]
      BY <1>y, <1>2, Places DEF SyncInv, SyncType
    <3>2. \A b \in Backends, x \in M, y \in Keys :
            maps'[b][x][y] = IF b = Shared THEN new[x][y] ELSE maps[b][x][y]
      BY <3>1
    <3>3. \A x \in M, y \in Keys : <<x, y>> \in late' \/ new[x][y] = maps[Shared][x][y]
      BY <1>1, <1>2, <1>6, <1>a DEF rows
    <3> TAKE b \in Backends \ {Source}, x \in M, y \in Keys
    <3>4. maps'[b][x][y] = IF b = Shared THEN new[x][y] ELSE maps[b][x][y]
      BY <3>2
    <3>5. <<x, y>> \in late' \/ new[x][y] = maps[Shared][x][y]
      BY <3>3
    <3> QED
      BY <3>4, <3>5
  <2> QED
    BY <1>y, <1>2, <1>3, <1>4, <1>6, <2>1, <2>2, NotedStep
<1> QED
  BY <1>5, <1>6

\* A part of a batch that is written to a destination is what the source had there.
Written(ks) ==
  [maps EXCEPT ![Dests[j]][Hashmap(i)] =
     [k \in Keys |-> IF k \in ks THEN batch[k] ELSE @[k]]]

LEMMA PutSome ==
  ASSUME SyncConstants, SyncInv, phase = "put", NEW ks \in SUBSET (DOMAIN batch)
  PROVE  /\ Written(ks) \in [Backends -> [M -> [Keys -> Value]]]
         /\ \A b \in Backends, m \in M, k \in Keys :
              Written(ks)[b][m][k] = IF b = Dests[j] /\ m = i /\ k \in ks THEN batch[k] ELSE maps[b][m][k]
         /\ \A k \in ks : batch[k] \in had[i][k]
<1> USE Places
<1> DEFINE row == [k \in Keys |-> IF k \in ks THEN batch[k] ELSE maps[Dests[j]][i][k]]
<1>1. i \in M /\ Dests[j] \in Backends /\ ks \subseteq Keys
  BY DEF SyncInv, SyncType
<1>2. \A k \in ks : batch[k] \in had[i][k] /\ batch[k] \in Value
  BY <1>1 DEF SyncInv, SyncType, ListedHad
<1>3. row \in [Keys -> Value]
  BY <1>1, <1>2 DEF SyncInv, SyncType
<1>4. Written(ks) = [maps EXCEPT ![Dests[j]][i] = row]
  BY DEF Hashmap, Written
<1>5. \A k \in Keys : row[k] = IF k \in ks THEN batch[k] ELSE maps[Dests[j]][i][k]
  OBVIOUS
<1> HIDE DEF row
<1>6. /\ Written(ks) \in [Backends -> [M -> [Keys -> Value]]]
      /\ \A b \in Backends, m \in M :
           Written(ks)[b][m] = IF b = Dests[j] /\ m = i THEN row ELSE maps[b][m]
  <2>1. maps \in [Backends -> [M -> [Keys -> Value]]]
    BY DEF SyncInv, SyncType
  <2>2. /\ [maps EXCEPT ![Dests[j]][i] = row] \in [Backends -> [M -> [Keys -> Value]]]
        /\ \A b \in Backends, m \in M :
             [maps EXCEPT ![Dests[j]][i] = row][b][m] = IF b = Dests[j] /\ m = i THEN row ELSE maps[b][m]
    BY <1>1, <1>3, <2>1, OneHashmap
  <2> QED
    BY <1>4, <2>2
<1> QED
  BY <1>2, <1>5, <1>6

\* What comes before the sync, and what comes after a failure.
LEMMA OutsideKeeps ==
  ASSUME SyncConstants, SyncInv,
         \/ EnterOverride \/ BodyWrites \/ LeaveBody \/ Leave
         \/ KeyIsGone \/ CallFails \/ UNCHANGED syncVars
  PROVE  SyncInv'
<1> USE Places DEF sync, histories
<1>1. CASE EnterOverride \/ LeaveBody
  BY <1>1 DEF EnterOverride, LeaveBody, SyncInv, SyncType, SourceHad, PassedFresh, ListedHad,
              ListedInWork, Ended
<1>2. CASE BodyWrites
  <2>1. PICK m \in M, k \in KeysToSync, v \in {Unset, [n |-> writes + 1, ref |-> FALSE]} :
          /\ maps' = [maps EXCEPT ![Source][m][k] = v]
          /\ had' = [had EXCEPT ![m][k] = {v}]
    BY <1>2 DEF BodyWrites, PutValue, Saw
  <2>2. v \in Value /\ writes + 1 \in Nat
    BY OtherValues DEF SyncInv
  <2>3. SyncType'
    BY <1>2, <2>1, <2>2 DEF BodyWrites, SyncInv, SyncType
  <2>4. SourceHad'
    BY <2>1, <2>2 DEF SyncInv, SyncType, SourceHad
  <2> QED
    BY <1>2, <2>3, <2>4 DEF BodyWrites, SyncInv, SyncType, PassedFresh, ListedHad, ListedInWork, Ended
<1>3. CASE Leave
  BY <1>3 DEF Leave, SyncInv, SyncType, SourceHad, PassedFresh, Known, ListedHad, ListedInWork, Ended
<1>4. CASE UNCHANGED syncVars
  BY <1>4 DEF syncVars, SyncInv, SyncType, SourceHad, PassedFresh, Known, ListedHad, ListedInWork,
              Listed, InWork, Ended, OutOfSync, ToDelete
<1>5. CASE KeyIsGone
  BY <1>5 DEF KeyIsGone, Raise, SyncInv, SyncType, SourceHad, PassedFresh, Known, ListedHad,
              ListedInWork, Ended
<1>6. CASE CallFails
  <2>1. CASE UNCHANGED maps
    BY <1>6, <2>1 DEF CallFails, Raise, SyncInv, SyncType, SourceHad, PassedFresh, Known,
                      ListedHad, ListedInWork, Begin, Ended
  <2>2. ASSUME phase = "put", NEW ks \in SUBSET Sent(Dests[j]),
               maps' = [maps EXCEPT ![Dests[j]][Hashmap(i)] =
                          [k \in Keys |-> IF k \in ks THEN batch[k] ELSE @[k]]]
        PROVE  SyncInv'
    <3>1. ks \in SUBSET (DOMAIN batch) /\ Dests[j] # Source /\ Dests[j] \in Backends
      BY <2>2 DEF Sent, SyncInv, SyncType
    <3>2. /\ maps' \in [Backends -> [M -> [Keys -> Value]]]
          /\ \A b \in Backends, m \in M, k \in Keys :
               maps'[b][m][k] = IF b = Dests[j] /\ m = i /\ k \in ks THEN batch[k] ELSE maps[b][m][k]
      <4>1. maps' = Written(ks)
        BY <2>2 DEF Written
      <4>2. phase = "put"
        BY <2>2
      <4> QED
        BY <3>1, <4>1, <4>2, PutSome
    <3>3. phase' = "raised" /\ UNCHANGED <<had, late, hashes, i, j, todo, batch, writes>>
      BY <1>6 DEF CallFails, Raise
    <3>4. SyncType' /\ SourceHad'
      BY <3>1, <3>2, <3>3 DEF SyncInv, SyncType, SourceHad
    <3>5. PassedFresh'
      BY <2>2, <3>2, <3>3 DEF SyncInv, SyncType, PassedFresh, Known, Ended
    <3> QED
      BY <3>3, <3>4, <3>5 DEF SyncInv, ListedHad, ListedInWork
  <2> QED
    BY <1>6, <2>1, <2>2 DEF CallFails
<1> QED
  BY <1>1, <1>2, <1>3, <1>4, <1>5, <1>6

\* The hashes of the source, and those of a destination.
LEMMA ListSourceKeeps == SyncConstants /\ SyncInv /\ ListSource => SyncInv'
<1> SUFFICES ASSUME SyncConstants, SyncInv, ListSource PROVE SyncInv'
  OBVIOUS
<1> USE Places DEF Stay, histories, Hashmap
<1>1. /\ phase = "listSource" /\ phase' = "listDest" /\ j' = 1 /\ todo' = {}
      /\ hashes' = [hashes EXCEPT ![Source] = maps[Source][i]]
      /\ UNCHANGED <<maps, i, batch, had, late, writes>>
  BY DEF ListSource
<1>2. SyncType'
  BY <1>1 DEF SyncInv, SyncType
<1>3. ListedHad'
  BY <1>1 DEF SyncInv, SyncType, SourceHad, ListedHad
<1>4. SourceHad' /\ PassedFresh'
  BY <1>1 DEF SyncInv, SourceHad, PassedFresh, Known, Ended
<1>5. ListedInWork'
  BY <1>1 DEF ListedInWork, Listed
<1> QED
  BY <1>2, <1>3, <1>4, <1>5 DEF SyncInv

\* The hashes of a destination: what differs is to be pulled or deleted.
LEMMA ListDestKeeps == SyncConstants /\ SyncInv /\ ListDest => SyncInv'
<1> SUFFICES ASSUME SyncConstants, SyncInv, ListDest PROVE SyncInv'
  OBVIOUS
<1> USE Places DEF Stay, histories, Hashmap
<1>1. /\ phase = "listDest" /\ phase' = "delete"
      /\ hashes' = [hashes EXCEPT ![Dests[j]] = maps[Dests[j]][i]]
      /\ todo' = todo \cup (OutOfSync(Dests[j], hashes') \cap KeysToSync)
      /\ UNCHANGED <<maps, i, j, batch, had, late, writes>>
  BY DEF ListDest
<1>2. SyncType'
  BY <1>1 DEF SyncInv, SyncType
<1>3. hashes'[Source] = hashes[Source] /\ hashes'[Dests[j]] = maps[Dests[j]][i]
  BY <1>1 DEF SyncInv, SyncType
<1>4. ListedHad'
  BY <1>1, <1>3 DEF SyncInv, ListedHad
<1>5. SourceHad' /\ PassedFresh'
  BY <1>1 DEF SyncInv, SourceHad, PassedFresh, Known, Ended
<1>6. ASSUME NEW n \in DOMAIN Dests, NEW k \in KeysToSync, Listed(n)'
      PROVE  (Known(Dests[n], i, k) \/ InWork(n, k))'
  <2>1. CASE Dests[n] = Dests[j]
    <3>1. CASE hashes'[Source][k] = hashes'[Dests[j]][k]
      BY <1>1, <1>3, <1>4, <2>1, <3>1 DEF SyncInv, SyncType, ListedHad, Known
    <3>2. CASE hashes'[Source][k] # hashes'[Dests[j]][k] /\ hashes'[Source][k] = Unset
      BY <1>1, <2>1, <3>2 DEF InWork, ToDelete
    <3>3. CASE hashes'[Source][k] # hashes'[Dests[j]][k] /\ hashes'[Source][k] # Unset
      BY <1>1, <2>1, <3>3 DEF InWork, OutOfSync
    <3> QED
      BY <3>1, <3>2, <3>3
  <2>2. CASE Dests[n] # Dests[j]
    <3>1. Listed(n) /\ hashes'[Dests[n]] = hashes[Dests[n]]
      BY <1>1, <1>6, <2>2 DEF Listed, SyncInv, SyncType
    <3>2. Known(Dests[n], i, k) \/ InWork(n, k)
      BY <1>1, <3>1 DEF SyncInv, ListedInWork
    <3>3. k \in OutOfSync(Dests[n], hashes)' <=> k \in OutOfSync(Dests[n], hashes)
      BY <1>3, <3>1 DEF OutOfSync
    <3> QED
      BY <1>1, <3>2, <3>3 DEF Known, InWork
  <2> QED
    BY <2>1, <2>2
<1>7. ListedInWork'
  BY <1>6 DEF ListedInWork
<1> QED
  BY <1>2, <1>4, <1>5, <1>7 DEF SyncInv

\* A deletion.
LEMMA DeleteKeeps == SyncConstants /\ SyncInv /\ Delete => SyncInv'
<1> DEFINE gone == ToDelete(Dests[j])
           row == [k \in Keys |-> IF k \in gone THEN Unset ELSE maps[Dests[j]][i][k]]
<1>z. SUFFICES ASSUME SyncConstants, SyncInv, Delete PROVE SyncInv'
  OBVIOUS
<1>0. /\ SyncType /\ SourceHad /\ PassedFresh /\ ListedHad /\ ListedInWork
      /\ i \in M /\ j \in DOMAIN Dests /\ Dests[j] \in Backends \ {Source}
      /\ maps \in [Backends -> [M -> [Keys -> Value]]]
  BY <1>z, Places DEF SyncInv, SyncType
<1>1. /\ phase = "delete" /\ maps' = [maps EXCEPT ![Dests[j]][i] = row]
      /\ \/ j < Len(Dests) /\ j' = j + 1 /\ phase' = "listDest"
         \/ j = Len(Dests) /\ j' = 1 /\ phase' = "pull"
      /\ UNCHANGED <<i, hashes, todo, batch, had, late, writes>>
  BY <1>z, <1>0, Places DEF Delete, Stay, histories, Hashmap
<1>2. \A k \in Keys : row[k] = IF k \in gone THEN Unset ELSE maps[Dests[j]][i][k]
  OBVIOUS
<1>3. row \in [Keys -> Value]
  BY <1>0 DEF Value, Unset
<1> HIDE DEF row
<1>4. /\ [maps EXCEPT ![Dests[j]][i] = row] \in [Backends -> [M -> [Keys -> Value]]]
      /\ \A b \in Backends, m \in M :
           [maps EXCEPT ![Dests[j]][i] = row][b][m] = IF b = Dests[j] /\ m = i THEN row ELSE maps[b][m]
  BY <1>0, <1>3, OneHashmap
<1>5. /\ maps' \in [Backends -> [M -> [Keys -> Value]]]
      /\ \A b \in Backends, m \in M, k \in Keys :
           maps'[b][m][k] = IF b = Dests[j] /\ m = i /\ k \in gone THEN Unset ELSE maps[b][m][k]
  BY <1>1, <1>2, <1>4
<1>6. \A k \in gone : k \in Keys /\ Unset \in had[i][k]
  BY <1>0, <1>1, <1>z, Places DEF ListedHad, ToDelete
<1> HIDE DEF gone
<1>7. SyncType'
  BY <1>0, <1>1, <1>5, <1>z, Places DEF SyncType
<1>8. SourceHad' /\ ListedHad'
  BY <1>0, <1>1, <1>5, <1>z, Places DEF SourceHad, ListedHad
<1>9. \A b \in Backends \ {Source}, m \in M, k \in KeysToSync : Known(b, m, k) => Known(b, m, k)'
  BY <1>1, <1>5, <1>6, <1>z, Places DEF Known
<1>10. PassedFresh'
  BY <1>0, <1>1, <1>9 DEF PassedFresh, Ended
<1>11. ASSUME NEW n \in DOMAIN Dests, NEW k \in KeysToSync, Listed(n)'
       PROVE  (Known(Dests[n], i, k) \/ InWork(n, k))'
  <2>1. Listed(n)
    BY <1>0, <1>1, <1>11, <1>z, Places DEF Listed
  <2>2. Known(Dests[n], i, k) \/ InWork(n, k)
    BY <1>0, <1>1, <2>1 DEF ListedInWork
  <2>3. CASE Known(Dests[n], i, k)
    BY <1>0, <1>1, <1>9, <1>z, <2>3, Places
  <2>4. CASE Dests[n] = Dests[j] /\ k \in ToDelete(Dests[n])
    BY <1>0, <1>1, <1>5, <1>6, <1>z, <2>4, Places DEF Known, gone
  <2>5. CASE k \in todo /\ k \in OutOfSync(Dests[n], hashes)
    BY <1>1, <2>5 DEF InWork, OutOfSync
  <2> QED
    BY <1>1, <2>2, <2>3, <2>4, <2>5 DEF InWork
<1>12. ListedInWork'
  BY <1>11 DEF ListedInWork
<1> QED
  BY <1>7, <1>8, <1>10, <1>12 DEF SyncInv

\* A batch is pulled.
LEMMA PullKeeps == SyncConstants /\ SyncInv /\ Pull => SyncInv'
<1> SUFFICES ASSUME SyncConstants, SyncInv, Pull PROVE SyncInv'
  OBVIOUS
<1> USE Places DEF Stay, histories
<1>1. PICK ks \in SUBSET todo : todo' = todo \ ks /\ batch' = [k \in ks |-> maps[Source][i][k]]
  BY DEF Pull, Batches, Values, Hashmap
<1>2. /\ phase = "pull" /\ phase' = "put"
      /\ UNCHANGED <<maps, i, j, hashes, had, late, writes>>
  BY DEF Pull
<1>3. DOMAIN batch' = ks /\ ks \subseteq KeysToSync
  BY <1>1 DEF SyncInv, SyncType
<1>4. SyncType'
  BY <1>1, <1>2, <1>3 DEF SyncInv, SyncType
<1>5. ListedHad'
  BY <1>1, <1>2, <1>3 DEF SyncInv, SyncType, SourceHad, ListedHad
<1>6. SourceHad' /\ PassedFresh'
  BY <1>2 DEF SyncInv, SourceHad, PassedFresh, Known, Ended
<1>7. j = 1
  BY <1>2 DEF SyncInv, SyncType
<1>8. ListedInWork'
  BY <1>1, <1>2, <1>3, <1>7 DEF SyncInv, ListedInWork, Listed, Known, InWork, OutOfSync, ToDelete
<1> QED
  BY <1>4, <1>5, <1>6, <1>8 DEF SyncInv

\* A batch is written to a destination.
LEMMA PutBatchKeeps == SyncConstants /\ SyncInv /\ PutBatch => SyncInv'
<1> DEFINE ks == Sent(Dests[j])
<1>z. SUFFICES ASSUME SyncConstants, SyncInv, PutBatch PROVE SyncInv'
  OBVIOUS
<1>0. /\ SyncType /\ SourceHad /\ PassedFresh /\ ListedHad /\ ListedInWork
      /\ i \in M /\ j \in DOMAIN Dests /\ Dests[j] \in Backends \ {Source}
  BY <1>z, Places DEF SyncInv, SyncType
<1>1. /\ phase = "put" /\ maps' = Written(ks)
      /\ \/ j < Len(Dests) /\ j' = j + 1 /\ phase' = "put"
         \/ j = Len(Dests) /\ j' = 1 /\ phase' = "pull"
      /\ UNCHANGED <<i, hashes, todo, batch, had, late, writes>>
  BY <1>z, <1>0, Places DEF PutBatch, Stay, histories, Written
<1>2. ks \in SUBSET (DOMAIN batch)
  BY DEF Sent
<1>3. phase = "put"
  BY <1>1
<1>4. /\ Written(ks) \in [Backends -> [M -> [Keys -> Value]]]
      /\ \A b \in Backends, m \in M, k \in Keys :
           Written(ks)[b][m][k] = IF b = Dests[j] /\ m = i /\ k \in ks THEN batch[k] ELSE maps[b][m][k]
      /\ \A k \in ks : batch[k] \in had[i][k]
  BY <1>z, <1>2, <1>3, PutSome
<1> HIDE DEF ks
<1>5. SyncType'
  BY <1>0, <1>1, <1>4, Places, <1>z DEF SyncType
<1>6. SourceHad' /\ ListedHad'
  <2>1. Source \in Backends /\ Source # Dests[j]
    BY <1>0, <1>z, Places
  <2>2. \A m \in M, k \in Keys : maps'[Source][m][k] = maps[Source][m][k]
    BY <1>1, <1>4, <2>1
  <2>3. SourceHad'
    BY <1>0, <1>1, <2>2 DEF SourceHad
  <2>4. ListedHad'
    BY <1>0, <1>1 DEF ListedHad
  <2> QED
    BY <2>3, <2>4
<1>7. \A b \in Backends \ {Source}, m \in M, k \in KeysToSync : Known(b, m, k) => Known(b, m, k)'
  BY <1>1, <1>4, Places, <1>z DEF Known
<1>8. PassedFresh'
  BY <1>0, <1>1, <1>7 DEF PassedFresh, Ended
<1>9. ASSUME NEW n \in DOMAIN Dests, NEW k \in KeysToSync, Listed(n)'
      PROVE  (Known(Dests[n], i, k) \/ InWork(n, k))'
  <2>1. Known(Dests[n], i, k) \/ InWork(n, k)
    BY <1>0, <1>3 DEF ListedInWork, Listed
  <2>2. CASE Known(Dests[n], i, k)
    BY <1>0, <1>1, <1>7, <1>z, <2>2, Places
  <2>3. CASE k \in todo /\ k \in OutOfSync(Dests[n], hashes)
    BY <1>1, <2>3 DEF InWork, OutOfSync
  <2>4. CASE n >= j /\ k \in DOMAIN batch /\ k \in OutOfSync(Dests[n], hashes)
    <3>1. CASE n = j
      <4>1. k \in ks /\ k \in Keys
        BY <1>z, <2>4, <3>1, Places DEF ks, Sent
      <4> QED
        BY <1>0, <1>1, <1>4, <3>1, <4>1 DEF Known
    <3>2. CASE n # j
      <4>1. n >= j + 1 /\ j < Len(Dests)
        BY <1>0, <1>z, <2>4, <3>2, Places
      <4> QED
        BY <1>1, <2>4, <4>1 DEF InWork, OutOfSync
    <3> QED
      BY <3>1, <3>2
  <2> QED
    BY <1>1, <2>1, <2>2, <2>3, <2>4 DEF InWork
<1>10. ListedInWork'
  BY <1>9 DEF ListedInWork
<1> QED
  BY <1>5, <1>6, <1>8, <1>10 DEF SyncInv

\* The next hashmap: nothing is left to do for this one.
LEMMA NextMapKeeps == SyncConstants /\ SyncInv /\ NextMap => SyncInv'
<1> SUFFICES ASSUME SyncConstants, SyncInv, NextMap PROVE SyncInv'
  OBVIOUS
<1> USE Places DEF Stay, histories
<1>1. /\ phase = "pull" /\ todo = {}
      /\ \/ i < Len(Maps) /\ i' = i + 1 /\ phase' = "listSource"
         \/ i = Len(Maps) /\ i' = i /\ phase' \in {"restore", "done"}
      /\ UNCHANGED <<maps, j, hashes, todo, had, late, writes>>
  BY DEF NextMap, SyncInv, SyncType
<1>2. \A n \in DOMAIN Dests, k \in KeysToSync : Known(Dests[n], i, k)
  BY <1>1 DEF SyncInv, ListedInWork, Listed, InWork
<1>3. \A b \in Backends \ {Source}, k \in KeysToSync : Known(b, i, k)
  BY <1>2
<1>4. \A m \in M, b \in Backends \ {Source}, k \in KeysToSync :
        m <= i => Known(b, m, k)
  <2> TAKE m \in M, b \in Backends \ {Source}, k \in KeysToSync
  <2>1. m < i => Known(b, m, k)
    BY DEF SyncInv, PassedFresh
  <2>2. m = i => Known(b, m, k)
    BY <1>3
  <2>3. m <= i => m < i \/ m = i
    BY DEF SyncInv, SyncType
  <2> QED
    BY <2>1, <2>2, <2>3
<1>5. SyncType'
  BY <1>1 DEF SyncInv, SyncType
<1>6. \A m \in M : (m < i \/ Ended)' => m <= i
  BY <1>1 DEF Ended, SyncInv, SyncType
<1>7. PassedFresh'
  BY <1>1, <1>4, <1>6 DEF PassedFresh, Known
<1>8. SourceHad' /\ ListedHad' /\ ListedInWork'
  BY <1>1 DEF SyncInv, SourceHad, ListedHad, ListedInWork
<1> QED
  BY <1>5, <1>7, <1>8 DEF SyncInv

\* Every step keeps the invariant.
LEMMA SyncNextInv == SyncConstants /\ SyncInv /\ [SyncNext]_syncVars => SyncInv'
  BY OtherWritesKeeps, OtherArchivesKeeps, OutsideKeeps, ListSourceKeeps, ListDestKeeps, DeleteKeeps,
     PullKeeps, PutBatchKeeps, NextMapKeeps DEF SyncNext

\* sync_lazy_json_hashmap, of all hashmaps or at the end of lazy_json_override_backends: when it ends,
\* each destination has for each key what the source had while it ran, unless another job has
\* written that key of the destination.
THEOREM SyncedIsFresh == SyncSpec => []FreshWhenDone
<1>1. SyncInit => SyncInv
  BY SyncInitInv, SyncAssumption
<1>2. SyncInv /\ [SyncNext]_syncVars => SyncInv'
  BY SyncNextInv, SyncAssumption
<1>3. SyncInv => FreshWhenDone
  <2> SUFFICES ASSUME SyncInv, Ended, NEW b \in Backends, NEW m \in M, NEW k \in KeysToSync
               PROVE  Known(b, m, k)
    BY DEF SyncInv, SyncType, FreshWhenDone, Known
  <2>1. k \in Keys
    BY SyncAssumption DEF SyncConstants
  <2> QED
    BY <2>1 DEF SyncInv, SourceHad, PassedFresh, Known
<1> QED
  BY <1>1, <1>2, <1>3, PTL DEF SyncSpec
==============================================================================
