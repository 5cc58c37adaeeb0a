-------------------------- MODULE Migrations_proofs --------------------------
(* The order of a migration, its page, and which feedstocks it rebuilds, for every *)
(* graph and any number of faults; the migrations of a pin, for any versions; and  *)
(* the files of the migrators, for any of them.                                    *)
EXTENDS MigrationStatus, MigrationScope, Sequences, FiniteSetTheorems, TLAPS

\* What the records may say: a pull request that any clone of the running pass,
\* or the graph repository, calls closed is closed on GitHub.
Entries ==
  /\ record \in [Nodes -> EntryState]
  /\ seen \in [Nodes -> EntryState]
  /\ github \in [Nodes -> {"none", "open", "closed"}]
ClosedIsClosed == \A n \in Nodes : record[n] = "closed" => github[n] = "closed"
SeenIsClosed ==
  phase = "pass" => \A n \in Nodes : seen[n] = "closed" => github[n] = "closed"
NoShortcut == dumped.cycles = {} /\ dumped.topLevel = {}

IInv == Entries /\ ClosedIsClosed /\ SeenIsClosed /\ NoShortcut

\* The migrator that auto-tick loads has no cycles and no top level.
LEMMA LoadedMigrator ==
  ASSUME NEW rec, NEW hea
  PROVE  Migrator(rec, hea).cycles = {} /\ Migrator(rec, hea).topLevel = {}
  BY DEF Migrator, LoadedCycles, LoadedTopLevel

LEMMA Initially == Init => IInv
<1> SUFFICES ASSUME Init PROVE IInv
  OBVIOUS
<1>1. Entries
  BY DEF Init, Entries, EntryState
<1>2. ClosedIsClosed /\ SeenIsClosed
  BY DEF Init, ClosedIsClosed, SeenIsClosed
<1>3. NoShortcut
  BY LoadedMigrator DEF Init, NoShortcut
<1> QED BY <1>1, <1>2, <1>3 DEF IInv

LEMMA Inductive == IInv /\ [Next]_vars => IInv'
<1> SUFFICES ASSUME IInv, [Next]_vars PROVE IInv'
  OBVIOUS
<1> USE DEF IInv
<1>1. CASE MakeMigrators
  <2>1. NoShortcut'
    BY <1>1, LoadedMigrator DEF MakeMigrators, NoShortcut
  <2> QED BY <1>1, <2>1 DEF MakeMigrators, World, Entries, ClosedIsClosed, SeenIsClosed
<1>2. CASE StartPass
  BY <1>2 DEF StartPass, World, Entries, ClosedIsClosed, SeenIsClosed, NoShortcut
<1>3. CASE Skip
  BY <1>3 DEF Skip, World, Entries, ClosedIsClosed, SeenIsClosed, NoShortcut
<1>4. ASSUME NEW n \in Nodes, Issue(n) PROVE IInv'
  <2>1. Entries'
    BY <1>4 DEF Issue, Entries, EntryState
  <2>2. ClosedIsClosed' /\ SeenIsClosed'
    BY <1>4 DEF Issue, Entries, EntryState, ClosedIsClosed, SeenIsClosed
  <2> QED BY <1>4, <2>1, <2>2 DEF Issue, NoShortcut
<1>5. CASE EndPass
  BY <1>5 DEF EndPass, World, Entries, ClosedIsClosed, SeenIsClosed, NoShortcut
<1>6. ASSUME NEW n \in Nodes, People(n) PROVE IInv'
  <2>1. CASE CloseOnGithub(n)
    BY <2>1 DEF CloseOnGithub, Outside, Entries, ClosedIsClosed, SeenIsClosed, NoShortcut
  <2>2. CASE Refresh(n)
    BY <2>2 DEF Refresh, Outside, Entries, EntryState, ClosedIsClosed, SeenIsClosed, NoShortcut
  <2>3. CASE OtherMigration(n)
    BY <2>3 DEF OtherMigration, Outside, Entries, ClosedIsClosed, SeenIsClosed, NoShortcut
  <2>4. CASE Rerun(n)
    BY <2>4 DEF Rerun, Outside, Entries, EntryState, ClosedIsClosed, SeenIsClosed, NoShortcut
  <2>5. CASE Archive(n) \/ Break(n) \/ Repair(n)
    BY <2>5 DEF Archive, Break, Repair, Outside, Entries, ClosedIsClosed, SeenIsClosed, NoShortcut
  <2>6. CASE LoseEntry(n)
    BY <2>6 DEF LoseEntry, Outside, Entries, EntryState, ClosedIsClosed, SeenIsClosed, NoShortcut
  <2> QED BY <1>6, <2>1, <2>2, <2>3, <2>4, <2>5, <2>6 DEF People
<1>7. CASE UNCHANGED vars
  BY <1>7 DEF vars, Entries, ClosedIsClosed, SeenIsClosed, NoShortcut
<1> QED BY <1>1, <1>2, <1>3, <1>4, <1>5, <1>6, <1>7 DEF Next, Bot

\* Only Issue opens a pull request, and it has looked at all predecessors.
LEMMA StepInOrder ==
  ASSUME IInv, IInv', [Next]_vars, NEW n \in Feedstocks
  PROVE  OpensInOrder(n)
<1> SUFFICES ASSUME github[n] # "open", github'[n] = "open",
                    NEW d \in Nodes \cap Predecessors(dumped.graph, n),
                    seenHealth[d] # "archived", d \notin IgnoredDeps[n]
             PROVE  github[d] = "closed"
  BY DEF OpensInOrder
<1> USE DEF IInv
<1>0. n \in Nodes /\ n # Pinning /\ d \in Nodes
  BY GraphAssumption DEF Nodes
<1>1. Issue(n)
  <2>1. ASSUME NEW m \in Nodes, Issue(m) PROVE m = n
    BY <2>1, <1>0 DEF Issue, Entries
  <2>2. ASSUME NEW m \in Nodes, People(m) PROVE FALSE
    BY <2>2, <1>0 DEF People, CloseOnGithub, Refresh, OtherMigration, Rerun, Archive, Break,
                 Repair, LoseEntry, Entries
  <2>3. ~(MakeMigrators \/ StartPass \/ Skip \/ EndPass \/ UNCHANGED vars)
    BY DEF MakeMigrators, StartPass, Skip, EndPass, World, vars
  <2> QED BY <2>1, <2>2, <2>3 DEF Next, Bot
<1>2. ~PredecessorsNotYetBuilt(dumped, seen, seenHealth, n)
  BY <1>0, <1>1 DEF Issue, Skipped, FilterNodeMigrated, IsReady, NoShortcut
<1>3. d \in ActivePredecessors(dumped, seenHealth, n)
  BY DEF ActivePredecessors
<1>4. seen[d] = "closed" /\ phase = "pass"
  BY <1>1, <1>2, <1>3 DEF PredecessorsNotYetBuilt, Issue
<1> QED BY <1>0, <1>4 DEF SeenIsClosed

\* A pull request is opened only when those of the predecessors are closed.
THEOREM MigrationInOrder == Spec => OrderRespected
<1>1. IInv /\ IInv' /\ [Next]_vars => [\A n \in Feedstocks : OpensInOrder(n)]_vars
  <2> SUFFICES ASSUME IInv, IInv', [Next]_vars
               PROVE  \A n \in Feedstocks : OpensInOrder(n)
    OBVIOUS
  <2> QED BY StepInOrder
<1>2. Spec => []IInv
  BY Initially, Inductive, PTL DEF Spec
<1> QED BY <1>1, <1>2, PTL DEF Spec, OrderRespected

\* The records are never ahead of GitHub.
THEOREM RecordsAreTrue == Spec => []ClosedIsClosed
<1>1. IInv => ClosedIsClosed
  BY DEF IInv
<1> QED BY <1>1, Initially, Inductive, PTL DEF Spec

-----------------------------------------------------------------------------
(* Plucking: what a fold over a finite set keeps, by its smallest subset that it *)
(* does not keep it for.                                                        *)

\* Among some subsets of a finite set there is a smallest one: induction over sets.
LEMMA SmallestSubset ==
  ASSUME NEW S, IsFiniteSet(S), NEW T, T \subseteq SUBSET S, T # {}
  PROVE  \E s \in T : \A t \in T : t \subseteq s => t = s
<1>1. T \subseteq FiniteSubsetsOf(S)
  BY FS_Subset DEF FiniteSubsetsOf
<1>2. PICK s \in T : \A t \in T : ~(<<t, s>> \in StrictSubsetOrdering(S))
  BY <1>1, FS_StrictSubsetOrderingWellFounded, WFMin
<1> QED BY <1>2 DEF StrictSubsetOrdering

\* PluckAll as the function that FoldSet defines by recursion over the subsets.
Some(s) == CHOOSE x \in s : TRUE
Rest(s) == s \ {Some(s)}
Plucked(g, G, s) == IF s = {} THEN G ELSE Pluck(g[Rest(s)], Some(s))
IsPlucking(g, G, S) == g = [s \in SUBSET S |-> Plucked(g, G, s)]
Plucking(G, S) == CHOOSE g : IsPlucking(g, G, S)

LEMMA PluckAllIsPlucking == ASSUME NEW G, NEW S PROVE PluckAll(G, S) = Plucking(G, S)[S]
BY DEF PluckAll, FoldSet, MapThenFoldSet, Plucking, IsPlucking, Plucked, Some, Rest

LEMMA SomeIsIn == ASSUME NEW s, s # {} PROVE Some(s) \in s /\ Rest(s) \subseteq s /\ Rest(s) # s
<1>1. Some(s) \in s
  BY DEF Some
<1> QED BY <1>1 DEF Rest

\* Two such functions agree where both are defined.
LEMMA PluckingIsUnique ==
  ASSUME NEW G, NEW S, IsFiniteSet(S), NEW R, NEW g, NEW h,
         IsPlucking(g, G, S), IsPlucking(h, G, R), R \subseteq S
  PROVE  \A s \in SUBSET R : g[s] = h[s]
<1> DEFINE Differ == {s \in SUBSET R : g[s] # h[s]}
<1> SUFFICES ASSUME Differ # {} PROVE FALSE
  OBVIOUS
<1>1. PICK s \in Differ : \A t \in Differ : t \subseteq s => t = s
  <2>1. Differ \subseteq SUBSET S
    OBVIOUS
  <2> HIDE DEF Differ
  <2> QED BY <2>1, SmallestSubset
<1>2. g[s] = Plucked(g, G, s) /\ h[s] = Plucked(h, G, s)
  BY DEF IsPlucking
<1>3. CASE s = {}
  BY <1>2, <1>3 DEF Plucked
<1>4. CASE s # {}
  <2>1. g[Rest(s)] = h[Rest(s)]
    BY <1>1, <1>4, SomeIsIn
  <2> QED BY <1>2, <1>4, <2>1 DEF Plucked
<1> QED BY <1>3, <1>4

\* There is one for each finite set.
LEMMA PluckingExists ==
  ASSUME NEW G, NEW S, IsFiniteSet(S)
  PROVE  IsPlucking(Plucking(G, S), G, S)
<1> DEFINE Without == {s \in SUBSET S : ~\E g : IsPlucking(g, G, s)}
<1> SUFFICES ASSUME Without # {} PROVE FALSE
  <2>1. ~(S \in Without) => \E g : IsPlucking(g, G, S)
    OBVIOUS
  <2> QED BY <2>1 DEF Plucking
<1>1. PICK s \in Without : \A t \in Without : t \subseteq s => t = s
  <2>1. Without \subseteq SUBSET S
    OBVIOUS
  <2> HIDE DEF Without
  <2> QED BY <2>1, SmallestSubset
<1>2. ASSUME NEW t \in SUBSET s, t # s
      PROVE  IsPlucking(Plucking(G, t), G, t)
  <2>1. t \notin Without /\ t \in SUBSET S
    BY <1>1, <1>2
  <2>2. \E g : IsPlucking(g, G, t)
    BY <2>1
  <2> QED BY <2>2 DEF Plucking
<1> DEFINE f == [t \in SUBSET s |-> IF t = {} THEN G
                                    ELSE Pluck(Plucking(G, Rest(t))[Rest(t)], Some(t))]
<1>3. ASSUME NEW t \in SUBSET s, t # s PROVE f[t] = Plucking(G, t)[t]
  <2>1. Plucking(G, t)[t] = Plucked(Plucking(G, t), G, t)
    BY <1>2, <1>3 DEF IsPlucking
  <2>2. CASE t = {}
    BY <2>1, <2>2 DEF Plucked
  <2>3. CASE t # {}
    <3>1. Rest(t) \subseteq t /\ Rest(t) \in SUBSET s /\ Rest(t) # s
      BY <1>3, <2>3, SomeIsIn
    <3>2. IsFiniteSet(t)
      BY FS_Subset
    <3>3. Plucking(G, t)[Rest(t)] = Plucking(G, Rest(t))[Rest(t)]
      BY <1>2, <1>3, <3>1, <3>2, PluckingIsUnique
    <3> QED BY <2>1, <2>3, <3>3 DEF Plucked
  <2> QED BY <2>2, <2>3
<1>4. ASSUME NEW t \in SUBSET s PROVE f[t] = Plucked(f, G, t)
  <2>1. CASE t = {}
    BY <2>1 DEF Plucked
  <2>2. CASE t # {}
    <3>1. Rest(t) \in SUBSET s /\ Rest(t) # s
      BY <2>2, SomeIsIn
    <3>2. f[Rest(t)] = Plucking(G, Rest(t))[Rest(t)]
      BY <1>3, <3>1
    <3> QED BY <2>2, <3>2 DEF Plucked
  <2> QED BY <2>1, <2>2
<1>5. IsPlucking(f, G, s)
  <2>1. f = [t \in SUBSET s |-> f[t]]
    OBVIOUS
  <2> HIDE DEF f
  <2> QED BY <1>4, <2>1 DEF IsPlucking
<1> QED BY <1>5

LEMMA PluckingSteps ==
  ASSUME NEW G, NEW S, IsFiniteSet(S)
  PROVE  /\ Plucking(G, S)[{}] = G
         /\ \A s \in SUBSET S : s # {} =>
              Plucking(G, S)[s] = Pluck(Plucking(G, S)[Rest(s)], Some(s))
<1>1. ASSUME NEW g, IsPlucking(g, G, S)
      PROVE  g[{}] = G /\ \A s \in SUBSET S : s # {} => g[s] = Pluck(g[Rest(s)], Some(s))
  <2>1. \A s \in SUBSET S : g[s] = Plucked(g, G, s)
    BY <1>1 DEF IsPlucking
  <2> QED BY <2>1 DEF Plucked
<1> QED BY <1>1, PluckingExists

\* A graph of the nodes N in which nothing depends on p.
GraphWithLeaf(N, p) ==
  {H \in [node : SUBSET N, edge : SUBSET (N \X N)] :
     /\ H.edge \subseteq H.node \X H.node
     /\ \A e \in H.edge : e[1] = p => e[2] = p}

LEMMA PluckKeepsLeaf ==
  ASSUME NEW N, NEW p, NEW H \in GraphWithLeaf(N, p), NEW n \in N \ {p}
  PROVE  Pluck(H, n) \in GraphWithLeaf(N, p)
<1> DEFINE new == (Predecessors(H, n) \ {n}) \X (Successors(H, n) \ {n})
           nodes == H.node \ {n}
           edges == {e \in H.edge : n \notin {e[1], e[2]}} \cup new
<1>1. Pluck(H, n) = IF n \in H.node THEN [node |-> nodes, edge |-> edges] ELSE H
  <2>1. \A a, b, c : [[node |-> a, edge |-> b] EXCEPT !.edge = @ \cup c] = [node |-> a, edge |-> b \cup c]
    OBVIOUS
  <2>2. [RemoveNode(H, n) EXCEPT !.edge = @ \cup new] = [node |-> nodes, edge |-> edges]
    BY <2>1 DEF RemoveNode
  <2> QED BY <2>2 DEF Pluck
<1>2. ASSUME NEW e \in new
      PROVE  /\ e \in N \X N /\ e \in nodes \X nodes
             /\ e[1] = p => e[2] = p
  <2>1. /\ e = <<e[1], e[2]>> /\ e[1] # n /\ e[2] # n
        /\ e[1] \in Predecessors(H, n) /\ e[2] \in Successors(H, n)
    BY <1>2
  <2>2. PICK d \in H.edge : d[2] = n /\ d[1] = e[1]
    BY <2>1 DEF Predecessors
  <2>3. PICK s \in H.edge : s[1] = n /\ s[2] = e[2]
    BY <2>1 DEF Successors
  <2>4. e[1] \in H.node /\ e[2] \in H.node /\ H.node \subseteq N
    BY <2>2, <2>3 DEF GraphWithLeaf
  <2>5. e[1] # p
    BY <2>2 DEF GraphWithLeaf
  <2> QED BY <2>1, <2>4, <2>5
<1>3. edges \subseteq N \X N /\ edges \subseteq nodes \X nodes
  <2>1. \A e \in H.edge : n \notin {e[1], e[2]} => e \in N \X N /\ e \in nodes \X nodes
    BY DEF GraphWithLeaf
  <2> HIDE DEF new, nodes
  <2> QED BY <1>2, <2>1
<1>4. \A e \in edges : e[1] = p => e[2] = p
  <2> HIDE DEF new
  <2> QED BY <1>2 DEF GraphWithLeaf
<1>5. nodes \in SUBSET N
  BY DEF GraphWithLeaf
<1> HIDE DEF nodes, edges
<1> QED BY <1>1, <1>3, <1>4, <1>5 DEF GraphWithLeaf

\* Plucking nodes one after the other keeps it that way.
LEMMA PluckAllKeepsLeaf ==
  ASSUME NEW N, IsFiniteSet(N), NEW p, NEW G \in GraphWithLeaf(N, p), NEW S \in SUBSET (N \ {p})
  PROVE  PluckAll(G, S) \in GraphWithLeaf(N, p)
<1>1. IsFiniteSet(S)
  BY FS_Subset
<1> DEFINE g == Plucking(G, S)
           Bad == {s \in SUBSET S : g[s] \notin GraphWithLeaf(N, p)}
<1>2. ASSUME Bad # {} PROVE FALSE
  <2>1. PICK s \in Bad : \A t \in Bad : t \subseteq s => t = s
    <3>1. Bad \subseteq SUBSET S
      OBVIOUS
    <3> HIDE DEF Bad
    <3> QED BY <1>1, <1>2, <3>1, SmallestSubset
  <2>2. s # {}
    BY <1>1, <2>1, PluckingSteps
  <2>3. Rest(s) \in SUBSET S /\ Rest(s) \notin Bad /\ Some(s) \in N \ {p}
    BY <2>1, <2>2, SomeIsIn
  <2>4. g[s] = Pluck(g[Rest(s)], Some(s))
    BY <1>1, <2>2, PluckingSteps
  <2> QED BY <2>1, <2>3, <2>4, PluckKeepsLeaf
<1> QED BY <1>2, PluckAllIsPlucking

-----------------------------------------------------------------------------
(* The page of the migration *)

\* The pinning is never archived or broken, and nothing depends on it in the graph
\* of the migrator, whatever has been plucked.
SInv ==
  /\ record \in [Nodes -> EntryState]
  /\ health \in [Nodes -> {"ok", "bad", "archived"}] /\ health[Pinning] = "ok"
  /\ dumped.graph \in GraphWithLeaf(Nodes, Pinning)

LEMMA NodesFinite == IsFiniteSet(Nodes) /\ Pinning \in Nodes
BY GraphAssumption, FS_AddElement DEF Nodes

LEMMA BuiltWithLeaf ==
  ASSUME NEW hea \in [Nodes -> {"ok", "bad", "archived"}], hea[Pinning] = "ok", NEW rec
  PROVE  Migrator(rec, hea).graph \in GraphWithLeaf(Nodes, Pinning)
<1> DEFINE cut == {n \in Nodes : FilterNotInMigration(hea, n)}
           P == PluckAll(Total, cut)
<1>1. Total \in GraphWithLeaf(Nodes, Pinning)
  <2>1. /\ Depends \cup (Nodes \X {Pinning}) \subseteq Nodes \X Nodes
        /\ \A e \in Depends \cup (Nodes \X {Pinning}) : e[1] = Pinning => e[2] = Pinning
    BY GraphAssumption DEF Nodes
  <2> QED BY <2>1 DEF Total, GraphWithLeaf
<1>2. cut \in SUBSET (Nodes \ {Pinning})
  BY DEF FilterNotInMigration
<1>3. P \in GraphWithLeaf(Nodes, Pinning)
  BY <1>1, <1>2, NodesFinite, PluckAllKeepsLeaf
<1>4. ASSUME NEW H \in GraphWithLeaf(Nodes, Pinning)
      PROVE  WithoutSelfLoops(H) \in GraphWithLeaf(Nodes, Pinning)
  BY DEF WithoutSelfLoops, GraphWithLeaf
<1>5. Migrator(rec, hea).graph = WithoutSelfLoops(P)
  BY DEF Migrator, BuiltGraph
<1> QED BY <1>3, <1>4, <1>5

LEMMA StatusInitially == StatusInit => SInv
<1> SUFFICES ASSUME StatusInit PROVE SInv
  OBVIOUS
<1>1. /\ record \in [Nodes -> EntryState]
      /\ health \in [Nodes -> {"ok", "bad", "archived"}] /\ health[Pinning] = "ok"
  BY NodesFinite DEF StatusInit, Init, EntryState
<1>2. dumped.graph \in GraphWithLeaf(Nodes, Pinning)
  BY <1>1, BuiltWithLeaf DEF StatusInit, Init
<1> QED BY <1>1, <1>2 DEF SInv

LEMMA StatusInductive == SInv /\ [StatusNext]_statusVars => SInv'
<1> SUFFICES ASSUME SInv, [StatusNext]_statusVars PROVE SInv'
  OBVIOUS
<1>1. CASE MakeMigrators
  <2>1. dumped' = Migrator(record, health) /\ UNCHANGED <<record, health>>
    BY <1>1 DEF MakeMigrators, World
  <2> QED BY <2>1, BuiltWithLeaf DEF SInv
<1>2. CASE StartPass \/ Skip \/ EndPass
  BY <1>2 DEF StartPass, Skip, EndPass, World, SInv
<1>3. ASSUME NEW n \in Nodes, People(n) PROVE SInv'
  <2>1. /\ dumped' = dumped
        /\ record' \in [Nodes -> EntryState]
    BY <1>3 DEF People, CloseOnGithub, Refresh, OtherMigration, Rerun, Archive, Break, Repair,
                LoseEntry, Outside, SInv, EntryState
  <2>2. \/ health' = health
        \/ n # Pinning /\ \E c \in {"bad", "archived"} : health' = [health EXCEPT ![n] = c]
        \/ health[n] = "bad" /\ health' = [health EXCEPT ![n] = "ok"]
    BY <1>3 DEF People, CloseOnGithub, Refresh, OtherMigration, Rerun, Archive, Break, Repair,
                LoseEntry
  <2>3. health' \in [Nodes -> {"ok", "bad", "archived"}] /\ health'[Pinning] = "ok"
    BY <2>2, NodesFinite DEF SInv
  <2> QED BY <2>1, <2>3 DEF SInv
<1>4. ASSUME NEW n \in Nodes, FailedAttempt(n) PROVE SInv'
  BY <1>4 DEF FailedAttempt, World, SInv
<1>5. ASSUME NEW n \in Nodes, IssueAfterAll(n) PROVE SInv'
  BY <1>5 DEF IssueAfterAll, Issue, SInv, EntryState
<1>6. CASE UNCHANGED vars
  BY <1>6 DEF vars, SInv
<1>7. ASSUME NEW n \in Nodes, Settle(n) PROVE SInv'
  BY <1>6, <1>7 DEF Settle
<1> QED BY <1>1, <1>2, <1>3, <1>4, <1>5, <1>6, <1>7 DEF StatusNext, OtherStep, statusVars

\* A healthy feedstock that the page says is waiting for its parents has a parent on
\* the page that is not done.
THEOREM ParentsAreShown == StatusSpec => []ParentsExplain
<1>1. SInv => ParentsExplain
  <2> SUFFICES ASSUME SInv, NEW n \in In("awaiting-parents"), health[n] = "ok", ~NeedToWait(n)
               PROVE  \E d \in Predecessors(dumped.graph, n) \cap Reported :
                        d \notin In("done") /\ d \notin IgnoredDeps[n]
    BY DEF ParentsExplain
  <2>1. n \in Nodes \ {Pinning} /\ n \in Feedstocks /\ Category(n) = "awaiting-parents"
    BY DEF In, Reported, SInv, GraphWithLeaf, Nodes
  <2>2. record[n] = "none" /\ ~Buildable(n)
    BY <2>1 DEF Category, SInv, EntryState
  <2>3. ~IsReady(dumped, record, health, n)
    BY <2>2 DEF Buildable, FilterNotInMigration, FilterNodeMigrated
  <2>4. PICK d \in ActivePredecessors(dumped, health, n) : record[d] # "closed"
    BY <2>1, <2>3 DEF IsReady, PredecessorsNotYetBuilt
  <2>5. /\ d \in Predecessors(dumped.graph, n) /\ health[d] # "archived"
        /\ d \notin IgnoredDeps[n]
    BY <2>1, <2>4 DEF ActivePredecessors
  <2>6. PICK e \in dumped.graph.edge : e[2] = n /\ e[1] = d
    BY <2>5 DEF Predecessors
  <2>7. d \in dumped.graph.node /\ d # Pinning
    BY <2>1, <2>6 DEF SInv, GraphWithLeaf
  <2>8. d \in Reported /\ Category(d) # "done"
    <3>1. ~CanBeArchived(d)
      BY <2>4 DEF CanBeArchived
    <3> QED BY <2>5, <2>7, <3>1 DEF Reported, Category
  <2> QED BY <2>5, <2>8 DEF In
<1> QED BY <1>1, StatusInitially, StatusInductive, PTL DEF StatusSpec

-----------------------------------------------------------------------------
(* Paths: the recursion of PathThrough, which goes through the nodes in an order *)
(* of its own, gives the least relation that is closed under going on.           *)

\* PathThrough as the function that it defines by recursion.
Via(G, D, u) == D \cup {e \in G.node \X G.node : <<e[1], u>> \in D /\ <<u, e[2]>> \in D}
Linked(g, G, s) == IF s = {} THEN G.edge ELSE Via(G, g[Rest(s)], Some(s))
IsLinking(g, G, S) == g = [s \in SUBSET S |-> Linked(g, G, s)]
Linking(G, S) == CHOOSE g : IsLinking(g, G, S)

LEMMA PathThroughIsLinking == ASSUME NEW G, NEW S PROVE PathThrough(G, S) = Linking(G, S)[S]
BY DEF PathThrough, Linking, IsLinking, Linked, Some, Rest, Via

LEMMA LinkingIsUnique ==
  ASSUME NEW G, NEW S, IsFiniteSet(S), NEW R, NEW g, NEW h,
         IsLinking(g, G, S), IsLinking(h, G, R), R \subseteq S
  PROVE  \A s \in SUBSET R : g[s] = h[s]
<1> DEFINE Differ == {s \in SUBSET R : g[s] # h[s]}
<1> SUFFICES ASSUME Differ # {} PROVE FALSE
  OBVIOUS
<1>1. PICK s \in Differ : \A t \in Differ : t \subseteq s => t = s
  <2>1. Differ \subseteq SUBSET S
    OBVIOUS
  <2> HIDE DEF Differ
  <2> QED BY <2>1, SmallestSubset
<1>2. g[s] = Linked(g, G, s) /\ h[s] = Linked(h, G, s)
  BY DEF IsLinking
<1>3. CASE s = {}
  BY <1>2, <1>3 DEF Linked
<1>4. CASE s # {}
  <2>1. g[Rest(s)] = h[Rest(s)]
    BY <1>1, <1>4, SomeIsIn
  <2> QED BY <1>2, <1>4, <2>1 DEF Linked
<1> QED BY <1>3, <1>4

LEMMA LinkingExists ==
  ASSUME NEW G, NEW S, IsFiniteSet(S)
  PROVE  IsLinking(Linking(G, S), G, S)
<1> DEFINE Without == {s \in SUBSET S : ~\E g : IsLinking(g, G, s)}
<1> SUFFICES ASSUME Without # {} PROVE FALSE
  <2>1. ~(S \in Without) => \E g : IsLinking(g, G, S)
    OBVIOUS
  <2> QED BY <2>1 DEF Linking
<1>1. PICK s \in Without : \A t \in Without : t \subseteq s => t = s
  <2>1. Without \subseteq SUBSET S
    OBVIOUS
  <2> HIDE DEF Without
  <2> QED BY <2>1, SmallestSubset
<1>2. ASSUME NEW t \in SUBSET s, t # s
      PROVE  IsLinking(Linking(G, t), G, t)
  <2>1. t \notin Without /\ t \in SUBSET S
    BY <1>1, <1>2
  <2>2. \E g : IsLinking(g, G, t)
    BY <2>1
  <2> QED BY <2>2 DEF Linking
<1> DEFINE f == [t \in SUBSET s |-> IF t = {} THEN G.edge
                                    ELSE Via(G, Linking(G, Rest(t))[Rest(t)], Some(t))]
<1>3. ASSUME NEW t \in SUBSET s, t # s PROVE f[t] = Linking(G, t)[t]
  <2>1. Linking(G, t)[t] = Linked(Linking(G, t), G, t)
    BY <1>2, <1>3 DEF IsLinking
  <2>2. CASE t = {}
    BY <2>1, <2>2 DEF Linked
  <2>3. CASE t # {}
    <3>1. Rest(t) \subseteq t /\ Rest(t) \in SUBSET s /\ Rest(t) # s
      BY <1>3, <2>3, SomeIsIn
    <3>2. IsFiniteSet(t)
      BY FS_Subset
    <3>3. Linking(G, t)[Rest(t)] = Linking(G, Rest(t))[Rest(t)]
      BY <1>2, <1>3, <3>1, <3>2, LinkingIsUnique
    <3> QED BY <2>1, <2>3, <3>3 DEF Linked
  <2> QED BY <2>2, <2>3
<1>4. ASSUME NEW t \in SUBSET s PROVE f[t] = Linked(f, G, t)
  <2>1. CASE t = {}
    BY <2>1 DEF Linked
  <2>2. CASE t # {}
    <3>1. Rest(t) \in SUBSET s /\ Rest(t) # s
      BY <2>2, SomeIsIn
    <3>2. f[Rest(t)] = Linking(G, Rest(t))[Rest(t)]
      BY <1>3, <3>1
    <3> QED BY <2>2, <3>2 DEF Linked
  <2> QED BY <2>1, <2>2
<1>5. IsLinking(f, G, s)
  <2>1. f = [t \in SUBSET s |-> f[t]]
    OBVIOUS
  <2> HIDE DEF f
  <2> QED BY <1>4, <2>1 DEF IsLinking
<1> QED BY <1>5

LEMMA LinkingSteps ==
  ASSUME NEW G, NEW S, IsFiniteSet(S)
  PROVE  /\ Linking(G, S)[{}] = G.edge
         /\ \A s \in SUBSET S : s # {} =>
              Linking(G, S)[s] = Via(G, Linking(G, S)[Rest(s)], Some(s))
<1>1. ASSUME NEW g, IsLinking(g, G, S)
      PROVE  g[{}] = G.edge /\ \A s \in SUBSET S : s # {} => g[s] = Via(G, g[Rest(s)], Some(s))
  <2>1. \A s \in SUBSET S : g[s] = Linked(g, G, s)
    BY <1>1 DEF IsLinking
  <2> QED BY <2>1 DEF Linked
<1> QED BY <1>1, LinkingExists

\* The same as the least relation with the edges that is closed under going on at a node
\* of S: it does not depend on any order.
Closed(X, G, S) ==
  /\ G.edge \subseteq X
  /\ \A u \in S : \A a, b \in G.node : <<a, u>> \in X /\ <<u, b>> \in X => <<a, b>> \in X
Through(G, S) ==
  {e \in G.node \X G.node : \A X \in SUBSET (G.node \X G.node) : Closed(X, G, S) => e \in X}

LEMMA ThroughNothing ==
  ASSUME NEW G, G.edge \subseteq G.node \X G.node
  PROVE  Through(G, {}) = G.edge
BY DEF Through, Closed

LEMMA ThroughClosed ==
  ASSUME NEW G, G.edge \subseteq G.node \X G.node, NEW S
  PROVE  Through(G, S) \in SUBSET (G.node \X G.node) /\ Closed(Through(G, S), G, S)
<1>1. G.edge \subseteq Through(G, S)
  BY DEF Through, Closed
<1>2. ASSUME NEW u \in S, NEW a \in G.node, NEW b \in G.node,
             <<a, u>> \in Through(G, S), <<u, b>> \in Through(G, S)
      PROVE  <<a, b>> \in Through(G, S)
  BY <1>2 DEF Through, Closed
<1> QED BY <1>1, <1>2 DEF Closed, Through

LEMMA ThroughOneMore ==
  ASSUME NEW G, G.edge \subseteq G.node \X G.node, NEW S, NEW n \in G.node
  PROVE  Through(G, S \cup {n}) = Via(G, Through(G, S), n)
<1> DEFINE D == Through(G, S)
           Y == Via(G, D, n)
<1>1. D \in SUBSET (G.node \X G.node) /\ Closed(D, G, S)
  BY ThroughClosed
<1>2. ASSUME NEW X \in SUBSET (G.node \X G.node), Closed(X, G, S \cup {n})
      PROVE  Y \subseteq X
  <2>1. Closed(X, G, S)
    BY <1>2 DEF Closed
  <2>2. D \subseteq X
    BY <2>1 DEF Through
  <2>3. ASSUME NEW e \in G.node \X G.node, <<e[1], n>> \in D, <<n, e[2]>> \in D
        PROVE  e \in X
    <3>1. <<e[1], n>> \in X /\ <<n, e[2]>> \in X /\ e = <<e[1], e[2]>> /\ e[1] \in G.node /\ e[2] \in G.node
      BY <2>2, <2>3
    <3>2. <<e[1], e[2]>> \in X
      BY <1>2, <3>1 DEF Closed
    <3> QED BY <3>1, <3>2
  <2> HIDE DEF D
  <2> QED BY <2>2, <2>3 DEF Via
<1> HIDE DEF D
<1>3. \A a, b \in G.node : <<a, b>> \in Y <=> <<a, b>> \in D \/ (<<a, n>> \in D /\ <<n, b>> \in D)
  BY DEF Via
<1>4. \A u \in S : \A a, b \in G.node : <<a, u>> \in D /\ <<u, b>> \in D => <<a, b>> \in D
  BY <1>1 DEF Closed
<1>5. Y \in SUBSET (G.node \X G.node)
  BY <1>1 DEF Via
<1> HIDE DEF Y
<1>6. Closed(Y, G, S \cup {n})
  <2>1. G.edge \subseteq Y
    BY <1>1 DEF Closed, Y, Via
  <2>2. ASSUME NEW u \in S \cup {n}, NEW a \in G.node, NEW b \in G.node, <<a, u>> \in Y, <<u, b>> \in Y
        PROVE  <<a, b>> \in Y
    <3>1. u \in G.node
      BY <1>5, <2>2
    <3>2. <<a, u>> \in D \/ (<<a, n>> \in D /\ <<n, u>> \in D)
      BY <1>3, <2>2, <3>1
    <3>3. <<u, b>> \in D \/ (<<u, n>> \in D /\ <<n, b>> \in D)
      BY <1>3, <2>2, <3>1
    <3>4. CASE u \in S
      BY <1>3, <1>4, <3>1, <3>2, <3>3, <3>4
    <3>5. CASE u = n
      BY <1>3, <3>2, <3>3, <3>5
    <3> QED BY <3>4, <3>5
  <2> QED BY <2>1, <2>2 DEF Closed
<1>7. Through(G, S \cup {n}) \subseteq Y
  BY <1>5, <1>6 DEF Through
<1>8. Y \subseteq Through(G, S \cup {n})
  BY <1>2, <1>5 DEF Through
<1> QED BY <1>7, <1>8 DEF Y, D

LEMMA PathThroughIsThrough ==
  ASSUME NEW G, G.edge \subseteq G.node \X G.node, NEW S \in SUBSET G.node, IsFiniteSet(S)
  PROVE  PathThrough(G, S) = Through(G, S)
<1> DEFINE g == Linking(G, S)
           Bad == {s \in SUBSET S : g[s] # Through(G, s)}
<1>1. ASSUME Bad # {} PROVE FALSE
  <2>1. PICK s \in Bad : \A t \in Bad : t \subseteq s => t = s
    <3>1. Bad \subseteq SUBSET S
      OBVIOUS
    <3> HIDE DEF Bad
    <3> QED BY <1>1, <3>1, SmallestSubset
  <2>2. s # {}
    BY <2>1, LinkingSteps, ThroughNothing
  <2>3. Rest(s) \in SUBSET S /\ Rest(s) \notin Bad /\ Some(s) \in G.node /\ s = Rest(s) \cup {Some(s)}
    BY <2>1, <2>2, SomeIsIn DEF Rest
  <2>4. g[s] = Via(G, g[Rest(s)], Some(s))
    BY <2>2, LinkingSteps
  <2>5. g[Rest(s)] = Through(G, Rest(s))
    BY <2>3
  <2>6. Through(G, Rest(s) \cup {Some(s)}) = Via(G, Through(G, Rest(s)), Some(s))
    BY <2>3, ThroughOneMore
  <2> QED BY <2>1, <2>3, <2>4, <2>5, <2>6
<1> QED BY <1>1, PathThroughIsLinking

-----------------------------------------------------------------------------
(* Which feedstocks a migration rebuilds, and in which order *)

\* Fused: the graph has an edge exactly where the trimmed graph has a path through
\* the nodes that are gone.
Gone == (trimmed.node \ inMigration) \ toPluck
Fused ==
  /\ inMigration \subseteq trimmed.node /\ toPluck \subseteq trimmed.node \ inMigration
  /\ graph.node = inMigration \cup toPluck
  /\ graph.edge = {e \in Through(trimmed, Gone) : {e[1], e[2]} \subseteq graph.node}

Graphs(N) == {H \in [node : SUBSET N, edge : SUBSET (N \X N)] : H.edge \subseteq H.node \X H.node}

ScopeInv ==
  /\ graph \in Graphs(AllNodes) /\ trimmed \in Graphs(AllNodes)
  /\ stage \in {"cut", "pluck", "done"}
  /\ stage = "cut" => Pinning \in graph.node /\ toPluck \subseteq AllFeedstocks
  /\ stage = "pluck" => Fused
  /\ stage = "done" => PluckingKeepsOrder

LEMMA PluckIs ==
  ASSUME NEW N, NEW G \in Graphs(N), NEW n \in G.node
  PROVE  /\ Pluck(G, n) \in Graphs(N)
         /\ Pluck(G, n).node = G.node \ {n}
         /\ Pluck(G, n).edge =
              {e \in (G.node \ {n}) \X (G.node \ {n}) :
                 e \in G.edge \/ (<<e[1], n>> \in G.edge /\ <<n, e[2]>> \in G.edge)}
<1> DEFINE new == (Predecessors(G, n) \ {n}) \X (Successors(G, n) \ {n})
           nodes == G.node \ {n}
           old == {e \in G.edge : n \notin {e[1], e[2]}}
           edges == old \cup new
           wanted == {e \in nodes \X nodes :
                        e \in G.edge \/ (<<e[1], n>> \in G.edge /\ <<n, e[2]>> \in G.edge)}
<1>1. Pluck(G, n) = [node |-> nodes, edge |-> edges]
  <2>1. \A a, b, c : [[node |-> a, edge |-> b] EXCEPT !.edge = @ \cup c] = [node |-> a, edge |-> b \cup c]
    OBVIOUS
  <2>2. [RemoveNode(G, n) EXCEPT !.edge = @ \cup new] = [node |-> nodes, edge |-> edges]
    BY <2>1 DEF RemoveNode
  <2> QED BY <2>2 DEF Pluck
<1>2. \A d : (d \in Predecessors(G, n) <=> <<d, n>> \in G.edge)
          /\ (d \in Successors(G, n) <=> <<n, d>> \in G.edge)
  <2>1. \A f \in G.edge : f = <<f[1], f[2]>>
    BY DEF Graphs
  <2> QED BY <2>1 DEF Predecessors, Successors
<1>3. new \subseteq wanted
  <2>1. ASSUME NEW e \in new PROVE e \in wanted
    <3>1. e = <<e[1], e[2]>> /\ e[1] # n /\ e[2] # n /\ e[1] \in Predecessors(G, n) /\ e[2] \in Successors(G, n)
      BY <2>1
    <3>2. <<e[1], n>> \in G.edge /\ <<n, e[2]>> \in G.edge
      BY <1>2, <3>1
    <3>3. e[1] \in nodes /\ e[2] \in nodes
      BY <3>1, <3>2 DEF Graphs
    <3> QED BY <3>1, <3>2, <3>3
  <2> QED BY <2>1
<1>4. old \subseteq wanted
  BY DEF Graphs
<1>5. ASSUME NEW e \in wanted PROVE e \in edges
  <2>1. e = <<e[1], e[2]>> /\ e[1] # n /\ e[2] # n
    BY <1>5
  <2>2. CASE e \in G.edge
    BY <2>1, <2>2
  <2>3. CASE <<e[1], n>> \in G.edge /\ <<n, e[2]>> \in G.edge
    BY <1>2, <2>1, <2>3
  <2> QED BY <1>5, <2>2, <2>3
<1>6. edges = wanted
  BY <1>3, <1>4, <1>5
<1>7. nodes \in SUBSET N /\ wanted \subseteq nodes \X nodes /\ nodes \X nodes \subseteq N \X N
  BY DEF Graphs
<1> HIDE DEF edges, wanted, nodes
<1>8. Pluck(G, n) = [node |-> nodes, edge |-> wanted]
  BY <1>1, <1>6
<1>9. Pluck(G, n) \in Graphs(N) /\ Pluck(G, n).node = nodes /\ Pluck(G, n).edge = wanted
  BY <1>7, <1>8 DEF Graphs
<1> QED BY <1>9 DEF nodes, wanted

LEMMA ScopeInitially == ScopeInit => ScopeInv
<1> SUFFICES ASSUME ScopeInit PROVE ScopeInv
  OBVIOUS
<1>1. graph = [node |-> AllNodes, edge |-> AllEdges] /\ trimmed = graph /\ stage = "cut"
      /\ toPluck \subseteq AllFeedstocks
  BY DEF ScopeInit
<1>2. AllEdges \subseteq AllNodes \X AllNodes
  BY ScopeAssumption DEF AllEdges, AllNodes
<1>3. graph \in Graphs(AllNodes) /\ Pinning \in graph.node
  BY <1>1, <1>2 DEF Graphs, AllNodes
<1> QED BY <1>1, <1>3 DEF ScopeInv

LEMMA PluckKeepsFused ==
  ASSUME ScopeInv, stage = "pluck", NEW n \in toPluck, graph' = Pluck(graph, n),
         toPluck' = toPluck \ {n}, UNCHANGED <<inMigration, trimmed>>
  PROVE  Fused'
<1> USE DEF ScopeInv
<1>1. n \in graph.node /\ n \in trimmed.node /\ trimmed.edge \subseteq trimmed.node \X trimmed.node
  BY DEF Fused, Graphs
<1>2. graph'.node = graph.node \ {n}
      /\ graph'.edge = {e \in graph'.node \X graph'.node :
                          e \in graph.edge \/ (<<e[1], n>> \in graph.edge /\ <<n, e[2]>> \in graph.edge)}
  BY <1>1, PluckIs
<1> DEFINE D == Through(trimmed, Gone)
           T == Through(trimmed, Gone \cup {n})
<1>3. D \in SUBSET (trimmed.node \X trimmed.node) /\ T = Via(trimmed, D, n)
  BY <1>1, ThroughClosed, ThroughOneMore
<1>4. Gone' = Gone \cup {n}
  BY DEF Gone, Fused
<1> HIDE DEF D, T
<1>5. \A a, b \in graph.node : <<a, b>> \in graph.edge <=> <<a, b>> \in D
  BY DEF Fused, D
<1>6. graph.node \subseteq trimmed.node
  BY DEF Fused
<1>7. \A a, b \in graph'.node : <<a, b>> \in graph'.edge <=> <<a, b>> \in T
  BY <1>1, <1>2, <1>3, <1>5, <1>6 DEF Via
<1>8. graph'.edge = {e \in T : {e[1], e[2]} \subseteq graph'.node}
  <2>1. graph'.edge \subseteq graph'.node \X graph'.node
    BY <1>2
  <2>2. \A e \in T : e = <<e[1], e[2]>>
    BY <1>3 DEF Via
  <2>3. ASSUME NEW e \in graph'.edge PROVE e \in T /\ {e[1], e[2]} \subseteq graph'.node
    <3>1. e = <<e[1], e[2]>> /\ e[1] \in graph'.node /\ e[2] \in graph'.node
      BY <2>1
    <3> QED BY <1>7, <3>1
  <2>4. ASSUME NEW e \in T, {e[1], e[2]} \subseteq graph'.node PROVE e \in graph'.edge
    BY <1>7, <2>2, <2>4
  <2> QED BY <2>3, <2>4
<1>9. T = Through(trimmed', Gone')
  BY <1>4 DEF T
<1>10. /\ (inMigration \subseteq trimmed.node)' /\ (toPluck \subseteq trimmed.node \ inMigration)'
       /\ (graph.node = inMigration \cup toPluck)'
  BY <1>2 DEF Fused
<1> QED BY <1>8, <1>9, <1>10 DEF Fused

LEMMA ScopePluck == ScopeInv /\ PluckOne => ScopeInv'
<1> SUFFICES ASSUME ScopeInv, PluckOne PROVE ScopeInv'
  OBVIOUS
<1>1. PICK n \in toPluck : graph' = Pluck(graph, n) /\ toPluck' = toPluck \ {n}
  BY DEF PluckOne
<1>2. stage \in {"cut", "pluck"} /\ UNCHANGED <<stage, inMigration, trimmed>>
  BY DEF PluckOne
<1>3. graph' \in Graphs(AllNodes) /\ graph.node \ {n} \subseteq graph'.node
  <2>1. CASE n \in graph.node
    BY <1>1, <2>1, PluckIs DEF ScopeInv
  <2>2. CASE n \notin graph.node
    <3>1. graph' = graph
      BY <1>1, <2>2 DEF Pluck
    <3> QED BY <3>1 DEF ScopeInv
  <2> QED BY <2>1, <2>2
<1>4. CASE stage = "cut"
  <2>1. Pinning \in graph'.node /\ toPluck' \subseteq AllFeedstocks
    BY <1>1, <1>3, <1>4, ScopeAssumption DEF ScopeInv
  <2> QED BY <1>2, <1>3, <1>4, <2>1 DEF ScopeInv
<1>5. CASE stage = "pluck"
  <2>1. Fused'
    BY <1>1, <1>2, <1>5, PluckKeepsFused
  <2> QED BY <1>2, <1>3, <1>5, <2>1 DEF ScopeInv
<1> QED BY <1>2, <1>4, <1>5

LEMMA ScopeTrim == ScopeInv /\ Trim => ScopeInv'
<1> SUFFICES ASSUME ScopeInv, Trim PROVE ScopeInv'
  OBVIOUS
<1> DEFINE cut == WithoutSelfLoops(graph)
           kept == {e \in cut.edge : e[2] = Pinning \/ e[1] \in RelevantReqs(e[2])}
           edges == kept \cup (cut.node \X {Pinning})
<1>1. stage = "cut" /\ stage' = "pluck" /\ graph' = [cut EXCEPT !.edge = edges]
      /\ toPluck' = {n \in cut.node : FilterNotInYaml(n)}
      /\ trimmed' = graph' /\ inMigration' = graph'.node \ toPluck'
  BY DEF Trim
<1>2. /\ cut \in [node : SUBSET AllNodes, edge : SUBSET (AllNodes \X AllNodes)]
      /\ cut.node = graph.node /\ cut.edge \subseteq graph.edge
  BY DEF WithoutSelfLoops, ScopeInv, Graphs
<1> HIDE DEF cut
<1>3. edges \subseteq cut.node \X cut.node
  BY <1>1, <1>2 DEF ScopeInv, Graphs
<1> HIDE DEF edges
<1>4. graph' \in Graphs(AllNodes) /\ graph'.node = cut.node /\ graph'.edge = edges
  <2>1. graph'.node = cut.node /\ graph'.edge = edges
        /\ graph' \in [node : SUBSET AllNodes, edge : SUBSET (AllNodes \X AllNodes)]
    <3>1. cut.node \X cut.node \subseteq AllNodes \X AllNodes
      BY <1>2
    <3> QED BY <1>1, <1>2, <1>3, <3>1
  <2> QED BY <1>3, <2>1 DEF Graphs
<1>5. Gone' = {}
  BY <1>1 DEF Gone
<1>6. Through(trimmed', Gone') = graph'.edge
  BY <1>1, <1>4, <1>5, ThroughNothing DEF Graphs
<1>7. Fused'
  <2>1. graph'.edge = {e \in graph'.edge : {e[1], e[2]} \subseteq graph'.node}
    BY <1>4 DEF Graphs
  <2>2. /\ inMigration' \subseteq trimmed'.node /\ toPluck' \subseteq trimmed'.node \ inMigration'
        /\ graph'.node = inMigration' \cup toPluck'
    BY <1>1, <1>4
  <2> QED BY <1>6, <2>1, <2>2 DEF Fused
<1> QED BY <1>1, <1>4, <1>7 DEF ScopeInv

LEMMA ScopeFinish == ScopeInv /\ Finish => ScopeInv'
<1> SUFFICES ASSUME ScopeInv, Finish PROVE ScopeInv'
  OBVIOUS
<1>1. /\ stage = "pluck" /\ stage' = "done" /\ toPluck = {} /\ graph' = WithoutSelfLoops(graph)
      /\ UNCHANGED <<inMigration, trimmed>>
  BY DEF Finish, Input
<1>2. /\ graph'.node = graph.node /\ graph'.edge = {e \in graph.edge : e[1] # e[2]}
      /\ graph' \in Graphs(AllNodes)
  BY <1>1 DEF WithoutSelfLoops, ScopeInv, Graphs
<1> DEFINE outside == trimmed.node \ inMigration
<1>3. Fused /\ Gone = outside /\ graph.node = inMigration
  BY <1>1 DEF ScopeInv, Fused, Gone
<1>4. PathThrough(trimmed, outside) = Through(trimmed, outside)
  <2>1. IsFiniteSet(AllNodes)
    <3>1. IsFiniteSet(AllFeedstocks)
      BY ScopeAssumption
    <3> QED BY <3>1, FS_AddElement DEF AllNodes
  <2>2. outside \in SUBSET AllNodes
    BY DEF ScopeInv, Graphs
  <2>3. IsFiniteSet(outside)
    BY <2>1, <2>2, FS_Subset
  <2> QED BY <2>3, PathThroughIsThrough DEF ScopeInv, Graphs
<1> HIDE DEF outside
<1>5. graph'.edge = {e \in PathThrough(trimmed, outside) :
                       {e[1], e[2]} \subseteq inMigration /\ e[1] # e[2]}
  BY <1>2, <1>3, <1>4 DEF Fused
<1>6. PluckingKeepsOrder'
  BY <1>1, <1>2, <1>3, <1>5 DEF PluckingKeepsOrder, outside
<1> QED BY <1>1, <1>2, <1>6 DEF ScopeInv

\* In the graph of the migrator a feedstock comes after another one exactly if there is a
\* path from that one through feedstocks that are not part of the migration.
THEOREM PluckingLosesNothing == ScopeSpec => []PluckingKeepsOrder
<1>1. ScopeInit => ScopeInv
  BY ScopeInitially
<1>2. ScopeInv /\ [ScopeNext]_scopeVars => ScopeInv'
  <2> SUFFICES ASSUME ScopeInv, [ScopeNext]_scopeVars PROVE ScopeInv'
    OBVIOUS
  <2>1. CASE UNCHANGED scopeVars
    BY <2>1 DEF scopeVars, ScopeInv, Fused, Gone, PluckingKeepsOrder
  <2> QED BY <2>1, ScopePluck, ScopeTrim, ScopeFinish DEF ScopeNext
<1>3. ScopeInv => PluckingKeepsOrder
  BY DEF ScopeInv, PluckingKeepsOrder
<1> QED BY <1>1, <1>2, <1>3, PTL DEF ScopeSpec

-----------------------------------------------------------------------------
(* PinUpdates, for any versions and run exports: when a pin is set.              *)
CONSTANTS FirstPin, Versions, RunExports, Fallback, Rejects
VARIABLES version, exports, pin, creator, prs, migrations, rebuilt, builtFor

PU == INSTANCE PinUpdates

\* The pins there may be.
Pins ==
  {FirstPin}
    \cup {PU!NewPin(PU!PinLevels(e), v) : e \in RunExports, v \in Versions \cup {FirstPin}}

\* Migrations of different pins have different names, as 1.11 and 11.1 have not.
OneName == \A p, q \in Pins : PU!NameOf(p) = PU!NameOf(q) => p = q

\* recipe/migrations with one file.
MigrationOf(p) == [n \in {PU!NameOf(p)} |-> p]

\* All pins are of versions that there have been.
Known ==
  /\ version \in Versions \cup {FirstPin} /\ exports \in RunExports
  /\ pin \in Pins /\ \A c \in creator \cup prs : c.pin \in Pins

\* There is one migration at a time, and it goes up.
GoesUp == migrations # <<>> => \E p \in Pins : migrations = MigrationOf(p) /\ PU!Newer(p, pin)

\* A name is used by the pin, by one before it, or by the migration that there is.
UsedOnce ==
  \A n \in rebuilt : \E q \in Pins :
    /\ n = PU!NameOf(q)
    /\ q = pin \/ PU!Newer(pin, q) \/ (migrations = MigrationOf(q) /\ builtFor = q)

PinInv == Known /\ GoesUp /\ UsedOnce

\* The smallest of some subsets has none of them as a part.
LEMMA NoneIsSmaller ==
  ASSUME NEW S, IsFiniteSet(S), NEW T, T \subseteq SUBSET S, T # {}
  PROVE  \E s \in T : \A t \in SUBSET s : t # s => t \notin T
<1>1. PICK s \in T : \A t \in T : t \subseteq s => t = s
  BY SmallestSubset
<1> QED BY <1>1

\* Max is what it is called, of numbers that are finitely many.
LEMMA LargestOf ==
  ASSUME NEW S \in SUBSET Nat, IsFiniteSet(S), S # {}
  PROVE  PU!Max(S) \in S /\ \A x \in S : PU!Max(S) >= x
<1> DEFINE Has(T) == \E m \in T : \A x \in T : m >= x
           Without == {T \in SUBSET S : T # {} /\ ~Has(T)}
<1>1. Without = {}
  <2> SUFFICES ASSUME Without # {} PROVE FALSE
    OBVIOUS
  <2>0. Without \subseteq SUBSET S
    OBVIOUS
  <2>1. PICK T \in Without : \A U \in SUBSET T : U # T => U \notin Without
    <3>1. IsFiniteSet(S)
      OBVIOUS
    <3> HIDE DEF Without, Has
    <3> QED BY <2>0, <3>1, NoneIsSmaller
  <2>2. PICK x \in T : TRUE
    OBVIOUS
  <2>3. T \ {x} \in SUBSET T /\ T \ {x} # T
    BY <2>2
  <2>4. CASE T \ {x} = {}
    BY <2>1, <2>2, <2>4
  <2>5. CASE T \ {x} # {}
    <3>1. PICK m \in T \ {x} : \A y \in T \ {x} : m >= y
      BY <2>1, <2>3, <2>5
    <3>2. m \in Nat /\ x \in Nat
      BY <2>1, <2>2, <3>1
    <3>3. CASE m >= x
      BY <2>1, <3>1, <3>3
    <3>4. CASE x > m
      <4>1. \A y \in T : x >= y
        BY <2>1, <3>1, <3>2, <3>4
      <4> QED BY <2>1, <2>2, <4>1
    <3> QED BY <3>2, <3>3, <3>4
  <2> QED BY <2>4, <2>5
<1>2. Has(S)
  BY <1>1
<1> QED BY <1>2 DEF PU!Max

\* Max and Min of two lengths.
LEMMA LargerOfTwo ==
  ASSUME NEW a \in Nat, NEW b \in Nat
  PROVE  PU!Max({a, b}) \in Nat /\ PU!Max({a, b}) >= a /\ PU!Max({a, b}) >= b
<1>1. {a, b} \in SUBSET Nat /\ IsFiniteSet({a, b}) /\ {a, b} # {}
  <2>1. IsFiniteSet({a})
    BY FS_Singleton
  <2>2. IsFiniteSet({a} \cup {b})
    BY <2>1, FS_AddElement
  <2>3. {a, b} = {a} \cup {b}
    OBVIOUS
  <2> QED BY <2>2, <2>3
<1> QED BY <1>1, LargestOf

\* The shorter of two lengths.
LEMMA SmallerOfTwo ==
  ASSUME NEW a \in Nat, NEW b \in Nat
  PROVE  PU!Min({a, b}) = IF a <= b THEN a ELSE b
  BY DEF PU!Min

\* What is compared of a version.
At(x, i) == IF i <= Len(x) THEN x[i] ELSE 0

\* Newer, without the bound on the position at which the versions differ.
LEMMA NewerIs ==
  ASSUME NEW v \in Seq(Nat), NEW w \in Seq(Nat)
  PROVE  PU!Newer(v, w) <=>
           \E i \in Nat \ {0} : At(v, i) > At(w, i) /\ \A j \in 1 .. i - 1 : At(v, j) = At(w, j)
<1> DEFINE M == PU!Max({Len(v), Len(w)})
<1>0. Len(v) \in Nat /\ Len(w) \in Nat
  OBVIOUS
<1>1. M \in Nat /\ M >= Len(v) /\ M >= Len(w)
  BY <1>0, LargerOfTwo
<1>2. PU!Newer(v, w) <=>
        \E i \in 1 .. M : At(v, i) > At(w, i) /\ \A j \in 1 .. i - 1 : At(v, j) = At(w, j)
  BY DEF PU!Newer, At
<1>3. \A i \in Nat \ {0} : At(v, i) > At(w, i) => i \in 1 .. M
  <2> SUFFICES ASSUME NEW i \in Nat \ {0}, At(v, i) > At(w, i) PROVE i <= M
    <3> HIDE DEF M
    <3> QED BY <1>1
  <2>1. i > M => At(v, i) = 0 /\ At(w, i) = 0
    <3> HIDE DEF M
    <3> QED BY <1>0, <1>1 DEF At
  <2> HIDE DEF M
  <2> QED BY <1>1, <2>1
<1> HIDE DEF M
<1> QED BY <1>1, <1>2, <1>3

\* Newer is an order on versions.
LEMMA NewerIsAnOrder ==
  ASSUME NEW u \in Seq(Nat), NEW v \in Seq(Nat), NEW w \in Seq(Nat), PU!Newer(u, v)
  PROVE  /\ u # v /\ ~PU!Newer(v, u)
         /\ PU!Newer(v, w) => PU!Newer(u, w)
<1>1. \A x \in Seq(Nat), i \in Nat \ {0} : At(x, i) \in Nat
  BY DEF At
<1>2. PICK i \in Nat \ {0} : At(u, i) > At(v, i) /\ \A j \in 1 .. i - 1 : At(u, j) = At(v, j)
  BY NewerIs
<1>3. ~PU!Newer(v, u)
  <2> SUFFICES ASSUME NEW k \in Nat \ {0}, At(v, k) > At(u, k),
                      \A j \in 1 .. k - 1 : At(v, j) = At(u, j)
               PROVE  FALSE
    BY NewerIs
  <2>1. CASE i = k
    BY <1>1, <1>2, <2>1
  <2>2. CASE i < k
    BY <1>1, <1>2, <2>2
  <2>3. CASE k < i
    BY <1>1, <1>2, <2>3
  <2> QED BY <2>1, <2>2, <2>3
<1>4. ASSUME PU!Newer(v, w) PROVE PU!Newer(u, w)
  <2>1. PICK k \in Nat \ {0} : At(v, k) > At(w, k) /\ \A j \in 1 .. k - 1 : At(v, j) = At(w, j)
    BY <1>4, NewerIs
  <2>2. CASE i <= k
    <3>1. At(u, i) > At(w, i) /\ \A j \in 1 .. i - 1 : At(u, j) = At(w, j)
      <4>1. At(v, i) >= At(w, i)
        <5>1. CASE i = k
          BY <1>1, <2>1, <5>1
        <5>2. CASE i < k
          <6>1. i \in 1 .. k - 1
            BY <5>2
          <6>2. At(v, i) = At(w, i) /\ At(w, i) \in Nat
            BY <1>1, <2>1, <6>1
          <6> QED BY <6>2
        <5> QED BY <2>2, <5>1, <5>2
      <4>2. At(u, i) > At(w, i)
        BY <1>1, <1>2, <4>1
      <4>3. \A j \in 1 .. i - 1 : At(u, j) = At(w, j)
        BY <1>2, <2>1, <2>2
      <4> QED BY <4>2, <4>3
    <3> QED BY <3>1, NewerIs
  <2>3. CASE k < i
    <3>1. At(u, k) > At(w, k) /\ \A j \in 1 .. k - 1 : At(u, j) = At(w, j)
      BY <1>1, <1>2, <2>1, <2>3
    <3> QED BY <3>1, NewerIs
  <2> QED BY <2>2, <2>3
<1> QED BY <1>2, <1>3, <1>4

\* A pin is a version, too: the first levels of one.
LEMMA PinsAreVersions ==
  ASSUME PU!Assumptions
  PROVE  Pins \subseteq Seq(Nat)
<1> SUFFICES ASSUME NEW e \in RunExports, NEW v \in Versions \cup {FirstPin}
             PROVE  PU!NewPin(PU!PinLevels(e), v) \in Seq(Nat)
  BY DEF Pins, PU!Assumptions
<1>1. v \in Seq(Nat) /\ Fallback \in Nat
  BY DEF PU!Assumptions
<1>2. PU!PinLevels(e) \in Nat
  <2> DEFINE mine == {x.levels : x \in {y \in e : y.mine}} \ {0}
  <2>1. mine \in SUBSET Nat
    BY DEF PU!Assumptions
  <2>2. IsFiniteSet(mine)
    <3>1. IsFiniteSet({y \in e : y.mine})
      <4>1. IsFiniteSet(e) /\ {y \in e : y.mine} \subseteq e
        <5>1. IsFiniteSet(e)
          BY Zenon DEF PU!Assumptions, PU!IsFiniteSet, IsFiniteSet
        <5>2. {y \in e : y.mine} \subseteq e
          OBVIOUS
        <5> QED BY <5>1, <5>2
      <4> QED BY <4>1, FS_Subset
    <3>2. IsFiniteSet({x.levels : x \in {y \in e : y.mine}})
      <4> DEFINE own == {y \in e : y.mine}
                 f == [x \in own |-> x.levels]
      <4>1. f \in Surjection(own, {f[x] : x \in own})
        BY DEF Surjection
      <4>2. IsFiniteSet({f[x] : x \in own})
        <5> HIDE DEF own, f
        <5> QED BY <3>1, <4>1, FS_Surjection DEF own
      <4>3. {f[x] : x \in own} = {x.levels : x \in own}
        OBVIOUS
      <4> QED BY <4>2, <4>3
    <3>3. mine \subseteq {x.levels : x \in {y \in e : y.mine}}
      OBVIOUS
    <3> QED BY <3>2, <3>3, FS_Subset
  <2>3. PU!PinLevels(e) = IF mine = {} THEN Fallback ELSE PU!Max(mine)
    BY DEF PU!PinLevels
  <2> HIDE DEF mine
  <2> QED BY <1>1, <2>1, <2>2, <2>3, LargestOf
<1> DEFINE n == PU!PinLevels(e)
<1>3. PU!Min({n, Len(v)}) \in 0 .. Len(v)
  <2>1. Len(v) \in Nat /\ n \in Nat
    BY <1>1, <1>2
  <2> HIDE DEF n
  <2> QED BY <2>1, SmallerOfTwo
<1> DEFINE m == PU!Min({n, Len(v)})
<1>4. SubSeq(v, 1, m) \in Seq(Nat)
  <2> HIDE DEF m
  <2>1. m \in 0 .. Len(v)
    BY <1>3 DEF m
  <2> QED BY <1>1, <2>1
<1> QED BY <1>4 DEF PU!NewPin

\* The pin in the file of the only migration.
LEMMA TheMigration ==
  ASSUME NEW p
  PROVE  /\ MigrationOf(p) # <<>> /\ DOMAIN MigrationOf(p) = {PU!NameOf(p)}
         /\ MigrationOf(p)[PU!NameOf(p)] = p
<1>1. DOMAIN MigrationOf(p) = {PU!NameOf(p)}
  BY DEF MigrationOf
<1>2. DOMAIN <<>> = {}
  OBVIOUS
<1> QED BY <1>1, <1>2 DEF MigrationOf

\* At first nothing is proposed.
LEMMA InitPin == PU!Assumptions /\ PU!Init => PinInv
<1> SUFFICES ASSUME PU!Assumptions, PU!Init PROVE PinInv
  OBVIOUS
<1> QED BY DEF PU!Init, PinInv, Known, GoesUp, UsedOnce, Pins

\* A version, and the pin that is made of it.
LEMMA PinOfVersion ==
  ASSUME Known
  PROVE  PU!NewPin(PU!PinLevels(exports), version) \in Pins
BY DEF Known, Pins

\* The steps of the jobs and of the maintainers.
LEMMA PinStep ==
  ASSUME PU!Assumptions, OneName, PinInv, [PU!Next]_PU!vars
  PROVE  PinInv' /\ (pin' # pin => builtFor = pin' /\ PU!Newer(pin', pin))
<1>a. Pins \subseteq Seq(Nat)
  BY PinsAreVersions
<1>1. CASE PU!Release
  <2>1. Known'
    BY <1>1 DEF PU!Release, PinInv, Known
  <2> QED BY <1>1, <2>1 DEF PU!Release, PinInv, GoesUp, UsedOnce
<1>2. CASE PU!MakeMigrators
  <2>1. Known'
    BY <1>2, PinOfVersion DEF PU!MakeMigrators, PinInv, Known
  <2> QED BY <1>2, <2>1 DEF PU!MakeMigrators, PinInv, GoesUp, UsedOnce
<1>3. ASSUME NEW c \in creator, PU!Propose(c)
      PROVE  PinInv' /\ pin' = pin
  <2>1. Known'
    BY <1>3 DEF PU!Propose, PinInv, Known
  <2> QED BY <1>3, <2>1 DEF PU!Propose, PinInv, GoesUp, UsedOnce
<1>4. ASSUME NEW pr \in prs, NEW s, PU!Answer(pr, s), UNCHANGED <<version, exports, pin, creator>>
      PROVE  Known'
  <2>1. [pr EXCEPT !.state = s].pin = pr.pin
    OBVIOUS
  <2> QED BY <1>4, <2>1 DEF PU!Answer, PinInv, Known
<1>5. CASE PU!Reject
  <2>1. Known'
    BY <1>5, <1>4 DEF PU!Reject
  <2> QED BY <1>5, <2>1 DEF PU!Reject, PinInv, GoesUp, UsedOnce
<1>6. CASE PU!Merge
  <2>1. PICK pr \in prs : /\ PU!Newer(pr.pin, pin) /\ PU!Answer(pr, "merged")
                          /\ migrations' = MigrationOf(pr.pin)
    BY <1>6 DEF PU!Merge, MigrationOf
  <2>2. /\ migrations = <<>> /\ UNCHANGED <<version, exports, pin, creator, rebuilt, builtFor>>
    BY <1>6 DEF PU!Merge
  <2>3. Known'
    BY <1>4, <2>1, <2>2
  <2>4. GoesUp'
    BY <2>1, <2>2 DEF GoesUp, PinInv, Known
  <2>5. UsedOnce'
    BY <2>2, TheMigration DEF UsedOnce, PinInv
  <2> QED BY <2>2, <2>3, <2>4, <2>5 DEF PinInv
<1>7. CASE PU!Rebuild
  <2>1. PICK n \in DOMAIN migrations \ rebuilt :
          rebuilt' = rebuilt \cup {n} /\ builtFor' = migrations[n]
    BY <1>7 DEF PU!Rebuild
  <2>2. UNCHANGED <<version, exports, pin, creator, prs, migrations>>
    BY <1>7 DEF PU!Rebuild
  <2>3. PICK p \in Pins : migrations = MigrationOf(p) /\ PU!Newer(p, pin)
    <3>1. migrations # <<>>
      OBVIOUS
    <3> QED BY <3>1 DEF PinInv, GoesUp
  <2>4. n = PU!NameOf(p) /\ builtFor' = p
    BY <2>1, <2>3, TheMigration
  <2>5. Known' /\ GoesUp'
    BY <2>2 DEF PinInv, Known, GoesUp
  <2>6. ASSUME NEW m \in rebuilt
        PROVE  \E q \in Pins : m = PU!NameOf(q) /\ (q = pin \/ PU!Newer(pin, q))
    <3>1. PICK q \in Pins : /\ m = PU!NameOf(q)
                            /\ \/ q = pin \/ PU!Newer(pin, q)
                               \/ migrations = MigrationOf(q) /\ builtFor = q
      BY DEF PinInv, UsedOnce
    <3>2. migrations = MigrationOf(q) => m = n
      BY <2>1, <3>1, TheMigration
    <3> QED BY <2>1, <3>1, <3>2
  <2>7. UsedOnce'
    BY <2>1, <2>2, <2>3, <2>4, <2>6 DEF UsedOnce
  <2> QED BY <2>2, <2>5, <2>7 DEF PinInv
<1>8. CASE PU!CloseOut
  <2>1. PICK n \in DOMAIN migrations \cap rebuilt : pin' = migrations[n]
    BY <1>8 DEF PU!CloseOut
  <2>2. migrations' = <<>> /\ UNCHANGED <<version, exports, creator, prs, rebuilt, builtFor>>
    BY <1>8 DEF PU!CloseOut
  <2>3. PICK p \in Pins : migrations = MigrationOf(p) /\ PU!Newer(p, pin)
    <3>1. migrations # <<>>
      OBVIOUS
    <3> QED BY <3>1 DEF PinInv, GoesUp
  <2>4. n = PU!NameOf(p) /\ pin' = p
    BY <2>1, <2>3, TheMigration
  <2>5. pin \in Seq(Nat) /\ p \in Seq(Nat) /\ pin \in Pins
    BY <1>a DEF PinInv, Known
  <2>6. builtFor = p
    <3>1. PICK q \in Pins : /\ n = PU!NameOf(q)
                            /\ \/ q = pin \/ PU!Newer(pin, q)
                               \/ migrations = MigrationOf(q) /\ builtFor = q
      BY DEF PinInv, UsedOnce
    <3>2. q = p
      BY <2>4, <3>1 DEF OneName
    <3>3. p # pin /\ ~PU!Newer(pin, p)
      BY <2>3, <2>5, NewerIsAnOrder
    <3> QED BY <3>1, <3>2, <3>3
  <2>7. Known'
    BY <2>2, <2>4 DEF PinInv, Known
  <2>8. GoesUp'
    BY <2>2 DEF GoesUp
  <2>9. ASSUME NEW m \in rebuilt
        PROVE  \E q \in Pins : m = PU!NameOf(q) /\ (q = p \/ PU!Newer(p, q))
    <3>1. PICK q \in Pins : /\ m = PU!NameOf(q)
                            /\ \/ q = pin \/ PU!Newer(pin, q)
                               \/ migrations = MigrationOf(q) /\ builtFor = q
      BY DEF PinInv, UsedOnce
    <3>2. CASE q = pin
      BY <2>3, <3>1, <3>2
    <3>3. CASE PU!Newer(pin, q)
      <4>1. q \in Seq(Nat)
        BY <1>a
      <4>2. PU!Newer(p, q)
        BY <2>3, <2>5, <3>3, <4>1, NewerIsAnOrder
      <4> QED BY <3>1, <4>2
    <3>4. CASE migrations = MigrationOf(q)
      <4>1. PU!NameOf(q) = PU!NameOf(p)
        BY <2>3, <3>4, TheMigration
      <4>2. q = p
        BY <4>1 DEF OneName
      <4> QED BY <3>1, <4>2
    <3> QED BY <3>1, <3>2, <3>3, <3>4
  <2>10. UsedOnce'
    BY <2>2, <2>4, <2>9 DEF UsedOnce
  <2> QED BY <2>3, <2>4, <2>6, <2>7, <2>8, <2>10 DEF PinInv
<1>9. CASE UNCHANGED PU!vars
  <2>1. Known' /\ GoesUp' /\ UsedOnce'
    BY <1>9 DEF PU!vars, PinInv, Known, GoesUp, UsedOnce
  <2> QED BY <1>9, <2>1 DEF PU!vars, PinInv
<1> QED
  BY <1>1, <1>2, <1>3, <1>5, <1>6, <1>7, <1>8, <1>9
     DEF PU!Next, PU!Release, PU!MakeMigrators, PU!Reject, PU!Merge, PU!Rebuild

\* The parts of the specification without the instance, for PTL.
PinsInit == PU!Init
PinsNext == PU!Next
PinsVars == <<version, exports, pin, creator, prs, migrations, rebuilt, builtFor>>
PinKept == [][pin' # pin => builtFor = pin' /\ PU!Newer(pin', pin)]_pin

\* A pin is set only when the feedstocks have been rebuilt for it and not for an earlier one
\* of the same name, and it goes up: close-out takes the file that is there, and a pull
\* request of a feedstock is known by the name of the migration only.
THEOREM PinsAfterTheirMigration ==
  ASSUME PU!Assumptions, OneName
  PROVE  PU!Init /\ [][PU!Next]_PU!vars
           => [][pin' # pin => builtFor = pin' /\ PU!Newer(pin', pin)]_pin
<1>1. PU!Init /\ [][PU!Next]_PU!vars => PinsInit /\ [][PinsNext]_PinsVars
  BY DEF PU!vars, PinsInit, PinsNext, PinsVars
<1>2. PinsInit => PinInv
  BY InitPin DEF PinsInit
<1>3. PinInv /\ [PinsNext]_PinsVars => PinInv'
  BY PinStep DEF PinsNext, PinsVars, PU!vars
<1>4. PinInv /\ [PinsNext]_PinsVars
        => [pin' # pin => builtFor = pin' /\ PU!Newer(pin', pin)]_pin
  BY PinStep DEF PinsNext, PinsVars, PU!vars
<1>5. PinsInit /\ [][PinsNext]_PinsVars => PinKept
  BY <1>2, <1>3, <1>4, PTL DEF PinKept
<1> QED BY <1>1, <1>5 DEF PinKept

-----------------------------------------------------------------------------
(* MigratorDump, for any migrators, names and plans: what becomes of the files.  *)
CONSTANTS Migrators, Name, Plans, Nominal, MaxChanges, MaxFaults
VARIABLES wanted, paused, store, job, running, changes, faults

MD == INSTANCE MigratorDump

\* The data of a migrator, and the names of those that are wanted.
Made(m) == [of |-> m, limit |-> wanted[m], paused |-> m \in paused]
NamesOfToday == {Name[m] : m \in DOMAIN wanted}

\* A job that began with what is wanted now, and of which nothing has failed.
InOrder ==
  /\ job.todo \subseteq {Made(m) : m \in DOMAIN wanted}
  /\ job.new \subseteq NamesOfToday
  /\ \A m \in DOMAIN wanted :
       IF Made(m) \in job.todo THEN Name[m] \notin job.new
       ELSE Name[m] \in job.new /\ store[Name[m]] = Made(m)
  /\ \A n \in MD!Names : store[n] # MD!NoFile => n \in job.old \cup job.new

\* The files are those of the wanted migrators, and no job is about to change them.
Right ==
  /\ \A m \in DOMAIN wanted : store[Name[m]] = Made(m)
  /\ \A n \in MD!Names \ NamesOfToday : store[n] = MD!NoFile
Settled == Right /\ (job.on => InOrder)

\* A job that begins is in order and stays so, and leaves everything settled, whatever the
\* files were; that stays, too, and what is loaded from it is what is wanted.
Recovers ==
  /\ ~job.on /\ job'.on => InOrder'
  /\ job.on /\ InOrder => IF job'.on THEN InOrder' ELSE Settled'
  /\ Settled => Settled'
  /\ Settled /\ running' # running => running' = MD!Current

\* What may be wanted, and what a job keeps.
Shape ==
  /\ wanted \in Plans /\ faults \in Nat
  /\ store = [n \in MD!Names |-> store[n]]
  /\ job = MD!NoJob \/ job = [on |-> TRUE, todo |-> job.todo, made |-> job.made,
                              old |-> job.old, new |-> job.new]

\* At first there are no files and no job.
LEMMA InitShape == MD!Init => Shape
BY DEF MD!Init, Shape

\* What is left of a job when a migrator is done.
LEMMA OneLess ==
  ASSUME Shape, job.on, NEW m, NEW new, MD!Done(m, new)
  PROVE  /\ job' = [on |-> TRUE, todo |-> job.todo \ {m}, made |-> job.made,
                    old |-> job.old, new |-> new]
         /\ job'.on /\ job'.todo = job.todo \ {m} /\ job'.old = job.old /\ job'.new = new
<1>1. job = [on |-> TRUE, todo |-> job.todo, made |-> job.made, old |-> job.old, new |-> job.new]
  BY DEF Shape, MD!NoJob
<1>2. job' = [on |-> TRUE, todo |-> job.todo \ {m}, made |-> job.made, old |-> job.old, new |-> new]
  BY <1>1 DEF MD!Done
<1> QED BY <1>2

\* Each step keeps the shape.
LEMMA StepShape == Shape /\ [MD!Next]_MD!vars => Shape'
<1> SUFFICES ASSUME Shape, [MD!Next]_MD!vars PROVE Shape'
  OBVIOUS
<1>1. CASE MD!Change
  BY <1>1 DEF MD!Change, Shape
<1>2. CASE MD!Initialize
  BY <1>2 DEF MD!Initialize, Shape
<1>3. CASE MD!RemoveOld
  BY <1>3 DEF MD!RemoveOld, Shape
<1>4. CASE MD!Cancelled
  BY <1>4 DEF MD!Cancelled, MD!Fault, Shape
<1>5. CASE MD!Load
  BY <1>5 DEF MD!Load, Shape
<1>6. ASSUME NEW m \in job.todo, job.on, MD!Duplicate(m) \/ MD!DumpRaises(m) \/ MD!Dump(m)
      PROVE  Shape'
  <2>1. CASE MD!Duplicate(m)
    BY <1>6, <2>1, OneLess DEF MD!Duplicate, Shape
  <2>2. CASE MD!DumpRaises(m)
    BY <1>6, <2>2, OneLess DEF MD!DumpRaises, MD!Fault, Shape
  <2>3. CASE MD!Dump(m)
    BY <1>6, <2>3, OneLess DEF MD!Dump, Shape
  <2> QED BY <1>6, <2>1, <2>2, <2>3
<1>7. CASE UNCHANGED MD!vars
  BY <1>7 DEF MD!vars, Shape
<1> QED BY <1>1, <1>2, <1>3, <1>4, <1>5, <1>6, <1>7 DEF MD!Next

\* What migrators are called, and that theirs are no empty files.
LEMMA Called ==
  ASSUME MD!Assumptions, Shape
  PROVE  /\ NamesOfToday \subseteq MD!Names
         /\ \A m \in DOMAIN wanted : Made(m) # MD!NoFile
<1>1. NamesOfToday \subseteq MD!Names
  BY DEF MD!Assumptions, Shape, NamesOfToday, MD!Names
<1>2. ASSUME NEW m \in DOMAIN wanted PROVE Made(m) # MD!NoFile
  <2>1. "limit" \in DOMAIN Made(m)
    BY DEF Made
  <2>2. "limit" \notin DOMAIN MD!NoFile
    BY DEF MD!NoFile
  <2> QED BY <2>1, <2>2
<1> QED BY <1>1, <1>2

\* Data are of one migrator.
LEMMA OneOfEach ==
  ASSUME NEW m, NEW o, Made(m) = Made(o)
  PROVE  m = o
<1>1. Made(m).of = m /\ Made(o).of = o
  BY DEF Made
<1> QED BY <1>1

\* Loading what is right gives the migrators that are not paused.
LEMMA LoadsAll ==
  ASSUME MD!Assumptions, Shape, Right
  PROVE  {store[n] : n \in {k \in MD!Names : store[k] # MD!NoFile /\ ~store[k].paused}}
           = MD!Current
<1> DEFINE There == {k \in MD!Names : store[k] # MD!NoFile /\ ~store[k].paused}
           Loaded == {store[n] : n \in There}
           Entry(m) == [of |-> m, limit |-> wanted[m], paused |-> FALSE]
<1>0. MD!Current = {Entry(m) : m \in DOMAIN wanted \ paused}
  BY DEF MD!Current
<1>1. \A m \in DOMAIN wanted : Made(m).paused <=> m \in paused
  BY DEF Made
<1>2. \A m \in DOMAIN wanted \ paused : Made(m) = Entry(m)
  <2> SUFFICES ASSUME NEW m \in DOMAIN wanted \ paused PROVE Made(m) = Entry(m)
    OBVIOUS
  <2>1. (m \in paused) = FALSE
    OBVIOUS
  <2> QED BY <2>1, Zenon DEF Made
<1>3. ASSUME NEW n \in MD!Names, store[n] # MD!NoFile, ~store[n].paused
      PROVE  store[n] \in MD!Current
  <2>1. PICK m \in DOMAIN wanted : n = Name[m]
    BY <1>3 DEF Right, NamesOfToday
  <2>2. store[n] = Made(m) /\ m \notin paused
    BY <1>1, <1>3, <2>1 DEF Right
  <2> HIDE DEF Entry
  <2> QED BY <1>0, <1>2, <2>2
<1>4. ASSUME NEW m \in DOMAIN wanted \ paused
      PROVE  Entry(m) \in Loaded
  <2>1. /\ Name[m] \in MD!Names /\ store[Name[m]] = Made(m) /\ Made(m) # MD!NoFile
    BY Called DEF Right, NamesOfToday
  <2>2. ~Made(m).paused
    BY <1>1
  <2>3. Made(m) \in Loaded
    BY <2>1, <2>2
  <2> HIDE DEF Entry, Loaded
  <2> QED BY <1>2, <2>3
<1> HIDE DEF Entry
<1> QED BY <1>0, <1>3, <1>4

\* A step without a fault, while the migrations stay as they are.
LEMMA StepRecovers ==
  ASSUME MD!Assumptions, Shape, MD!Distinct, [MD!Next]_MD!vars,
         UNCHANGED <<wanted, paused, faults>>
  PROVE  Recovers
<1>a. /\ \A m : Made(m)' = Made(m)
      /\ NamesOfToday' = NamesOfToday
  BY DEF Made, NamesOfToday
<1>b. MD!Names' = MD!Names /\ MD!NoFile' = MD!NoFile
  BY DEF MD!Names, MD!NoFile
<1>c. ASSUME store' = store, job' = job PROVE (InOrder => InOrder') /\ (Settled => Settled')
  BY <1>a, <1>b, <1>c DEF InOrder, Settled, Right
<1>1. CASE MD!Change
  <2>1. store' = store /\ job' = job /\ running' = running
    BY <1>1 DEF MD!Change
  <2> QED BY <2>1, <1>c DEF Recovers
<1>2. CASE MD!Initialize
  <2>1. /\ store' = store /\ running' = running /\ ~job.on /\ job'.on
        /\ job'.todo = {Made(m) : m \in DOMAIN wanted}
        /\ job'.old = {n \in MD!Names : store[n] # MD!NoFile} /\ job'.new = {}
    BY <1>2 DEF MD!Initialize, Made
  <2>2. InOrder'
    <3>1. \A m \in DOMAIN wanted : Made(m) \in job'.todo
      BY <2>1
    <3>2. job'.todo \subseteq {Made(m)' : m \in DOMAIN wanted'}
      BY <1>a, <2>1
    <3> QED BY <1>a, <1>b, <2>1, <3>1, <3>2 DEF InOrder
  <2>3. Right => Right'
    BY <1>a, <1>b, <2>1 DEF Right
  <2> QED BY <2>1, <2>2, <2>3 DEF Recovers, Settled
<1>3. CASE MD!RemoveOld
  <2>1. /\ job.on /\ job.todo = {} /\ job' = MD!NoJob /\ ~job'.on /\ running' = running
        /\ store' = [n \in MD!Names |-> IF n \in MD!ToRemove THEN MD!NoFile ELSE store[n]]
    BY <1>3 DEF MD!RemoveOld, MD!NoJob
  <2>2. ASSUME InOrder PROVE Right'
    <3>1. job.new = NamesOfToday /\ \A m \in DOMAIN wanted : store[Name[m]] = Made(m)
      BY <2>1, <2>2 DEF InOrder, NamesOfToday
    <3>2. \A m \in DOMAIN wanted : store'[Name[m]] = Made(m)
      <4>1. \A m \in DOMAIN wanted : Name[m] \in NamesOfToday /\ Name[m] \in MD!Names
        BY Called DEF NamesOfToday
      <4> QED BY <2>1, <3>1, <4>1 DEF MD!ToRemove
    <3>3. \A n \in MD!Names \ NamesOfToday : store'[n] = MD!NoFile
      BY <2>1, <2>2, <3>1 DEF InOrder, MD!ToRemove
    <3> QED BY <1>a, <1>b, <3>2, <3>3 DEF Right
  <2> QED BY <2>1, <2>2 DEF Recovers, Settled
<1>4. CASE MD!Cancelled
  BY <1>4 DEF MD!Cancelled, MD!Fault, Shape
<1>5. CASE MD!Load
  <2>1. /\ store' = store /\ job' = job
        /\ running' = {store[n] : n \in {k \in MD!Names : store[k] # MD!NoFile /\ ~store[k].paused}}
    BY <1>5 DEF MD!Load
  <2>2. Right => running' = MD!Current
    BY <2>1, LoadsAll
  <2> QED BY <2>1, <2>2, <1>c DEF Recovers, Settled
<1>6. ASSUME NEW m \in job.todo, job.on, MD!Duplicate(m) \/ MD!DumpRaises(m) \/ MD!Dump(m)
      PROVE  Recovers
  <2>1. ~MD!DumpRaises(m)
    BY DEF MD!DumpRaises, MD!Fault, Shape
  <2>2. job'.on /\ running' = running
    BY <1>6, OneLess DEF MD!Duplicate, MD!DumpRaises, MD!Dump
  <2>3. ASSUME InOrder
        PROVE  InOrder' /\ (Right => Right')
    <3>1. PICK k \in DOMAIN wanted : m = Made(k)
      BY <2>3 DEF InOrder
    <3>2. m.of = k /\ Name[k] \notin job.new
      BY <2>3, <3>1 DEF InOrder, Made
    <3>3. ~MD!Duplicate(m)
      BY <3>2 DEF MD!Duplicate
    <3>4. MD!Dump(m)
      BY <1>6, <2>1, <3>3
    <3>5. /\ job'.todo = job.todo \ {m} /\ job'.old = job.old
          /\ job'.new = job.new \cup {Name[k]}
      BY <1>6, <3>2, <3>4, OneLess DEF MD!Dump
    <3>6. store' = [store EXCEPT ![Name[k]] = Made(k)]
      BY <3>1, <3>2, <3>4 DEF MD!Dump, MD!Data
    <3>7. Name[k] \in MD!Names /\ Name[k] \in NamesOfToday
      BY Called DEF NamesOfToday
    <3>8. \A n \in MD!Names : store'[n] = IF n = Name[k] THEN Made(k) ELSE store[n]
      BY <3>6 DEF Shape
    <3>9. ASSUME NEW o \in DOMAIN wanted, o # k
          PROVE  /\ Name[o] # Name[k] /\ Made(o) # m /\ store'[Name[o]] = store[Name[o]]
      <4>1. Name[o] # Name[k]
        BY <3>9 DEF MD!Distinct
      <4>2. Name[o] \in MD!Names
        BY Called DEF NamesOfToday
      <4>3. Made(o) # m
        BY <3>1, <3>9, OneOfEach
      <4> QED BY <3>8, <4>1, <4>2, <4>3
    <3>10. ASSUME NEW o \in DOMAIN wanted
           PROVE  IF Made(o) \in job'.todo THEN Name[o] \notin job'.new
                  ELSE Name[o] \in job'.new /\ store'[Name[o]] = Made(o)
      <4>1. CASE o = k
        BY <3>1, <3>5, <3>7, <3>8, <4>1
      <4>2. CASE o # k
        BY <2>3, <3>5, <3>9, <4>2 DEF InOrder
      <4> QED BY <4>1, <4>2
    <3>11. InOrder'
      <4>1. \A n \in MD!Names : store'[n] # MD!NoFile => n \in job'.old \cup job'.new
        BY <2>3, <3>5, <3>8 DEF InOrder
      <4>2. job'.todo \subseteq {Made(o)' : o \in DOMAIN wanted'}
        BY <1>a, <2>3, <3>5 DEF InOrder
      <4>3. job'.new \subseteq NamesOfToday
        BY <2>3, <3>5, <3>7 DEF InOrder
      <4> QED BY <1>a, <1>b, <3>10, <4>1, <4>2, <4>3 DEF InOrder
    <3>12. ASSUME Right PROVE Right'
      <4>1. \A o \in DOMAIN wanted : store'[Name[o]] = Made(o)
        BY <3>7, <3>8, <3>9, <3>12 DEF Right
      <4>2. \A n \in MD!Names \ NamesOfToday : store'[n] = MD!NoFile
        BY <3>7, <3>8, <3>12 DEF Right
      <4> QED BY <1>a, <1>b, <4>1, <4>2 DEF Right
    <3> QED BY <3>11, <3>12
  <2> QED BY <1>6, <2>2, <2>3 DEF Recovers, Settled
<1>7. CASE UNCHANGED MD!vars
  <2>1. store' = store /\ job' = job /\ running' = running
    BY <1>7 DEF MD!vars
  <2> QED BY <2>1, <1>c DEF Recovers
<1> QED BY <1>1, <1>2, <1>3, <1>4, <1>5, <1>6, <1>7 DEF MD!Next

\* The parts of the specification without the instance, for PTL.
DumpInit == MD!Init
DumpNext == MD!Next
DumpVars == <<wanted, paused, store, job, running, changes, faults>>
DumpRight == [][MD!Distinct /\ UNCHANGED <<wanted, paused, faults>> => Recovers]_DumpVars

\* While the migrations and their limits stay as they are and each has a name of its own, a
\* make-migrators job in which nothing fails leaves exactly their files, in whatever order
\* it dumps them and whatever an earlier job that failed or was cancelled has left; no
\* later job or load in the middle of one disturbs that, and auto-tick loads all of them.
THEOREM DumpRecovers ==
  ASSUME MD!Assumptions
  PROVE  MD!Init /\ [][MD!Next]_MD!vars
           => [][MD!Distinct /\ UNCHANGED <<wanted, paused, faults>> => Recovers]_DumpVars
<1>1. MD!Init /\ [][MD!Next]_MD!vars => DumpInit /\ [][DumpNext]_DumpVars
  BY DEF MD!vars, DumpInit, DumpNext, DumpVars
<1>2. DumpInit => Shape
  BY InitShape DEF DumpInit
<1>3. Shape /\ [DumpNext]_DumpVars => Shape'
  BY StepShape DEF DumpNext, DumpVars, MD!vars
<1>4. Shape /\ [DumpNext]_DumpVars
        => [MD!Distinct /\ UNCHANGED <<wanted, paused, faults>> => Recovers]_DumpVars
  BY StepRecovers DEF DumpNext, DumpVars, MD!vars
<1>5. DumpInit /\ [][DumpNext]_DumpVars => DumpRight
  BY <1>2, <1>3, <1>4, PTL DEF DumpRight
<1> QED BY <1>1, <1>5 DEF DumpRight

=============================================================================
