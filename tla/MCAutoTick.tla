----------------------------- MODULE MCAutoTick -----------------------------
(* Two migrators on two feedstocks for TLC: one from a yaml file, without   *)
(* solver checks, on a feedstock with an ABI migration branch; and Version, *)
(* with solver checks, on main only.                                        *)
EXTENDS AutoTick, TLC

CONSTANTS n1, n2, main, abi

MCNodes == {n1, n2}
MCBranches == {main, abi}

MCMigrators == {
  [isVersion |-> FALSE, solverChecks |-> FALSE, canSpoof |-> TRUE, forceAfter |-> 10,
   branchesOf |-> n1 :> <<main, abi>> @@ n2 :> <<main>>],
  [isVersion |-> TRUE, solverChecks |-> TRUE, canSpoof |-> FALSE, forceAfter |-> 8,
   branchesOf |-> n1 :> <<main>> @@ n2 :> <<main>>]}

MCSpec == Spec /\ WF_vars(Progress /\ UNCHANGED migrator)

\* Every branch is migrated in the end, or its feedstock is archived, once the
\* faults stop: no error that is stored blocks a feedstock for good, and an
\* environment that is never solvable delays it for a number of attempts only.
EventuallyMigrated ==
  \A n \in Nodes, b \in Branches :
    <>[](\/ remote[n].archived \/ remote[n].pred[b] # "none"
         \/ \A i \in DOMAIN migrator.branchesOf[n] : migrator.branchesOf[n][i] # b)
=============================================================================
