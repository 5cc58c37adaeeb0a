------------------------------ MODULE PinUpdates -------------------------------
(***************************************************************************)
(* How a new version of a package becomes its pin.  make-migrators sees    *)
(* that the version of the feedstock is outside of the pin, auto-tick then *)
(* opens a pull request on conda-forge-pinning with a migration's yaml;    *)
(* when it is merged, the feedstocks that use the package are rebuilt and  *)
(* a last pull request sets the pin and removes the yaml.                  *)
(* A version is a sequence of numbers.                                     *)
(***************************************************************************)
EXTENDS Integers, FiniteSets, Sequences, FiniteSetsExt

CONSTANTS
  Versions,    \* those of the package, each newer than its pin at first
  FirstPin,
  RunExports,  \* what recipes may have: sets of [mine, levels]
  Fallback,    \* the levels of pin_run_as_build
  Rejects      \* whether the maintainers reject pins

Assumptions ==
  /\ Fallback \in Nat \ {0} /\ Rejects \in BOOLEAN
  /\ FirstPin \in Seq(Nat) \ {<<>>} /\ Versions \subseteq Seq(Nat) \ {<<>>}
  /\ \A e \in RunExports : IsFiniteSet(e) /\ \A x \in e : x.levels \in Nat

VARIABLES
  version, exports,  \* of the feedstock, as in the graph
  pin,               \* in conda_build_config.yaml
  creator,           \* the MigrationYamlCreator, its pin and levels; a set, empty if none
  prs,               \* the pull requests on conda-forge-pinning: uid and state
  migrations,        \* recipe/migrations: the pin in the file of a name
  rebuilt,           \* names of migrations that a feedstock has a pull request of
  builtFor           \* the pin the last of them was for

vars == <<version, exports, pin, creator, prs, migrations, rebuilt, builtFor>>

-----------------------------------------------------------------------------
(* _extract_most_stringent_pin_from_recipe, _outside_pin_range *)

\* The longest of the specs of the package itself; 0 stands for one that is not x.x.
PinLevels(e) ==
  LET mine == {x.levels : x \in {y \in e : y.mine}} \ {0}
  IN  IF mine = {} THEN Fallback ELSE Max(mine)

Common(v, w) == 1 .. Min({Len(v), Len(w)})

\* Mutant of Outside: the last number of the spec is not looked at.
OutsideButLast(n, p, v) == n > Len(p) \/ \E i \in 1 .. n - 1 : i \in Common(p, v) /\ p[i] # v[i]

\* A version that is shorter than the spec and the same so far raises, and is left.
Outside(n, p, v) == n > Len(p) \/ \E i \in 1 .. n : i \in Common(p, v) /\ p[i] # v[i]

NewPin(n, v) == SubSeq(v, 1, Min({n, Len(v)}))

Wanted(p, v, e) == p # v /\ Outside(PinLevels(e), p, v)

Digits(c) == IF c < 10 THEN <<c>> ELSE <<c \div 10, c % 10>>

\* The file's name, and the migration's: the package and the pin without its dots.
NameOf(p) == LET f[i \in 0 .. Len(p)] == IF i = 0 THEN <<>> ELSE f[i - 1] \o Digits(p[i])
             IN  f[Len(p)]

Newer(v, w) ==
  LET At(x, i) == IF i <= Len(x) THEN x[i] ELSE 0
  IN  \E i \in 1 .. Max({Len(v), Len(w)}) :
        At(v, i) > At(w, i) /\ \A j \in 1 .. i - 1 : At(v, j) = At(w, j)

-----------------------------------------------------------------------------
Init ==
  /\ version = FirstPin /\ exports \in RunExports /\ pin = FirstPin
  /\ creator = {} /\ prs = {} /\ migrations = <<>> /\ rebuilt = {} /\ builtFor = FirstPin

\* A version of the feedstock is merged, maybe with other run_exports.
Release ==
  /\ version' \in {v \in Versions : Newer(v, version)}
  /\ exports' \in RunExports
  /\ UNCHANGED <<pin, creator, prs, migrations, rebuilt, builtFor>>

\* bot-make-migrators; what it finds is used by later runs of auto-tick.
MakeMigrators ==
  /\ creator' = IF Wanted(pin, version, exports)
                THEN {[pin |-> NewPin(PinLevels(exports), version), levels |-> PinLevels(exports)]}
                ELSE {}
  /\ UNCHANGED <<version, exports, pin, prs, migrations, rebuilt, builtFor>>

\* auto-tick, if there is no pull request with this uid.
Propose(c) ==
  /\ ~\E pr \in prs : pr.pin = c.pin
  /\ prs' = prs \cup {[pin |-> c.pin, state |-> "open"]}
  /\ UNCHANGED <<version, exports, pin, creator, migrations, rebuilt, builtFor>>

Answer(pr, s) == prs' = (prs \ {pr}) \cup {[pr EXCEPT !.state = s]}

\* The maintainers have one pin after the other, and never an older one.
Merge ==
  /\ migrations = <<>>
  /\ \E pr \in prs :
       /\ pr.state = "open" /\ Newer(pr.pin, pin)
       /\ Answer(pr, "merged")
       /\ migrations' = [n \in {NameOf(pr.pin)} |-> pr.pin]
  /\ UNCHANGED <<version, exports, pin, creator, rebuilt, builtFor>>

Reject ==
  /\ Rejects
  /\ \E pr \in prs : pr.state = "open" /\ Answer(pr, "rejected")
  /\ UNCHANGED <<version, exports, pin, creator, migrations, rebuilt, builtFor>>

\* auto-tick, with the migration that migration_factory makes of the file; the uid of the
\* pull request has the name of the migration.
Rebuild ==
  /\ \E n \in DOMAIN migrations \ rebuilt :
       rebuilt' = rebuilt \cup {n} /\ builtFor' = migrations[n]
  /\ UNCHANGED <<version, exports, pin, creator, prs, migrations>>

\* The pull request on conda-forge-pinning, when the feedstocks have theirs.
CloseOut ==
  /\ \E n \in DOMAIN migrations \cap rebuilt : pin' = migrations[n]
  /\ migrations' = <<>>
  /\ UNCHANGED <<version, exports, creator, prs, rebuilt, builtFor>>

Next == \/ Release \/ MakeMigrators \/ Merge \/ Reject \/ Rebuild \/ CloseOut
        \/ \E c \in creator : Propose(c)

-----------------------------------------------------------------------------
Inside(n, p, v) == \A i \in (1 .. n) \cap Common(p, v) : p[i] = v[i]

\* In the end a new version is inside of its pin, or the maintainers did not want it.
PinFollows ==
  \A v \in Versions :
    <>[](version = v) =>
      <>[](\/ Inside(PinLevels(exports), pin, v)
           \/ \E pr \in prs : pr.state = "rejected" /\ pr.pin = NewPin(PinLevels(exports), v))
=============================================================================
