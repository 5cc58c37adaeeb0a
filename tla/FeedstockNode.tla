----------------------------- MODULE FeedstockNode -----------------------------
(***************************************************************************)
(* What the bot knows of one feedstock, its node_attrs: try_load_feedstock *)
(* puts what it finds in the feedstock's last commit over what is there    *)
(* from earlier ones, and many things may be wrong with a commit.  An      *)
(* attribute is the number of the commit it is from, 0 if it is missing.   *)
(***************************************************************************)
EXTENDS Integers, FiniteSets

CONSTANTS
  Platforms,   \* platforms there may be .ci_support files for
  Extra,       \* platforms that a provider in conda-forge.yml may add
  MaxCommits   \* bound: commits of the feedstock

ASSUME PlatformsAssumption ==
  /\ Platforms # {} /\ Platforms \cap Extra = {}
  /\ IsFiniteSet(Platforms \cup Extra) /\ MaxCommits \in Nat \ {0}

AllPlatforms == Platforms \cup Extra

\* A commit: the recipe's format, conda-forge.yml and its providers, the .ci_support
\* files, whether it can be rendered (to nothing, possibly), and where the version is.
Contents ==
  {c \in [file : {"meta", "recipe", "none"}, config : {"ok", "bad", "absent"},
          provider : SUBSET Extra, ci : SUBSET Platforms,
          renders : {"yes", "no", "empty"}, version : {"top", "output", "nowhere"}] :
     /\ c.config # "ok" => c.provider = {}
     /\ c.renders # "yes" => c.version = "nowhere"
     /\ c.file = "none" => c.ci = {} /\ c.renders = "no"}

Bare ==
  [file |-> "meta", config |-> "absent", provider |-> {}, ci |-> {}, renders |-> "no",
   version |-> "nowhere"]

VARIABLES
  commit, content,  \* the number of the feedstock's last commit, and what is in it
  attrs             \* node_attrs

feedstockVars == <<commit, content, attrs>>

None == [p \in AllPlatforms |-> 0]

FeedstockInit ==
  /\ commit = 1 /\ content \in Contents
  /\ attrs = [raw |-> 0, config |-> 0, provider |-> {}, meta |-> 0, requirements |-> 0,
              platforms |-> {}, info |-> None, ci |-> 0, version |-> 0,
              error |-> TRUE, archived |-> TRUE]

-----------------------------------------------------------------------------
(* populate_feedstock_attributes *)

\* Mutant of Stripped: the keys of the last load stay.
NotStripped(a) == [a EXCEPT !.raw = commit, !.error = FALSE, !.archived = FALSE]

\* The old keys of the recipe are taken out, so that no platform is left behind.
Stripped(a) ==
  [a EXCEPT !.raw = commit, !.error = FALSE, !.archived = FALSE,
            !.meta = 0, !.requirements = 0, !.info = None, !.ci = 0]

\* conda-forge.yml, if there is one.
WithConfig(a) ==
  IF content.config = "ok"
  THEN [Stripped(a) EXCEPT !.config = commit, !.provider = content.provider]
  ELSE Stripped(a)

\* Without .ci_support files: the usual platforms, and those of the providers.
Generic == content.ci = {}
PlatformsOf(a) == IF Generic THEN Platforms \cup a.provider ELSE content.ci

\* Rendering raises; so does the generic one without conda-forge.yml (a KeyError), and
\* for a recipe.yaml.
Raises(a) ==
  \/ content.file = "none"
  \/ /\ content.config # "bad"
     /\ \/ content.renders = "no"
        \/ Generic /\ (WithConfig(a).config = 0 \/ content.file = "recipe")

\* Platforms and the first .ci_support file are noted before the variants are combined.
WithPlatforms(a) ==
  [a EXCEPT !.platforms = PlatformsOf(a), !.ci = IF Generic THEN 0 ELSE commit]

\* An output's version is taken if there is none already.
VersionOf(a) ==
  IF content.version = "top" \/ (content.version = "output" /\ a.version = 0)
  THEN commit ELSE a.version

Populated(a) ==
  LET parsed == WithPlatforms(WithConfig(a))
  IN  IF content.config = "bad" THEN [Stripped(a) EXCEPT !.error = TRUE]
      ELSE IF content.renders = "empty" THEN [parsed EXCEPT !.error = TRUE]
      ELSE [parsed EXCEPT !.meta = commit, !.requirements = commit,
                     !.info = [p \in AllPlatforms |-> IF p \in parsed.platforms THEN commit ELSE @[p]],
                     !.version = VersionOf(a)]

-----------------------------------------------------------------------------
(* try_load_feedstock *)

\* The archive of the feedstock cannot be fetched.
LoadNothing ==
  /\ attrs' = [attrs EXCEPT !.error = TRUE, !.archived = FALSE]
  /\ UNCHANGED <<commit, content>>

LoadRaises ==
  /\ Raises(attrs) /\ attrs' = [attrs EXCEPT !.error = TRUE]
  /\ UNCHANGED <<commit, content>>

Load ==
  /\ ~Raises(attrs) /\ attrs' = Populated(attrs)
  /\ UNCHANGED <<commit, content>>

\* The maintainers push.
Push ==
  /\ commit < MaxCommits /\ commit' = commit + 1
  /\ content' \in Contents
  /\ UNCHANGED attrs

\* _update_nodes_with_archived
Archive ==
  /\ attrs' = [attrs EXCEPT !.archived = TRUE] /\ UNCHANGED <<commit, content>>

FeedstockNext == LoadNothing \/ LoadRaises \/ Load \/ Push \/ Archive

FeedstockSpec == FeedstockInit /\ [][FeedstockNext]_feedstockVars

-----------------------------------------------------------------------------
\* A node without an error has a recipe, and "platform_info must contain all build platforms
\* in the platforms field", and no others.
PlatformInfo ==
  ~attrs.error =>
    /\ attrs.meta # 0 /\ attrs.requirements # 0
    /\ {p \in AllPlatforms : attrs.info[p] # 0} = attrs.platforms

\* What is rendered is from one commit, that of raw_meta_yaml; an error never leaves a half
\* of it.
OneCommit ==
  /\ {attrs.meta, attrs.ci} \subseteq {0, attrs.raw}
  /\ attrs.requirements = attrs.meta
  /\ \A p \in AllPlatforms : attrs.info[p] \in {0, attrs.meta}

\* What is in a node is that of one load, whatever went wrong with this and earlier commits
\* and which platforms ever were there.
NodeIsWhole == PlatformInfo /\ OneCommit
=============================================================================
