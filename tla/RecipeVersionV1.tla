---------------------------- MODULE RecipeVersionV1 ----------------------------
(***************************************************************************)
(* update_version_v1: a new version goes into a recipe.yaml.  The sources  *)
(* are rendered once, for every variant; then the text is changed by       *)
(* replacing what is written there, wherever it is written: the version,   *)
(* each old hash by a new one, and the template of a URL by another one    *)
(* when only that can be downloaded.                                       *)
(***************************************************************************)
EXTENDS Integers, Sequences, FiniteSets, SequencesExt

CONSTANTS
  Recipes,     \* sequences of rendered sources, see below
  Given,       \* the template of a URL as it is written
  OfPyPI,      \* the templates that PyPI gives for a version, a sequence
  Munged       \* those that _gen_new_urls makes: other extensions, names, hosts

\* A rendered source is a record: the place where it is written (two variants may be of
\* one), its variant, its type ("sha256", "md5" or "none", of its hash), and const, if its
\* URL has no version.

\* _try_pypi_api: the name written with variables, then what the index says.
TryPyPI == OfPyPI
\* gen_transformed_urls gives the URL itself first.
GenTransformed == <<Given>> \o Munged
\* _get_new_url_tmpl_and_hash, in the order it goes through them.
FormsOf(r) == (IF r.const THEN <<>> ELSE <<Given>>) \o TryPyPI \o GenTransformed
AllForms == {Given} \cup ToSet(OfPyPI) \cup ToSet(Munged)

\* What is rendered from one place has one template.
ASSUME RecipesAssumption ==
  /\ Given \notin ToSet(OfPyPI) \cup ToSet(Munged)
  /\ {OfPyPI, Munged} \subseteq Seq(AllForms)
  /\ \A r \in Recipes :
       /\ r \in Seq(ToSet(r))
       /\ \A k, l \in DOMAIN r : r[k].place = r[l].place => r[k].const = r[l].const

VARIABLES
  rendered, hasVersion,   \* the rendered sources in order; a line `version:` that can be replaced
  there,      \* what can be downloaded: of which place and variant, in which form
  hash, form, \* the text: the hash of each rendered source, and the form of each place's URL
  at, hashType, updated, errors, stage

v1Vars == <<rendered, hasVersion, there, hash, form, at, hashType, updated, errors, stage>>

Places == {rendered[k].place : k \in DOMAIN rendered}
Archive(r, f) == <<r.place, r.variant, f>>
Old == <<"old">>
\* The hash of a source, as it is written: every variant of a place has its own.
OldHash(r) == <<Old, r.place, r.variant>>
NewHash(r, f) == IF r.const /\ f = Given THEN OldHash(r) ELSE <<"new", Archive(r, f)>>

V1Init ==
  /\ rendered \in Recipes /\ hasVersion \in BOOLEAN
  /\ there \in SUBSET {Archive(rendered[k], f) : k \in DOMAIN rendered, f \in AllForms}
  /\ hash = [k \in DOMAIN rendered |-> OldHash(rendered[k])]
  /\ form = [p \in Places |-> Given]
  /\ at = 1 /\ hashType = "sha256" /\ updated = TRUE /\ errors = FALSE /\ stage = "start"

\* "no source sections were found", or no line with the version.
StartRecipe ==
  /\ stage = "start"
  /\ IF rendered = <<>> \/ ~hasVersion THEN stage' = "failed" /\ errors' = TRUE ELSE stage' = "sources" /\ errors' = errors
  /\ UNCHANGED <<rendered, hasVersion, there, hash, form, at, hashType, updated>>

Here == stage = "sources" /\ at <= Len(rendered)
TypeOf(r) == IF r.type = "none" THEN hashType ELSE r.type

Try(r, f) == Archive(r, f) \in there

\* recipe_text.replace(old hash, new hash): all renderings of one place and variant.
Replace(r, f) ==
  hash' = [k \in DOMAIN hash |-> IF hash[k] = OldHash(r) THEN NewHash(r, f) ELSE hash[k]]

First(f) ==
  /\ Here /\ rendered[at].type # "none" /\ Try(rendered[at], f)
  /\ \E k \in DOMAIN FormsOf(rendered[at]) :
       /\ FormsOf(rendered[at])[k] = f
       /\ \A l \in 1..(k - 1) : ~Try(rendered[at], FormsOf(rendered[at])[l])

\* Mutant of FormFound: the URL stays as it was.
FormFoundKeepsUrl(f) ==
  /\ First(f) /\ Replace(rendered[at], f)
  /\ hashType' = TypeOf(rendered[at]) /\ at' = at + 1
  /\ UNCHANGED <<rendered, hasVersion, there, form, updated, errors, stage>>

\* The first form that can be had.
FormFound(f) ==
  /\ First(f) /\ Replace(rendered[at], f)
  /\ form' = [form EXCEPT ![rendered[at].place] = IF @ = Given THEN f ELSE @]
  /\ hashType' = TypeOf(rendered[at]) /\ at' = at + 1
  /\ UNCHANGED <<rendered, hasVersion, there, updated, errors, stage>>

\* Without a hash there is None to replace: a TypeError.
NoHash(f) ==
  /\ Here /\ rendered[at].type = "none" /\ Try(rendered[at], f)
  /\ stage' = "raised"
  /\ UNCHANGED <<rendered, hasVersion, there, hash, form, at, hashType, updated, errors>>

NotFound ==
  /\ Here /\ \A f \in AllForms : ~Try(rendered[at], f)
  /\ updated' = FALSE /\ errors' = TRUE /\ hashType' = TypeOf(rendered[at]) /\ at' = at + 1
  /\ UNCHANGED <<rendered, hasVersion, there, hash, form, stage>>

FinishRecipe ==
  /\ stage = "sources" /\ ~Here
  /\ IF updated THEN stage' = "written" /\ errors' = FALSE ELSE stage' = "failed" /\ errors' = errors
  /\ UNCHANGED <<rendered, hasVersion, there, hash, form, at, hashType, updated>>

V1Next == StartRecipe \/ (\E f \in AllForms : FormFound(f) \/ NoHash(f)) \/ NotFound \/ FinishRecipe

V1Spec == V1Init /\ [][V1Next]_v1Vars

-----------------------------------------------------------------------------
\* In a recipe that is written, each hash is that of the archive whose URL is written
\* beside it, unless the forms that can be had differ between the variants that are
\* rendered from one place: there is one template for them.
Uniform(p) ==
  \A k, l \in DOMAIN rendered : rendered[k].place = p /\ rendered[l].place = p =>
    \A f \in AllForms : Try(rendered[k], f) <=> Try(rendered[l], f)
HashesFollowUrls ==
  stage = "written" =>
    \A k \in DOMAIN rendered :
      Uniform(rendered[k].place) => hash[k] = NewHash(rendered[k], form[rendered[k].place])
=============================================================================
