------------------------------ MODULE MCVersions ------------------------------
(* New versions for TLC: a version on its way from upstream to a pull        *)
(* request and to the status page, the jobs that look for versions, how a    *)
(* version is found among sources and by trying URLs, and how it gets into a *)
(* recipe. `part` says which of them a behaviour is about; the rest rests.   *)
EXTENDS VersionStatus, VersionJobs, VersionSources, NextVersion, RecipeVersion, RecipeVersionV1, TLC

VARIABLE part

\* The seed keeps all versions, or skips one.
MCSkipSets == {{}, {2}}

-----------------------------------------------------------------------------
(* RawURL: versions like 1.2, 1.1y (the letters end soon), 0.1rc2 *)

Num(n) == [kind |-> "num", n |-> n]
Letter(n) == [kind |-> "letter", n |-> n]
Word == [kind |-> "other", n |-> 1]

MCStarts == {<<Num(1), Num(2)>>, <<Num(1), Num(1), Letter(25)>>, <<Num(0), Word, Num(2)>>}

-----------------------------------------------------------------------------
(* Two feedstocks of one project, whose tags are of v1, v3rc, rc3 and core/2; the *)
(* recipes' URLs are .../v1.tar.gz and .../r1.tar.gz                              *)

MCTags == {TagOf(<<"v">>, 1, FALSE), TagOf(<<"v">>, 3, TRUE), TagOf(<<"r", "c">>, 3, FALSE),
           TagOf(<<"core", "/">>, 2, FALSE)}
\* The sources are the default, and releases before tags; one does not exist any more.
MCConfigured == {<<"LibrariesIO", "GithubReleases", "Github">>}
MCUrlPrefixes == {<<>>, <<"r">>}

-----------------------------------------------------------------------------
(* meta.yaml *)

Unix == <<"unix">>
Win == <<"win">>
U(sel, names) == [sel |-> sel, vars |-> names]
H(sel, type, var) == [sel |-> sel, type |-> type, var |-> var]
Source(urls, hashes) == [local |-> FALSE, urls |-> urls, hashes |-> hashes]
V(name, sel) == [name |-> name, sel |-> sel]
Recipe(srcs, variables) == [sources |-> srcs, vars |-> variables]

Linux == <<"linux">>
Osx == <<"osx">>
Hashed(sel) == H(sel, "sha256", <<>>)

Plain == Source(<<U(<<>>, {})>>, <<Hashed(<<>>)>>)

MCRecipes == {
  \* Two sources with their hashes written out.
  Recipe(<<Plain, Plain>>, <<>>),
  \* A URL and a hash for each platform.
  Recipe(<<Source(<<U(Unix, {}), U(Win, {})>>, <<Hashed(Unix), Hashed(Win)>>), Plain>>, <<>>),
  \* A source for unix and win, and one for linux, osx and win.
  Recipe(<<Source(<<U(Unix, {}), U(Win, {})>>, <<Hashed(Unix), Hashed(Win)>>),
           Source(<<U(Linux, {}), U(Osx, {}), U(Win, {})>>, <<Hashed(Linux), Hashed(Osx), Hashed(Win)>>)>>, <<>>),
  \* One URL with a variable for each platform, and so is the hash.
  Recipe(<<Source(<<U(<<>>, {"arch"})>>, <<H(<<>>, "sha256", <<"sha256">>)>>)>>,
         <<V("arch", Unix), V("sha256", Unix), V("arch", Win), V("sha256", Win)>>),
  \* A variable that is not set.
  Recipe(<<Source(<<U(<<>>, {"arch"})>>, <<H(<<>>, "md5", <<>>)>>)>>, <<>>),
  \* A path, and a hash for each platform of one URL.
  Recipe(<<[local |-> TRUE, urls |-> <<>>, hashes |-> <<>>],
           Source(<<U(<<>>, {"ext"})>>, <<H(Unix, "md5", <<>>), H(Win, "md5", <<>>)>>)>>,
         <<V("ext", Unix), V("ext", Win)>>),
  \* A source without a URL.
  Recipe(<<Plain, Source(<<>>, <<>>)>>, <<>>)}

MCPlatforms == {{"linux", "unix"}, {"osx", "unix"}, {"osx", "arm64", "unix"}, {"win"}}

-----------------------------------------------------------------------------
(* recipe.yaml *)

R(place, variant, type) == [place |-> place, variant |-> variant, type |-> type, const |-> FALSE]

V1Recipes ==
  {<<>>, <<R(1, "linux", "sha256")>>,
   <<R(1, "linux", "sha256"), R(1, "linux", "sha256"), R(2, "linux", "md5")>>,
   <<R(1, "linux", "md5"), R(1, "osx", "md5"), R(1, "linux", "md5")>>,
   <<[R(1, "linux", "sha256") EXCEPT !.const = TRUE], R(2, "linux", "sha256")>>,
   <<R(1, "linux", "sha256"), R(2, "linux", "none")>>}
MCOfPyPI == <<"pypi">>
MCMunged == <<"zip">>

\* The hypothesis of the theorem on HashesAreNew.
ASSUME MCRecipesAreSound == RecipesAreSound

-----------------------------------------------------------------------------
SearchRests ==
  /\ orig = <<>> /\ alpha = FALSE /\ ignored = {} /\ current = <<>> /\ turn = 1 /\ sha = <<>>
  /\ count = 0 /\ good = <<>> /\ phase = "rests" /\ result = <<>>

AskingRests ==
  /\ sources = <<>> /\ tags = <<>> /\ prefix = <<>> /\ allowed = <<>> /\ ignoring = {}
  /\ removed = <<>> /\ todo = {} /\ asked = {} /\ nth = 1 /\ raised = FALSE
  /\ answer = [f \in Feedstocks |-> Pending]

EditingRests ==
  /\ meta = 0 /\ content = <<>> /\ src = 1 /\ selectors = {} /\ edited = TRUE
  /\ faulty = FALSE /\ undone = {} /\ step = "rests"

V1Rests ==
  /\ rendered = <<>> /\ hasVersion = FALSE /\ there = {} /\ hash = <<>> /\ form = <<>> /\ at = 1
  /\ hashType = "sha256" /\ updated = TRUE /\ errors = FALSE /\ stage = "rests"

MCInit ==
  /\ part \in {"flow", "jobs", "search", "ask", "edit", "edit v1"}
  /\ StatusInit /\ (part # "flow" => skipped = {})
  /\ JobsInit
  /\ IF part = "search" THEN SearchInit ELSE SearchRests
  /\ IF part = "ask" THEN AskInit /\ tags["f1"] = tags["f2"] ELSE AskingRests
  /\ IF part = "edit" THEN MetaInit ELSE EditingRests
  /\ IF part = "edit v1" THEN V1Init ELSE V1Rests

Flow ==
  part = "flow" /\ StatusNext /\ UNCHANGED <<part, jobsVars, searchVars, askVars, metaVars, v1Vars>>
Jobs ==
  part = "jobs" /\ JobsNext /\ UNCHANGED <<part, statusVars, searchVars, askVars, metaVars, v1Vars>>
Searching ==
  part = "search" /\ SearchNext /\ UNCHANGED <<part, statusVars, jobsVars, askVars, metaVars, v1Vars>>
AskingSources ==
  part = "ask" /\ AskNext /\ UNCHANGED <<part, statusVars, jobsVars, searchVars, metaVars, v1Vars>>
Editing ==
  part = "edit" /\ MetaNext /\ UNCHANGED <<part, statusVars, jobsVars, searchVars, askVars, v1Vars>>
EditingV1 ==
  part = "edit v1" /\ V1Next /\ UNCHANGED <<part, statusVars, jobsVars, searchVars, askVars, metaVars>>

MCNext == Flow \/ Jobs \/ Searching \/ AskingSources \/ Editing \/ EditingV1

MCVars == <<part, statusVars, jobsVars, searchVars, askVars, metaVars, v1Vars>>

\* The workflows are started by the clock and by each other. A fetch is right again
\* and again, and an attempt succeeds.
MCSpec ==
  /\ MCInit /\ [][MCNext]_MCVars
  /\ SF_statusVars(part = "flow" /\ Fetch /\ data' = Latest /\ UNCHANGED tried)
  /\ WF_statusVars(part = "flow" /\ UpdateNode /\ UNCHANGED tried)
  /\ WF_statusVars(part = "flow" /\ UpdatePRs /\ UNCHANGED tried)
  /\ SF_statusVars(part = "flow" /\ Prep /\ data = Latest /\ UNCHANGED tried)
  /\ SF_statusVars(part = "flow" /\ Succeed)

=============================================================================
