---------------------------- MODULE VersionSources ----------------------------
(***************************************************************************)
(* get_latest_version_local: the version of a feedstock is asked of one    *)
(* source after the other.  A source may raise, and what one finds depends *)
(* on the tags upstream, on the feedstock's conda-forge.yml and, for       *)
(* Github, on the object itself, whose list of prefixes grows (get_url).   *)
(* A worker serves many feedstocks; each gets fresh sources, since it runs *)
(* in a container or gets a pickled copy.                                  *)
(***************************************************************************)
EXTENDS Integers, Sequences, FiniteSets, SequencesExt, FiniteSetsExt

CONSTANTS
  Feedstocks,
  Tags,          \* what may be tagged upstream
  Configured,    \* what version_updates.sources may be: sequences of names
  UrlPrefixes    \* prefixes of the tags in the URLs of the recipes (<<>>: none)

\* A tag: a word (a sequence of letters, with "/" for the end of a scope), a version,
\* 0 if there is none, and whether the version has a suffix such as rc1.
TagOf(word, num, dev) == [word |-> word, num |-> num, dev |-> dev]
NoVersion == TagOf(<<>>, 0, FALSE)

\* all_version_sources, without RawURL and IncrementAlphaRawURL.
Sources == <<"PyPI", "CRAN", "CratesIO", "NPM", "Github", "GithubReleases", "NVIDIA", "ROSDistro", "GitTags">>

DefaultPrefixes == << <<"release-">>, <<"v">> >>
DevWords == { <<"r", "c">>, <<"dev">> }

VARIABLES
  sources,    \* sources_to_use
  tags,   \* the tags of each project; the last is the latest
  prefix,     \* the prefix in the URL of each recipe
  allowed,    \* allowed_tag_globs, as the set of words they let pass (<<>>: None)
  ignoring,    \* the versions that is_version_ignored
  removed,    \* ver_prefix_remove of the Github source
  todo, asked, nth, raised,   \* the feedstock that is asked for, the source's number, exceptions
  answer      \* "raised", or a version (NoVersion: None)

askVars == <<sources, tags, prefix, allowed, ignoring, removed, todo, asked, nth, raised, answer>>
facts == <<sources, tags, prefix, allowed, ignoring>>

Pending == TagOf(<<"pending">>, 0, FALSE)
RaisedAnswer == TagOf(<<"raised">>, 0, FALSE)
Histories == {<<t>> : t \in Tags} \cup {<<tu[1], tu[2]>> : tu \in {p \in Tags \X Tags : p[1] # p[2]}}

\* The configured sources that exist, in the order of the configuration.
SourcesToUse(names) == SelectSeq(names, LAMBDA n : n \in ToSet(Sources))

\* A configuration that names Github names it once.
ASSUME SourcesAssumption ==
  \A names \in Configured :
    LET s == SourcesToUse(names) IN
      /\ s \in Seq(ToSet(Sources))
      /\ \A i, j \in DOMAIN s : s[i] = "Github" /\ s[j] = "Github" => i = j

AskInit ==
  /\ sources \in {Sources} \cup {SourcesToUse(names) : names \in Configured}
  /\ tags \in [Feedstocks -> Histories]
  /\ prefix \in [Feedstocks -> UrlPrefixes]
  /\ allowed \in {<<>>, << {t.word : t \in Tags} \ {<<"v">>} >>}
  /\ ignoring \in {{}} \cup {{t.num} : t \in Tags}
  /\ removed = DefaultPrefixes
  /\ todo = Feedstocks /\ asked = {} /\ nth = 1 /\ raised = FALSE
  /\ answer = [f \in Feedstocks |-> Pending]

-----------------------------------------------------------------------------
(* What each source makes of the tags *)

IsTagIgnored(word) == allowed # <<>> /\ word \notin allowed[1]

IsVersionIgnored(t) == t.num \in ignoring
Usable(t) == t.num # 0 /\ ~IsVersionIgnored(t)

AfterScope(word) ==
  IF "/" \in ToSet(word) THEN SubSeq(word, 1 + Max({j \in DOMAIN word : word[j] = "/"}), Len(word))
  ELSE word
Strip(word, p) == IF IsPrefix(p, word) THEN SubSeq(word, Len(p) + 1, Len(word)) ELSE word
HasDevWord(word) ==
  \E w \in DevWords, i \in 0..Len(word) :
    i + Len(w) <= Len(word) /\ SubSeq(word, i + 1, i + Len(w)) = w

\* Of the tags with these numbers the newest; of versions that are the same, the first.
Newest(ts, these) ==
  LET U == {i \in these : Usable(ts[i])} IN
    IF U = {} THEN NoVersion
    ELSE ts[Min({i \in U : \A j \in U : ts[j].num <= ts[i].num})]

WithoutPrefixes(word, ps) == FoldLeft(Strip, AfterScope(word), ps)

\* VersionFromFeed.get_version: the prefixes are taken off one after the other, then
\* what has the word of a development version is left out.
FromFeed(ts, ps) ==
  Newest(ts, {i \in DOMAIN ts : ~IsTagIgnored(ts[i].word) /\ ~HasDevWord(WithoutPrefixes(ts[i].word, ps)) /\ ~ts[i].dev})

IsPrerelease(t) == t.dev \/ HasDevWord(t.word)
IfUsable(t) == IF Usable(t) THEN t ELSE NoVersion

PyPI(ts) ==
  LET t == Last(ts) IN
    IF IsPrerelease(t) /\ \E u \in ToSet(ts) : ~IsPrerelease(u) THEN NoVersion ELSE IfUsable(t)
\* A package that is only in the archive has no version; the archive is a word.
CRAN(ts) == IF ToSet(Last(ts).word) \cap {"/"} # {} THEN NoVersion ELSE IfUsable(Last(ts))
\* The last line of the index.
CratesIO(ts) == IfUsable(Last(ts))
NPM(ts) == IF IsPrerelease(Last(ts)) THEN NoVersion ELSE IfUsable(Last(ts))
ROSDistro(ts) == IfUsable(Last(ts))
\* The newest of the list, whatever it is.
NVIDIA(ts) ==
  LET m == Max({t.num : t \in ToSet(ts)}) IN IfUsable(CHOOSE t \in ToSet(ts) : t.num = m)
GithubReleases(ts) ==
  LET t == Last(ts) IN
    IF IsPrerelease(t) \/ IsTagIgnored(t.word) THEN NoVersion ELSE IfUsable(t)
\* git ls-remote: the globs are given refs/tags/<tag>, so that none of those made for
\* tags lets one pass.
GitTags(ts) == Newest(ts, {i \in DOMAIN ts : allowed = <<>>})

\* Github.set_version_prefix
WithPrefix(ps, f) == IF prefix[f] = <<>> THEN ps ELSE <<prefix[f]>> \o ps

FoundBy(source, f, ps) ==
  LET ts == tags[f] IN
    CASE source = "PyPI" -> PyPI(ts)
      [] source = "CRAN" -> CRAN(ts)
      [] source = "CratesIO" -> CratesIO(ts)
      [] source = "NPM" -> NPM(ts)
      [] source = "ROSDistro" -> ROSDistro(ts)
      [] source = "NVIDIA" -> NVIDIA(ts)
      [] source = "Github" -> FromFeed(ts, WithPrefix(ps, f))
      [] source = "GithubReleases" -> GithubReleases(ts)
      [] source = "GitTags" -> GitTags(ts)

-----------------------------------------------------------------------------
(* get_latest_version_local *)

\* Mutant of FreshSources: the sources of all_version_sources serve one feedstock
\* after the other.
SameSources == removed' = removed

FreshSources == removed' = DefaultPrefixes

Ask(f) ==
  /\ asked = {} /\ f \in todo
  /\ asked' = {f} /\ todo' = todo \ {f} /\ nth' = 1 /\ raised' = FALSE
  /\ FreshSources
  /\ UNCHANGED <<facts, answer>>

Asking == asked # {} /\ nth <= Len(sources)
Current == CHOOSE f \in asked : TRUE
PrefixGrows == removed' = IF sources[nth] = "Github" THEN WithPrefix(removed, Current) ELSE removed

\* The recipe's URL is of another kind.
NotForThis == Asking /\ nth' = nth + 1 /\ UNCHANGED <<facts, removed, todo, asked, raised, answer>>

\* get_url or get_version raises.
Raises ==
  /\ Asking /\ raised' = TRUE /\ nth' = nth + 1 /\ PrefixGrows
  /\ UNCHANGED <<facts, todo, asked, answer>>

\* get_version answers; the loop ends with the first version.
SourceAnswers ==
  /\ Asking
  /\ LET t == FoundBy(sources[nth], Current, removed) IN
       IF t = NoVersion THEN nth' = nth + 1 /\ UNCHANGED <<asked, answer>>
       ELSE nth' = nth /\ asked' = {} /\ answer' = [answer EXCEPT ![Current] = IF IsVersionIgnored(t) THEN NoVersion ELSE t]
  /\ PrefixGrows
  /\ UNCHANGED <<facts, todo, raised>>

\* No source has one.
Ends ==
  /\ asked # {} /\ ~Asking /\ asked' = {}
  /\ answer' = [answer EXCEPT ![Current] = IF raised THEN RaisedAnswer ELSE NoVersion]
  /\ UNCHANGED <<facts, removed, todo, nth, raised>>

AskNext == (\E f \in Feedstocks : Ask(f)) \/ NotForThis \/ Raises \/ SourceAnswers \/ Ends

AskSpec == AskInit /\ [][AskNext]_askVars

-----------------------------------------------------------------------------
HasVersion(f) == answer[f] \notin {Pending, RaisedAnswer, NoVersion}

\* What a feedstock is told is what some source finds for it alone: the feedstocks
\* that the worker served before do not matter.
OthersDoNotMatter ==
  \A f \in Feedstocks :
    HasVersion(f) => \E s \in ToSet(sources) : answer[f] = FoundBy(s, f, DefaultPrefixes)
=============================================================================
