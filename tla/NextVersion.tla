----------------------------- MODULE NextVersion -----------------------------
(***************************************************************************)
(* RawURL and IncrementAlphaRawURL: the versions that may follow one       *)
(* (next_version), and the search that goes from one to the next as long   *)
(* as its source can be downloaded (BaseRawURL.get_url). The server        *)
(* answers every request as it likes: many answer any URL with some page.  *)
(***************************************************************************)
EXTENDS Integers, Sequences, SequencesExt

CONSTANTS
  MaxCount,   \* max_count
  Starts,     \* the versions to start from: sequences of Parts
  Hashes      \* the hashes of what can be downloaded; RecipesHash is in the recipe

\* A part is a number, a letter (from 1), or what next_version leaves alone, the
\* separators and longer words.
Letters == 26
Parts == [kind : {"num", "letter", "other"}, n : Nat]

RecipesHash == CHOOSE h \in Hashes : TRUE
ASSUME SearchAssumption ==
  /\ MaxCount \in Nat \ {0} /\ Hashes # {}
  /\ Starts \subseteq Seq(Parts)

VARIABLES
  orig, alpha,      \* the version of the recipe; increment_alpha
  ignored,          \* versions that is_version_ignored
  current, turn,    \* current_ver, the candidate that is tried next
  sha, count,       \* current_sha256 (<<>>: None), count
  good,             \* history: the last version whose source was found good
  phase, result     \* "search", "done", "raised"; <<>>: None

searchVars == <<orig, alpha, ignored, current, turn, sha, count, good, phase, result>>

-----------------------------------------------------------------------------
(* next_version *)

CanBump(p, inc) == p.kind = "num" \/ (inc /\ p.kind = "letter" /\ p.n <= Letters)
StartAgain(p, inc) ==
  IF p.kind = "num" THEN [p EXCEPT !.n = 0] ELSE IF CanBump(p, inc) THEN [p EXCEPT !.n = 1] ELSE p

\* The part k is incremented, those after it start again.
BumpAt(v, k, d, inc) ==
  [j \in DOMAIN v |-> IF j < k THEN v[j]
                      ELSE IF j = k THEN [v[j] EXCEPT !.n = @ + d] ELSE StartAgain(v[j], inc)]

\* The parts from `start` on that can be incremented, the last one first.
Bumpable(v, start, inc) ==
  LET IfCan(k) == IF CanBump(v[k], inc) THEN <<k>> ELSE <<>>
  IN  FlattenSeq([j \in 1..(Len(v) - start + 1) |-> IfCan(Len(v) + 1 - j)])

\* _yield_splits_from_index with num_bump = 1, and with 2.
YieldOnce(v, start, inc) ==
  LET K == Bumpable(v, start, inc) IN [j \in DOMAIN K |-> BumpAt(v, K[j], 1, inc)]

YieldTwice(v, inc) ==
  LET K == Bumpable(v, 1, inc)
      From(k, d) == LET w == BumpAt(v, k, d, inc) IN <<w>> \o YieldOnce(w, k + 1, inc)
  IN  FlattenSeq([j \in DOMAIN K |-> From(K[j], 1) \o From(K[j], 2)])

NextVersions(v, inc) == YieldTwice(v, inc)

-----------------------------------------------------------------------------
(* BaseRawURL.get_url *)

SearchInit ==
  /\ orig \in Starts /\ alpha \in BOOLEAN
  /\ ignored \in {{}} \cup {{w} : w \in ToSet(NextVersions(orig, alpha))}
  /\ current = orig /\ turn = 1 /\ sha = <<>> /\ count = 0
  /\ good = orig /\ phase = "search" /\ result = <<>>

Candidates == NextVersions(current, alpha)
Trying == phase = "search" /\ turn <= Len(Candidates) /\ count < MaxCount

\* Ignored, rendered to a URL that is the old one or is of another version, or not
\* found by wget --spider or curl.
NotThere ==
  /\ Trying /\ turn' = turn + 1
  /\ UNCHANGED <<orig, alpha, ignored, current, sha, count, good, phase, result>>

GiveUp == phase' = "done" /\ result' = <<>>

\* Mutant of Accept: what is ignored is tried.
AcceptIgnored ==
  /\ Trying
  /\ \E h \in Hashes \ ({RecipesHash} \cup ToSet(sha)) : sha' = <<h>>
  /\ current' = Candidates[turn] /\ count' = count + 1 /\ turn' = 1 /\ good' = current'
  /\ UNCHANGED <<orig, alpha, ignored, phase, result>>

\* It is there and what it gives is new.
Accept ==
  /\ Trying /\ Candidates[turn] \notin ignored
  /\ \E h \in Hashes \ ({RecipesHash} \cup ToSet(sha)) : sha' = <<h>>
  /\ current' = Candidates[turn] /\ count' = count + 1 /\ turn' = 1 /\ good' = current'
  /\ UNCHANGED <<orig, alpha, ignored, phase, result>>

\* It is there but cannot be hashed, or gives what was already there.
SameOrNoHash ==
  /\ Trying /\ Candidates[turn] \notin ignored
  /\ current' = Candidates[turn] /\ count' = count + 1
  /\ GiveUp
  /\ UNCHANGED <<orig, alpha, ignored, turn, sha, good>>

\* The recipe has no URL for this version.
NoUrl ==
  /\ Trying /\ Candidates[turn] \notin ignored /\ GiveUp
  /\ UNCHANGED <<orig, alpha, ignored, current, turn, sha, count, good>>

\* subprocess.TimeoutExpired
TimesOut ==
  /\ Trying /\ Candidates[turn] \notin ignored /\ phase' = "raised"
  /\ UNCHANGED <<orig, alpha, ignored, current, turn, sha, count, good, result>>

\* No candidate is there, or count has reached max_count.
Return ==
  /\ phase = "search" /\ ~Trying
  /\ phase' = "done" /\ result' = IF current # orig THEN current ELSE <<>>
  /\ UNCHANGED <<orig, alpha, ignored, current, turn, sha, count, good>>

SearchNext == NotThere \/ Accept \/ SameOrNoHash \/ NoUrl \/ TimesOut \/ Return

SearchSpec == SearchInit /\ [][SearchNext]_searchVars

-----------------------------------------------------------------------------
Newer(w, v) ==
  /\ Len(w) = Len(v)
  /\ \E k \in DOMAIN v : w[k].n > v[k].n /\ \A j \in 1..(k - 1) : w[j] = v[j]

\* The source that was tried last is the one that is returned: it is newer than the
\* recipe, is not ignored, and its archive is not that of the recipe. A server that
\* answers every URL with pages that change does not carry the version away: the first
\* part that differs from the recipe's is at most two more for each version that was
\* found, and there are max_count of them.
ResultIsGood ==
  phase = "done" /\ result # <<>> =>
    /\ result = good /\ Newer(result, orig) /\ result \notin ignored
    /\ sha \notin {<<>>, <<RecipesHash>>}
    /\ \A k \in DOMAIN orig :
         (\A j \in 1..(k - 1) : result[j] = orig[j]) => result[k].n <= orig[k].n + 2 * MaxCount
=============================================================================
