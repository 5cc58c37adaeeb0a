----------------------------- MODULE RecipeVersion -----------------------------
(***************************************************************************)
(* update_version: a new version goes into a meta.yaml.  Every source has  *)
(* URLs and hashes, which may be there once for each selector and may be   *)
(* named by jinja2 variables, which may have selectors too.  For each      *)
(* selector of the recipe _try_to_update_version puts a URL, a hash and    *)
(* the variables together, downloads, and writes the hash.  The sets it    *)
(* goes through come in any order.                                         *)
(***************************************************************************)
EXTENDS Integers, Sequences, FiniteSets, SequencesExt

CONSTANTS
  MetaYamls,    \* see RecipeOK
  Platforms   \* sets of the words that hold on a platform

\* A selector is the sequence of its words; NoSelector (<<>>) for a key without one.
NoSelector == <<>>
Holds(sel, p) == \A i \in DOMAIN sel : sel[i] \in p
\* `selector in key`: the text of a selector within that of another.
Within(s, t) == \E i \in 0..Len(t) : i + Len(s) <= Len(t) /\ SubSeq(t, i + 1, i + Len(s)) = s

HashTypes == {"md5", "sha256"}
MaxKeys == 3   \* URLs, and hashes, of one source
ChecksumNames == {"hash", "checksum"}

\* sources: [local, urls: of [sel, vars], hashes: of [sel, type, var]], in the order of
\* the file; var is <<>> for a hash that is written out, else the variable's name.
\* vars: of [name, sel], the constants that are set with jinja2.
IsSeq(s) == s \in Seq(ToSet(s))
RecipeOK(r) ==
  /\ IsSeq(r.sources) /\ IsSeq(r.vars) /\ \A k \in DOMAIN r.vars : IsSeq(r.vars[k].sel)
  /\ \A i \in DOMAIN r.sources :
       LET U == r.sources[i].urls
           H == r.sources[i].hashes
       IN  /\ IsSeq(U) /\ Len(U) <= MaxKeys /\ \A j \in DOMAIN U : IsSeq(U[j].sel)
           /\ IsSeq(H) /\ Len(H) <= MaxKeys
           /\ \A j \in DOMAIN H : IsSeq(H[j].sel) /\ IsSeq(H[j].var) /\ H[j].type \in HashTypes
           /\ r.sources[i].local => U = <<>> /\ H = <<>>
ASSUME MetaAssumption == \A r \in MetaYamls : RecipeOK(r)

VARIABLES
  meta,
  content,      \* the hash in every slot: of which URL and type it is (<<>>: the old one)
  src, selectors,    \* the source, and the selectors still to go through
  edited, faulty,
  undone,     \* history: the sources and selectors that could not be done
  step            \* "selectors", "written", "failed"

metaVars == <<meta, content, src, selectors, edited, faulty, undone, step>>

-----------------------------------------------------------------------------
(* Keys, variables and what is downloaded *)

Literal(i, j) == <<"key", i, j>>
Variable(v) == <<"set", v.name, v.sel>>
Slots(r) ==
  {Literal(i, j) : i \in DOMAIN r.sources, j \in 1..MaxKeys} \cup {Variable(r.vars[k]) : k \in DOMAIN r.vars}

\* _compile_all_selectors
Selectors(r, i) ==
  {NoSelector} \cup {r.vars[k].sel : k \in DOMAIN r.vars}
         \cup {u.sel : u \in ToSet(r.sources[i].urls)} \cup {h.sel : h \in ToSet(r.sources[i].hashes)}

\* The variables that are defined for a selector, the last of those that fit.
Defined(r, n, s) ==
  {k \in DOMAIN r.vars : r.vars[k].name = n /\ (r.vars[k].sel = NoSelector \/ (s # NoSelector /\ Within(s, r.vars[k].sel)))}
Names(r) == {r.vars[k].name : k \in DOMAIN r.vars}
MaxOf(K) == CHOOSE k \in K : \A l \in K : l <= k
MinOf(K) == CHOOSE k \in K : \A l \in K : k <= l

\* A URL rendered: of which source and key, with which variables.
Url(r, i, j, value) == <<i, j, [n \in r.sources[i].urls[j].vars |-> value[n]]>>

\* Mutant of UrlKeys: what has no selector will do.
UrlKeysWithout(r, i, s) == {j \in DOMAIN r.sources[i].urls : r.sources[i].urls[j].sel = NoSelector}

\* url_key: the last key with the selector in it, else `url`.
UrlKeys(r, i, s) ==
  LET U == r.sources[i].urls
      With == {j \in DOMAIN U : s # NoSelector /\ Within(s, U[j].sel)}
  IN  IF With # {} THEN {MaxOf(With)} ELSE {j \in DOMAIN U : U[j].sel = NoSelector}

\* hash_key: the types come in any order; of one type, the first key with the selector
\* in it, else the one without.
HashKeysOf(r, i, s, type) ==
  LET H == r.sources[i].hashes
      With == {j \in DOMAIN H : s # NoSelector /\ H[j].type = type /\ Within(s, H[j].sel)}
  IN  IF With # {} THEN {MinOf(With)} ELSE {j \in DOMAIN H : H[j].type = type /\ H[j].sel = NoSelector}
HashKeys(r, i, s) == UNION {HashKeysOf(r, i, s, type) : type \in HashTypes}

\* _try_replace_hash: the slots a new hash may be written to.
Replaceable(r, i, j, s) ==
  LET h == r.sources[i].hashes[j]
      cnames == ChecksumNames \cup {h.type} \cup ToSet(h.var)
      Keys(n) ==
        LET Exact == {k \in DOMAIN r.vars : s # NoSelector /\ r.vars[k].name = n /\ r.vars[k].sel = s}
        IN  IF Exact # {} THEN Exact ELSE {k \in DOMAIN r.vars : r.vars[k].name = n /\ r.vars[k].sel = NoSelector}
  IN  IF h.var = <<>> THEN {Literal(i, j)} ELSE {Variable(r.vars[k]) : k \in UNION {Keys(n) : n \in cnames}}

Used(r, i, u, h) == r.sources[i].urls[u].vars \cup ToSet(r.sources[i].hashes[h].var)

-----------------------------------------------------------------------------
MetaInit ==
  /\ meta \in MetaYamls
  /\ content = [x \in Slots(meta) |-> <<>>]
  /\ src = 1 /\ selectors = Selectors(meta, 1)
  /\ edited = TRUE /\ faulty = FALSE /\ undone = {} /\ step = "selectors"

Fails(s) == edited' = FALSE /\ faulty' = TRUE /\ undone' = undone \cup {<<src, s>>}
InSource == step = "selectors" /\ src <= Len(meta.sources)

\* "no URLs in the source section", unless the source is a path.
NoUrls ==
  /\ InSource /\ selectors # {} /\ meta.sources[src].urls = <<>>
  /\ selectors' = {}
  /\ IF meta.sources[src].local THEN UNCHANGED <<edited, faulty, undone>> ELSE Fails(NoSelector)
  /\ UNCHANGED <<meta, content, src, step>>

\* No URL or no hash for this selector: the source is passed over.
NothingToDo(s) ==
  /\ InSource /\ s \in selectors /\ meta.sources[src].urls # <<>>
  /\ UrlKeys(meta, src, s) = {} \/ HashKeys(meta, src, s) = {}
  /\ selectors' = selectors \ {s}
  /\ UNCHANGED <<meta, content, src, edited, faulty, undone, step>>

\* There is no such variable.
MissingVariable(s) ==
  /\ InSource /\ s \in selectors
  /\ \E u \in UrlKeys(meta, src, s), h \in HashKeys(meta, src, s) :
       Used(meta, src, u, h) \ Names(meta) # {}
  /\ selectors' = selectors \ {s} /\ Fails(s)
  /\ UNCHANGED <<meta, content, src, step>>

\* There is, but not for this selector.
Skip(s) ==
  /\ InSource /\ s \in selectors
  /\ \E u \in UrlKeys(meta, src, s), h \in HashKeys(meta, src, s) :
       \E n \in Used(meta, src, u, h) \cap Names(meta) : Defined(meta, n, s) = {}
  /\ selectors' = selectors \ {s}
  /\ UNCHANGED <<meta, content, src, edited, faulty, undone, step>>

Ready(s, u, h) ==
  /\ InSource /\ s \in selectors
  /\ u \in UrlKeys(meta, src, s) /\ h \in HashKeys(meta, src, s)
  /\ \A n \in Used(meta, src, u, h) : Defined(meta, n, s) # {}

\* A URL made from the template, by PyPI or by gen_transformed_urls, can be hashed.
Hash(s, u, h) ==
  /\ Ready(s, u, h)
  /\ LET new == [url |-> Url(meta, src, u, [n \in Used(meta, src, u, h) |->
                                                MaxOf(Defined(meta, n, s))]),
                 type |-> meta.sources[src].hashes[h].type]
     IN  \E slot \in Replaceable(meta, src, h, s) : content' = [content EXCEPT ![slot] = <<new>>]
  /\ selectors' = selectors \ {s}
  /\ UNCHANGED <<meta, src, edited, faulty, undone, step>>

\* None can, or there is nowhere to write the hash.
CannotHash(s, u, h) ==
  /\ Ready(s, u, h)
  /\ selectors' = selectors \ {s} /\ Fails(s)
  /\ UNCHANGED <<meta, content, src, step>>

NextSource ==
  /\ InSource /\ selectors = {} /\ src' = src + 1
  /\ selectors' = IF src' <= Len(meta.sources) THEN Selectors(meta, src') ELSE {}
  /\ UNCHANGED <<meta, content, edited, faulty, undone, step>>

StillTheSame == \A x \in DOMAIN content : content[x] = <<>>

\* The recipe is written if every source did update and something did change.
Write ==
  /\ step = "selectors" /\ ~InSource
  /\ IF edited /\ ~StillTheSame
     THEN step' = "written" /\ faulty' = FALSE
     ELSE step' = "failed" /\ faulty' = (faulty \/ edited)
  /\ UNCHANGED <<meta, content, src, selectors, edited, undone>>

MetaNext ==
  \/ \E s \in selectors :
       \/ NothingToDo(s) \/ MissingVariable(s) \/ Skip(s)
       \/ \E u, h \in 1..MaxKeys : Hash(s, u, h) \/ CannotHash(s, u, h)
  \/ NoUrls \/ NextSource \/ Write

MetaSpec == MetaInit /\ [][MetaNext]_metaVars

-----------------------------------------------------------------------------
(* What conda-build reads of a recipe on a platform *)

On(r, p, n) ==
  LET K == {k \in DOMAIN r.vars : r.vars[k].name = n /\ Holds(r.vars[k].sel, p)}
  IN  IF K = {} THEN 0 ELSE MaxOf(K)
SlotOn(r, p, i, j) ==
  LET h == r.sources[i].hashes[j] IN
    IF h.var = <<>> THEN Literal(i, j) ELSE Variable(r.vars[On(r, p, h.var[1])])
UrlKeysOn(r, p, i) == {j \in DOMAIN r.sources[i].urls : Holds(r.sources[i].urls[j].sel, p)}
UrlsOn(r, p, i) ==
  {Url(r, i, j, [n \in r.sources[i].urls[j].vars |-> On(r, p, n)]) : j \in UrlKeysOn(r, p, i)}
HashesOn(r, p, i) == {j \in DOMAIN r.sources[i].hashes : Holds(r.sources[i].hashes[j].sel, p)}

\* "sets of 1. urls 2. hashes 3. jinja2 contexts these are then updated": in a recipe
\* that is written, the hash that a platform reads for a source is that of the archive
\* of the new version that the platform downloads.
HashesAreNew ==
  step = "written" =>
    \A p \in Platforms, i \in DOMAIN meta.sources : \A j \in HashesOn(meta, p, i) :
      LET c == content[SlotOn(meta, p, i, j)] IN
        c # <<>> /\ c[1].type = meta.sources[i].hashes[j].type /\ c[1].url \in UrlsOn(meta, p, i)

-----------------------------------------------------------------------------
(* The recipes of which that is true *)

NamesOn(r, p, i) ==
  (UNION {r.sources[i].urls[j].vars : j \in UrlKeysOn(r, p, i)})
    \cup UNION {ToSet(r.sources[i].hashes[j].var) : j \in HashesOn(r, p, i)}
\* The selectors of what a platform reads for a source.
SelectorsOn(r, p, i) ==
  {r.sources[i].urls[j].sel : j \in UrlKeysOn(r, p, i)}
    \cup {r.sources[i].hashes[j].sel : j \in HashesOn(r, p, i)}
    \cup {r.vars[k].sel : k \in {l \in DOMAIN r.vars : r.vars[l].name \in NamesOn(r, p, i)
                                                      /\ Holds(r.vars[l].sel, p)}}

\* conda-build can build the recipe on every platform: a selector is of some platform, a
\* variable is set once on each, what has a hash has a URL, a variable that is set
\* anywhere is set wherever it is used, and what is one hash for two platforms or two
\* sources is of one archive.
Buildable(r) ==
  /\ \A i \in DOMAIN r.sources : \A s \in Selectors(r, i) : \E p \in Platforms : Holds(s, p)
  /\ \A p \in Platforms : \A k, l \in DOMAIN r.vars :
       r.vars[k].name = r.vars[l].name /\ Holds(r.vars[k].sel, p) /\ Holds(r.vars[l].sel, p) => k = l
  /\ \A p \in Platforms, i \in DOMAIN r.sources :
       /\ HashesOn(r, p, i) # {} => UrlKeysOn(r, p, i) # {}
       /\ \A n \in NamesOn(r, p, i) \cap Names(r) : On(r, p, n) # 0
       /\ \A j \in HashesOn(r, p, i) : ToSet(r.sources[i].hashes[j].var) \subseteq Names(r)
  /\ \A p, q \in Platforms, i, k \in DOMAIN r.sources :
       \A j \in HashesOn(r, p, i), l \in HashesOn(r, q, k) :
         SlotOn(r, p, i, j) = SlotOn(r, q, k, l) =>
           r.sources[i].hashes[j].type = r.sources[k].hashes[l].type /\ UrlsOn(r, p, i) = UrlsOn(r, q, k)

\* It is written so that _try_to_update_version can tell what belongs together: no
\* selector is part of the text of another, what a platform reads for a source is under
\* one selector or none, it reads one hash, and a variable with a hash is the only one
\* that is named as such variables are.
Unambiguous(r) ==
  /\ \A i \in DOMAIN r.sources : \A s, t \in Selectors(r, i) \ {NoSelector} : Within(s, t) => s = t
  /\ \A p \in Platforms, i \in DOMAIN r.sources :
       /\ \A s, t \in SelectorsOn(r, p, i) \ {NoSelector} : s = t
       /\ \A j, k \in HashesOn(r, p, i) : j = k
  /\ \A i \in DOMAIN r.sources : \A j \in DOMAIN r.sources[i].hashes :
       LET h == r.sources[i].hashes[j] IN
         h.var # <<>> => /\ Len(h.var) = 1
                         /\ Names(r) \cap (ChecksumNames \cup {h.type}) \subseteq {h.var[1]}

RecipesAreSound == \A r \in MetaYamls : Buildable(r) /\ Unambiguous(r)
=============================================================================
