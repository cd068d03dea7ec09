------------------------------- MODULE SolvQuery -------------------------------
(***************************************************************************)
(* Queries over the packages of a sack: libdnf/rpm/solv_query.cpp with the *)
(* caches of solv_sack_impl.hpp.  A query holds a map of package Ids and   *)
(* narrows it, filter by filter.  Exact matches of names and NEVRAs walk a *)
(* sorted list that the sack caches; everything else scans the query.      *)
(*                                                                         *)
(* A string is a pair <<base, case>>: two strings are equal without case   *)
(* when their bases are.  A pattern is a record: the string it is, the     *)
(* bases it matches as a glob ({}: it is not one), and the bases that      *)
(* contain it.  Versions are strings whose base is a number.  A comparison *)
(* type is its set of flags, as QueryCmp is.                               *)
(***************************************************************************)
EXTENDS Naturals, Sequences, FiniteSets, SequencesExt

CONSTANTS SqTable,      \* what each package is: see the getters below
          SqRepoPkgs,   \* repository -> the packages its metadata holds
          SqIdOf,       \* the Id the pool gave to a string
          SqQueries,    \* query objects
          SqCalls,      \* filter calls: [key, cmp, pats]
          SqSpecs,      \* arguments of resolve_pkg_spec
          SqBlock,      \* solvables that fit before the pool's array moves
          FailuresMove, \* a load that fails may have moved it too
          MaxSqOps      \* bound: calls on queries

ASSUME SqAssumption ==
  /\ \A r \in DOMAIN SqRepoPkgs : SqRepoPkgs[r] \in Seq(DOMAIN SqTable)
  /\ \A p \in DOMAIN SqTable :
       /\ {SqTable[p].name, SqTable[p].arch} \subseteq DOMAIN SqIdOf /\ SqTable[p].evr \in Nat
       /\ SqTable[p].nevra # << >> /\ SqTable[p].advisory \in BOOLEAN
  /\ \A s \in DOMAIN SqIdOf : s # << >> /\ SqIdOf[s] \in Nat
  /\ \A s, t \in DOMAIN SqIdOf : SqIdOf[s] = SqIdOf[t] => s = t
  /\ \A call \in SqCalls : call.key \notin {"nevra_obj", "reldep_of", "obsoletes_of"} =>
       \A pat \in call.pats : pat.str # << >> /\ (call.key = "nevra" => pat.nevra.evr \in Nat)
  /\ SqBlock \in Nat /\ MaxSqOps \in Nat /\ FailuresMove \in BOOLEAN

VARIABLES sqPool,    \* [ids: the solvables by Id, gen: the array they are in]
          sqSorted,  \* cached_sorted_solvables with the size it was made for
          sqQuery,   \* query -> its map
          sqLast,    \* the last call: what it was, and the map before it
          sqOps      \* calls on queries so far

sqVars == <<sqPool, sqSorted, sqQuery, sqLast, sqOps>>

SqPkg == SqTable
NoQuery == [there |-> FALSE]
NoCall == [key |-> "none"]
Anything == [any |-> TRUE]     \* the pattern "*" of a part of a NEVRA
NoPat == [none |-> TRUE]       \* a part of a NEVRA that is not given

GT == {"GT"}
LT == {"LT"}
EQ == {"EQ"}
GTE == {"GT", "EQ"}
LTE == {"LT", "EQ"}
GLOB == {"GLOB"}
IEXACT == {"ICASE", "EQ"}
IGLOB == {"ICASE", "GLOB"}
CONTAINS == {"CONTAINS"}
ICONTAINS == {"ICASE", "CONTAINS"}

Nsolvables == Len(sqPool.ids)
Loaded == Range(sqPool.ids)
IdsOf(S) == {i \in 1..Nsolvables : sqPool.ids[i] \in S}
PkgsOf(m) == {sqPool.ids[i] : i \in m.bits}

-----------------------------------------------------------------------------
(* libsolv's bitmaps, external: what lies beyond the shorter one stays.     *)

MapOf(size, bits) == [there |-> TRUE, size |-> size, bits |-> bits]
SqMapAnd(t, s) == MapOf(t.size, {i \in t.bits : i <= s.size => i \in s.bits})
SqMapSubtract(t, s) == MapOf(t.size, t.bits \ s.bits)
SqMapOr(t, s) == MapOf(IF t.size < s.size THEN s.size ELSE t.size, t.bits \cup s.bits)

-----------------------------------------------------------------------------
(* The sack.                                                                *)

\* nevra_solvable_cmp_key: Ids of names, then of architectures, then of EVRs.
NevraKey(p) == <<SqIdOf[SqPkg[p].name], SqIdOf[SqPkg[p].arch], SqPkg[p].evr>>
KeyBelow(a, b) == \E i \in DOMAIN a : a[i] < b[i] /\ \A j \in 1..(i - 1) : a[j] = b[j]

\* get_solvables never stores the size it was made for, so that it is always
\* made afresh; advisories are left out.
GetSolvables == MapOf(Nsolvables, {i \in 1..Nsolvables : ~SqPkg[sqPool.ids[i]].advisory})

\* std::sort; the same NEVRA of two repositories may come in either order.
SortedByNevra(at, ids) ==
  LET Key(i) == NevraKey(at[i])
      Before(i) == {j \in ids : KeyBelow(Key(j), Key(i)) \/ (Key(j) = Key(i) /\ j < i)}
  IN [k \in 1..Cardinality(ids) |-> at[CHOOSE i \in ids : Cardinality(Before(i)) = k - 1]]

SortedNow == [size |-> Nsolvables, gen |-> sqPool.gen, list |-> SortedByNevra(sqPool.ids, GetSolvables.bits)]

\* get_sorted_solvables: the cached list is good while the number is the same.
GetSortedSolvables == IF sqSorted.size = Nsolvables THEN sqSorted ELSE SortedNow

\* A repository is added; its solvables come last, and the array moves when
\* they do not fit.  A load that fails takes them away again.
Grown(r) ==
  sqPool.gen + IF SqRepoPkgs[r] # <<>> /\ Nsolvables + Len(SqRepoPkgs[r]) > SqBlock * sqPool.gen THEN 1 ELSE 0

LoadRepo(r) ==
  /\ Range(SqRepoPkgs[r]) \cap Loaded = {}
  /\ sqPool' = [ids |-> sqPool.ids \o SqRepoPkgs[r], gen |-> Grown(r)]
  /\ sqLast' = NoCall
  /\ UNCHANGED <<sqSorted, sqQuery, sqOps>>

LoadFails(r) ==
  /\ Range(SqRepoPkgs[r]) \cap Loaded = {}
  /\ sqPool' = [sqPool EXCEPT !.gen = IF FailuresMove THEN Grown(r) ELSE @]
  /\ sqLast' = NoCall
  /\ UNCHANGED <<sqSorted, sqQuery, sqOps>>

-----------------------------------------------------------------------------
(* Strings.                                                                 *)

\* The comparisons of strcmp, strcasecmp, fnmatch and strstr.
StrMatch(cmp, pat, s) ==
  \/ cmp = EQ /\ s = pat.str
  \/ cmp = IEXACT /\ s[1] = pat.str[1]
  \/ cmp = GLOB /\ s[1] \in pat.glob /\ s[2] = pat.str[2]
  \/ cmp = IGLOB /\ s[1] \in pat.glob
  \/ cmp = CONTAINS /\ s[1] \in pat.inside /\ s[2] = pat.str[2]
  \/ cmp = ICONTAINS /\ s[1] \in pat.inside

\* remove_glob_when_unneeded
WithoutGlob(cmp, pat) ==
  IF "GLOB" \in cmp /\ pat.glob = {} THEN (cmp \ {"GLOB"}) \cup {"EQ"} ELSE cmp

\* pool_evrcmp_str, through the flags that cmp_gt ... cmp_lte test.
Ordered(cmp, a, b) ==
  \/ "GT" \in cmp /\ a > b
  \/ "LT" \in cmp /\ a < b
  \/ "EQ" \in cmp /\ a = b

\* filter_version_internal and filter_release_internal call cmp_eq whatever
\* comparison they are instantiated with.
VersionMatch(cmp, pat, s) == IF cmp = GLOB THEN StrMatch(cmp, pat, s) ELSE s[1] = pat.str[1]

StringKeys == {"file", "description", "summary", "url"}
DepKeys == {"conflicts", "enhances", "obsoletes", "recommends", "requires", "suggests", "supplements"}

\* The comparison types that each filter knows, without NOT.
Supported(key) ==
  CASE key = "name" -> {EQ, IEXACT, ICONTAINS, IGLOB, CONTAINS, GLOB}
    [] key \in StringKeys -> {EQ, IEXACT, GLOB, IGLOB, CONTAINS, ICONTAINS}
    [] key \in {"arch", "reponame", "sourcerpm", "epoch_str"} -> {EQ, GLOB}
    [] key \in {"version", "release"} -> {EQ, GLOB, GT, LT, GTE, LTE}
    [] key \in {"evr", "epoch"} -> {EQ, GT, LT, GTE, LTE}
    [] key = "nevra" -> {EQ, GT, LT, GTE, LTE, GLOB, IGLOB, IEXACT}
    [] key \in {"provides"} \cup DepKeys -> {EQ, GLOB}
    [] key = "nevra_obj" -> {EQ, IEXACT, GLOB, IGLOB}
    [] OTHER -> {EQ}

\* evr does not know NOT; the filters that compare numbers or whole locations
\* look at the type before the patterns, the others pattern by pattern.
Unsupported(call) ==
  LET cmp == IF call.key = "evr" THEN call.cmp ELSE call.cmp \ {"NOT"}
  IN IF call.key \in {"evr", "epoch", "location", "nevra_obj", "reldep_of", "obsoletes_of"}
     THEN cmp \notin Supported(call.key)
     ELSE \E pat \in call.pats : WithoutGlob(cmp, pat) \notin Supported(call.key)

-----------------------------------------------------------------------------
(* Dependencies.                                                            *)

\* pool_match_dep, external: the same name, and ranges that meet.
SqInRange(v, d) == d.cmp = {} \/ Ordered(d.cmp, v, d.evr)
MatchDep(a, b) ==
  a.name = b.name /\ (a.cmp = {} \/ b.cmp = {} \/ \E v \in 0..6 : SqInRange(v, a) /\ SqInRange(v, b))

\* ReldepParser::parse: a name alone, or a name, an operator and a version.
ParseReldep(pat) ==
  IF pat.rel \in {"none", "<", "<=", "=", ">=", ">"} /\ (pat.rel = "none") = (pat.evr = 0)
  THEN {[name |-> pat.str[1], evr |-> pat.evr,
         cmp |-> CASE pat.rel = "none" -> {} [] pat.rel = "<" -> LT [] pat.rel = "<=" -> LTE
                   [] pat.rel = "=" -> EQ [] pat.rel = ">=" -> GTE [] pat.rel = ">" -> GT]}
  ELSE {}

\* str2reldep_internal: a pattern that cannot be parsed adds nothing; a glob
\* adds a dependency on every string of the pool it matches.
ReldepsOf(cmp, pat) ==
  IF WithoutGlob(cmp, pat) = EQ THEN ParseReldep(pat)
  ELSE {[d EXCEPT !.name = n] : d \in ParseReldep(pat), n \in pat.glob}

\* filter_provides: FOR_PROVIDES over the whole pool.
Providers(d) == {p \in Loaded : \E pr \in SqPkg[p].provides : MatchDep(d, pr)}

\* filter_reldep(patterns) and filter_reldep(package_set).
HasReldep(p, key, deps) == \E d \in deps : \E e \in SqPkg[p].deps[key] : MatchDep(d, e)
ReldepMatchesPackage(p, key, q) ==
  \E pr \in SqPkg[q].provides : \E e \in SqPkg[p].deps[key] : MatchDep(pr, e)

\* ifilter_obsoletes(package_set): of what provides the obsoleted name, only
\* what has that name.
Obsoletes(p, target) ==
  \E d \in SqPkg[p].deps["obsoletes"] :
    \E q \in Providers(d) \cap target : SqPkg[q].name[1] = d.name

-----------------------------------------------------------------------------
(* Filters: the packages of the pool that each adds to filter_result for    *)
(* one pattern.  The caller intersects.                                     *)

\* lower_bound over the sorted list and the walk from there while the key is
\* the same; n is how many fields of the key are compared.
Prefix(key, n) == SubSeq(key, 1, n)

EqualRange(list, key, n) ==
  LET low == {i \in DOMAIN list : ~KeyBelow(Prefix(NevraKey(list[i]), n), key)}
  IN {list[i] : i \in {i \in low : \A j \in low : j <= i => Prefix(NevraKey(list[j]), n) = key}}

\* pool_str2id: a string that the pool does not know is no name.
SortedName(str) ==
  IF str \in DOMAIN SqIdOf THEN EqualRange(GetSortedSolvables.list, <<SqIdOf[str]>>, 1) ELSE {}

FilterName(cmp, pat, m) ==
  IF cmp = EQ THEN SortedName(pat.str)
  ELSE {p \in PkgsOf(m) : StrMatch(cmp, pat, SqPkg[p].name)}

\* NevraID::parse: a pattern whose name or architecture the pool does not
\* know is no NEVRA of any package.
NevraKeyOf(n) == <<SqIdOf[n.name], SqIdOf[n.arch], n.evr>>

\* The walk of the sorted list: the whole key for EQ, name and architecture
\* for the comparisons.
SortedNevra(cmp, n) ==
  IF ~ {n.name, n.arch} \subseteq DOMAIN SqIdOf THEN {}
  ELSE IF cmp = EQ THEN EqualRange(GetSortedSolvables.list, NevraKeyOf(n), 3)
  ELSE {p \in EqualRange(GetSortedSolvables.list, Prefix(NevraKeyOf(n), 2), 2) :
          Ordered(cmp, SqPkg[p].evr, n.evr)}

FilterNevra(cmp, pat, m) ==
  IF cmp \in {GLOB, IGLOB, IEXACT} THEN {p \in PkgsOf(m) : StrMatch(cmp, pat, SqPkg[p].nevra)}
  ELSE SortedNevra(cmp, pat.nevra)

\* is_valid_candidate: the parts that are given and are not "*".
ValidCandidate(p, n, cmp, src) ==
  /\ src \/ SqPkg[p].arch[1] # "src"
  /\ \A part \in {"arch", "epoch_str", "version", "release"} :
       n[part] \notin {NoPat, Anything} =>
         StrMatch(WithoutGlob(cmp, n[part]), n[part], SqPkg[p][part])

FilterNevraObject(cmp, n, m, src) ==
  IF n.name = NoPat
  THEN {p \in PkgsOf(m) : ValidCandidate(p, n, cmp, src)
                           /\ \E part \in {"arch", "epoch_str", "version", "release"} : n[part] # NoPat}
  ELSE LET ncmp == IF n.name = Anything THEN cmp ELSE WithoutGlob(cmp, n.name)
           named == IF n.name = Anything THEN PkgsOf(m)
                    ELSE IF ncmp = EQ THEN FilterName(EQ, n.name, m)
                    ELSE {p \in PkgsOf(m) : StrMatch(ncmp, n.name, SqPkg[p].name)}
       IN {p \in named : ValidCandidate(p, n, cmp, src)}

FilterEvr(cmp, pat, m) == {p \in PkgsOf(m) : Ordered(cmp, SqPkg[p].evr, pat.str[1])}
FilterArch(cmp, pat, m) == {p \in PkgsOf(m) : StrMatch(cmp, pat, SqPkg[p].arch)}
FilterVersion(cmp, pat, m) == {p \in PkgsOf(m) : VersionMatch(cmp, pat, SqPkg[p].version)}
FilterRelease(cmp, pat, m) == {p \in PkgsOf(m) : VersionMatch(cmp, pat, SqPkg[p].release)}
FilterReponame(cmp, pat, m) == {p \in PkgsOf(m) : StrMatch(cmp, pat, SqPkg[p].repo)}
\* A package without a source package is its own source.
FilterSourcerpm(cmp, pat, m) == {p \in PkgsOf(m) : SqPkg[p].sourcerpm # <<>>
                                                   /\ StrMatch(cmp, pat, SqPkg[p].sourcerpm)}
FilterEpoch(cmp, pat, m) == {p \in PkgsOf(m) : Ordered(cmp, SqPkg[p].epoch_str[1], pat.str[1])}
FilterEpochString(cmp, pat, m) == {p \in PkgsOf(m) : StrMatch(cmp, pat, SqPkg[p].epoch_str)}
\* filter_dataiterator: one of the values matches.
FilterData(key, cmp, pat, m) == {p \in PkgsOf(m) : \E s \in SqPkg[p].data[key] : StrMatch(cmp, pat, s)}
FilterLocation(pat, m) == {p \in PkgsOf(m) : SqPkg[p].location = pat.str}
FilterProvides(cmp, pat) == UNION {Providers(d) : d \in ReldepsOf(cmp, pat)}
FilterReldep(key, cmp, pat, m) == {p \in PkgsOf(m) : HasReldep(p, key, ReldepsOf(cmp, pat))}
FilterReldepSet(key, S) == {p \in Loaded : \E q \in S : ReldepMatchesPackage(p, key, q)}
FilterObsoletesSet(S, m) == {p \in PkgsOf(m) : Obsoletes(p, S)}

\* One turn of the loop over the patterns.
MatchedBy(call, pat, m) ==
  LET cmp == call.cmp \ {"NOT"}
      c == IF call.key \in {"evr", "epoch", "location"} THEN cmp ELSE WithoutGlob(cmp, pat)
  IN CASE call.key = "name" -> FilterName(c, pat, m)
       [] call.key = "evr" -> FilterEvr(c, pat, m)
       [] call.key = "arch" -> FilterArch(c, pat, m)
       [] call.key = "nevra" -> FilterNevra(c, pat, m)
       [] call.key = "version" -> FilterVersion(c, pat, m)
       [] call.key = "release" -> FilterRelease(c, pat, m)
       [] call.key = "reponame" -> FilterReponame(c, pat, m)
       [] call.key = "sourcerpm" -> FilterSourcerpm(c, pat, m)
       [] call.key = "epoch" -> FilterEpoch(c, pat, m)
       [] call.key = "epoch_str" -> FilterEpochString(c, pat, m)
       [] call.key = "location" -> FilterLocation(pat, m)
       [] call.key \in StringKeys -> FilterData(call.key, c, pat, m)
       [] call.key = "provides" -> FilterProvides(cmp, pat)
       [] OTHER -> FilterReldep(call.key, cmp, pat, m)   \* DepKeys

FilterResult(call, m) ==
  CASE call.key = "nevra_obj" -> FilterNevraObject(call.cmp \ {"NOT"}, call.nevra, m, TRUE)
    [] call.key = "reldep_of" -> FilterReldepSet(call.dep, call.pkgs)
    [] call.key = "obsoletes_of" -> FilterObsoletesSet(call.pkgs, m)
    [] OTHER -> UNION {MatchedBy(call, pat, m) : pat \in call.pats}

AppliedFilterSlip(call, m, found) == IF "NOT" \in call.cmp THEN SqMapSubtract(m, found) ELSE SqMapAnd(found, m)

\* The end of every filter.
AppliedFilter(call, m, found) == IF "NOT" \in call.cmp THEN SqMapSubtract(m, found) ELSE SqMapAnd(m, found)

\* A filter that throws leaves the query as it was.
Filtered(call, m) ==
  IF Unsupported(call) THEN m
  ELSE AppliedFilter(call, m, MapOf(Nsolvables, IdsOf(FilterResult(call, m))))

UsesSorted(call) == call.key \in {"name", "nevra", "nevra_obj", "spec"}

-----------------------------------------------------------------------------

CountCall == sqOps < MaxSqOps /\ sqOps' = sqOps + 1

NewQuery(q, flags) ==
  /\ CountCall
  /\ sqQuery' = [sqQuery EXCEPT ![q] = IF flags = "EMPTY" THEN MapOf(Nsolvables, {})
                                       ELSE SqMapOr(MapOf(Nsolvables, {}), GetSolvables)]
  /\ sqLast' = NoCall
  /\ UNCHANGED <<sqPool, sqSorted>>

CopyQuery(q, src) ==
  /\ CountCall
  /\ sqQuery[src].there /\ q # src
  /\ sqQuery' = [sqQuery EXCEPT ![q] = sqQuery[src]]
  /\ sqLast' = NoCall
  /\ UNCHANGED <<sqPool, sqSorted>>

Called(q, call, result) ==
  /\ CountCall
  /\ sqLast' = [key |-> call.key, call |-> call, query |-> q, before |-> sqQuery[q],
                used |-> IF UsesSorted(call) THEN GetSortedSolvables ELSE sqSorted]
  /\ sqQuery' = [sqQuery EXCEPT ![q] = result]
  /\ sqSorted' = sqLast'.used
  /\ UNCHANGED sqPool

ApplyFilter(q, call) == sqQuery[q].there /\ Called(q, call, Filtered(call, sqQuery[q]))

\* resolve_pkg_spec: the forms of a NEVRA in their order, the whole NEVRA when
\* no forms were asked for, provides, files.  The first that finds anything
\* decides; when none does the query is cleared.
SpecTries(spec, m) ==
  LET cmp == IF spec.icase THEN IGLOB ELSE GLOB
  IN [i \in DOMAIN spec.forms |-> FilterNevraObject(cmp, spec.forms[i], m, spec.src)]
       \o (IF spec.given THEN <<>> ELSE <<FilterNevra(WithoutGlob(cmp, spec.pat), spec.pat, m)>>)
       \o (IF spec.provides THEN <<FilterProvides(GLOB, spec.pat)>> ELSE <<>>)
       \o (IF spec.file THEN <<FilterData("file", GLOB, spec.pat, m)>> ELSE <<>>)

ResolvedSpec(spec, m) ==
  LET tries == SpecTries(spec, m)
      good == {i \in DOMAIN tries : IdsOf(tries[i]) \cap m.bits # {}}
  IN IF good = {} THEN MapOf(m.size, {})
     ELSE SqMapAnd(m, MapOf(Nsolvables, IdsOf(tries[CHOOSE i \in good : \A j \in good : i <= j])))

ResolveSpec(q, spec) ==
  sqQuery[q].there /\ Called(q, [key |-> "spec", spec |-> spec], ResolvedSpec(spec, sqQuery[q]))

SqInit ==
  /\ sqPool = [ids |-> <<>>, gen |-> 1]
  /\ sqSorted = [size |-> 0, gen |-> 1, list |-> <<>>]
  /\ sqQuery = [q \in SqQueries |-> NoQuery]
  /\ sqLast = NoCall
  /\ sqOps = 0

SqNext ==
  \/ \E r \in DOMAIN SqRepoPkgs : LoadRepo(r) \/ LoadFails(r)
  \/ \E q \in SqQueries :
       \/ \E flags \in {"EMPTY", "APPLY_EXCLUDES"} : NewQuery(q, flags)
       \/ \E src \in SqQueries : CopyQuery(q, src)
       \/ \E call \in SqCalls : ApplyFilter(q, call)
       \/ \E spec \in SqSpecs : ResolveSpec(q, spec)

SqSpec == SqInit /\ [][SqNext]_sqVars

-----------------------------------------------------------------------------

\* What a filter says it finds, package by package.
Means(call, pat, p) ==
  LET cmp == WithoutGlob(call.cmp \ {"NOT"}, pat)
      field == SqPkg[p]
  IN CASE call.key = "nevra" /\ cmp \in {EQ, GT, LT, GTE, LTE} ->
            /\ <<field.name, field.arch>> = <<pat.nevra.name, pat.nevra.arch>>
            /\ Ordered(cmp, field.evr, pat.nevra.evr)
       [] \/ call.key \in {"name", "arch", "sourcerpm", "location"}
          \/ call.key = "nevra" /\ cmp \notin {EQ, GT, LT, GTE, LTE} ->
            field[call.key] # <<>> /\ StrMatch(cmp, pat, field[call.key])
       [] call.key = "reponame" -> StrMatch(cmp, pat, field.repo)
       [] call.key \in {"version", "release"} ->
            IF cmp = GLOB THEN StrMatch(cmp, pat, field[call.key])
            ELSE Ordered(cmp, field[call.key][1], pat.str[1])
       [] call.key = "evr" -> Ordered(cmp, field.evr, pat.str[1])
       [] OTHER -> Ordered(cmp, field.epoch_str[1], pat.str[1])   \* epoch

(* Whatever was loaded before or after the query was made, whatever of it   *)
(* earlier filters left, and whichever list a filter walks: it keeps, or    *)
(* with NOT drops, exactly the packages that match a pattern, and a type it *)
(* does not know changes nothing.  (version and release only for equality   *)
(* and globs: the code answers "greater" and "less" as if equality had been *)
(* asked.)                                                                  *)
FilterIsExact ==
  sqLast.key \in {"name", "arch", "nevra", "sourcerpm", "location", "reponame",
                  "version", "release", "evr", "epoch"} =>
    LET call == sqLast.call
        hit(i) == \E pat \in call.pats : Means(call, pat, sqPool.ids[i])
    IN (call.key \in {"version", "release"} => call.cmp \in {EQ, GLOB, EQ \cup {"NOT"}}) =>
         sqQuery[sqLast.query].bits =
           IF Unsupported(call) THEN sqLast.before.bits
           ELSE {i \in sqLast.before.bits : hit(i) # ("NOT" \in call.cmp)}

SqTypeOK ==
  /\ \A q \in SqQueries : sqQuery[q].there => sqQuery[q].bits \subseteq 1..sqQuery[q].size
  /\ Range(sqSorted.list) \subseteq DOMAIN SqPkg

(* "Return sorted list of all package solvables" (solv_sack_impl.hpp): the  *)
(* list a filter walks points into the array the pool has now.              *)
SortedListIsCurrent ==
  sqLast.key # "none" /\ UsesSorted(sqLast.call) =>
    sqLast.used.gen = sqPool.gen /\ Range(sqLast.used.list) = PkgsOf(GetSolvables)

(* Every filter computes its meaning, on the packages the pool has now      *)
(* (solv_query.cpp filters, solv_sack_impl.hpp get_sorted_solvables).       *)
QueriesExact == FilterIsExact /\ SortedListIsCurrent
===============================================================================
