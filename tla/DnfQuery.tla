------------------------------ MODULE DnfQuery ------------------------------
(***************************************************************************)
(* Queries of dnf-4 (dnf-4/libdnf/sack/query.cpp) over the sack of         *)
(* DnfSack.                                                                *)
(*                                                                         *)
(* A query collects filters and applies them when its result is asked for. *)
(* The first application starts from the considered packages of that       *)
(* moment; later ones narrow the result that is there.  A query may ignore *)
(* excludes, then it keeps a considered map of its own.                    *)
(*                                                                         *)
(* A filter is [key, type, cmp, arg]: type is the kind of argument (num,   *)
(* pkg, str, reldep), cmp the comparison flags.  One that was added also   *)
(* has made, the packages there were when its package set was made: the    *)
(* map of the set ends there.  Packages have a name, an architecture, a    *)
(* version (a number) and the Id of its spelling, a build time and the     *)
(* names they obsolete.  The text filters, which Query::Impl declares and  *)
(* this tree no longer defines, are represented by NAME and REPONAME,      *)
(* those on relations by OBSOLETES; no text of the model is a glob pattern.*)
(***************************************************************************)
EXTENDS DnfSack

CONSTANTS
    Queries,        \* the query objects
    PkgArch, PkgBuilt,            \* architecture, build time
    PkgEvr, PkgEvrId,             \* version as pool_evrcmp orders it, Id of its spelling
    PkgObsoletes,   \* the names a package obsoletes
    RepoPriority,   \* the priority of each repository
    Noarch,         \* ARCH_NOARCH
    Filters,        \* the filters that callers add
    ExcludeFlags,   \* kinds of map that a query may ignore: sets of MapKinds
    MaxFilters      \* bound: filters the queries hold together

\* Names, architectures and versions are numbers (Id).  A filter has one of the
\* four types of argument; match_type_num takes a number.
ASSUME DnfQueryAssumption ==
    /\ \A r \in SackRepos : PackagesOf[r] \in Seq(DOMAIN PkgName)
    /\ \A p \in DOMAIN PkgName : PkgName[p] \in Int /\ PkgArch[p] \in Int /\ PkgEvr[p] \in Int
    /\ \A p, o \in DOMAIN PkgName : PkgEvrId[p] = PkgEvrId[o] => PkgEvr[p] = PkgEvr[o]
    /\ \A f \in Filters : /\ f = [key |-> f.key, type |-> f.type, cmp |-> f.cmp, arg |-> f.arg]
                          /\ f.type \in {"num", "pkg", "reldep", "str"}
                          /\ f.type = "num" => f.arg \in Int

VARIABLE query      \* query[q]

\* cached: considered_cached; start and all: the packages the query started
\* from and the filters added since.
NewQuery(ignored) ==
    [ignored |-> ignored, applied |-> FALSE, there |-> FALSE, size |-> 0, result |-> {},
     filters |-> << >>, cached |-> NoMap, start |-> {}, all |-> << >>]

QueryTypeOK ==
    \A q \in Queries : /\ query[q].result \subseteq InPool
                       /\ query[q].applied => query[q].there /\ query[q].filters = << >>

QueryInit == query = [q \in Queries |-> NewQuery({})]

-----------------------------------------------------------------------------
Installed == OfRepo(SystemRepo)

\* filter_latest_sortcmp, filter_latest_sortcmp_byarch: by name (and
\* architecture), newest first, then by id.
IdOf(p) == CHOOSE i \in DOMAIN sackPool : sackPool[i] = p /\ \A j \in 1 .. i - 1 : sackPool[j] # p
Before(perArch, a, b) ==
    LET key(p) == <<PkgName[p], IF perArch THEN PkgArch[p] ELSE 0>> IN
    IF key(a) = key(b)
    THEN PkgEvr[a] > PkgEvr[b] \/ (PkgEvr[a] = PkgEvr[b] /\ IdOf(a) < IdOf(b))
    ELSE \E i \in 1 .. 2 : /\ key(a)[i] < key(b)[i]
                           /\ \A j \in 1 .. i - 1 : key(a)[j] = key(b)[j]

SameBlock(perArch, a, b) == PkgName[a] = PkgName[b] /\ (perArch => PkgArch[a] = PkgArch[b])

\* samename, the packages S after solv_sort.
Samename(S, perArch) ==
    [k \in 1 .. Cardinality(S) |->
        CHOOSE p \in S : Cardinality({o \in S : Before(perArch, o, p)}) = k - 1]

\* add_latest_to_map over the blocks of the sorted list: the counter goes up
\* at each other spelling of a version in a block; latest > 0 keeps the first versions,
\* latest < 0 all but the first.
LatestOf(sorted, perArch, latest) ==
    LET counter[i \in DOMAIN sorted] ==
            IF i = 1 THEN 0
            ELSE IF ~ SameBlock(perArch, sorted[i - 1], sorted[i]) THEN 0
            ELSE counter[i - 1] + (IF PkgEvrId[sorted[i]] = PkgEvrId[sorted[i - 1]] THEN 0 ELSE 1)
    IN {sorted[i] : i \in {k \in DOMAIN sorted :
           IF latest > 0 THEN counter[k] < latest ELSE counter[k] >= 0 - latest}}

\* Query::Impl::filterLatest.
FilterLatest(S, perArch, latest) ==
    IF latest = 0 THEN {} ELSE LatestOf(Samename(S, perArch), perArch, latest)

\* what_upgrades and what_downgrades: the installed package that p replaces,
\* as a set; none when one of them is already as new (as old).
WhatUpgrades(p) ==
    LET same == {u \in Installed : /\ PkgName[u] = PkgName[p]
                                   /\ PkgArch[u] = PkgArch[p] \/ Noarch \in {PkgArch[u], PkgArch[p]}}
    IN IF \E u \in same : PkgEvr[u] >= PkgEvr[p] THEN {}
       ELSE {u \in same : \A v \in same : PkgEvr[v] <= PkgEvr[u]}

WhatDowngrades(p) ==
    LET same == {u \in Installed : PkgName[u] = PkgName[p] /\ PkgArch[u] = PkgArch[p]}
    IN IF \E u \in same : PkgEvr[u] <= PkgEvr[p] THEN {}
       ELSE {u \in same : \A v \in same : PkgEvr[v] >= PkgEvr[u]}

\* Query::Impl::filterUpdown, for what_upgrades or what_downgrades.
WhatUpdown(dir, p) == IF dir = "up" THEN WhatUpgrades(p) ELSE WhatDowngrades(p)

FilterUpdown(S, arg, dir) == {p \in S \ Installed : arg # 0 /\ WhatUpdown(dir, p) # {}}

\* Query::Impl::filterUpdownByPriority: per name, only the candidates of the
\* best priority (the smallest number) count.
BestPriority(S) ==
    {p \in S : \A o \in S : PkgName[o] = PkgName[p] =>
                  RepoPriority[RepoOf(p)] <= RepoPriority[RepoOf(o)]}

\* Query::Impl::filterObsoletesByPriority: per name the candidates of the best
\* priority, and every installed one; they obsolete a package of the set by
\* its name.
FilterObsoletesByPriority(S, target) ==
    {p \in BestPriority(S) \cup (S \cap Installed) :
        \E o \in target \cap InPool : PkgName[o] \in PkgObsoletes[p]}

\* Query::Impl::filterUpdownAble looks at every package of the pool that own,
\* the query's considered map, has, not only at its result.
UpdownAble(own, S, arg, dir) ==
    IF arg = 0 THEN {} ELSE S \cap UNION {WhatUpdown(dir, p) : p \in Seen(own) \ Installed}

\* The packages one filter names, for a query with result S (the switch of
\* Query::Impl::apply).
Matched(own, S, f) ==
    CASE f.key = "EMPTY" -> {}
      [] f.key = "PKG" -> f.arg
      [] f.key = "NAME" -> {p \in S : PkgName[p] \in f.arg}
      [] f.key = "REPONAME" -> {p \in S : RepoOf(p) \in f.arg}
      [] f.key = "LATEST" -> FilterLatest(S, FALSE, f.arg)
      [] f.key = "LATEST_PER_ARCH" -> FilterLatest(S, TRUE, f.arg)
      [] f.key = "UPGRADES" -> FilterUpdown(S, f.arg, "up")
      [] f.key = "DOWNGRADES" -> FilterUpdown(S, f.arg, "down")
      [] f.key = "OBSOLETES" -> {p \in S : PkgObsoletes[p] \cap f.arg # {}}
      [] f.key = "OBSOLETES_BY_PRIORITY" -> FilterObsoletesByPriority(S, f.arg)
      [] f.key = "UPGRADES_BY_PRIORITY" ->
            FilterUpdown(BestPriority(S \ Installed), f.arg, "up")
      [] f.key = "UPGRADABLE" -> UpdownAble(own, S, f.arg, "up")
      [] f.key = "DOWNGRADABLE" -> UpdownAble(own, S, f.arg, "down")

\* The map m of apply reaches package p at filter k: filterPkg replaces m by a
\* copy of the argument's map, and the filters that follow get m as it is.
InMap(fs, k, p) ==
    \A i \in 1 .. k :
        fs[i].key = "PKG" /\ (\A j \in i + 1 .. k : fs[j].key # "PKG") => p \in fs[i].made

\* map_subtract and map_and with m, which leave alone what m does not reach.
Narrowed(own, S, fs, k) ==
    LET M == Matched(own, S, fs[k]) IN
    IF "NOT" \in fs[k].cmp THEN S \ M ELSE {p \in S : InMap(fs, k, p) => p \in M}

\* Query::Impl::apply: the results along the loop over the filters, and the last.
Walk(own, S, fs) ==
    LET r[k \in 0 .. Len(fs)] == IF k = 0 THEN S ELSE Narrowed(own, r[k - 1], fs, k)
    IN r

Filtered(own, S, fs) == Walk(own, S, fs)[Len(fs)]

\* Each filter finds the bits it sets, and those it reads, in the maps there are.
InBounds(own, S, fs) ==
    \A k \in 1 .. Len(fs) :
        /\ \A p \in Matched(own, Walk(own, S, fs)[k - 1], fs[k]) : InMap(fs, k, p)
        /\ fs[k].key = "OBSOLETES_BY_PRIORITY" => InPool \subseteq fs[k].made
        /\ fs[k].key \in {"UPGRADABLE", "DOWNGRADABLE"} => ~ own.there \/ own.size = Len(sackPool)

\* Query::Impl::initResult of a query without a result: the considered map the
\* query looks at then, and the query with its first result.
OwnMap(q) ==
    IF q.ignored = {} THEN (IF q.there THEN consideredMap ELSE RecomputeConsidered)
    ELSE IF q.there THEN q.cached ELSE Recomputed(q.cached, q.ignored)

StartWith(q, own) ==
    [q EXCEPT !.there = TRUE, !.size = Len(sackPool), !.result = Seen(own), !.start = Seen(own),
              !.cached = IF q.ignored = {} THEN @ ELSE own]

InitResult(q) == IF q.there THEN q ELSE StartWith(q, OwnMap(q))

ApplyFiltersSlip(s, own) ==
    [s EXCEPT !.result = Filtered(own, s.result, s.filters), !.applied = TRUE]

\* What the loop leaves.
ApplyFilters(s, own) ==
    [s EXCEPT !.result = Filtered(own, s.result, s.filters), !.applied = TRUE, !.filters = << >>]

Applied(q) == IF q.applied THEN q ELSE ApplyFilters(InitResult(q), OwnMap(q))

\* apply asserts that the result has the size of the pool.
SizeFits(q) == query[q].there => query[q].size = Len(sackPool)

CanApply(q) ==
    \/ query[q].applied
    \/ SizeFits(q) /\ InBounds(OwnMap(query[q]), InitResult(query[q]).result, query[q].filters)

\* The considered map after the queries Q have been applied: initResult
\* brings it up to date for a query that heeds excludes.
Reconsiders(Q) == \E q \in Q : /\ ~ query[q].applied /\ ~ query[q].there
                               /\ query[q].ignored = {}
Reconsider(Q) ==
    /\ consideredMap' = IF Reconsiders(Q) THEN RecomputeConsidered ELSE consideredMap
    /\ uptodate' = (uptodate \/ Reconsiders(Q))
    /\ UNCHANGED <<sackPool, sackMaps, useIncludes, sackEdits, torn>>

-----------------------------------------------------------------------------
CreateQuery(q, ignored) ==
    /\ query' = [query EXCEPT ![q] = NewQuery(ignored)]
    /\ UNCHANGED sackVars

\* The copy constructor leaves considered_cached behind.
CopyQuery(q, r) ==
    /\ q # r
    /\ query' = [query EXCEPT ![q] = [query[r] EXCEPT !.cached = NoMap]]
    /\ UNCHANGED sackVars

\* match_type_num, match_type_pkg, match_type_reldep, match_type_str: the keys
\* that take each type of argument.
MatchType(type) ==
    CASE type = "num" -> {"EMPTY", "LATEST", "LATEST_PER_ARCH", "UPGRADABLE", "UPGRADES",
                          "UPGRADES_BY_PRIORITY", "DOWNGRADABLE", "DOWNGRADES"}
      [] type = "pkg" -> {"PKG", "OBSOLETES", "OBSOLETES_BY_PRIORITY"}
      [] type = "reldep" -> {"OBSOLETES"}
      [] type = "str" -> {"NAME", "REPONAME", "OBSOLETES"}

\* valid_filter_num, valid_filter_pkg, valid_filter_reldep, valid_filter_str.
ValidFilter(f) ==
    /\ f.key \in MatchType(f.type)
    /\ f.type = "num" => f.cmp \cap {"ICASE", "SUBSTR", "GLOB"} = {}
    /\ f.type = "pkg" => f.cmp \ {"NOT"} = {"EQ"}
    /\ f.type = "str" /\ f.key = "NAME" => f.cmp \cap {"EQ", "GLOB", "SUBSTR"} # {}

\* What Query::addFilter stores: GLOB without a pattern is EQ; a relation that
\* cannot be parsed, or a list of none, empties the query, and relations lose
\* their NOT.
StoredFilter(key, type, cmp, arg, made) ==
    [key |-> key, type |-> type, cmp |-> cmp, arg |-> arg, made |-> made]

Stored(f, made) ==
    CASE f.type = "str" /\ f.key # "OBSOLETES" ->
            StoredFilter(f.key, f.type, IF "GLOB" \in f.cmp THEN (f.cmp \ {"GLOB"}) \cup {"EQ"} ELSE f.cmp,
                 f.arg, {})
      [] f.type \in {"str", "reldep"} /\ f.key = "OBSOLETES" ->
            IF f.arg = {} THEN StoredFilter("EMPTY", "num", {"EQ"}, 1, {})
            ELSE StoredFilter(f.key, "reldep", {"EQ"}, f.arg, {})
      [] OTHER -> StoredFilter(f.key, f.type, f.cmp, f.arg, made)

\* What the pool has held when a caller could make a package set: repositories
\* are loaded as a whole.
PastPools ==
    {P \in {ToSet(SubSeq(sackPool, 1, n)) : n \in 0 .. Len(sackPool)} :
        \A r \in LoadedRepos \ {CmdlineRepo} : OfRepo(r) \subseteq P \/ OfRepo(r) \cap P = {}}

\* Query::addFilter; a filter that is not valid is refused with BAD_QUERY, a
\* NEVRA_STRICT one is applied at once.  A package set may be older than the
\* packages loaded last.
AddFilter(q, f, made) ==
    /\ FoldFunction(+, 0, [r \in Queries |-> Len(query[r].all)]) < MaxFilters
    /\ ValidFilter(f)
    /\ IF f.type = "pkg" THEN made \in PastPools /\ f.arg \subseteq made ELSE made = {}
    /\ query' = [query EXCEPT ![q].filters = Append(@, Stored(f, made)),
                              ![q].all = Append(@, Stored(f, made)),
                              ![q].applied = FALSE]
    /\ UNCHANGED sackVars

\* Query::run, runSet, size, empty, getResultPset, apply.
Run(q) ==
    /\ ~ query[q].applied /\ CanApply(q)
    /\ query' = [query EXCEPT ![q] = Applied(@)]
    /\ Reconsider({q})

\* Query::clear.
ClearQuery(q) ==
    /\ query' = [query EXCEPT ![q] = [NewQuery(@.ignored) EXCEPT !.cached = query[q].cached]]
    /\ UNCHANGED sackVars

\* Query::queryUnion, queryIntersection, queryDifference: map_or makes the
\* first map as large as the other, map_and keeps what the other does not reach.
Combine(q, r, op) ==
    /\ q # r /\ CanApply(q) /\ CanApply(r)
    /\ \E a \in {Applied(query[q])}, b \in {Applied(query[r])} :
         LET S == CASE op = "union" -> a.result \cup b.result
                    [] op = "intersection" -> a.result \cap (b.result \cup Beyond(b.size))
                    [] op = "difference" -> a.result \ b.result
             size == IF op = "union" /\ a.size < b.size THEN b.size ELSE a.size
         IN query' = [query EXCEPT ![q] = [a EXCEPT !.result = S, !.start = S, !.size = size,
                                                    !.all = << >>],
                                   ![r] = b]
    /\ Reconsider({q, r})

\* The filters that replace the result at once: filterDuplicated,
\* filterExtras, filterRecent.
Duplicated(S) ==
    {p \in S : \E o \in S \ {p} : /\ PkgName[o] = PkgName[p]
                                  /\ ~ (PkgEvrId[o] = PkgEvrId[p] /\ PkgArch[o] # PkgArch[p])}

Extras(S) ==
    LET available == ConsideredNow(RegularKinds) \ Installed
    IN {p \in S \cap Installed :
           ~ \E o \in available : PkgName[o] = PkgName[p] /\ PkgArch[o] = PkgArch[p]}

ResultOf(q) == Applied(query[q]).result

Replace(q, S) ==
    /\ CanApply(q)
    /\ query' = [query EXCEPT ![q] = [Applied(@) EXCEPT !.result = S, !.start = S, !.all = << >>]]
    /\ Reconsider({q})

\* The first two add a filter of their own and apply once more.
FilterDuplicated(q) == SizeFits(q) /\ Replace(q, Duplicated(ResultOf(q) \cap Installed))
FilterExtras(q) == SizeFits(q) /\ Replace(q, Extras(ResultOf(q)))
FilterRecent(q, limit) == Replace(q, {p \in ResultOf(q) : PkgBuilt[p] > limit})

QueryNext ==
    \E q \in Queries :
        \/ \E ignored \in ExcludeFlags : CreateQuery(q, ignored)
        \/ \E r \in Queries : CopyQuery(q, r)
        \/ \E f \in Filters, made \in PastPools \cup {{}} : AddFilter(q, f, made)
        \/ Run(q)
        \/ ClearQuery(q)
        \/ \E r \in Queries, op \in {"union", "intersection", "difference"} : Combine(q, r, op)
        \/ FilterDuplicated(q)
        \/ FilterExtras(q)
        \/ \E limit \in {PkgBuilt[p] : p \in InPool} : FilterRecent(q, limit)

\* A sack that is filled and edited while its queries are used.
SackQueryNext == (SackNext /\ UNCHANGED query) \/ QueryNext

SackQuerySpec == SackInit /\ QueryInit /\ [][SackQueryNext]_<<sackVars, query>>

-----------------------------------------------------------------------------
\* Filters that look beyond the result, at a map that may change meanwhile.
LooksAround == {"UPGRADABLE", "DOWNGRADABLE", "UPGRADES", "DOWNGRADES", "UPGRADES_BY_PRIORITY"}

\* After a package set that is older than packages of S only filters follow
\* that take packages away by name.
Settled(S, fs) ==
    \A i \in DOMAIN fs : fs[i].key = "PKG" /\ ~ S \subseteq fs[i].made =>
        \A j \in i + 1 .. Len(fs) : fs[j].key = "PKG" \/ "NOT" \in fs[j].cmp

\* It does not matter when a query is run: its result is that of all its
\* filters, each applied once and in the order they were added, to the
\* packages it started from, through any number of runs, copies and clears
\* (applied and filters in Query::addFilter and Query::Impl::apply).  A set
\* made before packages were loaded lets those pass, and with it the filters
\* applied in the same go, so nothing may follow it that would not.
StagingIsInvisible ==
    \A q \in Queries : LET s == query[q] IN
        s.applied /\ Settled(s.start, s.all) /\ (\A i \in DOMAIN s.all : s.all[i].key \notin LooksAround)
            => s.result = Filtered(NoMap, s.start, s.all)

\* The versions newer than p in its block of S, and the packages of S with
\* fewer than n of them.
NewerIn(S, perArch, p) ==
    {PkgEvr[o] : o \in {x \in S : SameBlock(perArch, x, p) /\ PkgEvr[x] > PkgEvr[p]}}

Newest(S, perArch, n) == {p \in S : Cardinality(NewerIn(S, perArch, p)) < n}

SpeltAlike(S, perArch) ==
    \A p, o \in S : SameBlock(perArch, p, o) /\ PkgEvr[p] = PkgEvr[o] => PkgEvrId[p] = PkgEvrId[o]

\* HY_PKG_LATEST and HY_PKG_LATEST_PER_ARCH against their meaning: the walk
\* over the sorted blocks keeps packages with fewer than n newer versions
\* beside them, all of these where versions that compare equal are spelled
\* alike, and a negative number leaves exactly the others (filterLatest,
\* add_latest_to_map).
LatestIsNewest ==
    \A q \in Queries, perArch \in BOOLEAN, n \in 1 .. 2 :
        LET S == query[q].result IN
        query[q].there => /\ FilterLatest(S, perArch, n) \subseteq Newest(S, perArch, n)
                          /\ SpeltAlike(S, perArch) => FilterLatest(S, perArch, n) = Newest(S, perArch, n)
                          /\ FilterLatest(S, perArch, 0 - n) = S \ FilterLatest(S, perArch, n)

\* What a query answers is what its filters say of the packages considered when
\* it runs, by the definition of each filter (query.cpp apply, filterLatest).
QueryIsExact == StagingIsInvisible /\ LatestIsNewest
=============================================================================
