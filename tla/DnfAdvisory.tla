----------------------------- MODULE DnfAdvisory ----------------------------
(***************************************************************************)
(* Advisories of dnf-4 (sack/advisory.cpp, sack/advisorypkg.cpp,           *)
(* dnf-advisory.cpp) and the three ways from packages to advisories and    *)
(* back: Query::Impl::filterAdvisory and Query::getAdvisoryPkgs            *)
(* (sack/query.cpp), which sort the packages of all advisories that apply  *)
(* and search the list, and dnf_package_get_advisories (hy-package.cpp),   *)
(* which goes over the advisories of one package.  An advisory that names  *)
(* modules applies only while one of them is enabled.                      *)
(*                                                                         *)
(* Abstractions: names, architectures and evrs are their libsolv ids; the  *)
(* order of versions is AdvVersion of the evr; every package of an         *)
(* advisory has an evr.                                                    *)
(***************************************************************************)
EXTENDS Integers, Sequences, SequencesExt, FiniteSets

CONSTANTS
    AdvSeq,         \* the advisories, in the order of the pool: name, kind,
                    \* severity, refs, pkgs (a sequence), modules
    AdvPackages,    \* the packages of the query: name, arch, evr
    AdvVersion,     \* AdvVersion[evr]: its place in the order of versions
    AdvFilters,     \* <<key, match>> that callers filter by
    AdvStreams,     \* module streams that can be enabled
    NoContainer     \* the sack has no module container

VARIABLES
    enabledStreams, \* the enabled streams
    advResult       \* the last filterAdvisory: its arguments and its result

advVars == <<enabledStreams, advResult>>

AdvEntry == [name : Nat, arch : Nat, evr : Nat]

ASSUME DnfAdvisoryAssumption ==
    /\ AdvSeq \in Seq(ToSet(AdvSeq))
    /\ \A i \in DOMAIN AdvSeq : AdvSeq[i].pkgs \in Seq(AdvEntry)
    /\ AdvPackages \subseteq AdvEntry
    /\ \A p \in AdvPackages \cup UNION {ToSet(a.pkgs) : a \in ToSet(AdvSeq)} : AdvVersion[p.evr] \in Int

\* Comparison types: unions of the flags HY_GT, HY_EQ and HY_LT.
CmpTypes == (SUBSET {"GT", "EQ", "LT"}) \ {{}}

NoAdvResult == [key |-> "none"]

-----------------------------------------------------------------------------
\* isAdvisoryApplicable.
Applicable(a) == NoContainer \/ a.modules = {} \/ a.modules \cap enabledStreams # {}

\* Advisory::matchBugOrCVE looks at the references of the type.
RefMatches(a, type, match) == <<type, match>> \in a.refs

\* Advisory::matchName, matchKind, matchSeverity, matchBug and matchCVE.
Matches(a, key, match) ==
    CASE key \in {"bugzilla", "cve"} -> RefMatches(a, key, match)
      [] OTHER -> a[key] = match

\* Advisory::getPackages of the advisories that apply.  The entries are named by
\* their places in the pool: the list is sorted before it is used.
Collected(advs) ==
    LET taken == {i \in DOMAIN AdvSeq : AdvSeq[i] \in advs /\ Applicable(AdvSeq[i])}
    IN  [e \in UNION {{i} \X DOMAIN AdvSeq[i].pkgs : i \in taken} |-> AdvSeq[e[1]].pkgs[e[2]]]

\* advisoryPkgCompareSolvable and advisoryPkgCompareSolvableNameArch.
Below(p, s) ==
    \/ p.name < s.name
    \/ p.name = s.name /\ p.arch < s.arch
    \/ p.name = s.name /\ p.arch = s.arch /\ p.evr < s.evr
NameArchBelow(p, s) == p.name < s.name \/ (p.name = s.name /\ p.arch < s.arch)
SameNameArch(p, s) == p.name = s.name /\ p.arch = s.arch

\* External: what std::sort leaves.  The i-th entry is one with fewer than i
\* entries below it and at least i that it is not below.
SortBy(pkgs, Less(_, _)) ==
    LET below(k) == {j \in DOMAIN pkgs : Less(pkgs[j], pkgs[k])}
        upTo(k) == {j \in DOMAIN pkgs : ~ Less(pkgs[k], pkgs[j])}
        place(i) == CHOOSE k \in DOMAIN pkgs : Cardinality(below(k)) < i /\ i <= Cardinality(upTo(k))
    IN  [i \in 1 .. Cardinality(DOMAIN pkgs) |-> pkgs[place(i)]]

SortedSlip(pkgs) == SortBy(pkgs, LAMBDA p, q : p.evr < q.evr)

\* advisoryPkgSort: name, architecture, evr.
Sorted(pkgs) == SortBy(pkgs, Below)

\* External: std::lower_bound, the first entry that is not less.
LowerBound(pkgs, s, Less(_, _)) ==
    CHOOSE low \in 1 .. Len(pkgs) + 1 :
        /\ \A j \in 1 .. low - 1 : Less(pkgs[j], s)
        /\ low <= Len(pkgs) => ~ Less(pkgs[low], s)

\* pool_evrcmp of a with b, as the flag that has to be set.
Order(a, b) ==
    IF AdvVersion[a] > AdvVersion[b] THEN "GT" ELSE IF AdvVersion[a] < AdvVersion[b] THEN "LT" ELSE "EQ"

\* The entries from low on that have the package's name and architecture.
AdvRun(pkgs, low, s) ==
    {k \in low .. Len(pkgs) : \A j \in low .. k : SameNameArch(pkgs[j], s)}

-----------------------------------------------------------------------------
\* Query::Impl::filterAdvisory: with EQ alone the ids are compared, else the
\* versions; the package against the advisory.
FilterAdvisory(key, match, cmp) ==
    LET pkgs == Sorted(Collected({a \in ToSet(AdvSeq) : Matches(a, key, match)}))
        ById(s) == LET low == LowerBound(pkgs, s, Below) IN low <= Len(pkgs) /\ pkgs[low] = s
        ByVersion(s) == \E k \in AdvRun(pkgs, LowerBound(pkgs, s, NameArchBelow), s) :
                            Order(s.evr, pkgs[k].evr) \in cmp
    IN  {s \in AdvPackages : IF cmp = {"EQ"} THEN ById(s) ELSE ByVersion(s)}

\* Query::getAdvisoryPkgs: the advisory against the package.
GetAdvisoryPkgs(cmp) ==
    LET pkgs == Sorted(Collected(ToSet(AdvSeq))) IN
    UNION {{pkgs[k] : k \in {j \in AdvRun(pkgs, LowerBound(pkgs, s, NameArchBelow), s) :
                                Order(pkgs[j].evr, s.evr) \in cmp}} : s \in AdvPackages}

\* dnf_package_get_advisories: the advisory against the package; the rest of an
\* advisory is skipped once it was taken.
GetAdvisories(s, cmp) ==
    {a \in ToSet(AdvSeq) :
        /\ \E k \in DOMAIN a.pkgs : SameNameArch(a.pkgs[k], s) /\ Order(a.pkgs[k].evr, s.evr) \in cmp
        /\ Applicable(a)}

-----------------------------------------------------------------------------
AdvInit == enabledStreams = {} /\ advResult = NoAdvResult

\* A caller filters a query by advisory.
AskFilter(f, cmp) ==
    /\ advResult' = [key |-> f[1], match |-> f[2], cmp |-> cmp, hits |-> FilterAdvisory(f[1], f[2], cmp)]
    /\ UNCHANGED enabledStreams

\* A module stream is enabled, or no longer.
SwitchStream(s) ==
    /\ enabledStreams' = IF s \in enabledStreams THEN enabledStreams \ {s} ELSE enabledStreams \cup {s}
    /\ advResult' = NoAdvResult

AdvNext ==
    \/ \E f \in AdvFilters, cmp \in CmpTypes : AskFilter(f, cmp)
    \/ \E s \in AdvStreams : SwitchStream(s)

AdvSpec == AdvInit /\ [][AdvNext]_advVars

-----------------------------------------------------------------------------
Flipped(cmp) == {IF c = "GT" THEN "LT" ELSE IF c = "LT" THEN "GT" ELSE "EQ" : c \in cmp}

\* Sorting and searching finds what going over the advisories finds: a package
\* passes filterAdvisory exactly when dnf_package_get_advisories, with the
\* comparison turned round, gives one of its advisories that matches, and
\* getAdvisoryPkgs gives a package of an advisory exactly when some package of
\* the query has that advisory.
AdvisoriesAgree ==
    advResult.key # "none" =>
        LET cmp == Flipped(advResult.cmp) IN
        /\ advResult.hits = {s \in AdvPackages :
               \E a \in GetAdvisories(s, cmp) : Matches(a, advResult.key, advResult.match)}
        /\ GetAdvisoryPkgs(cmp) =
               {p \in UNION {ToSet(a.pkgs) : a \in ToSet(AdvSeq)} :
                   \E s \in AdvPackages : \E a \in GetAdvisories(s, cmp) :
                       /\ p \in ToSet(a.pkgs)
                       /\ SameNameArch(p, s) /\ Order(p.evr, s.evr) \in cmp}
=============================================================================
