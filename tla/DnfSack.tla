------------------------------ MODULE DnfSack ------------------------------
(***************************************************************************)
(* Which packages a dnf-4 sack considers (dnf-4/libdnf/dnf-sack.cpp).      *)
(*                                                                         *)
(* Repositories and command-line packages are loaded into one pool.        *)
(* Packages are hidden by four bit maps (disabled repositories, excludes,  *)
(* includes, inactive modules) and by a flag of each repository that says  *)
(* whether includes apply to it.  From these the map pool->considered is   *)
(* recomputed, but only when a query asks and considered_uptodate is       *)
(* FALSE; the solver and the queries use whatever the map holds.           *)
(*                                                                         *)
(* A map is a set of packages with the number of solvables it was made     *)
(* for, or absent (NULL); libsolv's map_and leaves what lies beyond the    *)
(* end of the smaller map alone.  The map ends at a package here, there at *)
(* a byte.  Reading and writing the .solv files is the      *)
(* subject of SolvCache; here a load succeeds, fails before anything was   *)
(* added, or fails after the packages were added (an extension or the      *)
(* writing of the cache failed).                                           *)
(***************************************************************************)
EXTENDS Integers, Sequences, SequencesExt, FiniteSets

CONSTANTS
    SackRepos,      \* the repositories that may be loaded
    PackagesOf,     \* PackagesOf[r]: its packages, in order
    SystemRepo,     \* HY_SYSTEM_REPO_NAME
    CmdlineRepo,    \* HY_CMDLINE_REPO_NAME; its packages are added one by one
    PkgName,        \* the name of each package
    RepoIncludes, RepoExcludes,   \* includepkgs and excludepkgs, by repository
    MainIncludes, MainExcludes,   \* the same of the main configuration
    DisableExcludes, \* disable_excludes: repositories, "main", "all"
    PkgSets,        \* package sets that callers pass
    MaxMapEdits     \* bound: changes of the maps

ASSUME DnfSackAssumption ==
    /\ SystemRepo \in SackRepos /\ CmdlineRepo \in SackRepos
    /\ MaxMapEdits \in Nat

MapKinds == {"repo_excludes", "pkg_excludes", "pkg_includes", "module_excludes"}
NoMap == [there |-> FALSE, set |-> {}, size |-> 0]

VARIABLES
    sackPool,       \* the solvables, in the order of their ids
    sackMaps,       \* the four maps
    useIncludes,    \* the repositories with use_includes set
    consideredMap,  \* pool->considered
    uptodate,       \* considered_uptodate
    sackEdits,      \* how often a map was changed
    torn            \* a load failed after it had added packages

sackVars == <<sackPool, sackMaps, useIncludes, consideredMap, uptodate, sackEdits, torn>>

InPool == ToSet(sackPool)
RepoOf(p) == CHOOSE r \in SackRepos : p \in ToSet(PackagesOf[r])
LoadedRepos == {RepoOf(p) : p \in InPool}
OfRepo(r) == {p \in InPool : RepoOf(p) = r}

\* The packages beyond the end of a map of that size, and those that map_and
\* with m leaves in a map of the whole pool.
Beyond(size) == InPool \ ToSet(SubSeq(sackPool, 1, size))
Seen(m) == IF m.there THEN m.set \cup Beyond(m.size) ELSE InPool

SackTypeOK ==
    /\ InPool \subseteq DOMAIN PkgName /\ Cardinality(InPool) = Len(sackPool)
    /\ \A k \in MapKinds : /\ sackMaps[k].set \subseteq InPool
                           /\ sackMaps[k].size <= Len(sackPool)
    /\ consideredMap.set \subseteq InPool /\ consideredMap.size <= Len(sackPool)
    /\ useIncludes \subseteq SackRepos
    /\ uptodate \in BOOLEAN /\ torn \in BOOLEAN

SackInit ==
    /\ sackPool = << >>
    /\ sackMaps = [k \in MapKinds |-> NoMap]
    /\ useIncludes = {}
    /\ consideredMap = NoMap
    /\ uptodate = FALSE /\ torn = FALSE
    /\ sackEdits = 0

-----------------------------------------------------------------------------
\* What the maps hide, leaving aside the kinds in ignored.
Hidden(ignored) ==
    UNION {sackMaps[k].set : k \in {"repo_excludes", "pkg_excludes", "module_excludes"} \ ignored}

\* What the includes let through: what they name, and every package of a
\* repository they do not apply to.
Included(ignored) ==
    IF sackMaps["pkg_includes"].there /\ "pkg_includes" \notin ignored
    THEN sackMaps["pkg_includes"].set \cup UNION {OfRepo(r) : r \in LoadedRepos \ useIncludes}
    ELSE InPool

ConsideredNow(ignored) == (InPool \ Hidden(ignored)) \cap Included(ignored)

RegularKinds == {"repo_excludes", "pkg_excludes", "pkg_includes"}

\* dnf_sack_recompute_considered_map: no map is made while nothing is hidden,
\* but one that exists is always filled.
Recomputed(old, ignored) ==
    IF ~ old.there /\ \A k \in MapKinds \ ignored : ~ sackMaps[k].there
    THEN old
    ELSE [there |-> TRUE, size |-> Len(sackPool), set |-> ConsideredNow(ignored)]

\* dnf_sack_recompute_considered, as the first step of a query.
RecomputeConsidered == IF uptodate THEN consideredMap ELSE Recomputed(consideredMap, {})

-----------------------------------------------------------------------------
\* dnf_sack_load_repo and dnf_sack_load_system_repo.
LoadRepo(r) ==
    /\ r \in SackRepos \ {CmdlineRepo} /\ r \notin LoadedRepos
    /\ sackPool' = sackPool \o PackagesOf[r]
    /\ \/ uptodate' = FALSE /\ UNCHANGED torn
       \/ torn' = TRUE /\ UNCHANGED uptodate
    /\ UNCHANGED <<sackMaps, useIncludes, consideredMap, sackEdits>>

\* dnf_sack_add_cmdline_package_flags.
AddCmdlinePackage(p) ==
    /\ p \in ToSet(PackagesOf[CmdlineRepo]) \ InPool
    /\ sackPool' = Append(sackPool, p)
    /\ uptodate' = FALSE
    /\ UNCHANGED <<sackMaps, useIncludes, consideredMap, sackEdits, torn>>

-----------------------------------------------------------------------------
EditMap(k, m) ==
    /\ sackEdits < MaxMapEdits
    /\ sackMaps' = [sackMaps EXCEPT ![k] = m]
    /\ sackEdits' = sackEdits + 1
    /\ uptodate' = FALSE
    /\ UNCHANGED <<sackPool, useIncludes, consideredMap, torn>>

\* dnf_sack_add_excludes_or_includes.
AddToMap(k, S) ==
    /\ S \subseteq InPool
    /\ EditMap(k, [there |-> TRUE, set |-> sackMaps[k].set \cup S, size |-> Len(sackPool)])

\* dnf_sack_remove_excludes_or_includes.
RemoveFromMap(k, S) ==
    /\ S \subseteq InPool /\ sackMaps[k].there
    /\ EditMap(k, [sackMaps[k] EXCEPT !.set = @ \ S])

SetMapSlip(k, m) ==
    /\ sackMaps[k].there \/ m.there
    /\ sackEdits < MaxMapEdits
    /\ sackMaps' = [sackMaps EXCEPT ![k] = m]
    /\ sackEdits' = sackEdits + 1
    /\ uptodate' = (uptodate /\ ~ m.there)
    /\ UNCHANGED <<sackPool, useIncludes, consideredMap, torn>>

\* dnf_sack_set_excludes_or_includes; NoMap resets.
SetMap(k, m) ==
    /\ sackMaps[k].there \/ m.there
    /\ EditMap(k, m)

\* dnf_sack_set_use_includes for the repositories R.
SetUseIncludes(R, b) ==
    /\ sackEdits < MaxMapEdits
    /\ useIncludes' = IF b THEN useIncludes \cup R ELSE useIncludes \ R
    /\ uptodate' = (uptodate /\ useIncludes' = useIncludes)
    /\ sackEdits' = sackEdits + 1
    /\ UNCHANGED <<sackPool, sackMaps, consideredMap, torn>>

\* dnf_sack_repo_enabled.  The map of disabled repositories is made once and
\* never grown: packages loaded later are beyond its end, where setting a bit
\* is undefined.  The model stays within the map.
RepoEnabled(r, b) ==
    LET m == sackMaps["repo_excludes"]
        size == IF m.there THEN m.size ELSE Len(sackPool)
    IN /\ r \in LoadedRepos
       /\ OfRepo(r) \subseteq ToSet(SubSeq(sackPool, 1, size))
       /\ EditMap("repo_excludes",
                  [there |-> TRUE, size |-> size,
                   set |-> IF b THEN m.set \ OfRepo(r) ELSE m.set \cup OfRepo(r)])

\* process_excludes for the repositories just added.  Its queries see only
\* what is considered, so they recompute the map first.  An include counts
\* only when it matches something.
ProcessExcludes(R) ==
    LET now == RecomputeConsidered
        seen == Seen(now)
        Match(names, S) == {p \in S \cap seen : PkgName[p] \in names}
        conf == R \ DisableExcludes
        main == "main" \notin DisableExcludes
        repoIncl == [r \in conf |-> Match(RepoIncludes[r], OfRepo(r))]
        mainIncl == IF main THEN Match(MainIncludes, InPool) ELSE {}
        incl == mainIncl \cup UNION {repoIncl[r] : r \in conf}
        excl == (UNION {Match(RepoExcludes[r], OfRepo(r)) : r \in conf})
                    \cup (IF main THEN Match(MainExcludes, InPool) ELSE {})
        Grown(k, S) == [there |-> TRUE, set |-> sackMaps[k].set \cup S, size |-> Len(sackPool)]
    IN /\ sackEdits < MaxMapEdits /\ "all" \notin DisableExcludes /\ R \subseteq LoadedRepos
       /\ consideredMap' = now
       /\ useIncludes' = useIncludes \cup {r \in conf : repoIncl[r] # {}}
                            \cup (IF mainIncl # {} THEN LoadedRepos ELSE {})
       /\ sackMaps' = [sackMaps EXCEPT
             !["pkg_includes"] = IF incl = {} THEN @ ELSE Grown("pkg_includes", incl),
             !["pkg_excludes"] = Grown("pkg_excludes", excl)]
       /\ uptodate' = FALSE
       /\ sackEdits' = sackEdits + 1
       /\ UNCHANGED <<sackPool, torn>>

SackNext ==
    \/ \E r \in SackRepos : LoadRepo(r)
    \/ \E p \in DOMAIN PkgName : AddCmdlinePackage(p)
    \/ \E k \in {"pkg_excludes", "pkg_includes", "module_excludes"}, S \in PkgSets :
          \/ AddToMap(k, S)
          \/ RemoveFromMap(k, S)
          \/ S \subseteq InPool /\ SetMap(k, [there |-> TRUE, set |-> S, size |-> Len(sackPool)])
    \/ \E k \in {"pkg_excludes", "pkg_includes", "module_excludes"} : SetMap(k, NoMap)
    \/ \E r \in SackRepos, b \in BOOLEAN :
          \/ r \in LoadedRepos /\ SetUseIncludes({r}, b)
          \/ RepoEnabled(r, b)
    \/ \E b \in BOOLEAN : LoadedRepos # {} /\ SetUseIncludes(LoadedRepos, b)
    \/ \E R \in SUBSET (LoadedRepos \ {SystemRepo, CmdlineRepo}) : ProcessExcludes(R)

-----------------------------------------------------------------------------
\* Whatever was loaded, excluded, included, enabled or reset since the map was
\* last computed, a map that calls itself up to date is the one the current
\* settings define; only a load that failed half-way may leave it behind
\* (considered_uptodate in dnf-sack.cpp against every writer of its inputs).
ConsideredFresh ==
    uptodate /\ ~ torn =>
        /\ consideredMap.there => consideredMap.size = Len(sackPool)
        /\ (IF consideredMap.there THEN consideredMap.set ELSE InPool) = ConsideredNow({})
=============================================================================
