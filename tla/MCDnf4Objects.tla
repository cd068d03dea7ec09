--------------------------- MODULE MCDnf4Objects ---------------------------
(***************************************************************************)
(* Instances, for TLC, of the objects a dnf-4 process works with: states   *)
(* with their locks, the sack and its queries, goals, the binary caches,   *)
(* what surrounds an rpm transaction, and advisories.  These models do not *)
(* call each other, so one run explores them side by side: the first state *)
(* picks the one at work; the variables of the others keep their initial   *)
(* values.                                                                 *)
(***************************************************************************)
EXTENDS DnfState, DnfQuery, DnfGoal, DnfSackCache, DnfRpmRun, DnfAdvisory

VARIABLE focus

Parts == {"state", "sack", "query", "goal", "cache", "rpm", "advisory"}

\* A sack with two repositories loaded and one package excluded.
LoadedSack ==
    /\ sackPool = PackagesOf["system"] \o PackagesOf["a"]
    /\ sackMaps = [[k \in MapKinds |-> NoMap] EXCEPT
                      !["pkg_excludes"] = [there |-> TRUE, set |-> {"a1"}, size |-> 3]]
    /\ useIncludes = {}
    /\ consideredMap = NoMap
    /\ uptodate = FALSE
    /\ sackEdits = MaxMapEdits
    /\ torn = FALSE

Init ==
    /\ focus \in Parts
    /\ LockInit /\ StateInit /\ QueryInit /\ GoalInit /\ ScInit /\ RrInit /\ AdvInit
    /\ IF focus = "query" THEN LoadedSack ELSE SackInit
    /\ focus # "rpm" =>
          /\ goalNow = CHOOSE g \in RrGoals : TRUE
          /\ disk = [p \in DOMAIN RrPkg |-> Described(p)]

\* While the sack is edited one query is made, run, made anew and run again;
\* one that ignores the excludes is made before the first edit.  After a load
\* that failed half-way only queries follow.
SackAndQuery ==
    \/ ~ torn /\ SackNext /\ UNCHANGED query
    \/ \E q \in Queries :
          /\ \A r \in Queries \ {q} : query[r] = NewQuery({})
          /\ \/ CreateQuery(q, {}) \/ Run(q)
             \/ sackEdits = 0 /\ CreateQuery(q, RegularKinds)

Next ==
    \/ focus = "state" /\ StateNext /\ UNCHANGED <<focus, sackVars, query, goalVars, scVars, rrVars, advVars>>
    \/ focus = "sack" /\ SackAndQuery /\ UNCHANGED <<focus, lockVars, stateVars, goalVars, scVars, rrVars, advVars>>
    \/ focus = "query" /\ QueryNext /\ UNCHANGED <<focus, lockVars, stateVars, goalVars, scVars, rrVars, advVars>>
    \/ focus = "goal" /\ GoalNext /\ UNCHANGED <<focus, lockVars, stateVars, sackVars, query, scVars, rrVars, advVars>>
    \/ focus = "cache" /\ ScNext /\ UNCHANGED <<focus, lockVars, stateVars, sackVars, query, goalVars, rrVars, advVars>>
    \/ focus = "rpm" /\ RrNext /\ UNCHANGED <<focus, lockVars, stateVars, sackVars, query, goalVars, scVars, advVars>>
    \/ focus = "advisory" /\ AdvNext /\ UNCHANGED <<focus, lockVars, stateVars, sackVars, query, goalVars, scVars, rrVars>>

Spec ==
    Init /\ [][Next]_<<focus, lockVars, stateVars, sackVars, query, goalVars, scVars,
                       rrVars, advVars>>

\* The two queries of a sack are interchangeable.
ObjectsSymmetry == Permutations(Queries)

-----------------------------------------------------------------------------
Shares == {<<40, 60>>}

-----------------------------------------------------------------------------
\* One name, installed in version 2; repository "a" has version 3, and version 2
\* for another architecture; an older one is given on the command line.
SackPackages == [system |-> <<"s1">>, a |-> <<"a1", "a2">>, cmdline |-> <<"c1">>]

OneName == [s1 |-> 1, a1 |-> 1, a2 |-> 1, c1 |-> 1]

SackArch == [s1 |-> 1, a1 |-> 1, a2 |-> 2, c1 |-> 1]

SackEvr == [s1 |-> 2, a1 |-> 3, a2 |-> 2, c1 |-> 1]

\* Version 2 is spelled in two ways.
SackEvrId == [s1 |-> 2, a1 |-> 3, a2 |-> 4, c1 |-> 1]

SackBuilt == [s1 |-> 1, a1 |-> 2, a2 |-> 1, c1 |-> 1]

Priorities == [system |-> 0, a |-> 1, cmdline |-> 2]

NoExcludes == [system |-> {}, a |-> {}, cmdline |-> {}]

IncludedInA == [system |-> {}, a |-> {1}, cmdline |-> {}]

SackObsoletes == [s1 |-> {}, a1 |-> {}, a2 |-> {1}, c1 |-> {1}]

QueryFilter(key, type, cmp, arg) == [key |-> key, type |-> type, cmp |-> cmp, arg |-> arg]

\* The last two are refused: a number does not take GLOB, nor a name GT.
QueryFilters ==
    {QueryFilter("LATEST", "num", {"EQ"}, 1), QueryFilter("LATEST_PER_ARCH", "num", {"NOT", "EQ"}, 0 - 1),
     QueryFilter("DOWNGRADES", "num", {"NOT", "EQ"}, 1),
     QueryFilter("UPGRADABLE", "num", {"EQ"}, 1), QueryFilter("UPGRADES_BY_PRIORITY", "num", {"EQ"}, 1),
     QueryFilter("REPONAME", "str", {"NOT", "GLOB"}, {"a"}), QueryFilter("PKG", "pkg", {"EQ"}, {"s1"}),
     QueryFilter("OBSOLETES_BY_PRIORITY", "pkg", {"NOT", "EQ"}, {"s1"}),
     QueryFilter("OBSOLETES", "str", {"NOT", "EQ"}, {1}), QueryFilter("OBSOLETES", "reldep", {"EQ"}, {}),
     QueryFilter("UPGRADES", "num", {"GLOB"}, 1), QueryFilter("NAME", "str", {"GT"}, {1})}

-----------------------------------------------------------------------------
\* Two kernels installed, a third to install; "a" requires "b", which is
\* protected and which "c" obsoletes.
GoalPkg(name, version, installed, onlies, requires, obsoletes) ==
    [name |-> name, version |-> version, evr |-> version, arch |-> "x",
     repo |-> IF installed THEN "@System" ELSE "r", installed |-> installed,
     requires |-> requires, obsoletes |-> obsoletes,
     provides |-> {name} \cup onlies, files |-> {name}]

KernelsAndProtected ==
    [k1 |-> GoalPkg("k", 1, TRUE, {"only"}, {}, {}), k2 |-> GoalPkg("k", 2, TRUE, {}, {}, {}),
     k3 |-> GoalPkg("k", 3, FALSE, {"only"}, {}, {}), a1 |-> GoalPkg("a", 1, TRUE, {}, {"b"}, {}),
     b1 |-> GoalPkg("b", 1, TRUE, {}, {}, {}), c1 |-> GoalPkg("c", 1, FALSE, {}, {}, {"b"})]

Given(cmp, values) == [cmp |-> cmp, values |-> values]

Selectors ==
    {<<<<"name", Given("glob", {"b"})>>>>,
     <<<<"name", Given("eq", {"k"})>>, <<"provides", Given("eq", {"b"})>>, <<"evr", Given("eq", {3})>>>>}

-----------------------------------------------------------------------------
OneRepo == <<"r1">>

OneExt == <<"filelists">>

-----------------------------------------------------------------------------
\* Packages of a repository that is checked, of one that is not, of a disc and
\* of the command line; two packages of one name are installed.
RpmPkg(name, repo, base, sum, key, modular, size) ==
    [name |-> name, repo |-> repo, base |-> base, sum |-> sum, key |-> key, modular |-> modular,
     size |-> size]

RpmPkgs ==
    "foo2" :> RpmPkg("foo", "signed", "none", "sha256", "k1", TRUE, 2)
      @@ "bar1" :> RpmPkg("bar", "plain", "none", "sha512", "unsigned", FALSE, 1)
      @@ "cmd1" :> RpmPkg("cmd", "cmdline", "none", "sha256", "k2", FALSE, 1)
      @@ "mod1" :> RpmPkg("mod", "disc", "remote", "sha256", "k1", TRUE, 1)
      @@ "old1" :> RpmPkg("old", "disc", "none", "sha256", "k2", FALSE, 1)
      @@ "foo1" :> RpmPkg("foo", "system", "none", "sha256", "k1", FALSE, 1)
      @@ "foo1i" :> RpmPkg("foo", "system", "none", "sha256", "k1", FALSE, 1)

RpmRepos ==
    "signed" :> [local |-> FALSE, gpgcheck |-> TRUE, hotfix |-> FALSE]
      @@ "plain" :> [local |-> FALSE, gpgcheck |-> FALSE, hotfix |-> FALSE]
      @@ "disc" :> [local |-> TRUE, gpgcheck |-> TRUE, hotfix |-> FALSE]

KeyFile(kind, key, subkeys, ok) == [kind |-> kind, key |-> key, subkeys |-> subkeys, subkeysOk |-> ok]

KeysOfSystem == <<KeyFile("regular", "bad", {}, TRUE), KeyFile("symlink", "k2", {}, TRUE),
                  KeyFile("regular", "k3", {"k2"}, FALSE)>>

KeysOfRepo == <<KeyFile("missing", "k9", {}, TRUE), KeyFile("regular", "k0", {"k1"}, TRUE)>>

RpmGoals ==
    {[install |-> <<"foo2", "old1">>, remove |-> {"foo1i"}, helper |-> {"foo1"}],
     [install |-> <<"cmd1", "mod1", "bar1">>, remove |-> {}, helper |-> {}]}

-----------------------------------------------------------------------------
\* Three advisories on packages of the same names, two of them for modules.
AdvisoryPkg(name, arch, evr) == [name |-> name, arch |-> arch, evr |-> evr]

Advisories ==
    <<[name |-> "A1", kind |-> "security", severity |-> "high", refs |-> {<<"cve", "c1">>}, modules |-> {},
       pkgs |-> <<AdvisoryPkg(2, 1, 2), AdvisoryPkg(1, 1, 1), AdvisoryPkg(1, 2, 3)>>],
      [name |-> "A2", kind |-> "bugfix", severity |-> "low", refs |-> {<<"bugzilla", "b1">>},
       modules |-> {"m1"}, pkgs |-> <<AdvisoryPkg(1, 1, 3), AdvisoryPkg(2, 1, 1)>>],
      [name |-> "A3", kind |-> "security", severity |-> "low",
       refs |-> {<<"bugzilla", "b1">>, <<"cve", "c1">>}, modules |-> {"m1", "m2"},
       pkgs |-> <<AdvisoryPkg(3, 1, 1), AdvisoryPkg(1, 1, 2)>>]>>

AdvisedPkgs == {AdvisoryPkg(n, a, e) : n \in 1 .. 2, a \in 1 .. 2, e \in 1 .. 3}

VersionOrder == <<2, 1, 3>>

AdvisoryFilters == {<<"name", "A1">>, <<"kind", "security">>, <<"severity", "low">>,
                    <<"bugzilla", "b1">>, <<"cve", "c1">>}
=============================================================================
