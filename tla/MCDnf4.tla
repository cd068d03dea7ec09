------------------------------- MODULE MCDnf4 -------------------------------
(***************************************************************************)
(* Instances, for TLC, of what outlives a dnf-4 process: transactions, a   *)
(* repository's files, the history database and the module files.  These   *)
(* models do not call each other, so one run explores them side by side:   *)
(* the first state picks the one at work and the variables of the others   *)
(* keep their initial values.                                              *)
(***************************************************************************)
EXTENDS DnfTransaction, DnfRepo, DnfHistory, DnfModules

VARIABLE focus

Parts == {"transaction", "repo", "rpms", "comps", "modules"}

\* Module "m" in streams A, for platform el8, and B; "n" requires stream A.
Module(name, stream, version, requires) ==
    [name |-> name, stream |-> stream, version |-> version, arch |-> "x86_64", repo |-> "r",
     requires |-> requires, artifacts |-> {<<name, stream, version>>}]

OnPlatform == {[mod |-> "platform", streams |-> {"el8"}]}

FirstCatalog ==
    {Module("m", "A", 1, OnPlatform), Module("m", "B", 1, {}),
     Module("n", "X", 1, {[mod |-> "m", streams |-> {"A"}]})}

Init ==
    /\ focus \in Parts
    /\ LockInit /\ TxInit /\ RepoInit /\ HistInit /\ ModInit
    /\ focus # "repo" => repoKind = "REMOTE" /\ location = NoTree
    /\ focus # "modules" =>
          /\ modFiles = CHOOSE f \in ModOldFiles : TRUE
          /\ published = FirstCatalog

\* The history of packages and that of groups grow one at a time: an unfinished
\* transaction of groups holds one item.
Next ==
    \/ focus = "transaction" /\ TxNext /\ UNCHANGED <<focus, repoVars, histVars, modVars>>
    \/ focus = "repo" /\ RepoNext /\ UNCHANGED <<focus, txVars, histVars, modVars>>
    \/ focus = "rpms" /\ (HistStep \/ HistRpms) /\ UNCHANGED <<focus, lockVars, txVars, repoVars, modVars>>
    \/ focus = "comps" /\ (HistStep \/ (inProgress.items = << >> /\ HistComps))
                        /\ UNCHANGED <<focus, lockVars, txVars, repoVars, modVars>>
    \/ focus = "modules" /\ ModNext /\ UNCHANGED <<focus, lockVars, txVars, repoVars, histVars>>

Spec == Init /\ [][Next]_<<focus, lockVars, txVars, repoVars, histVars, modVars>>

-----------------------------------------------------------------------------
TxNames == "A1" :> "A" @@ "A2" :> "A" @@ "B1" :> "B" @@ "C1" :> "C" @@ "E1" :> "E" @@ "E2" :> "E"

TxVersions == "A1" :> 1 @@ "A2" :> 2 @@ "B1" :> 1 @@ "C1" :> 1 @@ "E1" :> 1 @@ "E2" :> 2

\* E2 obsoletes A1, which A2 upgrades; B1 is installed and C1 removed.
TwoGoals ==
    {[install |-> "A2" :> "UPDATE" @@ "E2" :> "UPDATE", remove |-> {},
      replaces |-> "A2" :> {"A1"} @@ "E2" :> {"E1", "A1"}],
     [install |-> "B1" :> "INSTALL", remove |-> {"C1"}, replaces |-> "B1" :> {}]}

OneRunsTwice == [p \in Procs |-> IF p = CHOOSE q \in Procs : TRUE THEN 2 ELSE 1]

-----------------------------------------------------------------------------
\* Package "a" in two versions, the older one installed as a dependency by a
\* transaction of the old history.
TwoEvrs == {<<0, 1, 1>>, <<0, 2, 1>>}

NamedAfterIds == "a" :> "a"

GroupMembers == "GROUP" :> {{"a"}, {}} @@ "ENVIRONMENT" :> {{"g"}}

OneOldRow == [id |-> "a", evr |-> <<0, 1, 1>>, action |-> "INSTALL", done |-> TRUE]

OneOldTransaction == <<[done |-> TRUE, rows |-> <<OneOldRow>>]>>

OneOldGroup == "g" :> {"a"}

OneInstalled == "a" :> <<0, 1, 1>>

OneDependency == "a" :> "DEPENDENCY"

-----------------------------------------------------------------------------
\* The stream of "m" gets a new version and everything else disappears.
Catalogs == {FirstCatalog, {Module("m", "A", 2, OnPlatform)}}

\* As with streams "1" and "10".
OneBeginsOther == {<<"A", "B">>}

DefaultStreams == "m" :> "A" @@ "n" :> ""

\* The packages of the streams, and one outside any module that provides "m".
StreamRpms ==
    {[nevra |-> <<s[1], s[2], 1>>, name |-> s[1], repo |-> "r", provides |-> {}] :
        s \in {<<"m", "A">>, <<"m", "B">>, <<"n", "X">>}}
      \cup {[nevra |-> <<"o", "", 1>>, name |-> "o", repo |-> "r", provides |-> {"m"}]}

\* A file of an old version, with `enabled=1`, its profiles as they were installed.
OldModuleFiles ==
    {"m" :> [stream |-> "B", profiles |-> <<2, 1>>, state |-> "1"] @@ "n" :> NoFile}

\* The platform comes from the packages or from os-release.
Platforms ==
    {[option |-> "", available |-> {"el8", "el9"}, installed |-> {"el9"}, osRelease |-> << >>],
     [option |-> "", available |-> {}, installed |-> {}, osRelease |-> <<"", "el8">>]}
=============================================================================
