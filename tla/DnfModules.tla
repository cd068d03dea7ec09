------------------------------ MODULE DnfModules ------------------------------
(***************************************************************************)
(* Modularity of dnf-4: dnf-4/libdnf/module/ModulePackageContainer.cpp and *)
(* ModulePackage.cpp, as dnf_sack_filter_modules_v2 and                    *)
(* dnf_context_reset_modules drive them.                                   *)
(*                                                                         *)
(* A container holds the module packages read from the repositories, and   *)
(* for every module two copies of its settings: the parser (what the file  *)
(* modules.d/<name>.module said) and the configuration (what the caller    *)
(* made of it).  save() carries the second into the first and onto disk,   *)
(* rollback() carries the first into the second.  The yaml files of the    *)
(* modulefailsafe directory keep the enabled streams usable when their     *)
(* repository is gone.                                                     *)
(*                                                                         *)
(* A module package is a record; its context is left out.  The profiles of *)
(* a module are the vector of the code, in the order of installation until *)
(* a question sorts them; a profile is its number in the order of the      *)
(* names.  libsolv is external: it returns any set that satisfies the      *)
(* jobs.                                                                   *)
(***************************************************************************)
EXTENDS Naturals, Sequences, SequencesExt, FiniteSets, FiniteSetsExt, Functions, TLC

CONSTANTS ModNames,       \* names of modules
          ModCatalogs,    \* what the repositories may publish: sets of packages
          ModDefaults,    \* name -> default stream, or ""
          ModProfiles,    \* profiles, numbered in the order of their names
          ModRpms,        \* packages the repositories hold
          HotfixRepos,    \* repositories with module_hotfixes set
          ModOldFiles,    \* the *.module files found at the first start
          StreamPrefixes, \* pairs of streams, the first begins the second
          DashedStreams,  \* streams whose name contains a '-'
          PlatformInputs, \* what the detection of the platform may find
          MaxModSteps     \* bound on changes of settings, questions and restarts

\* The spellings of a state on disk.
EnabledTexts == {"1", "true", "enabled"}
DisabledTexts == {"0", "false", "disabled"}
StateTexts == {""} \cup EnabledTexts \cup DisabledTexts

\* A module package has a stream and comes from a repository; a settings file is
\* there with its three options, or not, or was torn.  The state is spelt in one of
\* the ways fromString knows, or not at all; where an old file has `enabled` for it,
\* this is what that option says.
ASSUME DnfModulesAssumption ==
  /\ \A C \in ModCatalogs : \A m \in C :
       /\ m = [name |-> m.name, stream |-> m.stream, version |-> m.version, arch |-> m.arch,
               repo |-> m.repo, requires |-> m.requires, artifacts |-> m.artifacts]
       /\ m.name \in ModNames /\ m.stream # "" /\ m.repo \notin {"torn", "@modulefailsafe"}
  /\ \A files \in ModOldFiles :
       /\ files = [n \in ModNames |-> files[n]]
       /\ \A n \in ModNames :
            /\ files[n] = [stream |-> files[n].stream, profiles |-> files[n].profiles,
                           state |-> files[n].state]
            /\ files[n].state \in {"none", "torn"} \cup StateTexts
            /\ files[n].profiles \in Seq(Nat) /\ IsInjective(files[n].profiles)

VARIABLES modFiles,   \* name -> the content of its *.module file
          failSafe,   \* module packages kept as yaml files, one per file name
          published,  \* the packages the repositories publish now
          cont,       \* the container of the process, or NoContainer
          modGhost    \* what the caller saw of the container's calls

modVars == <<modFiles, failSafe, published, cont, modGhost>>

NoContainer == [open |-> FALSE]

NoFile == [stream |-> "", profiles |-> << >>, state |-> "none"]

\* initConfig: the values of a module without a usable file.
InitConfig == [stream |-> "", profiles |-> << >>, state |-> ""]

\* A file without its options is replaced by initConfig.
ParseConfig(file) == IF file.state \in {"none", "torn"} THEN InitConfig ELSE file

FromString(s) == CASE s \in EnabledTexts -> "ENABLED"
                   [] s \in DisabledTexts -> "DISABLED"
                   [] OTHER -> "UNKNOWN"

StateText(s) == CASE s = "ENABLED" -> "enabled"
                  [] s = "DISABLED" -> "disabled"
                  [] OTHER -> ""

\* ModulePersistor::reset: the settings the parser's copy stands for.
FromParser(p) == [p EXCEPT !.state = FromString(p.state)]

\* What a reader of the settings tells apart: DEFAULT and UNKNOWN are one on disk,
\* and the order of the profiles says nothing.
SameForReader(c, d) ==
  /\ c.stream = d.stream
  /\ StateText(c.state) = StateText(d.state)
  /\ Range(c.profiles) = Range(d.profiles)

UpdatedSlip(c) == [c EXCEPT !.state = IF c.state = "DISABLED" THEN "" ELSE "enabled"]

\* ModulePersistor::update: the parser's copy of the settings c.
Updated(c) == [c EXCEPT !.state = StateText(c.state)]

\* A module is recorded once: a second insert of its name does nothing.
InsertModules(files, names) == [n \in names |-> ParseConfig(files[n])]

-----------------------------------------------------------------------------
(* Dependencies of a module package, and the platform.                      *)

\* A stream whose name holds a '-' anywhere is taken for a negative one and
\* ends as a conflict with the rest of its name, which no module has.
RequiredStreams(r) == r.streams \ DashedStreams

Satisfies(m, r) == m.name = r.mod /\ (RequiredStreams(r) = {} \/ m.stream \in RequiredStreams(r))

\* getPlatformStream over the os-release files, in order.
OsReleasePlatform(files) ==
  LET found == {i \in DOMAIN files : files[i] # ""}
  IN IF found = {} THEN "" ELSE files[Min(found)]

\* createPlatformSolvable: the option, else the one platform the newest
\* available system-release names, else the installed one's, else os-release.
PlatformStream(i) ==
  LET only(s) == IF Cardinality(s) = 1 THEN CHOOSE x \in s : TRUE ELSE ""
      fromSack == IF only(i.available) # "" THEN only(i.available) ELSE only(i.installed)
  IN IF i.option # "" THEN i.option
     ELSE IF fromSack # "" THEN fromSack ELSE OsReleasePlatform(i.osRelease)

SameModule(m, k) == <<m.name, m.stream, m.version>> = <<k.name, k.stream, k.version>>

ModConflictSlip(m, k) == m # k /\ SameModule(m, k) /\ m.arch = k.arch

\* createConflictsBetweenStreams, and libsolv's rule that one package of a
\* name:stream:version is installed.
ModConflict(m, k) ==
  m # k /\ m.name = k.name /\ (m.stream # k.stream \/ (SameModule(m, k) /\ m.arch = k.arch))

ConsistentModules(S, platform) ==
  /\ \A m, k \in S : ~ModConflict(m, k)
  /\ \A m \in S : \A r \in m.requires :
       IF r.mod = "platform"
       THEN platform # "" /\ (RequiredStreams(r) = {} \/ platform \in RequiredStreams(r))
       ELSE \E k \in S : Satisfies(k, r)

Provided(S, jobs) == {j \in jobs : \E k \in S : SameModule(k, j)}

\* What the solver may install for the mandatory and the weak jobs.
ModSolutions(avail, must, weak, platform) ==
  LET fits == {S \in SUBSET avail :
                 /\ ConsistentModules(S, platform)
                 /\ Provided(S, must) = must
                 /\ \A k \in S : \/ \E j \in must \cup weak : SameModule(k, j)
                                 \/ \E m \in S : \E r \in m.requires : Satisfies(k, r)}
  IN {S \in fits : ~\E T \in fits : Provided(S, weak) \subseteq Provided(T, weak)
                                    /\ Provided(S, weak) # Provided(T, weak)}

\* The packages of avail the modules of S require, and those they require.
RequiredBy(avail, S) ==
  {k \in avail : \E m \in S : \E r \in m.requires : Satisfies(k, r)}

DependencyTree(avail, S) ==
  {k \in avail : \A T \in SUBSET avail : S \subseteq T /\ RequiredBy(avail, T) \subseteq T => k \in T}

\* listConflictPkgs: the packages in a conflict of the failed jobs.
ConflictingModules(avail, jobs) ==
  LET tree == DependencyTree(avail, jobs)
  IN {m \in tree : \E k \in tree : ModConflict(m, k)}

-----------------------------------------------------------------------------
(* Opening a container: dnf_sack_filter_modules_v2 without updateOnly.      *)

\* A file whose write broke off after it was truncated; it does not load.
TornYaml == "torn"
Torn(m) == [m EXCEPT !.repo = TornYaml]

\* loadFailSafeData: files of the enabled streams no repository publishes.
FailSafeFor(yamls, config, modules) ==
  {y \in yamls : /\ y.repo # TornYaml /\ y.name \in DOMAIN config
                 /\ config[y.name].state = "ENABLED" /\ config[y.name].stream = y.stream
                 /\ ~\E m \in modules : m.name = y.name /\ m.stream = y.stream}

FailSafeRepo == "@modulefailsafe"

IsEnabled(c, n, s) == n \in DOMAIN c.config /\ c.config[n].state = "ENABLED" /\ c.config[n].stream = s

IsDisabled(c, n) == n \in DOMAIN c.config /\ c.config[n].state = "DISABLED"

GetDefaultStream(n) == ModDefaults[n]

\* The packages that take part: enabled streams, and default streams of
\* modules that are neither enabled nor disabled.
Usable(c) ==
  {m \in c.modules :
     /\ ~IsDisabled(c, m.name)
     /\ \/ IsEnabled(c, m.name, m.stream)
        \/ GetDefaultStream(m.name) = m.stream /\ c.config[m.name].state # "ENABLED"}

\* A default stream that takes part puts its module in the DEFAULT state.
MarkDefaults(c) ==
  [c EXCEPT !.config = [n \in DOMAIN c.config |->
     IF /\ c.config[n].state \notin {"ENABLED", "DISABLED"}
        /\ \E m \in c.modules : m.name = n /\ GetDefaultStream(n) = m.stream
     THEN [c.config[n] EXCEPT !.state = "DEFAULT"] ELSE c.config[n]]]

\* moduleSolve: everything mandatory, then the defaults weak, then everything
\* weak without the conflicting modules; no job leaves no set at all.
ModuleSolve(c, jobs) ==
  LET avail == {m \in c.modules : ~IsDisabled(c, m.name)}
      weak == {m \in jobs : c.config[m.name].state = "DEFAULT"}
      strict == ModSolutions(avail, jobs, {}, c.platform)
      lenient == ModSolutions(avail, jobs \ weak, weak, c.platform)
      rest == ModSolutions(avail \ ConflictingModules(avail, jobs \ weak), {}, jobs, c.platform)
      found(sols, err) == {[solved |-> TRUE, active |-> S, error |-> err] : S \in sols}
  IN IF jobs = {} THEN {[solved |-> FALSE, active |-> {}, error |-> "NO_ERROR"]}
     ELSE IF strict # {} THEN found(strict, "NO_ERROR")
     ELSE IF lenient # {} THEN found(lenient, "ERROR_IN_DEFAULTS")
     ELSE found(rest, "ERROR")

\* resolveActiveModulePackages: the containers a resolution may leave.
ResolveActive(c) ==
  LET marked == MarkDefaults(c)
  IN {[marked EXCEPT !.solved = r.solved, !.active = r.active, !.error = r.error,
                     !.fresh = TRUE] : r \in ModuleSolve(marked, Usable(marked))}

\* The constructor, add(sack), loadFailSafeData and the platform.
OpenContainer(input, files, yamls) ==
  LET onDisk == {n \in ModNames : files[n].state # "none"}
      names == onDisk \cup {m.name : m \in published}
      parser == InsertModules(files, names)
      config == [n \in names |-> FromParser(parser[n])]
      kept == {[y EXCEPT !.repo = FailSafeRepo] : y \in FailSafeFor(yamls, config, published)}
      modules == published \cup kept
  IN [open |-> TRUE, config |-> config, parser |-> parser,
      modules |-> modules, active |-> {}, solved |-> FALSE, fresh |-> FALSE,
      error |-> "NO_ERROR",
      platform |-> IF modules = {} THEN "" ELSE PlatformStream(input)]

FilterModules ==
  /\ ~cont.open
  /\ \E input \in PlatformInputs : cont' \in ResolveActive(OpenContainer(input, modFiles, failSafe))
  /\ modGhost' = [modGhost EXCEPT !.lost = {}, !.saved = FALSE]
  /\ UNCHANGED <<modFiles, failSafe, published>>

-----------------------------------------------------------------------------
(* Filtering the packages of the repositories by the active modules.        *)

IsModuleActive(c, m) == c.solved /\ m \in c.active

IncludedNevras(c) == UNION {m.artifacts : m \in {k \in c.modules : IsModuleActive(c, k)}}
ExcludedNevras(c) == UNION {m.artifacts : m \in {k \in c.modules : ~IsModuleActive(c, k)}}

ModuleIncludes(c) == {r \in ModRpms : r.nevra \in IncludedNevras(c)}

\* setModuleExcludes: what inactive modules hold, and what has or provides the
\* name of an included package; installed packages, packages from the command
\* line and hotfix repositories are kept, included packages too.
ModuleExcludes(c) ==
  LET names == {r.name : r \in ModuleIncludes(c)}
      filtered == {r \in ModRpms : r.repo \notin {"@System", "@commandline"} \cup HotfixRepos}
  IN {r \in filtered : \/ r.nevra \in ExcludedNevras(c)
                       \/ r.provides \cap names # {}
                       \/ r.name \in names} \ ModuleIncludes(c)

\* The active modules, not yet enabled, that hold a package of the set.
RequiresModuleEnablement(c, rpms) ==
  IF rpms \cap ModuleIncludes(c) = {} THEN {}
  ELSE {m \in c.modules : /\ IsModuleActive(c, m)
                          /\ ~IsEnabled(c, m.name, m.stream)
                          /\ \E r \in rpms : r.nevra \in m.artifacts}

-----------------------------------------------------------------------------
(* Changing settings.                                                       *)

\* changeStream refuses a second change of the stream before a save.
StreamMayChange(c, n, s) ==
  c.config[n].stream = s \/ c.config[n].stream = c.parser[n].stream

Count == modGhost.steps < MaxModSteps
Stepped(g) == [g EXCEPT !.steps = @ + 1, !.saved = FALSE]
Throws == modGhost' = [Stepped(modGhost) EXCEPT !.thrown = TRUE]

\* enable(name, stream): a refused stream leaves everything alone; the
\* profiles go when anything changed.
Enable(n, s) ==
  /\ cont.open /\ Count /\ n \in DOMAIN cont.config
  /\ IF StreamMayChange(cont, n, s)
     THEN LET old == cont.config[n]
              same == old.stream = s /\ old.state = "ENABLED"
          IN /\ cont' = [cont EXCEPT !.fresh = FALSE, !.config[n] =
                           [stream |-> s, state |-> "ENABLED",
                            profiles |-> IF same THEN old.profiles ELSE << >>]]
             /\ modGhost' = Stepped(modGhost)
     ELSE Throws /\ UNCHANGED cont
  /\ UNCHANGED <<modFiles, failSafe, published>>

\* disable(name) and reset(name) set the state first: when the stream may not
\* change, the exception leaves the new state beside the old stream.
ClearTo(n, state) ==
  /\ cont.open /\ Count /\ n \in DOMAIN cont.config
  /\ IF StreamMayChange(cont, n, "")
     THEN /\ cont' = [cont EXCEPT !.fresh = FALSE,
                        !.config[n] = [stream |-> "", profiles |-> << >>, state |-> state]]
          /\ modGhost' = Stepped(modGhost)
     ELSE /\ cont' = [cont EXCEPT !.fresh = FALSE, !.config[n].state = state]
          /\ Throws
  /\ UNCHANGED <<modFiles, failSafe, published>>

Disable(n) == ClearTo(n, "DISABLED")
Reset(n) == ClearTo(n, "UNKNOWN")

\* ModulePersistor::addProfile and removeProfile: nothing to do for a profile
\* that is there, or is not.
AddProfile(profiles, p) == Append(profiles, p)
RemoveProfile(profiles, p) == RemoveAt(profiles, CHOOSE i \in DOMAIN profiles : profiles[i] = p)

\* install and uninstall of a profile: only of the stream the module has.
InstallProfile(m, p) ==
  /\ cont.open /\ Count /\ m \in cont.modules
  /\ cont.config[m.name].stream = m.stream
  /\ p \notin Range(cont.config[m.name].profiles)
  /\ cont' = [cont EXCEPT !.config[m.name].profiles = AddProfile(@, p)]
  /\ modGhost' = Stepped(modGhost)
  /\ UNCHANGED <<modFiles, failSafe, published>>

UninstallProfile(m, p) ==
  /\ cont.open /\ Count /\ m \in cont.modules
  /\ cont.config[m.name].stream = m.stream
  /\ p \in Range(cont.config[m.name].profiles)
  /\ cont' = [cont EXCEPT !.config[m.name].profiles = RemoveProfile(@, p)]
  /\ modGhost' = Stepped(modGhost)
  /\ UNCHANGED <<modFiles, failSafe, published>>

Resolve ==
  /\ cont.open /\ ~cont.fresh
  /\ cont' \in ResolveActive(cont)
  /\ UNCHANGED <<modFiles, failSafe, published, modGhost>>

\* enableDependencyTree: the loop ends when a pass adds nothing, at most one
\* pass per module.  Every module of the tree is enabled; one that may not
\* change its stream ends the call, the modules before it stay enabled.
EnableAll(tree) ==
  /\ cont.open /\ Count /\ tree # {}
  /\ LET refused == {k \in tree : ~StreamMayChange(cont, k.name, k.stream)}
         enabledBy(S) == [n \in DOMAIN cont.config |->
           IF \E k \in S : k.name = n /\ ~IsEnabled(cont, n, k.stream)
           THEN [stream |-> (CHOOSE k \in S : k.name = n).stream,
                 state |-> "ENABLED", profiles |-> << >>]
           ELSE cont.config[n]]
     IN \E S \in SUBSET (tree \ refused) :
          /\ refused = {} => S = tree
          /\ cont' = [cont EXCEPT !.fresh = FALSE, !.config = enabledBy(S)]
          /\ modGhost' = [Stepped(modGhost) EXCEPT !.thrown = @ \/ refused # {}]
  /\ UNCHANGED <<modFiles, failSafe, published>>

EnableDependencyTree(m) ==
  /\ cont.open /\ m \in cont.modules /\ IsModuleActive(cont, m)
  /\ EnableAll(DependencyTree(cont.active, {m}))

\* The end of dnf_goal_depsolve: a transaction that installs rpms enables the
\* modules they come from (and not the modules those depend on).
DepsolveEnables(rpms) ==
  cont.open /\ EnableAll(RequiresModuleEnablement(cont, rpms \ ModuleExcludes(cont)))

\* query("name:stream"): a glob that ends in a star, so a stream that begins
\* like the one asked for matches as well.
QueryStream(c, n, s) ==
  {m \in c.modules : m.name = n /\ (m.stream = s \/ <<s, m.stream>> \in StreamPrefixes)}

\* getInstalledPkgNames: the module package that says what the installed
\* profiles of a module hold; the newest active one of its stream, else the newest.
ProfileSource(c, n) ==
  LET found == QueryStream(c, n, c.config[n].stream)
      active == {m \in found : IsModuleActive(c, m)}
      from == IF active # {} THEN active ELSE found
  IN IF c.config[n].stream = "" \/ c.config[n].profiles = << >> THEN {}
     ELSE {m \in from : \A k \in from : k.version <= m.version}

-----------------------------------------------------------------------------
(* What changed, as the reports and isChanged() tell it.                    *)

GetEnabledStreams(c) ==
  {n \in DOMAIN c.config : FromString(c.parser[n].state) # "ENABLED" /\ c.config[n].state = "ENABLED"}

GetDisabledModules(c) ==
  {n \in DOMAIN c.config : FromString(c.parser[n].state) # "DISABLED" /\ c.config[n].state = "DISABLED"}

\* UNKNOWN and DEFAULT are the same here: both are an empty state on disk.
GetResetModules(c) ==
  {n \in DOMAIN c.config : /\ FromString(c.parser[n].state) # "UNKNOWN"
                           /\ c.config[n].state \in {"UNKNOWN", "DEFAULT"}}

GetSwitchedStreams(c) ==
  {n \in DOMAIN c.config : /\ c.parser[n].stream # "" /\ c.config[n].stream # ""
                           /\ c.parser[n].stream # c.config[n].stream}

GetInstalledProfiles(c) ==
  {n \in DOMAIN c.config : Range(c.config[n].profiles) \ Range(c.parser[n].profiles) # {}}

GetRemovedProfiles(c) ==
  {n \in DOMAIN c.config : Range(c.parser[n].profiles) \ Range(c.config[n].profiles) # {}}

IsChanged(c) ==
  GetEnabledStreams(c) \cup GetDisabledModules(c) \cup GetResetModules(c)
    \cup GetSwitchedStreams(c) \cup GetInstalledProfiles(c) \cup GetRemovedProfiles(c) # {}

\* std::sort of distinct profiles.
Sorted(profiles) ==
  LET ascending == {s \in [DOMAIN profiles -> Range(profiles)] :
                      /\ Range(s) = Range(profiles)
                      /\ \A i, j \in DOMAIN s : i < j => s[i] < s[j]}
  IN IF ascending = {} THEN profiles ELSE CHOOSE s \in ascending : TRUE

\* isChanged(), getReport() and the questions about profiles: to compare them they
\* sort the profiles in the container itself.
Report ==
  /\ cont.open /\ Count
  /\ cont' = [cont EXCEPT !.config = [n \in DOMAIN cont.config |->
                [cont.config[n] EXCEPT !.profiles = Sorted(@)]]]
  /\ modGhost' = [modGhost EXCEPT !.steps = @ + 1]
  /\ UNCHANGED <<modFiles, failSafe, published>>

\* The modules whose file save() would write: also one whose state is spelt in
\* another way, or whose profiles are in another order.
ToWrite(c) == {n \in DOMAIN c.config : Updated(c.config[n]) # c.parser[n]}

-----------------------------------------------------------------------------
(* Saving, rolling back, fail-safe data, the end of the process.            *)

\* The files when c's settings of the modules done are written, and torn ones.
FilesAfter(c, done, torn) ==
  [n \in ModNames |->
     IF n \in done THEN Updated(c.config[n])
     ELSE IF n \in torn THEN [InitConfig EXCEPT !.state = "torn"] ELSE modFiles[n]]

\* save() updates a parser and then writes its file.  A write that fails
\* throws with the parser already updated, and the modules after it are not
\* reached; the file is then the old one or a torn one.
WriteModules(done, failing, torn) ==
  /\ cont' = [cont EXCEPT !.parser = [n \in DOMAIN cont.parser |->
                IF n \in done \cup failing THEN Updated(cont.config[n]) ELSE cont.parser[n]]]
  /\ modFiles' = FilesAfter(cont, done, torn)

Save ==
  /\ cont.open
  /\ WriteModules(ToWrite(cont), {}, {})
  /\ modGhost' = [modGhost EXCEPT !.saved = TRUE, !.lost = @ \ ToWrite(cont)]
  /\ UNCHANGED <<failSafe, published>>

SaveFails ==
  /\ cont.open
  /\ \E f \in ToWrite(cont) : \E done \in SUBSET (ToWrite(cont) \ {f}), torn \in SUBSET {f} :
       /\ WriteModules(done, {f}, torn)
       /\ modGhost' = [modGhost EXCEPT !.thrown = TRUE, !.lost = (@ \ done) \cup {f}, !.saved = FALSE]
  /\ UNCHANGED <<failSafe, published>>

Rollback ==
  /\ cont.open
  /\ cont' = [cont EXCEPT !.fresh = FALSE,
                !.config = [n \in DOMAIN cont.config |-> FromParser(cont.parser[n])]]
  /\ modGhost' = [modGhost EXCEPT !.saved = FALSE]
  /\ UNCHANGED <<modFiles, failSafe, published>>

SameFile(m, k) == <<m.name, m.stream, m.arch>> = <<k.name, k.stream, k.arch>>

\* getLatestActiveEnabledModules: per name, stream and arch the newest one.
LatestActiveEnabled(c) ==
  LET on == {m \in c.active : IsEnabled(c, m.name, m.stream)}
  IN {m \in on : \A k \in on : SameFile(m, k) => k.version <= m.version}

OutdatedSlip(c, latest) == {y \in failSafe : ~\E m \in latest : SameFile(m, y)}

\* Files of streams that are not enabled are removed.
Outdated(c, latest) ==
  {y \in failSafe : ~(\E m \in latest : SameFile(m, y)) /\ ~IsEnabled(c, y.name, y.stream)}

\* updateFile: a file that holds the yaml of m already is left alone, another is
\* written in place.
SameYaml(y, m) == y.repo # TornYaml /\ [y EXCEPT !.repo = m.repo] = m
UpdateFiles(yamls, written) == {y \in yamls : ~\E m \in written : SameFile(m, y)} \cup written

\* updateFailSafeData of container c.  A module that came from a fail-safe file
\* is not written again; a write may fail, and of two modules with one file the
\* last one stays.  Without a resolution that found modules nothing is done.
FailSafeAfter(c) ==
  LET latest == LatestActiveEnabled(c)
      own == {m \in latest : m.repo # FailSafeRepo}
      tearing == {m \in own : ~\E y \in failSafe : SameYaml(y, m)}
      writes == {W \in SUBSET own : \A m, k \in W : SameFile(m, k) => m = k}
                  \cup {{Torn(m)} : m \in tearing}
  IN IF ~c.solved THEN {failSafe}
     ELSE {UpdateFiles(failSafe, W) \ Outdated(c, latest) : W \in writes}

\* Called right after save(), as the commit of a transaction has it.
UpdateFailSafe ==
  /\ cont.open /\ modGhost.saved
  /\ failSafe' \in FailSafeAfter(cont)
  /\ UNCHANGED <<modFiles, published, cont, modGhost>>

\* dnf_context_reset_modules: reset, save, fail-safe data (by the resolution
\* made before the reset), and a new container.  A refused reset ends it.
ContextResetModule(n) ==
  /\ cont.open /\ Count /\ n \in DOMAIN cont.config /\ StreamMayChange(cont, n, "")
  /\ LET after == [cont EXCEPT !.config[n] = FromParser(InitConfig)]
     IN /\ modFiles' = FilesAfter(after, ToWrite(after), {})
        /\ failSafe' \in FailSafeAfter(after)
  /\ \E input \in PlatformInputs :
       cont' \in ResolveActive(OpenContainer(input, modFiles', failSafe'))
  /\ modGhost' = [Stepped(modGhost) EXCEPT !.lost = {}]
  /\ UNCHANGED published

\* The process ends, at any time.
EndProcess ==
  /\ cont.open /\ Count
  /\ cont' = NoContainer
  /\ modGhost' = Stepped(modGhost)
  /\ UNCHANGED <<modFiles, failSafe, published>>

\* The process is killed within save(): some files are written, one is torn.
DieSaving ==
  /\ cont.open /\ Count
  /\ \E f \in ToWrite(cont) : \E done \in SUBSET (ToWrite(cont) \ {f}), torn \in SUBSET {f} :
       modFiles' = FilesAfter(cont, done, torn)
  /\ cont' = NoContainer
  /\ modGhost' = Stepped(modGhost)
  /\ UNCHANGED <<failSafe, published>>

\* The repositories publish something else (seen by the next container).
Publish ==
  /\ ~cont.open
  /\ published' \in ModCatalogs \ {published}
  /\ UNCHANGED <<modFiles, failSafe, cont, modGhost>>

-----------------------------------------------------------------------------

ModInit ==
  /\ modFiles \in ModOldFiles
  /\ failSafe = {}
  /\ published \in ModCatalogs
  /\ cont = NoContainer
  /\ modGhost = [thrown |-> FALSE, saved |-> FALSE, lost |-> {}, steps |-> 0]

AllModPackages == UNION ModCatalogs
AllStreams == {m.stream : m \in AllModPackages}

ModNext ==
  \/ FilterModules \/ Resolve \/ Report \/ Save \/ SaveFails \/ Rollback \/ UpdateFailSafe
  \/ EndProcess \/ DieSaving \/ Publish
  \/ \E r \in ModRpms : DepsolveEnables({r})
  \/ \E n \in ModNames : \/ Disable(n) \/ Reset(n) \/ ContextResetModule(n)
                         \/ \E s \in AllStreams : Enable(n, s)
  \/ \E m \in AllModPackages : \/ EnableDependencyTree(m)
                               \/ \E p \in ModProfiles : InstallProfile(m, p) \/ UninstallProfile(m, p)

ModSpec == ModInit /\ [][ModNext]_modVars

ModTypeOK ==
  /\ DOMAIN modFiles = ModNames
  /\ \A n \in ModNames : modFiles[n].state \in {"none", "torn"} \cup StateTexts
  /\ cont.open => /\ DOMAIN cont.config = DOMAIN cont.parser
                  /\ cont.active \subseteq cont.modules
                  /\ cont.solved \/ cont.active = {}

(* After save() returned, a process that starts now reads the settings the  *)
(* container holds, whatever was asked of it since.  Files whose write      *)
(* failed before are excepted: save() never tries them again.               *)
SavedIsReadBack ==
  cont.open /\ modGhost.saved =>
    \A n \in DOMAIN cont.config \ modGhost.lost :
      SameForReader(FromParser(ParseConfig(modFiles[n])), cont.config[n])

(* A fresh resolution activates no module that is disabled, no two streams  *)
(* of a module, and, unless all the jobs had to be made weak, no stream     *)
(* beside an enabled one that is known; and the filter it leaves shows a    *)
(* modular package of an ordinary repository only when a module that holds  *)
(* it is active; and when a package of an enabled stream is active, it says *)
(* what the installed profiles hold.                                        *)
ActiveRespectsSettings ==
  cont.open /\ cont.fresh =>
    /\ \A m \in cont.active :
      /\ ~IsDisabled(cont, m.name)
      /\ \A k \in cont.active : k.name = m.name => k.stream = m.stream
      /\ \A k \in cont.modules : /\ cont.error # "ERROR" /\ k.name = m.name
                                  /\ IsEnabled(cont, k.name, k.stream)
                                 => m.stream = k.stream
    /\ \A r \in ModRpms \ ModuleExcludes(cont), m \in cont.modules :
         r.nevra \in m.artifacts /\ r.repo \notin {"@System", "@commandline"} \cup HotfixRepos
           => \E k \in cont.active : r.nevra \in k.artifacts
    /\ \A n \in DOMAIN cont.config :
         (\E m \in cont.active : IsEnabled(cont, n, m.stream) /\ m.name = n)
           => \A m \in ProfileSource(cont, n) : m \in cont.active /\ IsEnabled(cont, n, m.stream)

(* The fail-safe file of a stream is removed only when the settings on disk *)
(* no longer enable it, unless the write of those settings failed; and one  *)
(* that loads is made useless only by the write of another yaml that broke  *)
(* off: whoever starts next can use the streams it finds enabled.           *)
FailSafeOutlivesStream ==
  [][\A y \in failSafe :
       \/ \E k \in failSafe' :
            SameFile(y, k) /\ (k.repo # TornYaml \/ y.repo = TornYaml \/ k # Torn(y))
       \/ FromString(modFiles'[y.name].state) # "ENABLED" \/ modFiles'[y.name].stream # y.stream
       \/ y.name \in modGhost.lost]_modVars

(* isChanged() answers whether there is anything to save: when it says no,  *)
(* and no call before it ever threw, whoever saves nothing loses nothing    *)
(* (and a save() that writes all the same, for another spelling or order,   *)
(* changes nothing that a reader sees).                                     *)
UnchangedLosesNothing ==
  cont.open /\ ~modGhost.thrown /\ ~IsChanged(cont) =>
    \A n \in DOMAIN cont.config : SameForReader(FromParser(cont.parser[n]), cont.config[n])

(* save() against isChanged() and the next reader: what is written is what  *)
(* the container held, and what isChanged() does not see is no change       *)
(* (ModulePackageContainer.cpp save, isChanged, ModulePersistor).           *)
SaveIsFaithful == SavedIsReadBack /\ UnchangedLosesNothing
===============================================================================
