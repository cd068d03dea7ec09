-------------------------------- MODULE DnfGoal --------------------------------
(***************************************************************************)
(* A goal of dnf-4: dnf-4/libdnf/goal/Goal.cpp with sack/selector.cpp,     *)
(* hy-goal.cpp and dnf-goal.cpp.  Callers stage jobs for packages and      *)
(* selectors, run the solver, and read the transaction or the problems.    *)
(*                                                                         *)
(* After the first solution the goal limits the versions of the packages   *)
(* that are installed side by side (kernels), solves again, and refuses a  *)
(* transaction that removes a protected package or the running kernel.     *)
(*                                                                         *)
(* libsolv is external: a run of it yields any package set the jobs allow, *)
(* or problems.  The staged jobs are a set; job flags the properties do    *)
(* not tell apart (best, cleandeps, targeted, vendor and arch policy) are  *)
(* left out.                                                               *)
(***************************************************************************)
EXTENDS Naturals, Sequences, FiniteSets, SequencesExt

CONSTANTS GoalTable,         \* what is known of each package of the pool
          RunningKernel,     \* the package of the running kernel, or NoKernel
          NoKernel,
          InstallonlyProvides, \* the provides whose packages stand side by side
          InstallonlyLimit,  \* 0: no limit
          AskedPkgs,         \* the packages callers name
          ProtectedPkgs,     \* the packages callers protect
          SelectorCalls,     \* sequences of <<key, filter>> set on a selector
          RunFlags,          \* flags of a run: ALLOW_UNINSTALL, IGNORE_WEAK
          MaxJobs,           \* bound on staged jobs
          MaxRuns            \* bound on runs

ASSUME DnfGoalAssumption ==
  /\ IsFiniteSet(DOMAIN GoalTable) /\ InstallonlyLimit \in Nat
  /\ \A p \in DOMAIN GoalTable : GoalTable[p].installed \in BOOLEAN

VARIABLES goal,     \* the fields of Goal::Impl
          goalRun   \* what the last run had to decide, and its answer

goalVars == <<goal, goalRun>>

NoTrans == [made |-> FALSE]
GPkg == GoalTable
GoalPkgs == DOMAIN GPkg
GoalInstalled == {p \in GoalPkgs : GPkg[p].installed}
NameOf(S) == {GPkg[p].name : p \in S}
Onlies(p) == GPkg[p].provides \cap InstallonlyProvides
Installonly(p) == Onlies(p) # {}

-----------------------------------------------------------------------------
(* Selectors.                                                               *)

NoFilter == [cmp |-> "none"]

\* valid_setting: names, provides and files may be globs, the rest are equal.
ValidSetting(key, cmp) ==
  CASE key \in {"arch", "evr", "reponame"} -> cmp = "eq"
    [] key \in {"name", "provides"} -> cmp \in {"eq", "glob"}
    [] key = "file" -> TRUE
    [] OTHER -> FALSE

\* Selector::set: at most one of the keys that say which packages are meant.
SelectorAccepts(sltr, key) ==
  key \in {"name", "provides", "file", "pkgs"} =>
    \A k \in {"name", "provides", "file", "pkgs"} \ {key} : sltr[k] = NoFilter

SelectorSet(sltr, key, f) ==
  IF (key = "pkgs" \/ ValidSetting(key, f.cmp)) /\ SelectorAccepts(sltr, key)
  THEN [error |-> FALSE, sltr |-> [sltr EXCEPT ![key] = f]]
  ELSE [error |-> TRUE, sltr |-> sltr]

NewSelector ==
  [k \in {"name", "provides", "file", "pkgs", "arch", "evr", "reponame"} |-> NoFilter]

\* A refused setting returns an error and leaves the selector as it was.
GoalSelectors ==
  {FoldLeft(LAMBDA sltr, c : SelectorSet(sltr, c[1], c[2]).sltr, NewSelector, calls) :
     calls \in SelectorCalls}

\* filterPkgToJob, filterNameToJob, filterFileToJob, filterProvidesToJob: the
\* jobs one selector makes, each a set of candidates (`values` is what a glob
\* matches).  An unknown name makes no job at all; a provide makes one even
\* when nothing provides it.
RequiredJobs(sltr) ==
  LET each(v) == {p \in GoalPkgs : GPkg[p].name = v}
  IN CASE sltr.pkgs # NoFilter -> {sltr.pkgs.values}
       [] sltr.name # NoFilter -> {each(v) : v \in sltr.name.values \cap NameOf(GoalPkgs)}
       [] sltr.file # NoFilter -> {{p \in GoalPkgs : GPkg[p].files \cap sltr.file.values # {}}} \ {{}}
       [] sltr.provides # NoFilter -> {{p \in GoalPkgs : GPkg[p].provides \cap sltr.provides.values # {}}}

\* filterReponameToJob: the packages of the repository of that name; an
\* unknown name leaves none.
FilterReponameToJob(sltr, what) ==
  {p \in what : sltr.reponame # NoFilter => GPkg[p].repo \in sltr.reponame.values}

\* filterArchToJob, filterEvrToJob, filterReponameToJob narrow every job.
GoalNarrowed(sltr, what) ==
  {p \in FilterReponameToJob(sltr, what) :
     /\ sltr.arch # NoFilter => GPkg[p].arch \in sltr.arch.values
     /\ sltr.evr # NoFilter => GPkg[p].evr \in sltr.evr.values}

\* More than one value where one is wanted is an error.
Multiple(sltr) ==
  \E k \in {"name", "provides", "file", "arch", "evr", "reponame"} :
    sltr[k] # NoFilter /\ sltr[k].cmp = "eq" /\ Cardinality(sltr[k].values) # 1

\* sltrToJob: [error, the candidate sets of the jobs to push].
SltrToJob(sltr) ==
  LET any_opt == \E k \in {"arch", "evr", "reponame"} : sltr[k] # NoFilter
      any_req == \E k \in {"name", "provides", "file", "pkgs"} : sltr[k] # NoFilter
  IN IF ~any_req THEN [error |-> any_opt, whats |-> {}]
     ELSE IF Multiple(sltr) THEN [error |-> TRUE, whats |-> {}]
     ELSE [error |-> FALSE, whats |-> {GoalNarrowed(sltr, w) : w \in RequiredJobs(sltr)}]

-----------------------------------------------------------------------------
(* Staging.                                                                 *)

Job(how, weak, what) == [how |-> how, weak |-> weak, what |-> what]

\* Every call sets its action flags before it makes its jobs, and keeps them
\* when the selector turns out to be bad.
Stage(actions, jobs) ==
  /\ Cardinality(goal.staging \cup jobs) <= MaxJobs
  /\ goal' = [goal EXCEPT !.actions = @ \cup actions,
                          !.staging = @ \cup jobs]
  /\ UNCHANGED goalRun

PackageToJob(how, weak, p) == {Job(how, weak, {p})}

SelectorJobs(how, weak, sltr) == {Job(how, weak, w) : w \in SltrToJob(sltr).whats}

InstallFlags == {"INSTALL", "ALLOW_DOWNGRADE"}
DistupgradeFlags == {"DISTUPGRADE", "ALLOW_DOWNGRADE"}

GoalInstall(p, optional) == Stage(InstallFlags, PackageToJob("install", optional, p))
GoalInstallSelector(s, optional) == Stage(InstallFlags, SelectorJobs("install", optional, s))
GoalErase(p) == GPkg[p].installed /\ Stage({"ERASE"}, PackageToJob("erase", FALSE, p))
GoalEraseSelector(s) == Stage({"ERASE"}, SelectorJobs("erase", FALSE, s))
GoalUpgradeAll == Stage({"UPGRADE_ALL"}, {Job("update", FALSE, GoalPkgs)})
GoalUpgrade(p) == Stage({"UPGRADE"}, PackageToJob("update", FALSE, p))
GoalUpgradeSelector(s) == Stage({"UPGRADE"}, SelectorJobs("update", FALSE, s))
GoalDistupgradeAll ==
  Stage(DistupgradeFlags, {Job("distupgrade", FALSE, {p \in GoalPkgs : GPkg[p].repo # "@System"})})
GoalDistupgrade(p) == Stage(DistupgradeFlags, PackageToJob("distupgrade", FALSE, p))
GoalDistupgradeSelector(s) == Stage(DistupgradeFlags, SelectorJobs("distupgrade", FALSE, s))
GoalUserInstalled(p) == Stage({}, {Job("userinstalled", FALSE, {p})})

\* setProtected replaces the set, addProtected adds to it.
SetProtected(S) == goal' = [goal EXCEPT !.protected = S] /\ UNCHANGED goalRun
AddProtected(S) == goal' = [goal EXCEPT !.protected = @ \cup S] /\ UNCHANGED goalRun

-----------------------------------------------------------------------------
(* The solver, external.                                                    *)

JobsOf(jobs, how) == {j \in jobs : j.how = how}

\* A new package of the name, not one that is installed beside the others.
ReplacedIn(p, D) == ~Installonly(p) /\ \E q \in D \ {p} : GPkg[q].name = GPkg[p].name

MayGo(p, D, jobs, downgrade) ==
  \/ \E j \in JobsOf(jobs, "erase") \cup JobsOf(jobs, "allowuninstall") : p \in j.what
  \/ ReplacedIn(p, D) /\ \E q \in D \ GoalInstalled : GPkg[q].name = GPkg[p].name
                                                  /\ (downgrade \/ GPkg[q].version > GPkg[p].version)
  \/ \E q \in D \ GoalInstalled : GPkg[p].name \in GPkg[q].obsoletes

\* One version of a name unless they may be side by side, nothing missing,
\* nothing obsoleted.
Consistent ==
  {D \in SUBSET GoalPkgs :
     /\ \A p, q \in D : p # q /\ GPkg[p].name = GPkg[q].name => Installonly(p) /\ Installonly(q)
     /\ \A p \in D : GPkg[p].requires \subseteq NameOf(D)
     /\ \A q \in D \ GoalInstalled : \A p \in D : GPkg[p].name \notin GPkg[q].obsoletes}

ObeysJobs(D, jobs, downgrade, ignoreWeak) ==
  /\ \A j \in JobsOf(jobs, "install") : ~j.weak \/ ignoreWeak => j.what \cap D # {}
  /\ \A j \in JobsOf(jobs, "erase") : j.what \cap D = {}
  /\ \A p \in GoalInstalled \ D : MayGo(p, D, jobs, downgrade)

\* What the solver does when it can: the weak jobs, and the newest version of
\* an installonly package beside the installed ones when it is updated.
Hopes(jobs) ==
  {j.what : j \in {j \in JobsOf(jobs, "install") : j.weak}}
    \cup {{q} : q \in {q \in GoalPkgs : /\ Installonly(q) /\ ~GPkg[q].installed
                                       /\ GPkg[q].name \in NameOf(GoalInstalled)
                                       /\ \E j \in JobsOf(jobs, "update") \cup JobsOf(jobs, "distupgrade") :
                                            q \in j.what /\ \A r \in j.what : GPkg[r].name = GPkg[q].name =>
                                                                  GPkg[r].version <= GPkg[q].version}}

\* New packages are wanted by a job or needed by another package.
Wanted(D, jobs, hopes) ==
  \A q \in D \ GoalInstalled :
    \/ \E j \in JobsOf(jobs, "install") : j.what \cap D = {q}
    \/ \E h \in hopes : h \cap D = {q}
    \/ \E j \in JobsOf(jobs, "update") \cup JobsOf(jobs, "distupgrade") :
         q \in j.what /\ ~Installonly(q)
           /\ \E p \in GoalInstalled \ D : GPkg[p].name = GPkg[q].name \/ GPkg[p].name \in GPkg[q].obsoletes
    \/ \E p \in D : GPkg[q].name \in GPkg[p].requires

\* Any package set that obeys the jobs and gives up no hope it could keep.
Met(D, hopes) == {h \in hopes : h \cap D # {}}

Hopeful(all, hopes) ==
  LET reach == {Met(D, hopes) : D \in all}
  IN {D \in all : \A m \in reach : Met(D, hopes) \subseteq m => m = Met(D, hopes)}

SolutionsWith(jobs, hopes, downgrade, ignoreWeak) ==
  Hopeful({D \in Consistent : ObeysJobs(D, jobs, downgrade, ignoreWeak) /\ Wanted(D, jobs, hopes)}, hopes)

Solutions(jobs, downgrade, ignoreWeak) == SolutionsWith(jobs, Hopes(jobs), downgrade, ignoreWeak)

\* What a failed solver blames: requirements nothing is left to provide, two
\* versions of a name that are both wanted, or the jobs alone.
ProblemRules(jobs) ==
  LET gone == UNION {j.what : j \in JobsOf(jobs, "erase")}
      wanted == {p \in GoalPkgs : \E j \in JobsOf(jobs, "install") : j.what = {p}}
      left(n) == \E q \in GoalPkgs \ gone : GPkg[q].name = n
  IN {[type |-> "requires", source |-> p] :
        p \in {p \in (GoalInstalled \cup wanted) \ gone : \E n \in GPkg[p].requires : ~left(n)}}
     \cup {[type |-> "same_name", source |-> p] :
             p \in {p \in wanted : ~Installonly(p) /\ \E q \in wanted \ {p} : GPkg[q].name = GPkg[p].name}}

\* transaction_type: what happens to an installed package that goes.
Obsoleted(D) == {p \in GoalInstalled \ D : \E q \in D \ GoalInstalled : GPkg[p].name \in GPkg[q].obsoletes}
Erased(D) == {p \in GoalInstalled \ D : ~ReplacedIn(p, D)} \ Obsoleted(D)
Upgraded(D) == {q \in D \ GoalInstalled : \E p \in GoalInstalled \ D : ReplacedIn(p, D)
                                        /\ GPkg[p].name = GPkg[q].name /\ GPkg[q].version > GPkg[p].version}
Downgraded(D) == {q \in D \ GoalInstalled : \E p \in GoalInstalled \ D : ReplacedIn(p, D)
                                        /\ GPkg[p].name = GPkg[q].name /\ GPkg[q].version < GPkg[p].version}

-----------------------------------------------------------------------------
(* A run.                                                                   *)

KernelSet == IF RunningKernel = NoKernel THEN {} ELSE {RunningKernel}

\* allowUninstallAllButProtected: the running kernel joins the protected ones.
AllowUninstall(protected) == Job("allowuninstall", FALSE, GoalInstalled \ protected)

\* constructJob: with ALLOW_UNINSTALL every unprotected package may go.
ConstructJob(staging, protected, flags) ==
  staging \cup IF "ALLOW_UNINSTALL" \in flags THEN {AllowUninstall(protected)} ELSE {}

NeedsKernel(p) == RunningKernel # NoKernel /\ GPkg[RunningKernel].name \in GPkg[p].requires

\* sort_packages: available packages are kept first, then the running kernel
\* and what depends on it, then what has its version, then the newest.  Two
\* packages of one of the first classes compare as "after" both ways, so
\* their order is the sort's choice.
KeepClass(p) ==
  CASE ~GPkg[p].installed -> 3
    [] GPkg[p].installed /\ (p = RunningKernel \/ NeedsKernel(p)) -> 2
    [] GPkg[p].installed /\ RunningKernel # NoKernel /\ p # RunningKernel /\ ~NeedsKernel(p)
         /\ GPkg[p].evr = GPkg[RunningKernel].evr -> 1
    [] OTHER -> 0

Outranks(p, q) ==
  KeepClass(p) > KeepClass(q) \/ (KeepClass(p) = 0 /\ KeepClass(q) = 0 /\ GPkg[p].version > GPkg[q].version)

\* same_name_subqueue and the loop over it: which `limit` of the packages of a
\* name may be the first ones.
KeptChoices(S) ==
  {K \in SUBSET S : Cardinality(K) = InstallonlyLimit /\ \A p \in S \ K, k \in K : ~Outranks(p, k)}

\* limitInstallonlyPackages looks at each installonly provide by itself: has
\* the solution too many packages of it, one of them new, and too many of
\* one name?
Siblings(D, w) == {p \in D : w \in Onlies(p)}
Sides(D, over) == {p \in Siblings(D, over[1]) : GPkg[p].name = over[2]}

LimitNeeded(D, w) ==
  /\ InstallonlyLimit > 0
  /\ Cardinality(Siblings(D, w)) > InstallonlyLimit
  /\ \E p \in Siblings(D, w) : ~GPkg[p].installed

OverLimit(D) ==
  {over \in InstallonlyProvides \X NameOf(D) :
     LimitNeeded(D, over[1]) /\ Cardinality(Sides(D, over)) > InstallonlyLimit}

\* The job queues it may leave for solution D.
Limited(jobs, D) ==
  LET over == OverLimit(D)
      choices(o) == KeptChoices(Sides(D, o))
      picks == {f \in [over -> UNION {choices(o) : o \in over}] : \A o \in over : f[o] \in choices(o)}
      queue(f) == jobs \cup UNION {{Job(IF p \in f[o] THEN "install" ELSE "erase", FALSE, {p}) :
                                       p \in Sides(D, o)} : o \in over}
  IN IF over = {} THEN {jobs} ELSE {queue(f) : f \in picks}

ProtectedInRemovalsSlip(g, D) == Erased(D) \cap (g.protected \ KernelSet)

\* protectedInRemovals: the protected packages the transaction would remove.
ProtectedInRemovals(g, D) == (Erased(D) \cup Obsoleted(D)) \cap g.protected

Failed(g, jobs) ==
  [g EXCEPT !.trans = NoTrans, !.problems = 1, !.rules = ProblemRules(jobs), !.solv = TRUE]

\* The transaction is kept even when protected packages make the run fail;
\* with nothing protected, removalOfProtected keeps the value of an earlier run.
Decided(g, D) ==
  [g EXCEPT !.trans = [made |-> TRUE, result |-> D], !.problems = 0, !.rules = {}, !.solv = TRUE,
            !.removal = IF g.protected = {} THEN @ ELSE ProtectedInRemovals(g, D)]

\* solve(): the goals a run may leave.  A solver that fails returns before
\* removalOfProtected is set, which keeps the value of an earlier run.
SolvedOr(g, jobs, found) ==
  IF found = {} THEN {Failed(g, jobs)} ELSE {Decided(g, D) : D \in found}

SolveAgain(g, flags, queue) ==
  SolvedOr(g, queue, Solutions(queue \cup {AllowUninstall(g.protected)},
                               "ALLOW_DOWNGRADE" \in g.actions, "IGNORE_WEAK" \in flags))

SolvedFrom(g, flags, jobs, first) ==
  IF first = {} THEN {Failed(g, jobs)}
  ELSE UNION {UNION {IF queue = jobs THEN {Decided(g, D)} ELSE SolveAgain(g, flags, queue) :
                       queue \in Limited(jobs, D)} : D \in first}

SolveJobs(g, flags, jobs) ==
  SolvedFrom(g, flags, jobs,
             Solutions(jobs, "ALLOW_DOWNGRADE" \in g.actions, "IGNORE_WEAK" \in flags))

Solved(g, flags) == SolveJobs(g, flags, ConstructJob(g.staging, g.protected, flags))

\* run(flags): true, which means failure, when there are problems or a
\* protected package would go.
GoalFailed(g) == ~g.trans.made \/ ProtectedInRemovals(g, g.trans.result) # {}

GoalRun(flags) ==
  /\ goalRun.count < MaxRuns
  /\ LET before == [goal EXCEPT !.protected = @ \cup KernelSet, !.actions = @ \cup flags]
     IN \E g \in Solved(before, flags) :
          /\ goal' = g
          /\ goalRun' = [count |-> goalRun.count + 1, failed |-> GoalFailed(g),
                         protected |-> g.protected]

\* A clone has the jobs and the protected packages, neither solver nor result.
GoalClone ==
  /\ goal.solv
  /\ goal' = [goal EXCEPT !.trans = NoTrans, !.problems = 0, !.rules = {}, !.solv = FALSE]
  /\ goalRun' = [goalRun EXCEPT !.failed = FALSE]

-----------------------------------------------------------------------------
(* Results and problems.                                                    *)

\* listResults: a list, or why there is none.
ListResults(g, pkgs) ==
  IF g.trans.made THEN [error |-> "none", pkgs |-> pkgs]
  ELSE [error |-> IF ~g.solv THEN "no solv"
                  ELSE IF g.removal # {} THEN "protected" ELSE "no solution", pkgs |-> {}]

ListInstalls(g) ==
  LET D == g.trans.result IN ListResults(g, (D \ GoalInstalled) \ (Upgraded(D) \cup Downgraded(D)))

\* dnf_goal_get_packages: what the lists of these kinds hold together.
GoalGetPackages(g, infos) ==
  LET list(D, info) == CASE info = "REMOVE" -> Erased(D)
                         [] info = "OBSOLETE" -> Obsoleted(D)
                         [] info = "UPDATE" -> Upgraded(D)
                         [] info = "DOWNGRADE" -> Downgraded(D)
                         [] info = "INSTALL" -> ListInstalls(g).pkgs
  IN UNION {ListResults(g, list(g.trans.result, info)).pkgs : info \in infos}

CountProblems(g) == g.problems + IF g.removal = {} THEN 0 ELSE 1

\* brokenDependencyAllPkgs: the installed packages some problem calls broken.
BrokenDependencyAllPkgs(g) ==
  {p \in GoalInstalled : [type |-> "requires", source |-> p] \in g.rules}

\* describeProtectedRemoval: the protected packages that would go, else the
\* protected ones with broken dependencies.
DescribeProtectedRemoval(g) ==
  NameOf(IF g.removal # {} THEN g.removal ELSE BrokenDependencyAllPkgs(g) \cap g.protected)

\* describeProblemRules: that comes before anything libsolv has to say, and
\* in its place.
DescribeProblemRules(g, i) ==
  IF i >= CountProblems(g) THEN {}
  ELSE IF DescribeProtectedRemoval(g) # {} THEN DescribeProtectedRemoval(g)
  ELSE IF i < g.problems THEN {"libsolv"} ELSE {}

\* describeAllProblemRules: each distinct description, the empty ones left out.
DescribeAllProblemRules(g) ==
  {DescribeProblemRules(g, i) : i \in 0..(CountProblems(g) - 1)} \ {{}}

\* dnf_goal_depsolve: the error it reports, or the installs it goes on with.
Depsolve(g) ==
  IF GoalFailed(g) THEN [error |-> "PACKAGE_CONFLICTS",
                         lines |-> {DescribeProblemRules(g, i) : i \in 0..(CountProblems(g) - 1)}]
  ELSE [error |-> IF g.staging = {} THEN "NO_PACKAGES_TO_UPDATE" ELSE "none", lines |-> {}]

-----------------------------------------------------------------------------

GoalInit ==
  /\ goal = [staging |-> {}, actions |-> {}, protected |-> {}, removal |-> {},
             trans |-> NoTrans, problems |-> 0, rules |-> {}, solv |-> FALSE]
  /\ goalRun = [count |-> 0, failed |-> FALSE, protected |-> {}]

GoalStage ==
  \/ \E p \in AskedPkgs :
       \/ \E optional \in BOOLEAN : GoalInstall(p, optional)
       \/ GoalErase(p) \/ GoalUpgrade(p) \/ GoalDistupgrade(p) \/ GoalUserInstalled(p)
  \/ \E s \in GoalSelectors : \/ \E optional \in BOOLEAN : GoalInstallSelector(s, optional)
                              \/ GoalEraseSelector(s) \/ GoalUpgradeSelector(s) \/ GoalDistupgradeSelector(s)
  \/ GoalUpgradeAll \/ GoalDistupgradeAll

GoalNext ==
  \/ goalRun.count < MaxRuns /\ GoalStage
  \/ \E p \in ProtectedPkgs :
       /\ goalRun.count < MaxRuns
       /\ SetProtected({}) \/ SetProtected({p}) \/ AddProtected({p})
  \/ \E flags \in RunFlags : GoalRun(flags)
  \/ GoalClone

GoalSpec == GoalInit /\ [][GoalNext]_goalVars

GoalTypeOK ==
  /\ goal.trans.made => goal.solv /\ goal.trans.result \subseteq GoalPkgs
  /\ goal.problems \in 0..1 /\ goal.removal \subseteq GoalInstalled

(* A run that succeeds neither erases nor obsoletes a package that was      *)
(* protected when it ran, nor the running kernel, whatever the limit on     *)
(* installonly packages and the permission to uninstall made it give up.    *)
ProtectedSurvives ==
  goalRun.count > 0 /\ goal.trans.made /\ ~goalRun.failed =>
    (Erased(goal.trans.result) \cup Obsoleted(goal.trans.result))
      \cap (goalRun.protected \cup KernelSet) = {}

(* A run that succeeds and installs a package of an installonly provide      *)
(* leaves at most the limit of packages of that provide and its name.       *)
LimitKept ==
  goal.trans.made /\ ~goalRun.failed /\ InstallonlyLimit > 0 =>
    \A w \in InstallonlyProvides : \A q \in Siblings(goal.trans.result, w) \ GoalInstalled :
      Cardinality(Sides(goal.trans.result, <<w, GPkg[q].name>>)) <= InstallonlyLimit

(* A failed run is explained: depsolve reports at least one problem and     *)
(* none of them is empty; after a run that succeeded the lists that         *)
(* dnf_transaction_commit asks for hold every package that comes, and every *)
(* package that goes without a successor.                                   *)
FailureIsExplained ==
  goal.solv /\ goalRun.count > 0 =>
    IF goalRun.failed THEN CountProblems(goal) > 0 /\ {} \notin Depsolve(goal).lines
                         /\ DescribeAllProblemRules(goal) # {}
    ELSE /\ ListInstalls(goal).error = "none"
         /\ GoalGetPackages(goal, {"INSTALL", "UPDATE", "DOWNGRADE"}) = goal.trans.result \ GoalInstalled
         /\ (GoalInstalled \ goal.trans.result) \ GoalGetPackages(goal, {"REMOVE", "OBSOLETE"})
              \subseteq {p \in GoalInstalled : ReplacedIn(p, goal.trans.result)}

(* What Goal::run promises, together: nothing protected goes, the limit on  *)
(* installonly packages is kept, and the result says which of both it is,   *)
(* a transaction or an explained failure (Goal.cpp run, solve, limitInstallonly). *)
RunKeepsPromises == ProtectedSurvives /\ LimitKept /\ FailureIsExplained
===============================================================================
