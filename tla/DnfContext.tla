----------------------------- MODULE DnfContext -----------------------------
(***************************************************************************)
(* The context object of dnf-4 (dnf-4/libdnf/dnf-context.cpp) with its     *)
(* plugins (plugin/plugin.cpp) and its repository loader                   *)
(* (dnf-repo-loader.cpp): one thread that sets the context up, asks the    *)
(* loader for the repositories, marks packages and runs the goal, while    *)
(* other programs edit the .repo files.                                    *)
(*                                                                         *)
(* The loader keeps the parsed repositories until a file monitor reports a *)
(* change.  The monitor's callback runs in the thread's main loop, so      *)
(* between two calls and never during one; the files are read one by one,  *)
(* so another program may write between two reads.  With RHSM the refresh  *)
(* itself writes redhat.repo.                                              *)
(*                                                                         *)
(* Abstractions: a .repo file is a version number, 0 when it is missing    *)
(* and Broken when parsing it fails; a sack and the goal made for it are   *)
(* told apart by their place in the sequence of sacks.                     *)
(***************************************************************************)
EXTENDS Naturals, FiniteSets, Sequences, SequencesExt

CONSTANTS
    RepoFiles,      \* the .repo files, in the order the directory lists them
    RhsmFile,       \* the one that enrollment writes, or a value not in it
    Versions,       \* what other programs write into a .repo file
    Broken,         \* a version that cannot be parsed or set up
    RhsmVersion,    \* what the subscription asks redhat.repo to hold
    PluginSeq,      \* the plugins, in the order their files sort
    PluginsDisabled, PluginsEnabled,  \* what the patterns match
    MaxEdits,       \* bound: edits by other programs
    MaxSetups,      \* bound: calls of dnf_context_setup
    MaxSacks        \* bound: sacks created

ASSUME DnfContextAssumption ==
    /\ Broken \in Versions /\ 0 \notin Versions /\ RhsmVersion \notin Versions \cup {0}
    /\ {MaxEdits, MaxSetups, MaxSacks} \subseteq Nat
    /\ RepoFiles \in Seq(STRING)

VARIABLES
    repoFile,       \* repoFile[f]: the version on disk
    monitorEvent,   \* a change was noticed and its callback has not run
    ctxLoader,      \* DnfRepoLoader: loaded, repos; reading: files still to parse;
                    \* gone: files the refresh may have listed that were removed since
    enrollmentValid,
    ctx,            \* the rest of DnfContextPrivate, and what the thread does
    pluginHandle    \* the plugins that have a handle, in order

ctxVars == <<repoFile, monitorEvent, ctxLoader, enrollmentValid, ctx, pluginHandle>>

FileSet == ToSet(RepoFiles)

NoLoader == [made |-> FALSE, loaded |-> FALSE, repos |-> << >>, reading |-> << >>, gone |-> {}]

CtxTypeOK ==
    /\ repoFile \in [FileSet -> Versions \cup {0, RhsmVersion}]
    /\ monitorEvent \in BOOLEAN /\ enrollmentValid \in BOOLEAN
    /\ ctxLoader.loaded \in BOOLEAN
    /\ \A i \in DOMAIN ctxLoader.repos : ctxLoader.repos[i] \in FileSet \X (Versions \cup {RhsmVersion})
    /\ ctx.pc \in {"idle", "refresh", "setupRefresh", "adding"}
    /\ ctx.sack \in 0 .. MaxSacks /\ ctx.goal \in 0 .. MaxSacks
    /\ ToSet(pluginHandle) \subseteq ToSet(PluginSeq)

CtxInit ==
    /\ repoFile \in [FileSet -> Versions \cup {0}]
    /\ monitorEvent = FALSE
    /\ ctxLoader = NoLoader
    /\ enrollmentValid = FALSE
    /\ ctx = [pc |-> "idle", setups |-> 0, edits |-> 0, ready |-> FALSE,
              sack |-> 0, sacks |-> 0, goal |-> 0]
    /\ pluginHandle = << >>

-----------------------------------------------------------------------------
\* dnf_context_plugins_disable_enable: an enable pattern wins.
PluginOn(name) == name \notin PluginsDisabled \/ name \in PluginsEnabled

\* Plugins::init stops at the first plugin that gives no handle, and
\* dnf_context_setup ignores its result.
InitialisedPlugins(n) == SubSeq(SelectSeq(PluginSeq, PluginOn), 1, n)

-----------------------------------------------------------------------------
InvalidatedSlip(l) == [l EXCEPT !.reading = << >>]

\* dnf_repo_loader_invalidate.
Invalidated(l) == [l EXCEPT !.loaded = FALSE]

\* dnf_context_setup_enrollments: redhat.repo is written unless it already
\* has the content wanted; the loader's monitor notices the write.
Enrolled == [f \in FileSet |-> IF f = RhsmFile THEN RhsmVersion ELSE repoFile[f]]

SetupEnrollmentsSlip ==
    /\ repoFile' = Enrolled
    /\ monitorEvent' = (monitorEvent \/ RhsmFile \in FileSet)
    /\ enrollmentValid' = TRUE

SetupEnrollments ==
    /\ repoFile' = Enrolled
    /\ monitorEvent' = (monitorEvent \/ Enrolled # repoFile)
    /\ enrollmentValid' = TRUE

\* dnf_repo_loader_refresh starts: the plugins may refuse; the loader and the
\* enrollment are invalidated, the array is emptied (the context's repos is
\* the same array), redhat.repo is brought up to date.
RefreshStart(pc, l) ==
    /\ ctxLoader' = [Invalidated(l) EXCEPT !.repos = << >>, !.reading = RepoFiles, !.gone = {}]
    /\ ctx' = [ctx EXCEPT !.pc = pc]
    /\ SetupEnrollments
    /\ UNCHANGED pluginHandle

\* dnf_repo_loader_repo_parse of the next file, and of every section in it.  A
\* file that is missing is not listed, unless it was there when the directory
\* was read: then opening it fails, and with it the refresh.
RefreshParse ==
    /\ ctx.pc \in {"refresh", "setupRefresh"} /\ ctxLoader.reading # << >>
    /\ LET f == Head(ctxLoader.reading) IN
       \/ /\ repoFile[f] = 0
          /\ ctxLoader' = [ctxLoader EXCEPT !.reading = Tail(@)]
          /\ UNCHANGED ctx
       \/ /\ repoFile[f] = Broken \/ (repoFile[f] = 0 /\ f \in ctxLoader.gone)
          /\ ctxLoader' = [ctxLoader EXCEPT !.reading = << >>]
          /\ ctx' = [ctx EXCEPT !.pc = "idle"]
       \/ /\ repoFile[f] \notin {0, Broken}
          /\ ctxLoader' = [ctxLoader EXCEPT !.reading = Tail(@),
                                            !.repos = Append(@, <<f, repoFile[f]>>)]
          /\ UNCHANGED ctx
    /\ UNCHANGED <<repoFile, monitorEvent, enrollmentValid, pluginHandle>>

\* The removable media, the sort by cost, loaded; then the CONF hook when this
\* is dnf_context_setup, which has kept the array.
RefreshEnd ==
    /\ ctx.pc \in {"refresh", "setupRefresh"} /\ ctxLoader.reading = << >>
    /\ ctxLoader' = [ctxLoader EXCEPT !.loaded = TRUE]
    /\ ctx' = [ctx EXCEPT !.pc = "idle", !.ready = @ \/ ctx.pc = "setupRefresh"]
    /\ UNCHANGED <<repoFile, monitorEvent, enrollmentValid, pluginHandle>>

\* dnf_repo_loader_get_repos or dnf_repo_loader_get_repo_by_id.
GetRepos ==
    /\ ctx.pc = "idle" /\ ctxLoader.made /\ ~ ctxLoader.loaded
    /\ RefreshStart("refresh", ctxLoader)

\* The same call when redhat.repo cannot be saved: the array is empty by then.
RefreshFails ==
    /\ ctx.pc = "idle" /\ ctxLoader.made /\ ~ ctxLoader.loaded
    /\ Enrolled # repoFile
    /\ ctxLoader' = [Invalidated(ctxLoader) EXCEPT !.repos = << >>]
    /\ enrollmentValid' = FALSE
    /\ UNCHANGED <<repoFile, monitorEvent, ctx, pluginHandle>>

\* dnf_repo_loader_directory_changed_cb (and the callback for mounts).
MonitorCallback ==
    /\ ctx.pc = "idle" /\ monitorEvent
    /\ ctxLoader' = Invalidated(ctxLoader)
    /\ monitorEvent' = FALSE
    /\ enrollmentValid' = FALSE
    /\ UNCHANGED <<repoFile, ctx, pluginHandle>>

\* External: another program replaces a .repo file.
EditRepoFile(f, v) ==
    /\ ctx.edits < MaxEdits /\ repoFile[f] # v
    /\ repoFile' = [repoFile EXCEPT ![f] = v]
    /\ monitorEvent' = (monitorEvent \/ ctxLoader.made)
    /\ ctx' = [ctx EXCEPT !.edits = @ + 1]
    /\ ctxLoader' = [ctxLoader EXCEPT
                        !.gone = IF v = 0 /\ ctxLoader.reading # << >> THEN @ \cup {f} ELSE @]
    /\ UNCHANGED <<enrollmentValid, pluginHandle>>

-----------------------------------------------------------------------------
\* The loader of a new setup starts to read: the enrollment before it, skipped
\* when it is valid, is the last one that the new monitors cannot see.
SetupRefresh ==
    /\ ctxLoader' = [NoLoader EXCEPT !.made = TRUE, !.reading = RepoFiles]
    /\ ctx' = [ctx EXCEPT !.pc = "setupRefresh", !.setups = @ + 1, !.ready = FALSE]
    /\ repoFile' = Enrolled
    /\ monitorEvent' = (enrollmentValid /\ Enrolled # repoFile)
    /\ enrollmentValid' = TRUE

\* The new loader is there, but a plugin refuses its refresh or redhat.repo
\* cannot be saved.
SetupRefreshFails ==
    /\ ctxLoader' = [NoLoader EXCEPT !.made = TRUE]
    /\ ctx' = [ctx EXCEPT !.setups = @ + 1, !.ready = FALSE]
    /\ repoFile' = IF enrollmentValid THEN repoFile ELSE Enrolled
    /\ monitorEvent' = FALSE
    /\ enrollmentValid' \in BOOLEAN

\* dnf_context_setup up to dnf_repo_loader_get_repos.  Nothing looks at
\* whether it ran before: the plugins are loaded once more and a new loader
\* replaces the old one, whose monitors no longer matter.  Before that a
\* plugin's PRE_CONF hook may refuse, a directory cannot be made, or the
\* enrollment cannot be saved.
ContextSetup ==
    /\ ctx.pc = "idle" /\ ctx.setups < MaxSetups
    /\ \E n \in 0 .. Len(SelectSeq(PluginSeq, PluginOn)) :
          pluginHandle' = pluginHandle \o InitialisedPlugins(n)
    /\ \/ SetupRefresh
       \/ SetupRefreshFails
       \/ /\ ctx' = [ctx EXCEPT !.setups = @ + 1]
          /\ UNCHANGED <<repoFile, monitorEvent, enrollmentValid, ctxLoader>>

\* dnf_context_setup_sack_with_flags: the sack is stored before anything that
\* can fail, the goal is made last.
SetupSack(ok) ==
    [ctx EXCEPT !.sacks = @ + 1, !.sack = ctx.sacks + 1,
                !.goal = IF ok THEN ctx.sacks + 1 ELSE @]

\* dnf_context_install, _remove, _update, _update_all: a sack is set up when
\* there is none; then a job is added to the goal.
MarkPackage ==
    /\ ctx.pc = "idle" /\ ctx.ready
    /\ \/ ctx.sack # 0 /\ ctx' = [ctx EXCEPT !.pc = "adding"]
       \/ /\ ctx.sack = 0 /\ ctx.sacks < MaxSacks
          /\ \E ok \in BOOLEAN : ctx' = [SetupSack(ok) EXCEPT !.pc = IF ok THEN "adding" ELSE "idle"]
    /\ UNCHANGED <<repoFile, monitorEvent, ctxLoader, enrollmentValid, pluginHandle>>

AddJob ==
    /\ ctx.pc = "adding"
    /\ ctx' = [ctx EXCEPT !.pc = "idle"]
    /\ UNCHANGED <<repoFile, monitorEvent, ctxLoader, enrollmentValid, pluginHandle>>

\* dnf_context_run, whose steps DnfTransaction models: after success the sack
\* is dropped, after a failure it stays with its goal.
ContextRun ==
    /\ ctx.pc = "idle" /\ ctx.sack # 0 /\ ctx.goal # 0
    /\ \E ok \in BOOLEAN : ctx' = [ctx EXCEPT !.sack = IF ok THEN 0 ELSE @]
    /\ UNCHANGED <<repoFile, monitorEvent, ctxLoader, enrollmentValid, pluginHandle>>

CtxNext ==
    \/ ContextSetup
    \/ GetRepos
    \/ RefreshFails
    \/ RefreshParse
    \/ RefreshEnd
    \/ MonitorCallback
    \/ \E f \in FileSet, v \in Versions \cup {0} : EditRepoFile(f, v)
    \/ MarkPackage
    \/ AddJob
    \/ ContextRun

CtxSpec == CtxInit /\ [][CtxNext]_ctxVars

-----------------------------------------------------------------------------
\* The list holds what the first n .repo files say, in their order: `at' takes
\* it back to the files, and only the missing ones are left out.
Lists(repos, n, version) ==
    \E at \in [DOMAIN repos -> 1 .. n] :
       /\ \A j, k \in DOMAIN repos : j < k => at[j] < at[k]
       /\ \A i \in 1 .. n : version[RepoFiles[i]] # 0 => \E k \in DOMAIN repos : at[k] = i
       /\ \A k \in DOMAIN repos :
             /\ version[RepoFiles[at[k]]] # 0
             /\ repos[k] = <<RepoFiles[at[k]], version[RepoFiles[at[k]]]>>

\* A loader that calls itself loaded and has no callback due lists what the
\* files hold, although they are read one after another while others write
\* them and while the refresh itself writes redhat.repo
\* (dnf_repo_loader_refresh, dnf_repo_loader_directory_changed_cb).
LoaderFresh ==
    ctxLoader.loaded /\ ~ monitorEvent => Lists(ctxLoader.repos, Len(RepoFiles), repoFile)

\* Once other programs leave the .repo files alone, the repositories come to
\* rest: loaded for good, unless a file is broken or there is no loader.  The
\* refresh that writes redhat.repo must not wake itself up for ever
\* (dnf_context_setup_enrollments compares before it writes).
LoaderSettles ==
    <>[](ctxLoader.loaded \/ ~ ctxLoader.made \/ \E f \in FileSet : repoFile[f] = Broken)

=============================================================================
