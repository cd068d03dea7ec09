------------------------------ MODULE DnfRepo ------------------------------
(***************************************************************************)
(* One repository as dnf-4 keeps it (dnf-4/libdnf/dnf-repo.cpp): the       *)
(* DnfRepo object each process has, the metadata directory on disk with    *)
(* its packages subdirectory, the temporary directory next to it, and the  *)
(* metadata lock.  dnf_repo_check looks at what is on disk;                *)
(* dnf_repo_update downloads into the temporary directory, then moves it   *)
(* into place; dnf_context_clean_cache (dnf-context.cpp) deletes parts.    *)
(*                                                                         *)
(* A directory tree is NoTree or [md, old, pkgs]: the timestamp of its     *)
(* complete metadata (0 when there is none), whether that is older than    *)
(* the permissible age, and whether packages/ is there.                    *)
(*                                                                         *)
(* librepo is external: a download gives metadata of any timestamp a       *)
(* mirror may still serve, or fails.  A process may die between any two    *)
(* steps.  The repository's configuration (the keyfile) does not change.   *)
(***************************************************************************)
EXTENDS DnfLock

CONSTANTS
    Kinds,          \* the DnfRepoKind values to try
    Updaters,       \* the processes that call dnf_repo_update
    Cleaners,       \* the processes that call dnf_context_clean_cache
    Stamps,         \* timestamps of the metadata that mirrors serve
    UpdateFlags,    \* sets of DnfRepoUpdateFlags to try
    HasKeys,        \* gpgkey is set and gpgcheck or repo_gpgcheck is on
    RepoRequired,   \* dnf_repo_get_required
    MaxUpdates,     \* bound: updates and cleanings by each process
    RepoThread      \* the thread that runs them

NoTree == [md |-> 0, old |-> FALSE, pkgs |-> FALSE, there |-> FALSE]
EmptyTree == [NoTree EXCEPT !.there = TRUE]
Trees == [md : {0} \cup Stamps, old : BOOLEAN, pkgs : BOOLEAN, there : BOOLEAN]

ASSUME DnfRepoAssumption ==
    /\ Kinds \subseteq {"REMOTE", "LOCAL", "MEDIA"}
    /\ Updaters \cup Cleaners \subseteq Procs
    /\ Stamps \subseteq Nat \ {0}
    /\ "metadata" \in LockTypes /\ RepoThread \in Threads
    /\ RepoRequired \in BOOLEAN

VARIABLES
    repoKind,       \* priv->kind
    location,       \* the tree at priv->location
    locationTmp,    \* the tree at priv->location_tmp
    rp              \* rp[p]: p's DnfRepo object and where p is

repoVars == <<repoKind, location, locationTmp, rp>>

\* generated: timestamp_generated; md: the metadata the HyRepo's paths name;
\* err: last_check_error; seen: what p's last check or update met on disk.
NewRepo == [pc |-> "idle", flags |-> {}, generated |-> 0, md |-> 0, err |-> FALSE,
            enabled |-> TRUE, stampNew |-> 0, ids |-> {}, ret |-> FALSE,
            updates |-> 0, seen |-> 0]

RepoStages == {"idle", "checked", "locked", "prepared", "downloaded", "switch", "moved",
               "cleaned", "installed", "out", "cleanChecked", "cleanLocked", "dead"}

RepoTypeOK ==
    /\ repoKind \in Kinds
    /\ location \in Trees /\ locationTmp \in Trees
    /\ \A p \in Procs : /\ rp[p].pc \in RepoStages
                        /\ {rp[p].generated, rp[p].md, rp[p].stampNew} \subseteq {0} \cup Stamps
                        /\ rp[p].flags \in UpdateFlags \cup {{}}

RepoInit ==
    /\ repoKind \in Kinds
    /\ location \in {NoTree} \cup {[md |-> s, old |-> FALSE, pkgs |-> b, there |-> TRUE] :
                                      s \in Stamps, b \in BOOLEAN}
    /\ locationTmp = NoTree
    /\ rp = [p \in Procs |-> NewRepo]

-----------------------------------------------------------------------------
Disk == <<repoKind, location, locationTmp>>
RGoto(p, pc) == rp' = [rp EXCEPT ![p].pc = pc]
RReturn(p, ok) == rp' = [rp EXCEPT ![p].pc = "out", ![p].ret = ok]

\* dnf_repo_check_internal on object o: what dnf_repo_check leaves in it.
\* The timestamp is taken over before the age is looked at.
CheckedSlip(o, limited) ==
    IF ~ location.there \/ location.md = 0 THEN [o EXCEPT !.err = TRUE]
    ELSE IF repoKind # "LOCAL" /\ limited /\ location.old THEN [o EXCEPT !.err = TRUE]
         ELSE [o EXCEPT !.err = FALSE, !.generated = location.md, !.md = location.md]

Checked(o, limited) ==
    IF ~ location.there /\ repoKind # "REMOTE"
    THEN [o EXCEPT !.err = TRUE, !.enabled = @ /\ RepoRequired]
    ELSE IF ~ location.there \/ location.md = 0
    THEN [o EXCEPT !.err = TRUE]
    ELSE IF repoKind # "LOCAL" /\ limited /\ location.old
    THEN [o EXCEPT !.err = TRUE, !.generated = location.md]
    ELSE [o EXCEPT !.err = FALSE, !.generated = location.md, !.md = location.md]

NoteSeen(o) == IF location.md # 0 THEN [o EXCEPT !.seen = location.md] ELSE o

\* dnf_repo_check with a permissible cache age.
RepoCheck(p) ==
    /\ rp[p].pc = "idle"
    /\ rp' = [rp EXCEPT ![p] = NoteSeen(Checked(@, TRUE))]
    /\ UNCHANGED <<lockVars, Disk>>

\* What dnf_state_release_locks, or the destruction of the state of an earlier
\* call, does with the lock the object lists.
Released(p) ==
    IF rp[p].ids = {} THEN [file |-> lockFile, items |-> lockItems[p], ok |-> TRUE]
    ELSE Release(lockFile, lockItems[p], RepoThread, CHOOSE i \in rp[p].ids : TRUE)

ReleaseMetadataLock(p) ==
    /\ lockFile' = Released(p).file
    /\ lockItems' = [lockItems EXCEPT ![p] = Released(p).items]
    /\ UNCHANGED <<lockNextId, lockAlive>>

\* dnf_repo_update on a repository that is not remote: media cannot be
\* updated, a local one repeats the result of its last check.
UpdateNotRemote(p) ==
    /\ p \in Updaters /\ rp[p].pc = "idle" /\ repoKind # "REMOTE"
    /\ rp' = [rp EXCEPT ![p].ret = repoKind = "LOCAL" /\ ~ rp[p].err]
    /\ UNCHANGED <<lockVars, Disk>>

\* dnf_repo_update begins with a fresh state: keyfile data, the countme flag,
\* and dnf_state_take_lock looks at the lock file.  No lock: goto out.
UpdateStart(p, flags) ==
    /\ p \in Updaters /\ rp[p].pc = "idle" /\ repoKind = "REMOTE"
    /\ rp[p].updates < MaxUpdates
    /\ NeedsFile(p, "metadata", "process") /\ rp[p].ids = {}
    /\ rp' = [rp EXCEPT ![p].pc = IF FileFree("metadata") THEN "checked" ELSE "out",
                        ![p].ret = FALSE, ![p].flags = flags,
                        ![p].updates = @ + 1]
    /\ UNCHANGED <<lockVars, Disk>>

\* ... and writes it.
UpdateTakeLock(p) ==
    /\ rp[p].pc = "checked"
    /\ CreateItem(p, RepoThread, "metadata", "process")
    /\ rp' = [rp EXCEPT ![p].pc = "locked", ![p].ids = {TakenId(p, "metadata", "process")}]
    /\ UNCHANGED Disk

\* The state of a cancelled update is destroyed before the next call: the lock
\* it kept is released (an item whose file was gone stays behind).
UpdateForgetState(p) ==
    /\ rp[p].pc = "idle" /\ rp[p].ids # {}
    /\ ReleaseMetadataLock(p)
    /\ rp' = [rp EXCEPT ![p].ids = {}]
    /\ UNCHANGED Disk

\* The item of an earlier call is still there: it is counted again.
UpdateTakeAgain(p, flags) ==
    /\ p \in Updaters /\ rp[p].pc = "idle" /\ repoKind = "REMOTE"
    /\ rp[p].updates < MaxUpdates /\ rp[p].ids = {}
    /\ TakeAgain(p, RepoThread, "metadata", "process")
    /\ rp' = [rp EXCEPT ![p].pc = "locked", ![p].ids = {TakenId(p, "metadata", "process")},
                        ![p].ret = FALSE, ![p].flags = flags,
                        ![p].updates = @ + 1]
    /\ UNCHANGED Disk

\* dnf_repo_download_import_public_key and dnf_repo_add_public_key for each key
\* of the repository, into the temporary directory: they may fail.
ImportPublicKeys(p) == RGoto(p, "prepared") \/ (HasKeys /\ RReturn(p, FALSE))

\* A new temporary directory, then the public keys.
UpdatePrepare(p) ==
    /\ rp[p].pc = "locked"
    /\ locationTmp' = EmptyTree
    /\ ImportPublicKeys(p)
    /\ UNCHANGED <<lockVars, repoKind, location>>

\* lr_handle_perform: complete metadata in the temporary directory, or an
\* error; a directory that another process removed meanwhile is an error too.
UpdateDownload(p) ==
    /\ rp[p].pc = "prepared"
    /\ \/ /\ locationTmp.there
          /\ \E s \in Stamps : /\ locationTmp' = [locationTmp EXCEPT !.md = s]
                               /\ rp' = [rp EXCEPT ![p].pc = "downloaded", ![p].stampNew = s]
       \/ RReturn(p, FALSE) /\ UNCHANGED locationTmp
    /\ UNCHANGED <<lockVars, repoKind, location>>

Older(p) == "FORCE" \notin rp[p].flags /\ rp[p].stampNew < rp[p].generated

\* Metadata older than what the object knows is ignored: success, the
\* temporary directory stays.  A cancelled state returns at once, with the
\* lock.  With SIMULATE the temporary directory is removed.
UpdateDecide(p) ==
    /\ rp[p].pc = "downloaded"
    /\ \/ /\ Older(p)
          /\ \/ RReturn(p, TRUE)
             \/ rp' = [rp EXCEPT ![p].pc = "idle", ![p].ret = FALSE]
          /\ UNCHANGED locationTmp
       \/ /\ ~ Older(p) /\ "SIMULATE" \in rp[p].flags
          /\ RReturn(p, locationTmp.there)
          /\ locationTmp' = NoTree
       \/ /\ ~ Older(p) /\ "SIMULATE" \notin rp[p].flags
          /\ RGoto(p, "switch")
          /\ UNCHANGED locationTmp
    /\ UNCHANGED <<lockVars, repoKind, location>>

\* packages/ moves into the temporary directory (rename; its copying fallback
\* needs the target's parent as well).
UpdateMovePackages(p) ==
    /\ rp[p].pc = "switch"
    /\ \/ ~ location.pkgs /\ RGoto(p, "moved") /\ UNCHANGED <<location, locationTmp>>
       \/ /\ location.pkgs /\ locationTmp.there
          /\ location' = [location EXCEPT !.pkgs = FALSE]
          /\ locationTmp' = [locationTmp EXCEPT !.pkgs = TRUE]
          /\ RGoto(p, "moved")
       \/ location.pkgs /\ ~ locationTmp.there /\ RReturn(p, FALSE)
          /\ UNCHANGED <<location, locationTmp>>
    /\ UNCHANGED <<lockVars, repoKind>>

\* dnf_remove_recursive: a tree that is there goes, or the removal stops
\* half-way, when the metadata is no longer complete.
RemoveRecursive(tree) ==
    {[tree |-> NoTree, ok |-> TRUE]} \cup
    (IF tree.there THEN {[tree |-> [tree EXCEPT !.md = 0], ok |-> FALSE]} ELSE {})

\* dnf_repo_clean removes the old directory.
UpdateClean(p) ==
    /\ rp[p].pc = "moved"
    /\ \E r \in RemoveRecursive(location) :
          /\ location' = r.tree
          /\ IF r.ok THEN RGoto(p, "cleaned") ELSE RReturn(p, FALSE)
    /\ UNCHANGED <<lockVars, repoKind, locationTmp>>

\* dnf_move_recursive renames; that, and the copy it falls back on, fails when
\* there is nothing to move or something is in the way.
CanMove(src, dst) == src.there /\ ~ dst.there

\* The temporary directory becomes the repository's.
UpdateMove(p) ==
    /\ rp[p].pc = "cleaned"
    /\ IF CanMove(locationTmp, location)
       THEN location' = locationTmp /\ locationTmp' = NoTree /\ RGoto(p, "installed")
       ELSE RReturn(p, FALSE) /\ UNCHANGED <<location, locationTmp>>
    /\ UNCHANGED <<lockVars, repoKind>>

\* dnf_repo_check(G_MAXUINT) reads the new metadata into the object.
UpdateCheck(p) ==
    /\ rp[p].pc = "installed"
    /\ LET o == Checked(rp[p], FALSE) IN
       rp' = [rp EXCEPT ![p] = [o EXCEPT !.pc = "out", !.ret = ~ o.err]]
    /\ UNCHANGED <<lockVars, Disk>>

\* The label out: after a failure the temporary directory is removed,
\* whoever made it; then the locks of the state are released.
UpdateOut(p) ==
    /\ rp[p].pc = "out"
    /\ locationTmp' = IF rp[p].ret THEN locationTmp ELSE NoTree
    /\ ReleaseMetadataLock(p)
    /\ rp' = [rp EXCEPT ![p].pc = "idle", ![p].ids = IF Released(p).ok THEN {} ELSE @,
                        ![p].seen = IF rp[p].ret THEN rp[p].generated ELSE @]
    /\ UNCHANGED <<repoKind, location>>

-----------------------------------------------------------------------------
\* dnf_context_clean_cache with CLEAN_ALL removes the cache directory, lock or
\* no lock.
CleanAll(p) ==
    /\ p \in Cleaners /\ rp[p].pc = "idle" /\ rp[p].updates < MaxUpdates
    /\ location' = (IF repoKind = "REMOTE" THEN NoTree ELSE location)
    /\ locationTmp' = NoTree
    /\ rp' = [rp EXCEPT ![p].updates = @ + 1]
    /\ UNCHANGED <<lockVars, repoKind>>

\* Otherwise dnf_lock_take, in two steps, ...
CleanCheckLock(p) ==
    /\ p \in Cleaners /\ rp[p].pc = "idle" /\ rp[p].updates < MaxUpdates
    /\ NeedsFile(p, "metadata", "process") /\ FileFree("metadata")
    /\ rp' = [rp EXCEPT ![p].pc = "cleanChecked", ![p].updates = @ + 1]
    /\ UNCHANGED <<lockVars, Disk>>

CleanTakeLock(p) ==
    /\ rp[p].pc = "cleanChecked"
    /\ CreateItem(p, RepoThread, "metadata", "process")
    /\ rp' = [rp EXCEPT ![p].pc = "cleanLocked", ![p].ids = {TakenId(p, "metadata", "process")}]
    /\ UNCHANGED Disk

\* dnf_delete_files_matching: what the suffix names goes, anywhere in the tree
\* (packages; metalink.xml and repodata, or repomd.xml: the metadata).
DeleteFilesMatching(tree, what) ==
    IF what = "packages" THEN [tree EXCEPT !.pkgs = FALSE] ELSE [tree EXCEPT !.md = 0]

\* ... the files that the flags name, and the release.
CleanFiles(p, what) ==
    /\ rp[p].pc = "cleanLocked"
    /\ location' = IF repoKind # "REMOTE" THEN location ELSE DeleteFilesMatching(location, what)
    /\ ReleaseMetadataLock(p)
    /\ rp' = [rp EXCEPT ![p].pc = "idle", ![p].ids = {}]
    /\ UNCHANGED <<repoKind, locationTmp>>

-----------------------------------------------------------------------------
\* External: time passes, a medium is removed, a process is killed.
RepoGrowsOld ==
    /\ location.md # 0 /\ ~ location.old
    /\ location' = [location EXCEPT !.old = TRUE]
    /\ UNCHANGED <<lockVars, repoKind, locationTmp, rp>>

RepoVanishes ==
    /\ repoKind # "REMOTE" /\ location.there
    /\ location' = NoTree
    /\ UNCHANGED <<lockVars, repoKind, locationTmp, rp>>

RepoCrash(p) ==
    /\ rp[p].pc # "dead"
    /\ LockCrash(p)
    /\ rp' = [rp EXCEPT ![p] = [NewRepo EXCEPT !.pc = "dead"]]
    /\ UNCHANGED Disk

RepoStep(p) ==
    \/ RepoCheck(p)
    \/ UpdateNotRemote(p)
    \/ \E flags \in UpdateFlags : UpdateStart(p, flags) \/ UpdateTakeAgain(p, flags)
    \/ UpdateTakeLock(p)
    \/ UpdateForgetState(p)
    \/ UpdatePrepare(p)
    \/ UpdateDownload(p)
    \/ UpdateDecide(p)
    \/ UpdateMovePackages(p)
    \/ UpdateClean(p)
    \/ UpdateMove(p)
    \/ UpdateCheck(p)
    \/ UpdateOut(p)
    \/ CleanAll(p)
    \/ CleanCheckLock(p)
    \/ CleanTakeLock(p)
    \/ \E what \in {"packages", "metadata"} : CleanFiles(p, what)
    \/ RepoCrash(p)

RepoNext == (\E p \in Procs : RepoStep(p)) \/ RepoGrowsOld \/ RepoVanishes

RepoSpec == LockInit /\ RepoInit /\ [][RepoNext]_<<lockVars, repoVars>>

-----------------------------------------------------------------------------
\* While one process updates and others only read or clean, an update without
\* FORCE that reports success never leaves the object with metadata older than
\* what this process last met on disk, however stale the mirrors are and even
\* when the last check failed because of the age (dnf_repo_check_internal
\* takes the timestamp before it looks at the age; dnf_repo_update compares).
NoRollback ==
    \A p \in Procs :
        rp[p].pc = "out" /\ rp[p].ret /\ "FORCE" \notin rp[p].flags
           => rp[p].generated >= rp[p].seen

=============================================================================
