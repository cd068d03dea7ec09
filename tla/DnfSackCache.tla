---------------------------- MODULE DnfSackCache ----------------------------
(***************************************************************************)
(* How a dnf-4 process fills its sack (dnf-4/libdnf/dnf-sack.cpp): the     *)
(* installed packages by dnf_sack_load_system_repo, then the enabled       *)
(* repositories by dnf_sack_add_repos, each through a cache of binary      *)
(* files that all processes share without a lock.                          *)
(*                                                                         *)
(* A binary file ends with a checksum.  For a repository it is the one of  *)
(* the repomd.xml; for the rpm database it is made of the device, inode,   *)
(* size and modification time of Packages, so it tells two databases apart *)
(* only as far as these do (StatMoves).  A file is opened once and read    *)
(* later through the descriptor; a new one is written under a temporary    *)
(* name and renamed.                                                       *)
(*                                                                         *)
(* A checksum is the version it was computed from; Junk is the array that  *)
(* the constructor of the repository leaves uninitialised.  dnf_repo_check *)
(* and dnf_repo_update (module DnfRepo), libsolv and rpm are external;     *)
(* what is considered and the index of provides are the subject of DnfSack *)
(* and SolvCache.                                                          *)
(***************************************************************************)
EXTENDS Integers, Sequences

CONSTANTS
    ScProcs,        \* the processes
    ScRepos,        \* the repositories given to dnf_sack_add_repos, in order
    ScSystem,       \* HY_SYSTEM_REPO_NAME
    ScMetadataOnly, \* the repositories enabled for their metadata only
    ScRequired,     \* dnf_repo_get_required
    ScUnavailable,  \* DNF_SACK_ADD_FLAG_UNAVAILABLE
    ScExts,         \* the extensions asked for, in the order of dnf_sack_load_repo
    ScOffered,      \* the extensions the repositories have
    ScBuildCache,   \* DNF_SACK_LOAD_FLAG_BUILD_CACHE, for the system repository
    StatMoves,      \* a change of the database changes what stat() tells
    MaxScVersion    \* bound: versions of the database and of a repository

ASSUME DnfSackCacheAssumption ==
    /\ MaxScVersion \in Nat \ {0}
    /\ ScRepos \in Seq({ScRepos[i] : i \in DOMAIN ScRepos})
    /\ ScExts \in Seq({ScExts[i] : i \in DOMAIN ScExts})
    /\ \A i \in DOMAIN ScRepos : ScRepos[i] # ScSystem

ScNone == 0
Junk == -1
ScPart == 0 .. Len(ScExts)      \* 0: the main file, k: the k-th extension
ScRepoSet == {ScRepos[i] : i \in DOMAIN ScRepos}
NoFile == [label |-> ScNone, content |-> ScNone]

VARIABLES
    rpmdb,      \* the database: what it holds and what stat() tells of it
    mdDisk,     \* the version of each repository's metadata on disk
    binary,     \* binary[r][k]: the cache file
    litter,     \* a temporary file was left behind
    sc          \* sc[p]: where p is, and its sack

scVars == <<rpmdb, mdDisk, binary, litter, sc>>

ScLoads == [ScRepoSet \cup {ScSystem} -> [ScPart -> Int]]
NothingLoaded == [r \in ScRepoSet \cup {ScSystem} |-> [k \in ScPart |-> ScNone]]

\* i: the repository; k: the part; fd: the cache file opened; sum: checksum of
\* the repository; md: the version its paths in memory name.
NewSack == [pc |-> "idle", i |-> 0, k |-> 0, fd |-> NoFile, sum |-> Junk, md |-> ScNone,
            pool |-> NothingLoaded, result |-> "none"]

ScStages == {"idle", "sysRead", "next", "check", "open", "read", "ext", "write"}

ScTypeOK ==
    /\ rpmdb \in [content : 1 .. MaxScVersion, stat : 1 .. MaxScVersion]
    /\ mdDisk \in [ScRepoSet -> 0 .. MaxScVersion]
    /\ litter \in BOOLEAN
    /\ \A p \in ScProcs : /\ sc[p].pc \in ScStages
                          /\ sc[p].pool \in ScLoads
                          /\ sc[p].sum \in {Junk} \cup 1 .. MaxScVersion
                          /\ sc[p].result \in {"none", "TRUE", "FALSE"}

ScInit ==
    /\ rpmdb = [content |-> 1, stat |-> 1]
    /\ mdDisk = [r \in ScRepoSet |-> 1]
    /\ binary = [r \in ScRepoSet \cup {ScSystem} |-> [k \in ScPart |-> NoFile]]
    /\ litter = FALSE
    /\ sc = [p \in ScProcs |-> NewSack]

Here(p) == IF sc[p].i = 0 THEN ScSystem ELSE ScRepos[sc[p].i]
ScBecomes(p, s) == sc' = [sc EXCEPT ![p] = s]
OnlySack == UNCHANGED <<rpmdb, mdDisk, binary, litter>>

\* The call returns FALSE; the sack keeps what was added.
ReturnFalse(p, s) == ScBecomes(p, [s EXCEPT !.pc = "idle", !.result = "FALSE"])

-----------------------------------------------------------------------------
\* The rest of the machine: rpm transactions, and other processes that
\* replace a repository's metadata (delete, then rename into place).

RpmdbChanges ==
    /\ rpmdb.content < MaxScVersion
    /\ rpmdb' = [content |-> rpmdb.content + 1,
                 stat |-> IF StatMoves THEN rpmdb.stat + 1 ELSE rpmdb.stat]
    /\ UNCHANGED <<mdDisk, binary, litter, sc>>

MetadataChanges(r) ==
    /\ mdDisk[r] < MaxScVersion
    /\ mdDisk' = [mdDisk EXCEPT ![r] = @ + 1]
    /\ UNCHANGED <<rpmdb, binary, litter, sc>>

-----------------------------------------------------------------------------
\* current_rpmdb_checksum with checksum_stat, and checksum_fp.
RpmdbChecksum == rpmdb.stat
RepomdChecksum(r) == mdDisk[r]

\* checksum_read and checksum_cmp on the opened file.
CanUseCache4(s) == s.fd.label # ScNone /\ s.fd.label = s.sum

\* The state after part k is in the pool.
WithPart(s, r, k, content) == [s EXCEPT !.pool[r][k] = content]

\* dnf_sack_load_system_repo: the cache is opened; the checksum of the
\* database is computed only if there is one, and that may fail.
LoadSystemRepo(p) ==
    /\ sc[p].pc = "idle" /\ sc[p].pool[ScSystem][0] = ScNone /\ sc[p].result # "FALSE"
    /\ \E ok \in BOOLEAN :
          ScBecomes(p, [sc[p] EXCEPT
              !.pc = "sysRead", !.i = 0, !.k = 0, !.fd = binary[ScSystem][0],
              !.sum = IF ok /\ binary[ScSystem][0] # NoFile THEN RpmdbChecksum ELSE Junk])
    /\ OnlySack

\* The rest of it up to write_main: from the cache when its checksum matches,
\* else from the database (repo_add_rpmdb_reffp); the repository is freed
\* when that fails.
ReadSystem(p) ==
    /\ sc[p].pc = "sysRead"
    /\ LET cached == CanUseCache4(sc[p])
           s == WithPart(sc[p], ScSystem, 0,
                         IF cached THEN sc[p].fd.content ELSE rpmdb.content)
       IN \/ ScBecomes(p, [s EXCEPT !.pc = IF cached \/ ~ ScBuildCache THEN "idle" ELSE "write"])
          \/ ReturnFalse(p, sc[p])
    /\ OnlySack

-----------------------------------------------------------------------------
\* dnf_sack_add_repos, called once the system repository is there.
AddRepos(p) ==
    /\ sc[p].pc = "idle" /\ sc[p].result = "none" /\ sc[p].pool[ScSystem][0] # ScNone
    /\ ScBecomes(p, [sc[p] EXCEPT !.pc = "next", !.i = 0])
    /\ OnlySack

\* The next repository; metadata-only ones count with FLAG_UNAVAILABLE only.
\* After the last, process_excludes and TRUE.
NextRepo(p) ==
    /\ sc[p].pc = "next"
    /\ ScBecomes(p, IF sc[p].i = Len(ScRepos)
                  THEN [sc[p] EXCEPT !.pc = "idle", !.result = "TRUE"]
                  ELSE [sc[p] EXCEPT !.i = @ + 1,
                           !.pc = IF ScRepos[sc[p].i + 1] \in ScMetadataOnly /\ ~ ScUnavailable
                                  THEN "next" ELSE "check"])
    /\ OnlySack

\* dnf_sack_add_repo up to the loading: dnf_repo_check, and a forced
\* dnf_repo_update when it fails.  A repository that is not required and
\* cannot be fetched is skipped, and so is one the check has disabled.
CheckRepo(p) ==
    /\ sc[p].pc = "check"
    /\ \/ ScBecomes(p, [sc[p] EXCEPT !.pc = "open", !.k = 0, !.md = mdDisk[Here(p)]])
          /\ UNCHANGED mdDisk
       \/ /\ mdDisk[Here(p)] < MaxScVersion
          /\ mdDisk' = [mdDisk EXCEPT ![Here(p)] = @ + 1]
          /\ ScBecomes(p, [sc[p] EXCEPT !.pc = "open", !.k = 0, !.md = mdDisk[Here(p)] + 1])
       \/ Here(p) \notin ScRequired /\ UNCHANGED mdDisk
          /\ ScBecomes(p, [sc[p] EXCEPT !.pc = "next"])
       \/ UNCHANGED mdDisk /\ ReturnFalse(p, sc[p])
    /\ UNCHANGED <<rpmdb, binary, litter>>

\* load_yum_repo: the cache and repomd.xml are opened, its checksum computed.
OpenRepo(p) ==
    /\ sc[p].pc = "open"
    /\ ScBecomes(p, [sc[p] EXCEPT !.pc = "read", !.fd = binary[Here(p)][0],
                                !.sum = RepomdChecksum(Here(p))])
    /\ OnlySack

\* Then the cache is added, or repomd.xml and the primary file at the path in
\* memory; assert(fp_primary) aborts the process when that file is gone.
ReadRepo(p) ==
    /\ sc[p].pc = "read"
    /\ LET cached == CanUseCache4(sc[p])
           content == IF cached THEN sc[p].fd.content ELSE sc[p].md
           s == WithPart(sc[p], Here(p), 0, content)
       IN \/ ~ cached /\ sc[p].md # mdDisk[Here(p)] /\ ScBecomes(p, NewSack)
          \/ /\ cached \/ sc[p].md = mdDisk[Here(p)]
             /\ \/ cached /\ ScBecomes(p, [s EXCEPT !.pc = "ext", !.k = 1])
                \/ ~ cached /\ ScBecomes(p, [s EXCEPT !.pc = "write"])
                \/ ReturnFalse(p, sc[p])
    /\ OnlySack

\* load_ext.  No path: NO_CAPABILITY, which dnf_sack_load_repo tolerates.  A
\* file that does not parse changes no state, and is not reported.
LoadExt(p) ==
    /\ sc[p].pc = "ext" /\ sc[p].k <= Len(ScExts)
    /\ LET k == sc[p].k
           file == binary[Here(p)][k]
           cached == file.label # ScNone /\ file.label = sc[p].sum
           past == [sc[p] EXCEPT !.k = @ + 1]
       IN IF ScExts[k] \notin ScOffered THEN ScBecomes(p, past)
          ELSE \/ cached /\ ScBecomes(p, WithPart(past, Here(p), k, file.content))
               \/ ~ cached /\ sc[p].md = mdDisk[Here(p)]
                  /\ \/ ScBecomes(p, past)
                     \/ ScBecomes(p, [WithPart(sc[p], Here(p), k, sc[p].md)
                                    EXCEPT !.pc = "write"])
               \/ (cached \/ sc[p].md # mdDisk[Here(p)]) /\ ReturnFalse(p, sc[p])
    /\ OnlySack

LoadRepoReturns(p) ==
    /\ sc[p].pc = "ext" /\ sc[p].k = Len(ScExts) + 1
    /\ ScBecomes(p, [sc[p] EXCEPT !.pc = "next"])
    /\ OnlySack

-----------------------------------------------------------------------------
\* The checksum is taken when the file is written.
PlaceSlip(p) == binary' = [binary EXCEPT ![Here(p)][sc[p].k] =
                    [label |-> IF sc[p].i = 0 THEN RpmdbChecksum ELSE sc[p].sum,
                     content |-> sc[p].pool[Here(p)][sc[p].k]]]

\* rename(): the file replaces the one before.
Place(p) == binary' = [binary EXCEPT ![Here(p)][sc[p].k] =
                          [label |-> sc[p].sum, content |-> sc[p].pool[Here(p)][sc[p].k]]]

Written4(p) ==
    ScBecomes(p, [sc[p] EXCEPT !.k = @ + 1, !.pc = IF sc[p].i = 0 THEN "idle" ELSE "ext"])

\* write_main and write_ext, with the rename and chmod of mv.
WriteSolv(p) ==
    /\ sc[p].pc = "write"
    /\ Place(p)
    /\ Written4(p) \/ ReturnFalse(p, sc[p])
    /\ UNCHANGED <<rpmdb, mdDisk, litter>>

\* No file is put in place: the temporary file cannot be made or written, or
\* the rename fails; write_ext removes it only in the second case.  write_main
\* may also fail to load the file it has just written, and has emptied the
\* repository by then.
WriteSolvFails(p) ==
    /\ sc[p].pc = "write"
    /\ \/ ReturnFalse(p, sc[p]) /\ UNCHANGED litter
       \/ ReturnFalse(p, sc[p]) /\ sc[p].k > 0 /\ litter' = TRUE
       \/ sc[p].k = 0 /\ UNCHANGED litter
          /\ ReturnFalse(p, WithPart(sc[p], Here(p), 0, ScNone))
    /\ UNCHANGED <<rpmdb, mdDisk, binary>>

\* The process ends or is killed; a temporary file it was writing stays.
SackProcessEnds(p) ==
    /\ sc[p] # NewSack
    /\ ScBecomes(p, NewSack)
    /\ litter' = (litter \/ sc[p].pc = "write")
    /\ UNCHANGED <<rpmdb, mdDisk, binary>>

SackStep(p) ==
    \/ LoadSystemRepo(p) \/ ReadSystem(p) \/ AddRepos(p) \/ NextRepo(p) \/ CheckRepo(p)
    \/ OpenRepo(p) \/ ReadRepo(p) \/ LoadExt(p) \/ LoadRepoReturns(p)
    \/ WriteSolv(p) \/ WriteSolvFails(p)

ScNext ==
    \/ RpmdbChanges
    \/ \E r \in ScRepoSet : MetadataChanges(r)
    \/ \E p \in ScProcs : SackStep(p) \/ SackProcessEnds(p)

ScSpec == ScInit /\ [][ScNext]_scVars

-----------------------------------------------------------------------------
\* A binary file never passes for something it was not made from: one whose
\* checksum is that of the database as it is now holds what the database holds
\* now, and one labelled with a repomd.xml holds that version, although the
\* checksum, the content and the rename of the file are taken at three times
\* and other processes and rpm act in between (dnf_sack_load_system_repo,
\* load_yum_repo, write_main, write_ext).
BinaryIsHonest ==
    /\ binary[ScSystem][0].label = rpmdb.stat => binary[ScSystem][0].content = rpmdb.content
    /\ \A r \in ScRepoSet, k \in ScPart :
          binary[r][k].label # ScNone => binary[r][k].content = binary[r][k].label
=============================================================================
