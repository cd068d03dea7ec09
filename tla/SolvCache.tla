------------------------------ MODULE SolvCache ------------------------------
(***************************************************************************)
(* libdnf/rpm/solv_sack.cpp: loading a repository into the pool through    *)
(* the cache of binary files, <id>.solv for the main metadata and          *)
(* <id><suffix>.solvx for each extension.  A binary file ends with the     *)
(* checksum of the repomd.xml it was made from, and is used when that      *)
(* checksum is the one of the repomd.xml on disk.  The processes share the *)
(* binary files and the downloaded metadata, without a lock; Refresh*      *)
(* stand for Repo::load() of any other process (module RepoMetadata).      *)
(*                                                                         *)
(* Data abstraction.  A file is the version of the metadata it was made    *)
(* from; a checksum of repomd.xml is that repomd.xml's version.            *)
(***************************************************************************)
EXTENDS Naturals, Sequences

CONSTANTS
    Proc,         \* processes with a SolvSack
    MaxVersion,   \* bound: versions of the metadata
    Exts,         \* the extensions load_repo() is asked for, in the code's order
    Offered,      \* the extensions the repository has metadata for
    BuildCache,   \* option build_cache
    ParseErrors,  \* whether the metadata of an extension may fail to parse
    OneRefresher, \* whether processes refresh the metadata one at a time
    LoadTwice     \* whether load_repo() is called again for a loaded repository

ASSUME SolvCacheAssumption ==
    /\ MaxVersion \in Nat \ {0}
    /\ Exts \in Seq(STRING)
    /\ \A j, k \in 1 .. Len(Exts) : j # k => Exts[j] # Exts[k]
    /\ BuildCache \in BOOLEAN
    /\ ParseErrors \in BOOLEAN
    /\ OneRefresher \in BOOLEAN
    /\ LoadTwice \in BOOLEAN

Version == 1 .. MaxVersion
None    == 0                \* no file, nothing loaded
Mixed   == MaxVersion + 1   \* repodata of something else than the label says
Part    == 0 .. Len(Exts)   \* 0: the main metadata, k: the k-th extension
Main    == 0

VARIABLES
    repomd,     \* version of repomd.xml on disk, None while it is replaced
    files,      \* per version, the metadata files on disk
    latest,     \* newest version installed so far
    solv,       \* per part, the binary file: checksum and content
    md,         \* version whose paths are in the Repo object of the process
    pc,         \* where its load_repo() or make_provides_ready() is
    part,       \* the part it is at
    checksum,   \* libsolv_repo_ext.checksum
    info,       \* repodata_info.state after load_repo_ext()
    pool,       \* per part, the version in the pool
    attached,   \* libsolv_repo_ext.repo is set
    stray,      \* a libsolv repository nobody owns is left in the pool
    ready,      \* provides_ready
    provides    \* what pool_createwhatprovides() has seen of the pool

disk == <<repomd, files, latest>>
proc == <<md, pc, part, checksum, info, pool, attached, stray, ready, provides>>
vars == <<disk, solv, proc>>

PC == {"idle", "checksum", "main", "write", "ext", "rewrite"}

Empty     == [k \in Part |-> None]
Contents  == [parts : [Part -> 0 .. MaxVersion + 1], stray : BOOLEAN]
Content(p) == [parts |-> pool[p], stray |-> stray[p]]

TypeOK ==
    /\ repomd \in {None} \cup Version
    /\ files \in [Version -> SUBSET Part]
    /\ latest \in Version
    /\ solv \in [Part -> [cs : {None} \cup Version, content : 0 .. MaxVersion + 1]]
    /\ md \in [Proc -> {None} \cup Version]
    /\ pc \in [Proc -> PC]
    /\ part \in [Proc -> 0 .. Len(Exts) + 1]
    /\ checksum \in [Proc -> {None} \cup Version]
    /\ info \in [Proc -> {"LOADED_FETCH", "LOADED_CACHE", "garbage"}]
    /\ pool \in [Proc -> [Part -> 0 .. MaxVersion + 1]]
    /\ attached \in [Proc -> BOOLEAN]
    /\ stray \in [Proc -> BOOLEAN]
    /\ ready \in [Proc -> BOOLEAN]
    /\ provides \in [Proc -> Contents]

\* the metadata files of a version: primary and the offered extensions
FilesOf == {k \in Part : k = Main \/ Exts[k] \in Offered}

Init ==
    /\ repomd = 1
    /\ files = [v \in Version |-> IF v = 1 THEN FilesOf ELSE {}]
    /\ latest = 1
    /\ solv = [k \in Part |-> [cs |-> None, content |-> None]]
    /\ md = [p \in Proc |-> None]
    /\ pc = [p \in Proc |-> "idle"]
    /\ part = [p \in Proc |-> Main]
    /\ checksum = [p \in Proc |-> None]
    /\ info = [p \in Proc |-> "LOADED_CACHE"]
    /\ pool = [p \in Proc |-> Empty]
    /\ attached = [p \in Proc |-> FALSE]
    /\ stray = [p \in Proc |-> FALSE]
    /\ ready = [p \in Proc |-> FALSE]
    /\ provides = [p \in Proc |-> [parts |-> Empty, stray |-> FALSE]]

-----------------------------------------------------------------------------
\* Repo::load() by someone (RepoMetadata): the files go one by one, in any
\* order; the new set comes by one rename() into the empty directory.

RefreshRemoves ==
    /\ \/ /\ repomd # None
          /\ repomd' = None
          /\ UNCHANGED files
       \/ \E v \in Version : \E f \in files[v] :
            /\ files' = [files EXCEPT ![v] = @ \ {f}]
            /\ UNCHANGED repomd
    /\ UNCHANGED <<latest, solv, proc>>

RefreshInstalls ==
    /\ repomd = None
    /\ \A v \in Version : files[v] = {}
    /\ \E v \in Version :
         /\ v > latest
         /\ repomd' = v
         /\ files' = [files EXCEPT ![v] = FilesOf]
         /\ latest' = v
    /\ UNCHANGED <<solv, proc>>

\* two refreshers at once: a set older than the newest may come back, and the
\* copy that replaces a failed rename() adds to files that are left
RefreshRaces ==
    /\ ~OneRefresher
    /\ repomd = None
    /\ \E v \in Version :
         /\ v <= latest
         /\ files[v] = {}
         /\ repomd' = v
         /\ files' = [files EXCEPT ![v] = FilesOf]
    /\ UNCHANGED <<latest, solv, proc>>

\* Repo::load() of this process: the paths of a complete set come into memory
LoadMetadata(p) ==
    /\ pc[p] = "idle"
    /\ repomd # None /\ files[repomd] = FilesOf
    /\ md[p] # repomd
    /\ md' = [md EXCEPT ![p] = repomd]
    /\ UNCHANGED <<disk, solv, pc, part, checksum, info, pool, attached, stray, ready, provides>>

-----------------------------------------------------------------------------
\* load_repo_main()

Goto(p, step) == pc' = [pc EXCEPT ![p] = step]

ExtNow(p) == pc[p] = "ext" /\ part[p] \in 1 .. Len(Exts)

LoadRepo(p) ==
    /\ pc[p] = "idle" /\ md[p] # None
    /\ ~attached[p] \/ LoadTwice
    /\ Goto(p, "checksum")
    /\ UNCHANGED <<disk, solv, md, part, checksum, info, pool, attached, stray, ready, provides>>

\* the repomd.xml now on disk is opened and its checksum computed
ReadChecksum(p) ==
    /\ pc[p] = "checksum"
    /\ IF repomd = None
         THEN Goto(p, "idle") /\ UNCHANGED checksum
         ELSE Goto(p, "main") /\ checksum' = [checksum EXCEPT ![p] = repomd]
    /\ UNCHANGED <<disk, solv, md, part, info, pool, attached, stray, ready, provides>>

\* slip: any binary file is good enough
UsableIfThere(p, k) == solv[k].cs # None

\* can_use_repomd_cache()
CanUseCache(p, k) == solv[k].cs = checksum[p] /\ solv[k].cs # None

Abort(p) ==
    /\ md' = [md EXCEPT ![p] = None]
    /\ pc' = [pc EXCEPT ![p] = "idle"]
    /\ part' = [part EXCEPT ![p] = Main]
    /\ checksum' = [checksum EXCEPT ![p] = None]
    /\ info' = [info EXCEPT ![p] = "LOADED_CACHE"]
    /\ pool' = [pool EXCEPT ![p] = Empty]
    /\ attached' = [attached EXCEPT ![p] = FALSE]
    /\ stray' = [stray EXCEPT ![p] = FALSE]
    /\ ready' = [ready EXCEPT ![p] = FALSE]
    /\ provides' = [provides EXCEPT ![p] = [parts |-> Empty, stray |-> FALSE]]

\* slip: provides_ready is left as it is
AttachStaysReady(p, v, next, step) ==
    /\ pool' = [pool EXCEPT ![p][Main] = v]
    /\ attached' = [attached EXCEPT ![p] = TRUE]
    /\ part' = [part EXCEPT ![p] = next]
    /\ Goto(p, step)
    /\ UNCHANGED <<md, checksum, info, stray, ready, provides>>

\* the end of load_repo_main(): attach_libsolv_repo() throws when a repository is
\* attached already, and the new one, released by its owner, stays in the pool
Attach(p, v, next, step) ==
    /\ IF attached[p]
         THEN /\ stray' = [stray EXCEPT ![p] = TRUE]
              /\ Goto(p, "idle")
              /\ UNCHANGED <<part, pool, attached, ready>>
         ELSE /\ pool' = [pool EXCEPT ![p][Main] = v]
              /\ attached' = [attached EXCEPT ![p] = TRUE]
              /\ ready' = [ready EXCEPT ![p] = FALSE]
              /\ part' = [part EXCEPT ![p] = next]
              /\ Goto(p, step)
              /\ UNCHANGED stray
    /\ UNCHANGED <<md, checksum, info, provides>>

MainFromCache(p) ==
    /\ pc[p] = "main"
    /\ CanUseCache(p, Main)
    /\ Attach(p, solv[Main].content, 1, "ext")
    /\ UNCHANGED <<disk, solv>>

\* repo_add_repomdxml() reads the opened repomd.xml, repo_add_rpmmd() the primary
\* file whose path is in memory
MainFromMetadata(p) ==
    /\ pc[p] = "main"
    /\ ~CanUseCache(p, Main)
    /\ Main \in files[md[p]]
    /\ LET v == IF md[p] = checksum[p] THEN md[p] ELSE Mixed IN
         IF BuildCache THEN Attach(p, v, Main, "write") ELSE Attach(p, v, 1, "ext")
    /\ UNCHANGED <<disk, solv>>

\* repo_add_repomdxml() or repo_add_rpmmd() fails: the new libsolv repository is freed
MainParseFails(p) ==
    /\ ParseErrors
    /\ pc[p] = "main"
    /\ ~CanUseCache(p, Main) /\ Main \in files[md[p]]
    /\ Goto(p, "idle")
    /\ UNCHANGED <<disk, solv, md, part, checksum, info, pool, attached, stray, ready, provides>>

\* repo_add_solv() fails on a binary file that ends with the right checksum
CacheReadFails(p) ==
    /\ \/ pc[p] = "main" /\ CanUseCache(p, Main)
       \/ ExtNow(p) /\ Exts[part[p]] \in Offered /\ CanUseCache(p, part[p])
    /\ Goto(p, "idle")
    /\ UNCHANGED <<disk, solv, md, part, checksum, info, pool, attached, stray, ready, provides>>

\* assert(fp_primary) fails: the file went away after repomd.xml was read
PrimaryMissing(p) ==
    /\ pc[p] = "main"
    /\ ~CanUseCache(p, Main)
    /\ Main \notin files[md[p]]
    /\ Abort(p)
    /\ UNCHANGED <<disk, solv>>

-----------------------------------------------------------------------------
\* write_main() and write_ext(): a temporary file, then rename()

\* slip: the name is put in place before the content is complete
WriteTorn(p) ==
    /\ pc[p] = "write"
    /\ solv' = [solv EXCEPT ![part[p]] = [cs |-> checksum[p], content |-> Mixed]]
    /\ part' = [part EXCEPT ![p] = @ + 1]
    /\ Goto(p, "ext")
    /\ UNCHANGED <<disk, md, checksum, info, pool, attached, stray, ready, provides>>

Write(p) ==
    /\ pc[p] = "write"
    /\ solv' = [solv EXCEPT ![part[p]] =
                  [cs |-> checksum[p],
                   content |-> IF info[p] = "garbage" THEN Mixed ELSE pool[p][part[p]]]]
    /\ part' = [part EXCEPT ![p] = @ + 1]
    /\ Goto(p, "ext")
    /\ UNCHANGED <<disk, md, checksum, info, pool, attached, stray, ready, provides>>

\* disk full, no permission: an exception leaves load_repo()
WriteFails(p) ==
    /\ pc[p] = "write"
    /\ Goto(p, "idle")
    /\ UNCHANGED <<disk, solv, md, part, checksum, info, pool, attached, stray, ready, provides>>

\* write_main() swaps the libsolv repository for the file just written: it is
\* emptied, the file cannot be read back, and an exception leaves it empty
ReloadFails(p) ==
    /\ pc[p] = "write" /\ part[p] = Main
    /\ pool' = [pool EXCEPT ![p] = Empty]
    /\ Goto(p, "idle")
    /\ UNCHANGED <<disk, solv, md, part, checksum, info, attached, stray, ready, provides>>

-----------------------------------------------------------------------------
\* load_repo_ext(), for each extension in turn

\* NoCapability is caught, the extension is left out
ExtNotOffered(p) ==
    /\ ExtNow(p) /\ Exts[part[p]] \notin Offered
    /\ part' = [part EXCEPT ![p] = @ + 1]
    /\ UNCHANGED <<disk, solv, md, pc, checksum, info, pool, attached, stray, ready, provides>>

ExtFromCache(p) ==
    /\ ExtNow(p) /\ Exts[part[p]] \in Offered
    /\ CanUseCache(p, part[p])
    /\ pool' = [pool EXCEPT ![p][part[p]] = solv[part[p]].content]
    /\ info' = [info EXCEPT ![p] = "LOADED_CACHE"]
    /\ part' = [part EXCEPT ![p] = @ + 1]
    /\ UNCHANGED <<disk, solv, md, pc, checksum, attached, stray, ready, provides>>

ExtFromMetadata(p) ==
    /\ ExtNow(p) /\ Exts[part[p]] \in Offered
    /\ ~CanUseCache(p, part[p])
    /\ IF part[p] \in files[md[p]]
         THEN /\ pool' = [pool EXCEPT ![p][part[p]] = md[p]]
              /\ info' = [info EXCEPT ![p] = "LOADED_FETCH"]
              /\ ready' = [ready EXCEPT ![p] = FALSE]
              /\ IF BuildCache THEN Goto(p, "write") /\ UNCHANGED part
                               ELSE part' = [part EXCEPT ![p] = @ + 1] /\ UNCHANGED pc
         ELSE Goto(p, "idle") /\ UNCHANGED <<part, info, pool, ready>>
    /\ UNCHANGED <<disk, solv, md, checksum, attached, stray, provides>>

\* the parser fails: load_repo_ext() returns `info` uninitialised, so the caller
\* may or may not take it for LOADED_FETCH
ExtParseFails(p) ==
    /\ ParseErrors
    /\ ExtNow(p) /\ Exts[part[p]] \in Offered
    /\ ~CanUseCache(p, part[p]) /\ part[p] \in files[md[p]]
    /\ ready' = [ready EXCEPT ![p] = FALSE]
    /\ info' = [info EXCEPT ![p] = "garbage"]
    /\ \/ BuildCache /\ Goto(p, "write") /\ UNCHANGED part
       \/ part' = [part EXCEPT ![p] = @ + 1] /\ UNCHANGED pc
    /\ UNCHANGED <<disk, solv, md, checksum, pool, attached, stray, provides>>

LoadRepoDone(p) ==
    /\ pc[p] = "ext" /\ part[p] = Len(Exts) + 1
    /\ Goto(p, "idle")
    /\ UNCHANGED <<disk, solv, md, part, checksum, info, pool, attached, stray, ready, provides>>

-----------------------------------------------------------------------------
\* make_provides_ready(), which may rewrite <id>.solv with the file provides added

PoolCreateWhatProvides(p) ==
    /\ provides' = [provides EXCEPT ![p] = Content(p)]
    /\ ready' = [ready EXCEPT ![p] = TRUE]

\* part[p] is Main when write_main() has failed: main_nrepodata is 0 then, and
\* rewrite_repos() skips the repository
MakeProvidesReady(p) ==
    /\ pc[p] = "idle" /\ ~ready[p]
    /\ \/ PoolCreateWhatProvides(p) /\ UNCHANGED pc
       \/ /\ BuildCache /\ attached[p] /\ part[p] # Main
          /\ Goto(p, "rewrite")
          /\ UNCHANGED <<ready, provides>>
    /\ UNCHANGED <<disk, solv, md, part, checksum, info, pool, attached, stray>>

\* rewrite_repos(): the main part of the pool goes to <id>.solv again
Rewrite(p) ==
    /\ pc[p] = "rewrite"
    /\ solv' = [solv EXCEPT ![Main] = [cs |-> checksum[p], content |-> pool[p][Main]]]
    /\ Goto(p, "idle")
    /\ PoolCreateWhatProvides(p)
    /\ UNCHANGED <<disk, md, part, checksum, info, pool, attached, stray>>

\* write_main() throws in rewrite_repos(): the counts that hide the extensions
\* while the main part is written are not put back
RewriteFails(p) ==
    /\ pc[p] = "rewrite"
    /\ pool' = [pool EXCEPT ![p] = [k \in Part |-> IF k = Main THEN @[Main] ELSE None]]
    /\ Goto(p, "idle")
    /\ UNCHANGED <<disk, solv, md, part, checksum, info, attached, stray, ready, provides>>

\* the process ends, or dies at any point, and another one starts
Restart(p) == Abort(p) /\ UNCHANGED <<disk, solv>>

-----------------------------------------------------------------------------
ProcStep(p) ==
    \/ ReadChecksum(p) \/ MainFromCache(p) \/ MainFromMetadata(p)
    \/ MainParseFails(p) \/ CacheReadFails(p) \/ PrimaryMissing(p)
    \/ Write(p) \/ WriteFails(p) \/ ReloadFails(p)
    \/ ExtNotOffered(p) \/ ExtFromCache(p) \/ ExtFromMetadata(p) \/ ExtParseFails(p)
    \/ LoadRepoDone(p) \/ Rewrite(p) \/ RewriteFails(p)

Next ==
    \/ RefreshRemoves \/ RefreshInstalls \/ RefreshRaces
    \/ \E p \in Proc : \/ LoadMetadata(p) \/ LoadRepo(p) \/ MakeProvidesReady(p)
                       \/ ProcStep(p) \/ Restart(p)

Spec == Init /\ [][Next]_vars

-----------------------------------------------------------------------------
\* A binary file labelled with the checksum of a repomd.xml was made from the
\* metadata that repomd.xml describes, although the checksum is computed, the
\* metadata opened and the file renamed at three different times while other
\* processes replace the metadata and the file.
SolvFilesHonest ==
    \A k \in Part : solv[k].cs # None => solv[k].content = solv[k].cs

\* The main metadata and every extension of one repository in the pool come from
\* the same version: no filelists of one version next to packages of another.
PoolIsOneVersion ==
    \A p \in Proc : \A k \in Part :
      attached[p] /\ pool[p][k] # None => pool[p][k] = pool[p][Main]

\* provides_ready is set only while the provides index covers everything that is
\* in the pool, although load_repo_ext() from the cache leaves the flag alone and
\* any of its steps may end the load by an exception.
ProvidesFresh ==
    \A p \in Proc : ready[p] => provides[p] = Content(p)

\* write_ext() starts with assert(repodata_id): there is a repodata to write, the
\* one load_repo_ext() has just added.
WriteExtHasRepodata ==
    \A p \in Proc : pc[p] = "write" => info[p] # "garbage"
=============================================================================
