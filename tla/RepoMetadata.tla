---------------------------- MODULE RepoMetadata ----------------------------
(***************************************************************************)
(* The life cycle of one repository's metadata cache: libdnf/rpm/repo.cpp, *)
(* Repo::Impl::load() and what it calls.  Several processes (each with its *)
(* own Repo object) share one cache directory and one origin; nothing in   *)
(* the code serialises them.                                               *)
(*                                                                         *)
(* Data abstraction.  A metadata set is the version (1..MaxVersion) the    *)
(* origin served it under.  <cachedir>/repodata holds repomd.xml, of some  *)
(* version, and primary files, whose names carry their checksum and        *)
(* therefore their version.  File 0 below is repomd.xml, file v the        *)
(* primary file of version v; the primary file stands for all the metadata *)
(* files a repomd.xml lists.                                               *)
(***************************************************************************)
EXTENDS Integers, FiniteSets

CONSTANTS
    Proc,               \* processes that hold a Repo object for this repository
    MaxVersion,         \* bound: versions the origin publishes
    MaxTime,            \* bound: clock values
    MaxCrash,           \* bound: process deaths
    MetadataExpire,     \* option metadata_expire; -1 means "never"
    CheckConfigFileAge, \* option check_config_file_age
    UseMetalink,        \* option metalink is set
    RepoGpgCheck,       \* option repo_gpgcheck
    Strategies          \* sync strategies the callers use

ASSUME RepoMetadataAssumption ==
    /\ MaxVersion \in Nat \ {0}
    /\ MaxTime \in Nat \ {0}
    /\ MaxCrash \in Nat
    /\ MetadataExpire \in Nat \cup {-1}
    /\ CheckConfigFileAge \in BOOLEAN
    /\ UseMetalink \in BOOLEAN
    /\ RepoGpgCheck \in BOOLEAN
    /\ Strategies \subseteq {"LAZY", "ONLY_CACHE", "TRY_CACHE"}

Version == 1 .. MaxVersion
Time    == 1 .. MaxTime
NoMd    == 0
NoFile  == -1
Repomd  == 0
File    == 0 .. MaxVersion

VARIABLES
    \* the world
    origin,    \* version the mirrors serve
    now,       \* wall clock
    repoFile,  \* mtime of the .repo file
    crashes,   \* process deaths so far
    \* <cachedir>, shared by the processes
    repomd,    \* version of repodata/repomd.xml, NoMd when there is none
    primary,   \* mtime of each primary file, NoFile when there is none
    trusted,   \* the repository's key is in <cachedir>/pubring
    \* the Repo object of each process
    md,        \* version whose paths are in metadata_paths, NoMd when empty
    expired,   \* Repo::Impl::expired
    timestamp, \* Repo::Impl::timestamp
    strategy,  \* Repo::Impl::sync_strategy
    \* the call of load() or load_cache() in progress
    pc,        \* where it is
    todo,      \* files remove_all has yet to unlink, or copy has yet to copy
    badGpg,    \* bad_gpg of lr_handle_perform
    remote,    \* version the origin answered to is_in_sync
    tmp,       \* version downloaded to tmpdir.XXXXXX, NoMd when none
    tmpTime,   \* mtime of the primary file in tmpdir.XXXXXX
    result,    \* outcome of the last call
    since      \* origin when the last call began (history variable)

world  == <<origin, now, repoFile, crashes>>
cache  == <<repomd, primary, trusted>>
object == <<md, expired, timestamp, strategy>>
call   == <<pc, todo, badGpg, remote, tmp, tmpTime, result, since>>
vars   == <<world, cache, object, call>>

\* load_cache() is called by try_load_cache(), by load() after fetch() and by
\* Repo::load_cache(); the wipes are the remove_all of lr_handle_perform
CachePC  == {"try_cache", "reload", "direct_cache"}
RemovePC == {"wipe_try", "wipe_reload", "wipe_direct", "remove", "remove_target"}
PC       == CachePC \cup RemovePC \cup
              {"idle", "check", "is_in_sync", "compare", "fetch", "mkdir", "rename", "copy"}

WorldType ==
    /\ origin \in Version
    /\ now \in Time
    /\ repoFile \in Time
    /\ crashes \in 0 .. MaxCrash

CacheType ==
    /\ repomd \in {NoMd} \cup Version
    /\ primary \in [Version -> {NoFile} \cup Time]
    /\ trusted \in BOOLEAN

ObjectType ==
    /\ md \in [Proc -> {NoMd} \cup Version]
    /\ expired \in [Proc -> BOOLEAN]
    /\ timestamp \in [Proc -> {-1, 0} \cup Time]
    /\ strategy \in [Proc -> Strategies]

CallType ==
    /\ pc \in [Proc -> PC]
    /\ todo \in [Proc -> SUBSET File]
    /\ badGpg \in [Proc -> BOOLEAN]
    /\ remote \in [Proc -> {NoMd} \cup Version]
    /\ tmp \in [Proc -> {NoMd} \cup Version]
    /\ tmpTime \in [Proc -> {0} \cup Time]
    /\ result \in [Proc -> {"none", "true", "false", "cached", "error"}]
    /\ since \in [Proc -> Version]

TypeOK == WorldType /\ CacheType /\ ObjectType /\ CallType

-----------------------------------------------------------------------------
\* The cache directory.

\* files present in repodata/
CacheFiles == {v \in Version : primary[v] # NoFile} \cup
              (IF repomd = NoMd THEN {} ELSE {Repomd})

\* the metadata set a local librepo handle accepts: repomd.xml and what it lists
Complete == repomd # NoMd /\ primary[repomd] # NoFile

\* mtime(): stat() of a missing file leaves the result uninitialised
Mtime(v) == IF primary[v] = NoFile THEN Time ELSE {primary[v]}

RemoveFile(f) ==
    IF f = Repomd THEN repomd' = NoMd /\ UNCHANGED primary
                  ELSE primary' = [primary EXCEPT ![f] = NoFile] /\ UNCHANGED repomd

AddFile(f, v, t) ==
    IF f = Repomd THEN repomd' = v /\ UNCHANGED primary
                  ELSE primary' = [primary EXCEPT ![f] = t] /\ UNCHANGED repomd

-----------------------------------------------------------------------------
\* Control of a call.

Goto(p, step) ==
    /\ pc' = [pc EXCEPT ![p] = step]
    /\ badGpg' = [badGpg EXCEPT ![p] = FALSE]
    /\ UNCHANGED <<remote, tmp, tmpTime, result, since>>

\* remove_all() lists the directory, then unlinks entry by entry
GotoRemove(p, step) ==
    /\ todo' = [todo EXCEPT ![p] = CacheFiles]
    /\ Goto(p, step)

\* a return or an exception; the locals go, and tmp_dir_remover empties tmpdir
Return(p, r) ==
    /\ pc' = [pc EXCEPT ![p] = "idle"]
    /\ todo' = [todo EXCEPT ![p] = {}]
    /\ badGpg' = [badGpg EXCEPT ![p] = FALSE]
    /\ remote' = [remote EXCEPT ![p] = NoMd]
    /\ tmp' = [tmp EXCEPT ![p] = NoMd]
    /\ tmpTime' = [tmpTime EXCEPT ![p] = 0]
    /\ result' = [result EXCEPT ![p] = r]
    /\ UNCHANGED since

Begin(p, step) ==
    /\ pc[p] = "idle"
    /\ pc' = [pc EXCEPT ![p] = step]
    /\ result' = [result EXCEPT ![p] = "none"]
    /\ since' = [since EXCEPT ![p] = origin]
    /\ UNCHANGED <<world, cache, object, todo, badGpg, remote, tmp, tmpTime>>

\* slip: the old cache is cleared before the download
NoUsableCacheClears(p) ==
    IF strategy[p] = "ONLY_CACHE" THEN Return(p, "error") ELSE GotoRemove(p, "remove")

\* load() without usable cache: ONLY_CACHE throws, the others download
NoUsableCache(p) ==
    IF strategy[p] = "ONLY_CACHE"
      THEN Return(p, "error")
      ELSE Goto(p, "fetch") /\ UNCHANGED todo

Load(p) == Begin(p, IF md[p] # NoMd THEN "check" ELSE "try_cache")

LoadCacheOnly(p) == Begin(p, "direct_cache")

-----------------------------------------------------------------------------
\* lr_handle_perform()

\* the first LRE_BADGPG: import_repo_keys(), and the repodata directory of the
\* destination is removed before the retry
BadSignature == RepoGpgCheck /\ ~trusted

WipeOf(step) == CASE step = "try_cache" -> "wipe_try"
                  [] step = "reload" -> "wipe_reload"
                  [] step = "direct_cache" -> "wipe_direct"

\* slip: an unusable cache ends the call instead of starting a download
CacheErrorGivesUp(p) == Return(p, "error")

CacheError(p) ==
    IF pc[p] = "try_cache" THEN NoUsableCache(p) ELSE Return(p, "error")

\* keys retrieved; repokey_import() of the callback accepts or declines them
ImportRepoKeys(p) ==
    /\ BadSignature /\ ~badGpg[p]
    /\ \/ pc[p] \in CachePC /\ repomd # NoMd
       \/ pc[p] = "is_in_sync" /\ ~UseMetalink
       \/ pc[p] = "fetch"
    /\ trusted' \in BOOLEAN
    /\ badGpg' = [badGpg EXCEPT ![p] = TRUE]
    /\ IF pc[p] \in CachePC
         THEN /\ pc' = [pc EXCEPT ![p] = WipeOf(pc[p])]
              /\ todo' = [todo EXCEPT ![p] = CacheFiles]
         ELSE UNCHANGED <<pc, todo>>
    /\ UNCHANGED <<world, repomd, primary, object, remote, tmp, tmpTime, result, since>>

\* a key cannot be retrieved or imported; an earlier one of the list may be the
\* repository's, and stays imported
ImportRepoKeysFails(p) ==
    /\ BadSignature /\ ~badGpg[p]
    /\ \/ pc[p] \in CachePC /\ repomd # NoMd /\ CacheError(p)
       \/ pc[p] = "is_in_sync" /\ ~UseMetalink /\ Return(p, "error")
       \/ pc[p] = "fetch" /\ Return(p, "error")
    /\ trusted' \in BOOLEAN
    /\ UNCHANGED <<world, repomd, primary, object>>

-----------------------------------------------------------------------------
\* load_cache()

LoadCache(p) ==
    /\ pc[p] \in CachePC
    /\ Complete /\ ~BadSignature
    /\ md' = [md EXCEPT ![p] = repomd]
    /\ timestamp' = [timestamp EXCEPT ![p] = IF @ = 0 THEN 0 ELSE primary[repomd]]
    /\ \/ /\ pc[p] = "try_cache"
          /\ Goto(p, "check")
          /\ UNCHANGED <<expired, todo>>
       \/ /\ pc[p] = "reload"
          /\ expired' = [expired EXCEPT ![p] = FALSE]
          /\ Return(p, "true")
       \/ /\ pc[p] = "direct_cache"
          /\ Return(p, "cached")
          /\ UNCHANGED expired
    /\ UNCHANGED <<world, cache, strategy>>

LoadCacheFails(p) ==
    /\ pc[p] \in CachePC
    /\ IF BadSignature THEN repomd = NoMd \/ badGpg[p] ELSE ~Complete
    /\ CacheError(p)
    /\ UNCHANGED <<world, cache, object>>

-----------------------------------------------------------------------------
\* reset_metadata_expired(), and what load() does with the answer

\* slip: an explicit expire() is forgotten
IsStaleByAge(p, age, mtime) ==
    /\ MetadataExpire # -1
    /\ (CheckConfigFileAge /\ repoFile > mtime) \/ age > MetadataExpire

IsStale(p, age, mtime) ==
    \/ expired[p]
    \/ /\ MetadataExpire # -1
       /\ (CheckConfigFileAge /\ repoFile > mtime) \/ age > MetadataExpire

CheckExpired(p) ==
    /\ pc[p] = "check"
    /\ \E t \in Mtime(md[p]) :
         \/ /\ IsStale(p, now - t, t)
            /\ expired' = [expired EXCEPT ![p] = TRUE]
            /\ IF strategy[p] = "TRY_CACHE"
                 THEN Goto(p, "is_in_sync") /\ UNCHANGED todo
                 ELSE Return(p, "false")
         \/ /\ ~IsStale(p, now - t, t)
            /\ expired' = [expired EXCEPT ![p] = FALSE]
            /\ Return(p, "false")
    /\ UNCHANGED <<world, cache, md, timestamp, strategy>>

-----------------------------------------------------------------------------
\* is_in_sync(): the origin's answer is fetched first, the local repomd.xml is
\* read afterwards

AskOrigin(p) ==
    /\ pc[p] = "is_in_sync"
    /\ UseMetalink \/ ~BadSignature
    /\ remote' = [remote EXCEPT ![p] = origin]
    /\ badGpg' = [badGpg EXCEPT ![p] = FALSE]
    /\ pc' = [pc EXCEPT ![p] = "compare"]
    /\ UNCHANGED <<world, cache, object, todo, tmp, tmpTime, result, since>>

\* no mirror answers, or the signature is bad for a second time
AskOriginFails(p) ==
    /\ pc[p] = "is_in_sync"
    /\ Return(p, "error")
    /\ UNCHANGED <<world, cache, object>>

\* a metalink without repomd.xml hashes of a known type
MetalinkUnusable(p) ==
    /\ pc[p] = "is_in_sync"
    /\ UseMetalink
    /\ NoUsableCache(p)
    /\ UNCHANGED <<world, cache, object>>

\* slip: the local repomd.xml is compared with what was loaded from it
CompareWithItself(p) ==
    /\ pc[p] = "compare"
    /\ IF repomd = md[p]
         THEN /\ primary' = [primary EXCEPT ![md[p]] = now]
              /\ expired' = [expired EXCEPT ![p] = FALSE]
              /\ Return(p, "true")
         ELSE NoUsableCache(p) /\ UNCHANGED <<primary, expired>>
    /\ UNCHANGED <<world, repomd, trusted, md, timestamp, strategy>>

\* utimes() of the primary file in memory, if it is still there
Compare(p) ==
    /\ pc[p] = "compare"
    /\ IF repomd = remote[p]
         THEN /\ primary' = IF primary[md[p]] = NoFile THEN primary
                            ELSE [primary EXCEPT ![md[p]] = now]
              /\ expired' = [expired EXCEPT ![p] = FALSE]
              /\ Return(p, "true")
         ELSE NoUsableCache(p) /\ UNCHANGED <<primary, expired>>
    /\ UNCHANGED <<world, repomd, trusted, md, timestamp, strategy>>

-----------------------------------------------------------------------------
\* fetch()

Download(p) ==
    /\ pc[p] = "fetch"
    /\ ~BadSignature
    /\ tmp' = [tmp EXCEPT ![p] = origin]
    /\ tmpTime' = [tmpTime EXCEPT ![p] = now]
    /\ badGpg' = [badGpg EXCEPT ![p] = FALSE]
    /\ pc' = [pc EXCEPT ![p] = "remove"]
    /\ todo' = [todo EXCEPT ![p] = CacheFiles]
    /\ UNCHANGED <<world, cache, object, remote, result, since>>

DownloadFails(p) ==
    /\ pc[p] = "fetch"
    /\ Return(p, "error")
    /\ UNCHANGED <<world, cache, object>>

\* remove_all(): one entry at a time
Unlink(p) ==
    /\ pc[p] \in RemovePC
    /\ \E f \in todo[p] :
         /\ RemoveFile(f)
         /\ todo' = [todo EXCEPT ![p] = @ \ {f}]
    /\ UNCHANGED <<world, trusted, object, pc, badGpg, remote, tmp, tmpTime, result, since>>

AfterRemove(step) == CASE step = "wipe_try" -> "try_cache"
                       [] step = "wipe_reload" -> "reload"
                       [] step = "wipe_direct" -> "direct_cache"
                       [] step = "remove" -> "mkdir"
                       [] step = "remove_target" -> "rename"

RemoveDone(p) ==
    /\ pc[p] \in RemovePC
    /\ todo[p] = {} /\ CacheFiles = {}
    /\ pc' = [pc EXCEPT ![p] = AfterRemove(pc[p])]
    /\ UNCHANGED <<world, cache, object, todo, badGpg, remote, tmp, tmpTime, result, since>>

\* another process put files in: the listing still reaches some of them, or
\* rmdir() finds the directory not empty and remove_all() throws
RemoveDisturbed(p) ==
    /\ pc[p] \in RemovePC
    /\ todo[p] = {} /\ CacheFiles # {}
    /\ \/ \E s \in (SUBSET CacheFiles) \ {{}} :
            /\ todo' = [todo EXCEPT ![p] = s]
            /\ UNCHANGED <<pc, badGpg, remote, tmp, tmpTime, result, since>>
       \/ IF pc[p] = "wipe_try" THEN NoUsableCache(p) ELSE Return(p, "error")
    /\ UNCHANGED <<world, cache, object>>

MakeRepodir(p) ==
    /\ pc[p] = "mkdir"
    /\ GotoRemove(p, "remove_target")
    /\ UNCHANGED <<world, cache, object>>

MakeRepodirFails(p) ==
    /\ pc[p] = "mkdir"
    /\ Return(p, "error")
    /\ UNCHANGED <<world, cache, object>>

\* fetch() returns to load(), which drops the old timestamp
FetchDone(p) ==
    /\ timestamp' = [timestamp EXCEPT ![p] = -1]
    /\ pc' = [pc EXCEPT ![p] = "reload"]
    /\ todo' = [todo EXCEPT ![p] = {}]
    /\ tmp' = [tmp EXCEPT ![p] = NoMd]
    /\ tmpTime' = [tmpTime EXCEPT ![p] = 0]
    /\ UNCHANGED <<world, trusted, md, expired, strategy, badGpg, remote, result, since>>

\* rename() of a directory succeeds over a missing or empty one
Rename(p) ==
    /\ pc[p] = "rename"
    /\ CacheFiles = {}
    /\ repomd' = tmp[p]
    /\ primary' = [primary EXCEPT ![tmp[p]] = tmpTime[p]]
    /\ FetchDone(p)

\* move_recursive() falls back to a copy, whatever rename() failed for
RenameFails(p) ==
    /\ pc[p] = "rename"
    /\ pc' = [pc EXCEPT ![p] = "copy"]
    /\ todo' = [todo EXCEPT ![p] = {Repomd, tmp[p]}]
    /\ UNCHANGED <<world, cache, object, badGpg, remote, tmp, tmpTime, result, since>>

CopyFile(p) ==
    /\ pc[p] = "copy"
    /\ \E f \in todo[p] \ CacheFiles :
         /\ AddFile(f, tmp[p], now)
         /\ todo' = [todo EXCEPT ![p] = @ \ {f}]
    /\ UNCHANGED <<world, trusted, object, pc, badGpg, remote, tmp, tmpTime, result, since>>

\* copy() does not overwrite, and stops at any other error, on a full disk say
CopyFails(p) ==
    /\ pc[p] = "copy"
    /\ Return(p, "error")
    /\ UNCHANGED <<world, cache, object>>

CopyDone(p) ==
    /\ pc[p] = "copy"
    /\ todo[p] = {}
    /\ FetchDone(p)
    /\ UNCHANGED <<repomd, primary>>

-----------------------------------------------------------------------------
\* Other operations on a Repo object, and the world around it.

Expire(p) ==
    /\ pc[p] = "idle"
    /\ expired' = [expired EXCEPT ![p] = TRUE]
    /\ timestamp' = [timestamp EXCEPT ![p] = 0]
    /\ UNCHANGED <<world, cache, md, strategy, call>>

SetSyncStrategy(p) ==
    /\ pc[p] = "idle"
    /\ \E s \in Strategies \ {strategy[p]} : strategy' = [strategy EXCEPT ![p] = s]
    /\ UNCHANGED <<world, cache, md, expired, timestamp, call>>

\* the process dies at any point and a new one starts; tmpdir.XXXXXX stays
\* behind but no process looks at it again
Crash(p) ==
    /\ crashes < MaxCrash
    /\ crashes' = crashes + 1
    /\ md' = [md EXCEPT ![p] = NoMd]
    /\ expired' = [expired EXCEPT ![p] = FALSE]
    /\ timestamp' = [timestamp EXCEPT ![p] = -1]
    /\ Return(p, "none")
    /\ UNCHANGED <<origin, now, repoFile, cache, strategy>>

Publish ==
    /\ origin < MaxVersion
    /\ origin' = origin + 1
    /\ UNCHANGED <<now, repoFile, crashes, cache, object, call>>

Tick ==
    /\ now < MaxTime
    /\ now' = now + 1
    /\ UNCHANGED <<origin, repoFile, crashes, cache, object, call>>

EditRepoFile ==
    /\ CheckConfigFileAge
    /\ repoFile # now
    /\ repoFile' = now
    /\ UNCHANGED <<origin, now, crashes, cache, object, call>>

-----------------------------------------------------------------------------
\* an empty cache, or a complete one left by an earlier run
Init ==
    /\ origin = 1 /\ now = 1 /\ repoFile = 1 /\ crashes = 0
    /\ trusted \in BOOLEAN
    /\ \/ repomd = NoMd /\ primary = [v \in Version |-> NoFile]
       \/ repomd = 1 /\ primary = [v \in Version |-> IF v = 1 THEN 1 ELSE NoFile]
    /\ md = [p \in Proc |-> NoMd]
    /\ expired = [p \in Proc |-> FALSE]
    /\ timestamp = [p \in Proc |-> -1]
    /\ strategy \in [Proc -> Strategies]
    /\ pc = [p \in Proc |-> "idle"]
    /\ todo = [p \in Proc |-> {}]
    /\ badGpg = [p \in Proc |-> FALSE]
    /\ remote = [p \in Proc |-> NoMd]
    /\ tmp = [p \in Proc |-> NoMd]
    /\ tmpTime = [p \in Proc |-> 0]
    /\ result = [p \in Proc |-> "none"]
    /\ since = [p \in Proc |-> 1]

\* the steps of a call, without the ones that begin it
FetchStep(p) ==
    \/ Download(p) \/ DownloadFails(p) \/ Unlink(p) \/ RemoveDone(p) \/ RemoveDisturbed(p)
    \/ MakeRepodir(p) \/ MakeRepodirFails(p) \/ Rename(p) \/ RenameFails(p)
    \/ CopyFile(p) \/ CopyFails(p) \/ CopyDone(p)

CallStep(p) ==
    \/ ImportRepoKeys(p) \/ ImportRepoKeysFails(p)
    \/ LoadCache(p) \/ LoadCacheFails(p) \/ CheckExpired(p)
    \/ AskOrigin(p) \/ AskOriginFails(p) \/ MetalinkUnusable(p) \/ Compare(p)
    \/ FetchStep(p)

Next ==
    \/ \E p \in Proc :
         \/ Load(p) \/ LoadCacheOnly(p) \/ CallStep(p)
         \/ Expire(p) \/ SetSyncStrategy(p) \/ Crash(p)
    \/ Publish \/ Tick \/ EditRepoFile

Spec == Init /\ [][Next]_vars

\* Scheduling: a call that began goes on.  Environment: callers keep calling
\* load(), and the origin, the network and the file system do not fail for ever.
Fairness ==
    \A p \in Proc :
      /\ WF_vars(CallStep(p))
      /\ SF_vars(Load(p))
      /\ SF_vars(AskOrigin(p))
      /\ SF_vars(Download(p))
      /\ SF_vars(MakeRepodir(p))
      /\ SF_vars(Rename(p))

FairSpec == Spec /\ Fairness

-----------------------------------------------------------------------------
\* Properties.

\* fetch() unlinks a usable cache only when some process already holds the
\* complete download that is to replace it: a load() that fails to download
\* never costs the user the cache (repository without repo_gpgcheck).
ReplacementAtHand ==
    [][Complete /\ ~Complete' => \E p \in Proc : tmp[p] # NoMd]_vars

\* When load() returns true the metadata in memory are a version the origin
\* served after the call began, whether they were downloaded or revived, and
\* whatever crash or failed step came before; unless a copy of move_recursive()
\* stopped between repomd.xml and the rest: is_in_sync() then finds the new
\* repomd.xml, and load() revives old metadata whose files are gone.
TrueMeansCurrent ==
    \A p \in Proc : result[p] = "true" /\ primary[md[p]] # NoFile => md[p] >= since[p]

\* A copy stopped behind repomd.xml, and a process holds metadata whose files
\* the same fetch() removed.
HalfCopied(p) ==
    md[p] # NoMd /\ primary[md[p]] = NoFile /\ repomd # NoMd /\ primary[repomd] = NoFile

\* The cache becomes whole again after every crash and every failed fetch(),
\* unless a process goes on with a half copied one, which is_in_sync() accepts
\* as long as it lives.
CacheRecovers == []<>(Complete \/ \E p \in Proc : HalfCopied(p))

\* expire() is honoured: the process's metadata are eventually revived or
\* downloaded again, unless the process dies first and forgets the request.
ExpireIsHonoured ==
    \A p \in Proc : expired[p] ~> (result[p] = "true" /\ ~expired[p]) \/ md[p] = NoMd

\* repo.hpp says of ONLY_CACHE: "use the local cache, even if it's expired,
\* never download": no key is fetched and the cache stays usable.
OnlyCacheNeverDownloads ==
    [][(\A p \in Proc : strategy[p] = "ONLY_CACHE") =>
         UNCHANGED trusted /\ (Complete => Complete')]_vars
=============================================================================
