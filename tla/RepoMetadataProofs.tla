------------------------- MODULE RepoMetadataProofs -------------------------
(***************************************************************************)
(* Proofs about RepoMetadata, for every set of processes and every value   *)
(* of the bounds and options.                                              *)
(***************************************************************************)
EXTENDS RepoMetadata, TLAPS

\* from the end of the download to the end of fetch() the new metadata are in tmpdir
HoldsDownload ==
    \A p \in Proc :
      pc[p] \in {"remove", "mkdir", "remove_target", "rename", "copy"} =>
        tmp[p] \in Version /\ tmpTime[p] \in Time

\* lr_handle_perform() wipes a cache only after LRE_BADGPG
WipeNeedsGpg ==
    \A p \in Proc :
      pc[p] \in {"wipe_try", "wipe_reload", "wipe_direct"} => RepoGpgCheck

CallInv == CallType /\ HoldsDownload /\ WipeNeedsGpg

IInv == WorldType /\ CacheType /\ ObjectType /\ CallInv

-----------------------------------------------------------------------------
\* Leaving a call, normally or by an exception, keeps the call's part of the invariant.
LEMMA ReturnCall ==
  ASSUME CallInv, NEW p \in Proc,
         NEW r \in {"none", "true", "false", "cached", "error"}, Return(p, r)
  PROVE  CallInv'
  BY DEF CallInv, CallType, HoldsDownload, WipeNeedsGpg, Return, PC, NoMd, File

\* So does going on to the expiry check, the comparison or the download,
LEMMA GotoCall ==
  ASSUME CallInv, NEW p \in Proc, NEW step \in {"check", "is_in_sync", "fetch"},
         Goto(p, step), UNCHANGED todo
  PROVE  CallInv'
  BY DEF CallInv, CallType, HoldsDownload, WipeNeedsGpg, Goto, PC

\* and so does what load() does without a usable cache.
LEMMA NoUsableCacheCall ==
  ASSUME CallInv, NEW p \in Proc, NoUsableCache(p)
  PROVE  CallInv'
  BY ReturnCall, GotoCall DEF NoUsableCache

\* remove_all() finds only repomd.xml and primary files in repodata/.
LEMMA CacheFilesType == CacheFiles \subseteq File
  BY RepoMetadataAssumption DEF CacheFiles, File, Version, Repomd

-----------------------------------------------------------------------------
\* The initial states satisfy the inductive invariant.
LEMMA InitIInv == Init => IInv
  BY RepoMetadataAssumption
  DEF Init, IInv, WorldType, CacheType, ObjectType, CallType, CallInv, HoldsDownload, WipeNeedsGpg,
      Version, Time, File, NoMd, NoFile, PC, CachePC, RemovePC

\* Every step of a call, of the other operations and of the world keeps it.
LEMMA NextIInv == IInv /\ [Next]_vars => IInv'
<1> USE RepoMetadataAssumption DEF world, cache, object
<1> SUFFICES ASSUME IInv, [Next]_vars PROVE IInv'
  OBVIOUS
<1>a. WorldType /\ UNCHANGED world => WorldType'
  BY DEF WorldType
<1>b. CacheType /\ UNCHANGED cache => CacheType'
  BY DEF CacheType
<1>c. ObjectType /\ UNCHANGED object => ObjectType'
  BY DEF ObjectType
<1> USE <1>a, <1>b, <1>c DEF IInv
<1>1. ASSUME NEW p \in Proc, Load(p) PROVE IInv'
  BY <1>1 DEF Load, Begin, WorldType, CallInv, CallType, HoldsDownload, WipeNeedsGpg, PC, CachePC, RemovePC
<1>2. ASSUME NEW p \in Proc, LoadCacheOnly(p) PROVE IInv'
  BY <1>2 DEF LoadCacheOnly, Begin, WorldType, CallInv, CallType, HoldsDownload, WipeNeedsGpg, PC, CachePC, RemovePC
<1>3. ASSUME NEW p \in Proc, ImportRepoKeys(p) PROVE IInv'
  BY CacheFilesType, <1>3 DEF ImportRepoKeys, CacheType, WipeOf, BadSignature, CallInv, CallType, HoldsDownload, WipeNeedsGpg, PC, CachePC, RemovePC
<1>4. ASSUME NEW p \in Proc, ImportRepoKeysFails(p) PROVE IInv'
  <2>1. CacheType'
    BY <1>4 DEF ImportRepoKeysFails, CacheType
  <2>2. CallInv'
    BY NoUsableCacheCall, ReturnCall, <1>4 DEF ImportRepoKeysFails, CacheError
  <2> QED
    BY <1>4, <2>1, <2>2 DEF ImportRepoKeysFails
<1>5. ASSUME NEW p \in Proc, LoadCache(p) PROVE IInv'
  <2>1. ObjectType'
    BY <1>5 DEF LoadCache, Complete, CacheType, ObjectType, NoMd, NoFile
  <2>2. CallInv'
    BY <1>5, GotoCall, ReturnCall DEF LoadCache
  <2> QED
    BY <1>5, <2>1, <2>2 DEF LoadCache
<1>6. ASSUME NEW p \in Proc, LoadCacheFails(p) PROVE IInv'
  BY NoUsableCacheCall, ReturnCall, <1>6 DEF LoadCacheFails, CacheError
<1>7. ASSUME NEW p \in Proc, CheckExpired(p) PROVE IInv'
  BY GotoCall, ReturnCall, <1>7 DEF CheckExpired, ObjectType
<1>8. ASSUME NEW p \in Proc, AskOrigin(p) PROVE IInv'
  BY <1>8 DEF AskOrigin, WorldType, CallInv, CallType, HoldsDownload, WipeNeedsGpg, PC, CachePC, RemovePC
<1>9. ASSUME NEW p \in Proc, AskOriginFails(p) PROVE IInv'
  BY ReturnCall, <1>9 DEF AskOriginFails
<1>10. ASSUME NEW p \in Proc, MetalinkUnusable(p) PROVE IInv'
  BY NoUsableCacheCall, <1>10 DEF MetalinkUnusable
<1>11. ASSUME NEW p \in Proc, Compare(p) PROVE IInv'
  <2>1. CacheType'
    BY <1>11 DEF Compare, WorldType, CacheType
  <2>2. ObjectType'
    BY <1>11 DEF Compare, ObjectType
  <2>3. CallInv'
    BY <1>11, NoUsableCacheCall, ReturnCall DEF Compare
  <2> QED
    BY <1>11, <2>1, <2>2, <2>3 DEF Compare
<1>12. ASSUME NEW p \in Proc, Download(p) PROVE IInv'
  BY CacheFilesType, <1>12 DEF Download, WorldType, CallInv, CallType, HoldsDownload, WipeNeedsGpg, PC, CachePC, RemovePC
<1>13. ASSUME NEW p \in Proc, DownloadFails(p) PROVE IInv'
  BY ReturnCall, <1>13 DEF DownloadFails
<1>14. ASSUME NEW p \in Proc, Unlink(p) PROVE IInv'
  BY <1>14 DEF Unlink, RemoveFile, CacheType, NoMd, NoFile, CallInv, CallType, HoldsDownload, WipeNeedsGpg, PC, CachePC, RemovePC
<1>15. ASSUME NEW p \in Proc, RemoveDone(p) PROVE IInv'
  BY <1>15 DEF RemoveDone, AfterRemove, CallInv, CallType, HoldsDownload, WipeNeedsGpg, PC, CachePC, RemovePC
<1>16. ASSUME NEW p \in Proc, RemoveDisturbed(p) PROVE IInv'
  <2>1. CASE \E s \in (SUBSET CacheFiles) \ {{}} :
               /\ todo' = [todo EXCEPT ![p] = s]
               /\ UNCHANGED <<pc, badGpg, remote, tmp, tmpTime, result, since>>
    BY <1>16, <2>1, CacheFilesType
    DEF RemoveDisturbed, CallInv, CallType, HoldsDownload, WipeNeedsGpg, PC, CachePC, RemovePC
  <2>2. CASE IF pc[p] = "wipe_try" THEN NoUsableCache(p) ELSE Return(p, "error")
    BY <1>16, <2>2, NoUsableCacheCall, ReturnCall DEF RemoveDisturbed
  <2> QED
    BY <1>16, <2>1, <2>2 DEF RemoveDisturbed
<1>17. ASSUME NEW p \in Proc, MakeRepodir(p) PROVE IInv'
  BY CacheFilesType, <1>17 DEF MakeRepodir, GotoRemove, Goto, CallInv, CallType, HoldsDownload, WipeNeedsGpg, PC, CachePC, RemovePC
<1>18. ASSUME NEW p \in Proc, MakeRepodirFails(p) PROVE IInv'
  BY ReturnCall, <1>18 DEF MakeRepodirFails
<1>19. ASSUME NEW p \in Proc, Rename(p) PROVE IInv'
  BY <1>19 DEF Rename, FetchDone, CacheType, ObjectType, NoMd, File, CallInv, CallType, HoldsDownload, WipeNeedsGpg, PC, CachePC, RemovePC
<1>20. ASSUME NEW p \in Proc, RenameFails(p) PROVE IInv'
  BY <1>20 DEF RenameFails, Repomd, File, Version, CallInv, CallType, HoldsDownload, WipeNeedsGpg, PC, CachePC, RemovePC
<1>21. ASSUME NEW p \in Proc, CopyFile(p) PROVE IInv'
  BY <1>21 DEF CopyFile, AddFile, WorldType, CacheType, Version, File, Repomd, CallInv, CallType, HoldsDownload, WipeNeedsGpg, PC, CachePC, RemovePC
<1>22. ASSUME NEW p \in Proc, CopyFails(p) PROVE IInv'
  BY ReturnCall, <1>22 DEF CopyFails
<1>23. ASSUME NEW p \in Proc, CopyDone(p) PROVE IInv'
  BY <1>23 DEF CopyDone, FetchDone, CacheType, ObjectType, NoMd, File, CallInv, CallType, HoldsDownload, WipeNeedsGpg, PC, CachePC, RemovePC
<1>24. ASSUME NEW p \in Proc, Expire(p) PROVE IInv'
  BY <1>24 DEF Expire, call, ObjectType, CallInv, CallType, HoldsDownload, WipeNeedsGpg, PC, CachePC, RemovePC
<1>25. ASSUME NEW p \in Proc, SetSyncStrategy(p) PROVE IInv'
  BY <1>25 DEF SetSyncStrategy, call, ObjectType, CallInv, CallType, HoldsDownload, WipeNeedsGpg, PC, CachePC, RemovePC
<1>26. ASSUME NEW p \in Proc, Crash(p) PROVE IInv'
  BY ReturnCall, <1>26 DEF Crash, WorldType, ObjectType, NoMd
<1>27. CASE Publish
  BY <1>27 DEF Publish, call, WorldType, Version, Time, CallInv, CallType, HoldsDownload, WipeNeedsGpg, PC, CachePC, RemovePC
<1>28. CASE Tick
  BY <1>28 DEF Tick, call, WorldType, Version, Time, CallInv, CallType, HoldsDownload, WipeNeedsGpg, PC, CachePC, RemovePC
<1>29. CASE EditRepoFile
  BY <1>29 DEF EditRepoFile, call, WorldType, Version, Time, CallInv, CallType, HoldsDownload, WipeNeedsGpg, PC, CachePC, RemovePC
<1>30. CASE UNCHANGED vars
  BY <1>30 DEF vars, call, WorldType, Version, Time, CallInv, CallType, HoldsDownload, WipeNeedsGpg, PC, CachePC, RemovePC
<1> QED
  BY <1>1, <1>2, <1>3, <1>4, <1>5, <1>6, <1>7, <1>8, <1>9, <1>10, <1>11, <1>12, <1>13, <1>14, <1>15, <1>16, <1>17, <1>18, <1>19, <1>20, <1>21, <1>22, <1>23, <1>24, <1>25, <1>26, <1>27, <1>28, <1>29, <1>30 DEF Next, CallStep, FetchStep

\* every variable keeps its type
THEOREM TypeCorrect == Spec => []TypeOK
<1>1. IInv => TypeOK
  BY DEF IInv, CallInv, TypeOK
<1>2. QED
  BY <1>1, InitIInv, NextIInv, PTL DEF Spec

\* Without repo_gpgcheck, a usable cache disappears only while some process
\* holds a complete replacement: the action property ReplacementAtHand that
\* the two-process run checks, for any number of processes.
THEOREM ReplacementAtHandHolds ==
  ASSUME ~RepoGpgCheck
  PROVE  Spec => ReplacementAtHand
<1>1. ASSUME IInv, [Next]_vars, Complete, ~Complete'
      PROVE  \E p \in Proc : tmp[p] # NoMd
  <2>1. PICK p \in Proc : Unlink(p)
    <3> USE <1>1, RepoMetadataAssumption DEF IInv, Complete, cache
    <3>1. ASSUME NEW p \in Proc, Load(p) \/ LoadCacheOnly(p) PROVE FALSE
      BY <3>1 DEF Load, LoadCacheOnly, Begin
    <3>2. ASSUME NEW p \in Proc, CallStep(p) PROVE Unlink(p)
      <4>1. ASSUME Rename(p) PROVE Complete'
        BY <4>1 DEF Rename, CacheType, CallInv, HoldsDownload, NoMd, NoFile, Version, Time
      <4>2. ASSUME CopyFile(p) PROVE Complete'
        BY <4>2 DEF CopyFile, AddFile, CacheFiles, CacheType, WorldType, CallInv, CallType,
                    HoldsDownload, Repomd, File, NoMd, NoFile, Version, Time
      <4>3. ASSUME Compare(p) PROVE Complete'
        BY <4>3 DEF Compare, CacheType, WorldType, NoFile, Version, Time
      <4>4. ASSUME ImportRepoKeys(p) PROVE FALSE
        BY <4>4 DEF ImportRepoKeys
      <4> QED
        BY <3>2, <4>1, <4>2, <4>3, <4>4
        DEF CallStep, FetchStep, ImportRepoKeysFails, LoadCache, LoadCacheFails, CheckExpired,
            AskOrigin, AskOriginFails, MetalinkUnusable, Download, DownloadFails, RemoveDone,
            RemoveDisturbed, MakeRepodir, MakeRepodirFails, RenameFails, CopyFails, CopyDone
    <3>3. ASSUME NEW p \in Proc, Expire(p) \/ SetSyncStrategy(p) \/ Crash(p) PROVE FALSE
      BY <3>3 DEF Expire, SetSyncStrategy, Crash
    <3>4. ASSUME Publish \/ Tick \/ EditRepoFile \/ UNCHANGED vars PROVE FALSE
      BY <3>4 DEF Publish, Tick, EditRepoFile, vars
    <3> QED
      BY <3>1, <3>2, <3>3, <3>4 DEF Next
  <2>2. pc[p] \in {"remove", "remove_target"}
    BY <2>1, <1>1 DEF Unlink, RemovePC, IInv, CallInv, WipeNeedsGpg
  <2> QED
    BY <2>2, <1>1, RepoMetadataAssumption DEF IInv, CallInv, HoldsDownload, Version, NoMd
<1>2. QED
  BY <1>1, InitIInv, NextIInv, PTL DEF Spec, ReplacementAtHand

-----------------------------------------------------------------------------
(***************************************************************************)
(* One process alone.  The argument: what is in memory (md) agrees with    *)
(* what is on disk (repomd) whenever both exist and the metadata in memory *)
(* have not lost their files; so comparing the file on disk with the       *)
(* origin's answer says something about the metadata in memory.            *)
(***************************************************************************)

\* memory and disk agree while the files of the metadata in memory are there
MemoryMatchesDisk ==
    \A p \in Proc :
      /\ pc[p] # "reload" /\ md[p] # NoMd /\ repomd # NoMd =>
           md[p] = repomd \/ primary[md[p]] = NoFile
      /\ pc[p] \in {"check", "is_in_sync", "compare"} => md[p] # NoMd

\* what the call in progress obtained from the origin is recent enough
AnswersAreRecent ==
    \A p \in Proc :
      /\ since[p] <= origin
      /\ pc[p] = "compare" => remote[p] >= since[p]
      /\ pc[p] \in {"remove", "mkdir", "remove_target", "rename", "copy"} => tmp[p] >= since[p]
      /\ pc[p] = "reload" => repomd >= since[p] /\ Complete

\* nobody puts files into repodata/ behind the back of fetch(), and the key the
\* download was verified with stays known
RepodirIsOurs ==
    \A p \in Proc :
      /\ pc[p] \in {"mkdir", "remove_target", "rename"} =>
           repomd = NoMd /\ \A v \in Version : primary[v] = NoFile
      /\ pc[p] = "copy" =>
           /\ todo[p] \subseteq {Repomd, tmp[p]}
           /\ \A v \in Version : v # tmp[p] => primary[v] = NoFile
           /\ repomd = (IF Repomd \in todo[p] THEN NoMd ELSE tmp[p])
           /\ tmp[p] \notin todo[p] => primary[tmp[p]] # NoFile
      /\ pc[p] \in {"remove", "mkdir", "remove_target", "rename", "copy", "reload"} => ~BadSignature
      /\ pc[p] # "wipe_reload"

ResultIsCurrent ==
    \A p \in Proc : /\ pc[p] # "idle" => result[p] = "none"
                    /\ result[p] = "true" /\ primary[md[p]] # NoFile => md[p] >= since[p]

SoleInv == MemoryMatchesDisk /\ AnswersAreRecent /\ RepodirIsOurs /\ ResultIsCurrent

\* The initial states satisfy the invariant of the process alone.
LEMMA InitSoleInv == Init => SoleInv
  BY DEF Init, SoleInv, MemoryMatchesDisk, AnswersAreRecent, RepodirIsOurs, ResultIsCurrent, NoMd

\* With one process, every step keeps it.
LEMMA NextSoleInv ==
  ASSUME NEW q, Proc = {q}, IInv, SoleInv, [Next]_vars
  PROVE  SoleInv'
<1> USE RepoMetadataAssumption
    DEF SoleInv, MemoryMatchesDisk, AnswersAreRecent, RepodirIsOurs, ResultIsCurrent,
        IInv, WorldType, CacheType, ObjectType, CallType, CallInv, HoldsDownload,
        world, cache, object, Complete, BadSignature, NoMd, NoFile, Version, Time
<1>1. ASSUME NEW p \in Proc, Load(p) PROVE SoleInv'
  BY <1>1 DEF Load, Begin
<1>2. ASSUME NEW p \in Proc, LoadCacheOnly(p) PROVE SoleInv'
  BY <1>2 DEF LoadCacheOnly, Begin
<1>3. ASSUME NEW p \in Proc, ImportRepoKeys(p) PROVE SoleInv'
  <2>1. pc[p] \in {"try_cache", "direct_cache", "is_in_sync", "fetch"}
    BY <1>3 DEF ImportRepoKeys, CachePC
  <2>2. \/ pc[p] \in {"try_cache", "direct_cache"} /\ pc'[p] \in {"wipe_try", "wipe_direct"}
        \/ pc[p] \in {"is_in_sync", "fetch"} /\ pc'[p] = pc[p]
    BY <1>3, <2>1 DEF ImportRepoKeys, WipeOf, CachePC
  <2>3. UNCHANGED <<world, repomd, primary, object, remote, tmp, tmpTime, result, since>>
    BY <1>3 DEF ImportRepoKeys
  <2> QED
    BY <2>1, <2>2, <2>3
<1>4. ASSUME NEW p \in Proc, ImportRepoKeysFails(p) PROVE SoleInv'
  BY <1>4 DEF ImportRepoKeysFails, CacheError, NoUsableCache, Return, Goto, CachePC
<1>5. ASSUME NEW p \in Proc, LoadCache(p) PROVE SoleInv'
  BY <1>5 DEF LoadCache, Goto, Return, CachePC
<1>6. ASSUME NEW p \in Proc, LoadCacheFails(p) PROVE SoleInv'
  BY <1>6 DEF LoadCacheFails, CacheError, NoUsableCache, Return, Goto, CachePC
<1>7. ASSUME NEW p \in Proc, CheckExpired(p) PROVE SoleInv'
  BY <1>7 DEF CheckExpired, Goto, Return
<1>8. ASSUME NEW p \in Proc, AskOrigin(p) PROVE SoleInv'
  BY <1>8 DEF AskOrigin
<1>9. ASSUME NEW p \in Proc, AskOriginFails(p) PROVE SoleInv'
  BY <1>9 DEF AskOriginFails, Return
<1>10. ASSUME NEW p \in Proc, MetalinkUnusable(p) PROVE SoleInv'
  BY <1>10 DEF MetalinkUnusable, NoUsableCache, Return, Goto
<1>11. ASSUME NEW p \in Proc, Compare(p) PROVE SoleInv'
  BY <1>11 DEF Compare, NoUsableCache, Return, Goto
<1>12. ASSUME NEW p \in Proc, Download(p) PROVE SoleInv'
  BY <1>12 DEF Download
<1>13. ASSUME NEW p \in Proc, DownloadFails(p) PROVE SoleInv'
  BY <1>13 DEF DownloadFails, Return
<1>14. ASSUME NEW p \in Proc, Unlink(p) PROVE SoleInv'
  BY <1>14 DEF Unlink, RemoveFile, RemovePC, Repomd, File
<1>15. ASSUME NEW p \in Proc, RemoveDone(p) PROVE SoleInv'
  BY <1>15 DEF RemoveDone, AfterRemove, RemovePC, CacheFiles, Repomd
<1>16. ASSUME NEW p \in Proc, RemoveDisturbed(p) PROVE SoleInv'
  BY <1>16 DEF RemoveDisturbed, CacheFiles, NoUsableCache, Return, Goto, RemovePC
<1>17. ASSUME NEW p \in Proc, MakeRepodir(p) PROVE SoleInv'
  BY <1>17 DEF MakeRepodir, GotoRemove, Goto
<1>18. ASSUME NEW p \in Proc, MakeRepodirFails(p) PROVE SoleInv'
  BY <1>18 DEF MakeRepodirFails, Return
<1>19. ASSUME NEW p \in Proc, Rename(p) PROVE SoleInv'
  BY <1>19 DEF Rename, FetchDone
<1>20. ASSUME NEW p \in Proc, RenameFails(p) PROVE SoleInv'
  BY <1>20 DEF RenameFails, CacheFiles, Repomd
<1>21. ASSUME NEW p \in Proc, CopyFile(p) PROVE SoleInv'
  BY <1>21 DEF CopyFile, AddFile, Repomd
<1>22. ASSUME NEW p \in Proc, CopyFails(p) PROVE SoleInv'
  BY <1>22 DEF CopyFails, Return
<1>23. ASSUME NEW p \in Proc, CopyDone(p) PROVE SoleInv'
  BY <1>23 DEF CopyDone, FetchDone
<1>24. ASSUME NEW p \in Proc, Expire(p) PROVE SoleInv'
  BY <1>24 DEF Expire, call
<1>25. ASSUME NEW p \in Proc, SetSyncStrategy(p) PROVE SoleInv'
  BY <1>25 DEF SetSyncStrategy, call
<1>26. ASSUME NEW p \in Proc, Crash(p) PROVE SoleInv'
  BY <1>26 DEF Crash, Return
<1>27. CASE Publish
  BY <1>27 DEF Publish, call
<1>28. CASE Tick
  BY <1>28 DEF Tick, call
<1>29. CASE EditRepoFile
  BY <1>29 DEF EditRepoFile, call
<1>30. CASE UNCHANGED vars
  BY <1>30 DEF vars, call
<1> QED
  BY <1>1, <1>2, <1>3, <1>4, <1>5, <1>6, <1>7, <1>8, <1>9, <1>10, <1>11, <1>12, <1>13, <1>14, <1>15, <1>16, <1>17, <1>18, <1>19, <1>20, <1>21, <1>22, <1>23, <1>24, <1>25, <1>26, <1>27, <1>28, <1>29, <1>30 DEF Next, CallStep, FetchStep

\* A process that is alone with the cache can trust load(): when it returns
\* true and their files are there, the metadata in memory are a version the
\* origin served after the call began.  This holds whatever steps failed and wherever earlier processes
\* died, for every combination of the options.
THEOREM SoleTrueMeansCurrent ==
  ASSUME NEW q, Proc = {q}
  PROVE  Spec => []TrueMeansCurrent
<1>1. SoleInv => TrueMeansCurrent
  BY DEF SoleInv, ResultIsCurrent, TrueMeansCurrent
<1>2. IInv /\ SoleInv /\ [Next]_vars => SoleInv'
  BY NextSoleInv
<1>3. QED
  BY <1>1, <1>2, InitIInv, NextIInv, InitSoleInv, PTL DEF Spec
=============================================================================
