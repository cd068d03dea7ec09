--------------------------- MODULE SolvCacheProofs ---------------------------
(***************************************************************************)
(* SolvCache for every set of processes, every number of versions and      *)
(* every list of extensions: its types, that the binary files say what     *)
(* they are, that a repository in the pool is of one version, and that the *)
(* provides index is never stale while it is marked ready.                 *)
(***************************************************************************)
EXTENDS SolvCache, TLAPS

\* The files of the origin are parts, and a part is the main one or an extension.
LEMMA Parts ==
    /\ Len(Exts) \in Nat
    /\ Main \in Part /\ FilesOf \subseteq Part
    /\ Empty \in [Part -> 0 .. MaxVersion + 1]
    /\ MaxVersion \in Nat /\ 1 \in Version
    /\ \A v \in Version : v \in 0 .. MaxVersion + 1
    /\ None \in 0 .. MaxVersion + 1 /\ Mixed \in 0 .. MaxVersion + 1
<1>1. Len(Exts) \in Nat  BY SolvCacheAssumption
<1>2. QED  BY <1>1, SolvCacheAssumption DEF Part, Main, FilesOf, Empty, None, Version, Mixed

\* The initial state is well typed.
LEMMA InitType == Init => TypeOK
<1>1. SUFFICES ASSUME Init PROVE TypeOK  OBVIOUS
<1>2. [parts |-> Empty, stray |-> FALSE] \in Contents  BY Parts DEF Contents
<1>3. /\ repomd \in {None} \cup Version
      /\ files \in [Version -> SUBSET Part]
      /\ latest \in Version
      /\ solv \in [Part -> [cs : {None} \cup Version, content : 0 .. MaxVersion + 1]]
      /\ md \in [Proc -> {None} \cup Version]
      /\ part \in [Proc -> 0 .. Len(Exts) + 1]
      /\ checksum \in [Proc -> {None} \cup Version]
  BY <1>1, Parts DEF Init, Main
<1>4. /\ pc \in [Proc -> PC]
      /\ info \in [Proc -> {"LOADED_FETCH", "LOADED_CACHE", "garbage"}]
  BY <1>1 DEF Init, PC
<1>5. /\ pool \in [Proc -> [Part -> 0 .. MaxVersion + 1]]
      /\ attached \in [Proc -> BOOLEAN]
      /\ stray \in [Proc -> BOOLEAN]
      /\ ready \in [Proc -> BOOLEAN]
      /\ provides \in [Proc -> Contents]
  BY <1>1, <1>2, Parts DEF Init
<1>6. QED  BY <1>3, <1>4, <1>5 DEF TypeOK

\* The fields of a binary file, as the writers set them.
LEMMA SolvSet ==
    ASSUME TypeOK, NEW k \in Part, NEW c \in {None} \cup Version, NEW v \in 0 .. MaxVersion + 1
    PROVE  [solv EXCEPT ![k] = [cs |-> c, content |-> v]]
             \in [Part -> [cs : {None} \cup Version, content : 0 .. MaxVersion + 1]]
  BY DEF TypeOK

\* One part of one process's pool is replaced.
LEMMA PoolSet ==
    ASSUME TypeOK, NEW p \in Proc, NEW k \in Part, NEW v \in 0 .. MaxVersion + 1
    PROVE  [pool EXCEPT ![p][k] = v] \in [Proc -> [Part -> 0 .. MaxVersion + 1]]
<1>1. pool[p] \in [Part -> 0 .. MaxVersion + 1]  BY DEF TypeOK
<1>2. [pool[p] EXCEPT ![k] = v] \in [Part -> 0 .. MaxVersion + 1]  BY <1>1
<1>3. QED  BY <1>2 DEF TypeOK

\* The state a new process starts from is well typed.
LEMMA AbortType ==
    ASSUME TypeOK, NEW p \in Proc, Abort(p), UNCHANGED <<disk, solv>>
    PROVE  TypeOK'
<1>1. [parts |-> Empty, stray |-> FALSE] \in Contents  BY Parts DEF Contents
<1>2. md' \in [Proc -> {None} \cup Version] /\ part' \in [Proc -> 0 .. Len(Exts) + 1]
      /\ checksum' \in [Proc -> {None} \cup Version]
  BY Parts DEF TypeOK, Abort, Main
<1>3. pc' \in [Proc -> PC] /\ info' \in [Proc -> {"LOADED_FETCH", "LOADED_CACHE", "garbage"}]
  BY DEF TypeOK, Abort, PC
<1>4. /\ pool' \in [Proc -> [Part -> 0 .. MaxVersion + 1]]
      /\ attached' \in [Proc -> BOOLEAN] /\ stray' \in [Proc -> BOOLEAN]
      /\ ready' \in [Proc -> BOOLEAN] /\ provides' \in [Proc -> Contents]
  BY <1>1, Parts DEF TypeOK, Abort
<1>5. QED  BY <1>2, <1>3, <1>4 DEF TypeOK, disk

\* What pool_createwhatprovides() records is well typed.
LEMMA ProvidesType ==
    ASSUME TypeOK, NEW p \in Proc, PoolCreateWhatProvides(p)
    PROVE  provides' \in [Proc -> Contents] /\ ready' \in [Proc -> BOOLEAN]
<1>1. Content(p) \in Contents  BY DEF TypeOK, Content, Contents
<1>2. QED  BY <1>1 DEF TypeOK, PoolCreateWhatProvides

\* Attaching the new libsolv repository, or failing to, is well typed.
LEMMA AttachType ==
    ASSUME TypeOK, NEW p \in Proc, NEW v \in 0 .. MaxVersion + 1, NEW next \in {Main, 1},
           NEW step \in PC, Attach(p, v, next, step), UNCHANGED <<disk, solv>>
    PROVE  TypeOK'
<1>1. next \in 0 .. Len(Exts) + 1 /\ "idle" \in PC  BY Parts DEF Main, PC
<1>2. [pool EXCEPT ![p][Main] = v] \in [Proc -> [Part -> 0 .. MaxVersion + 1]]
  BY PoolSet, Parts
<1>3. part' \in [Proc -> 0 .. Len(Exts) + 1] /\ pc' \in [Proc -> PC]
      /\ pool' \in [Proc -> [Part -> 0 .. MaxVersion + 1]]
  <2>1. CASE attached[p]  BY <1>1, <2>1 DEF Attach, TypeOK, Goto
  <2>2. CASE ~attached[p]
    <3>1. part' = [part EXCEPT ![p] = next] /\ pc' = [pc EXCEPT ![p] = step]
          /\ pool' = [pool EXCEPT ![p][Main] = v]
      BY <2>2 DEF Attach, Goto
    <3>2. QED  BY <1>1, <1>2, <3>1 DEF TypeOK
  <2>3. QED  BY <2>1, <2>2
<1>4. attached' \in [Proc -> BOOLEAN] /\ stray' \in [Proc -> BOOLEAN]
      /\ ready' \in [Proc -> BOOLEAN]
  BY DEF Attach, TypeOK
<1>5. QED  BY <1>3, <1>4 DEF TypeOK, Attach, disk

\* A writer is at a part, not past the last one.
WriterAtPart == \A p \in Proc : pc[p] = "write" => part[p] \in Part

\* Every step keeps the types.
LEMMA StepType == TypeOK /\ WriterAtPart /\ [Next]_vars => TypeOK'
<1>1. SUFFICES ASSUME TypeOK, WriterAtPart, [Next]_vars PROVE TypeOK'  OBVIOUS
<1>2. "idle" \in PC /\ "checksum" \in PC /\ "main" \in PC /\ "write" \in PC /\ "ext" \in PC
      /\ "rewrite" \in PC
  BY DEF PC
<1>3. CASE RefreshRemoves
  <2>1. repomd' \in {None} \cup Version /\ files' \in [Version -> SUBSET Part]
    <3>1. CASE repomd' = None /\ files' = files  BY <1>1, <3>1 DEF TypeOK
    <3>2. CASE repomd' = repomd /\ \E v \in Version : \E f \in files[v] :
                 files' = [files EXCEPT ![v] = @ \ {f}]
      <4>1. PICK v \in Version : \E f \in files[v] : files' = [files EXCEPT ![v] = @ \ {f}]
        BY <3>2
      <4>2. PICK f \in files[v] : files' = [files EXCEPT ![v] = @ \ {f}]
        BY <4>1
      <4>3. files[v] \ {f} \in SUBSET Part  BY <1>1 DEF TypeOK
      <4>4. QED  BY <1>1, <3>2, <4>2, <4>3 DEF TypeOK
    <3>3. QED  BY <1>3, <3>1, <3>2 DEF RefreshRemoves
  <2>2. QED  BY <1>1, <1>3, <2>1 DEF RefreshRemoves, TypeOK, proc
<1>4. CASE RefreshInstalls
  BY <1>1, <1>4, Parts DEF RefreshInstalls, TypeOK, proc
<1>5. CASE RefreshRaces
  BY <1>1, <1>5, Parts DEF RefreshRaces, TypeOK, proc
<1>6. ASSUME NEW p \in Proc,
             LoadMetadata(p) \/ LoadRepo(p) \/ MakeProvidesReady(p) \/ ProcStep(p) \/ Restart(p)
      PROVE  TypeOK'
  <2>1. CASE LoadMetadata(p)  BY <1>1, <2>1 DEF LoadMetadata, TypeOK, disk
  <2>2. CASE LoadRepo(p)  BY <1>1, <1>2, <2>2 DEF LoadRepo, TypeOK, disk, Goto
  <2>3. CASE MakeProvidesReady(p)
    <3>1. provides' \in [Proc -> Contents] /\ ready' \in [Proc -> BOOLEAN]
      BY <1>1, <2>3, ProvidesType DEF MakeProvidesReady, TypeOK
    <3>2. pc' \in [Proc -> PC]  BY <1>1, <1>2, <2>3 DEF MakeProvidesReady, TypeOK, Goto
    <3>3. QED  BY <1>1, <2>3, <3>1, <3>2 DEF MakeProvidesReady, TypeOK, disk
  <2>4. CASE ReadChecksum(p)  BY <1>1, <1>2, <2>4 DEF ReadChecksum, TypeOK, disk, Goto
  <2>5. CASE MainFromCache(p)
    <3>1. solv[Main].content \in 0 .. MaxVersion + 1  BY <1>1, Parts DEF TypeOK
    <3>2. QED  BY <1>1, <1>2, <2>5, <3>1, AttachType, Parts DEF MainFromCache
  <2>6. CASE MainFromMetadata(p)
    <3>1. (IF md[p] = checksum[p] THEN md[p] ELSE Mixed) \in 0 .. MaxVersion + 1
      BY <1>1, Parts DEF TypeOK
    <3>2. QED  BY <1>1, <1>2, <2>6, <3>1, AttachType, Parts DEF MainFromMetadata
  <2>7. CASE MainParseFails(p)  BY <1>1, <1>2, <2>7 DEF MainParseFails, TypeOK, disk, Goto
  <2>20. CASE CacheReadFails(p)  BY <1>1, <1>2, <2>20 DEF CacheReadFails, TypeOK, disk, Goto
  <2>21. CASE ReloadFails(p)
    BY <1>1, <1>2, <2>21, Parts DEF ReloadFails, TypeOK, disk, Goto
  <2>8. CASE PrimaryMissing(p)  BY <1>1, <2>8, AbortType DEF PrimaryMissing
  <2>9. CASE Write(p)
    <3>1. part[p] \in Part  BY <1>1, <2>9 DEF Write, WriterAtPart
    <3>2. (IF info[p] = "garbage" THEN Mixed ELSE pool[p][part[p]]) \in 0 .. MaxVersion + 1
      BY <1>1, <3>1, Parts DEF TypeOK
    <3>3. solv' \in [Part -> [cs : {None} \cup Version, content : 0 .. MaxVersion + 1]]
      BY <1>1, <2>9, <3>1, <3>2, SolvSet DEF Write, TypeOK
    <3>4. part' \in [Proc -> 0 .. Len(Exts) + 1]
      BY <1>1, <2>9, <3>1, Parts DEF Write, TypeOK, Part
    <3>5. QED  BY <1>1, <1>2, <2>9, <3>3, <3>4 DEF Write, TypeOK, disk, Goto
  <2>10. CASE WriteFails(p)  BY <1>1, <1>2, <2>10 DEF WriteFails, TypeOK, disk, Goto
  <2>11. CASE ExtNotOffered(p)
    BY <1>1, <2>11, Parts DEF ExtNotOffered, ExtNow, TypeOK, disk
  <2>12. CASE ExtFromCache(p)
    <3>1. part[p] \in Part /\ part' \in [Proc -> 0 .. Len(Exts) + 1]
      BY <1>1, <2>12, Parts DEF ExtFromCache, ExtNow, TypeOK, Part
    <3>2. solv[part[p]].content \in 0 .. MaxVersion + 1  BY <1>1, <3>1 DEF TypeOK
    <3>3. pool' \in [Proc -> [Part -> 0 .. MaxVersion + 1]]
      BY <1>1, <2>12, <3>1, <3>2, PoolSet DEF ExtFromCache
    <3>4. QED  BY <1>1, <2>12, <3>1, <3>3 DEF ExtFromCache, TypeOK, disk
  <2>13. CASE ExtFromMetadata(p)
    <3>1. part[p] \in Part /\ md[p] \in 0 .. MaxVersion + 1
      BY <1>1, <2>13, Parts DEF ExtFromMetadata, ExtNow, TypeOK, Part
    <3>2. [pool EXCEPT ![p][part[p]] = md[p]] \in [Proc -> [Part -> 0 .. MaxVersion + 1]]
      BY <1>1, <3>1, PoolSet
    <3>3. pool' \in [Proc -> [Part -> 0 .. MaxVersion + 1]]
      BY <1>1, <2>13, <3>2 DEF ExtFromMetadata, TypeOK
    <3>4. part' \in [Proc -> 0 .. Len(Exts) + 1]
      <4>1. part[p] + 1 \in 0 .. Len(Exts) + 1
        BY <2>13, Parts DEF ExtFromMetadata, ExtNow
      <4>2. part' = part \/ part' = [part EXCEPT ![p] = part[p] + 1]
        BY <2>13 DEF ExtFromMetadata
      <4>3. QED  BY <1>1, <4>1, <4>2 DEF TypeOK
    <3>5. pc' \in [Proc -> PC] /\ info' \in [Proc -> {"LOADED_FETCH", "LOADED_CACHE", "garbage"}]
      BY <1>1, <1>2, <2>13 DEF ExtFromMetadata, TypeOK, Goto
    <3>6. ready' \in [Proc -> BOOLEAN]
      BY <1>1, <2>13 DEF ExtFromMetadata, TypeOK
    <3>7. QED  BY <1>1, <2>13, <3>3, <3>4, <3>5, <3>6 DEF ExtFromMetadata, TypeOK, disk
  <2>14. CASE ExtParseFails(p)
    <3>1. part' \in [Proc -> 0 .. Len(Exts) + 1]
      <4>1. part[p] + 1 \in 0 .. Len(Exts) + 1
        BY <2>14, Parts DEF ExtParseFails, ExtNow
      <4>2. part' = part \/ part' = [part EXCEPT ![p] = part[p] + 1]
        BY <2>14 DEF ExtParseFails
      <4>3. QED  BY <1>1, <4>1, <4>2 DEF TypeOK
    <3>2. pc' \in [Proc -> PC] /\ info' \in [Proc -> {"LOADED_FETCH", "LOADED_CACHE", "garbage"}]
      BY <1>1, <1>2, <2>14 DEF ExtParseFails, TypeOK, Goto
    <3>3. ready' \in [Proc -> BOOLEAN]
      BY <1>1, <2>14 DEF ExtParseFails, TypeOK
    <3>4. QED  BY <1>1, <2>14, <3>1, <3>2, <3>3 DEF ExtParseFails, TypeOK, disk
  <2>15. CASE LoadRepoDone(p)  BY <1>1, <1>2, <2>15 DEF LoadRepoDone, TypeOK, disk, Goto
  <2>16. CASE Rewrite(p)
    <3>1. pool[p][Main] \in 0 .. MaxVersion + 1 /\ checksum[p] \in {None} \cup Version
      BY <1>1, Parts DEF TypeOK
    <3>2. solv' \in [Part -> [cs : {None} \cup Version, content : 0 .. MaxVersion + 1]]
      BY <1>1, <2>16, <3>1, SolvSet, Parts DEF Rewrite
    <3>3. provides' \in [Proc -> Contents] /\ ready' \in [Proc -> BOOLEAN]
      BY <1>1, <2>16, ProvidesType DEF Rewrite
    <3>4. pc' \in [Proc -> PC]  BY <1>1, <1>2, <2>16 DEF Rewrite, TypeOK, Goto
    <3>5. QED  BY <1>1, <2>16, <3>2, <3>3, <3>4 DEF Rewrite, TypeOK, disk
  <2>17. CASE RewriteFails(p)
    <3>1. pool[p] \in [Part -> 0 .. MaxVersion + 1]  BY <1>1 DEF TypeOK
    <3>2. [k \in Part |-> IF k = Main THEN pool[p][Main] ELSE None]
            \in [Part -> 0 .. MaxVersion + 1]
      BY <3>1, Parts
    <3>3. pool' \in [Proc -> [Part -> 0 .. MaxVersion + 1]]
      BY <1>1, <2>17, <3>2 DEF RewriteFails, TypeOK
    <3>4. QED  BY <1>1, <1>2, <2>17, <3>3 DEF RewriteFails, TypeOK, disk, Goto
  <2>18. CASE Restart(p)  BY <1>1, <2>18, AbortType DEF Restart
  <2>19. QED
    BY <1>6, <2>1, <2>2, <2>3, <2>4, <2>5, <2>6, <2>7, <2>8, <2>9, <2>10, <2>11, <2>12,
       <2>13, <2>14, <2>15, <2>16, <2>17, <2>18, <2>20, <2>21 DEF ProcStep
<1>7. CASE UNCHANGED vars
  BY <1>1, <1>7 DEF vars, disk, proc, TypeOK
<1>8. QED  BY <1>1, <1>3, <1>4, <1>5, <1>6, <1>7 DEF Next

-----------------------------------------------------------------------------
\* Only MainFromMetadata, ExtFromMetadata and ExtParseFails make a writer, and
\* each of them is at a part.
LEMMA StepWriter == TypeOK /\ WriterAtPart /\ [Next]_vars => WriterAtPart'
<1>1. SUFFICES ASSUME TypeOK, WriterAtPart, [Next]_vars, NEW q \in Proc
               PROVE  (pc[q] = "write" => part[q] \in Part)'
  BY DEF WriterAtPart
<1>2. pc[q] = "write" => part[q] \in Part  BY <1>1 DEF WriterAtPart
<1>3. CASE RefreshRemoves \/ RefreshInstalls \/ RefreshRaces
  BY <1>2, <1>3 DEF RefreshRemoves, RefreshInstalls, RefreshRaces, proc
<1>4. ASSUME NEW p \in Proc,
             LoadMetadata(p) \/ LoadRepo(p) \/ MakeProvidesReady(p) \/ ProcStep(p) \/ Restart(p)
      PROVE  (pc[q] = "write" => part[q] \in Part)'
  <2>1. CASE LoadMetadata(p)  BY <1>2, <2>1 DEF LoadMetadata
  <2>2. CASE LoadRepo(p) \/ MakeProvidesReady(p) \/ ReadChecksum(p) \/ MainParseFails(p)
             \/ WriteFails(p) \/ LoadRepoDone(p) \/ Rewrite(p) \/ RewriteFails(p)
             \/ CacheReadFails(p) \/ ReloadFails(p)
    BY <1>1, <1>2, <2>2 DEF LoadRepo, MakeProvidesReady, ReadChecksum, MainParseFails,
       WriteFails, LoadRepoDone, Rewrite, RewriteFails, CacheReadFails, ReloadFails, Goto, TypeOK
  <2>3. CASE MainFromCache(p)
    BY <1>1, <1>2, <2>3 DEF MainFromCache, Attach, Goto, TypeOK
  <2>4. CASE MainFromMetadata(p)
    BY <1>1, <1>2, <2>4, Parts DEF MainFromMetadata, Attach, Goto, TypeOK
  <2>5. CASE PrimaryMissing(p) \/ Restart(p)
    BY <1>1, <1>2, <2>5 DEF PrimaryMissing, Restart, Abort, TypeOK
  <2>6. CASE Write(p)
    BY <1>1, <1>2, <2>6 DEF Write, Goto, TypeOK
  <2>7. CASE ExtNotOffered(p) \/ ExtFromCache(p)
    BY <1>1, <1>2, <2>7 DEF ExtNotOffered, ExtFromCache, ExtNow, TypeOK
  <2>8. CASE ExtFromMetadata(p) \/ ExtParseFails(p)
    BY <1>1, <1>2, <2>8, Parts DEF ExtFromMetadata, ExtParseFails, ExtNow, Goto, TypeOK, Part
  <2>9. QED  BY <1>4, <2>1, <2>2, <2>3, <2>4, <2>5, <2>6, <2>7, <2>8 DEF ProcStep
<1>5. CASE UNCHANGED vars  BY <1>2, <1>5 DEF vars, proc
<1>6. QED  BY <1>1, <1>3, <1>4, <1>5 DEF Next

\* Type correctness: the part a process is at, the versions and the labels stay in
\* their ranges whatever fails and whoever refreshes.
THEOREM SolvTypeCorrect == Spec => [](TypeOK /\ WriterAtPart)
<1>1. Init => WriterAtPart  BY DEF Init, WriterAtPart
<1>2. QED  BY <1>1, InitType, StepType, StepWriter, PTL DEF Spec

-----------------------------------------------------------------------------
\* While a part is being added provides_ready is off, and a process that opens
\* the main metadata has no repository attached.
FreshInv(p) ==
    /\ ready[p] => provides[p] = Content(p) /\ pc[p] \in {"idle", "checksum", "main"}
    /\ pc[p] \in {"checksum", "main"} => ~attached[p]

\* After pool_createwhatprovides() the index of p covers p's pool, and the other
\* processes' are as before.
LEMMA IndexCoversPool ==
    ASSUME TypeOK, NEW p \in Proc, NEW q \in Proc, PoolCreateWhatProvides(p),
           pool' = pool, stray' = stray
    PROVE  /\ q = p => provides'[q] = Content(q)'
           /\ q # p => provides'[q] = provides[q] /\ ready'[q] = ready[q]
  BY Zenon DEF TypeOK, PoolCreateWhatProvides, Content

\* Unless a loaded repository is loaded again, the provides index is up to date
\* whenever provides_ready says so.
THEOREM ProvidesStayFresh ==
    ASSUME ~LoadTwice PROVE Spec => []ProvidesFresh
<1> DEFINE Inv == \A p \in Proc : FreshInv(p)
<1>1. Init => Inv  BY DEF Init, FreshInv
<1>2. TypeOK /\ Inv /\ [Next]_vars => Inv'
  <2>1. SUFFICES ASSUME TypeOK, Inv, [Next]_vars, NEW q \in Proc PROVE FreshInv(q)'  OBVIOUS
  <2>2. FreshInv(q)  BY <2>1
  <2>3. CASE RefreshRemoves \/ RefreshInstalls \/ RefreshRaces
    BY <2>2, <2>3 DEF RefreshRemoves, RefreshInstalls, RefreshRaces, proc, FreshInv, Content
  <2>4. ASSUME NEW p \in Proc,
               LoadMetadata(p) \/ LoadRepo(p) \/ MakeProvidesReady(p) \/ ProcStep(p) \/ Restart(p)
        PROVE  FreshInv(q)'
    <3>1. CASE LoadMetadata(p)  BY <2>2, <3>1 DEF LoadMetadata, FreshInv, Content
    <3>2. CASE LoadRepo(p) \/ ReadChecksum(p) \/ MainParseFails(p) \/ WriteFails(p)
               \/ LoadRepoDone(p) \/ CacheReadFails(p)
      BY <2>1, <2>2, <3>2 DEF LoadRepo, ReadChecksum, MainParseFails, WriteFails,
         LoadRepoDone, CacheReadFails, Goto, TypeOK, FreshInv, Content
    <3>3. CASE MakeProvidesReady(p)
      <4>1. pool' = pool /\ stray' = stray /\ attached' = attached
        BY <3>3 DEF MakeProvidesReady
      <4>2. CASE PoolCreateWhatProvides(p) /\ pc' = pc
        BY <2>1, <2>2, <3>3, <4>1, <4>2, IndexCoversPool DEF TypeOK, FreshInv, Content,
           MakeProvidesReady
      <4>3. CASE Goto(p, "rewrite") /\ ready' = ready /\ provides' = provides
        BY <2>1, <2>2, <3>3, <4>1, <4>3 DEF MakeProvidesReady, Goto, TypeOK, FreshInv, Content
      <4>4. QED  BY <3>3, <4>2, <4>3 DEF MakeProvidesReady
    <3>4. CASE MainFromCache(p) \/ MainFromMetadata(p)
      <4>1. ~attached[p]  BY <2>1, <3>4 DEF MainFromCache, MainFromMetadata, FreshInv
      <4>2. QED
        BY <2>1, <2>2, <3>4, <4>1 DEF MainFromCache, MainFromMetadata, Attach, Goto, TypeOK,
           FreshInv, Content
    <3>5. CASE PrimaryMissing(p) \/ Restart(p)
      BY <2>1, <2>2, <3>5 DEF PrimaryMissing, Restart, Abort, TypeOK, FreshInv, Content
    <3>6. CASE Write(p)
      BY <2>1, <2>2, <3>6 DEF Write, Goto, TypeOK, FreshInv, Content
    <3>7. CASE ExtNotOffered(p) \/ ExtFromCache(p)
      BY <2>1, <2>2, <3>7 DEF ExtNotOffered, ExtFromCache, ExtNow, TypeOK, FreshInv, Content
    <3>8. CASE ExtFromMetadata(p) \/ ExtParseFails(p)
      BY <2>1, <2>2, <3>8 DEF ExtFromMetadata, ExtParseFails, ExtNow, Goto, TypeOK, FreshInv,
         Content
    <3>9. CASE Rewrite(p)
      <4>1. pool' = pool /\ stray' = stray /\ attached' = attached /\ PoolCreateWhatProvides(p)
            /\ Goto(p, "idle")
        BY <3>9 DEF Rewrite
      <4>2. QED
        BY <2>1, <2>2, <4>1, IndexCoversPool DEF Goto, TypeOK, FreshInv, Content
    <3>10. CASE RewriteFails(p)
      BY <2>1, <2>2, <3>10 DEF RewriteFails, Goto, TypeOK, FreshInv, Content
    <3>11. CASE ReloadFails(p)
      BY <2>1, <2>2, <3>11 DEF ReloadFails, Goto, TypeOK, FreshInv, Content
    <3>12. QED
      BY <2>4, <3>1, <3>2, <3>3, <3>4, <3>5, <3>6, <3>7, <3>8, <3>9, <3>10, <3>11 DEF ProcStep
  <2>5. CASE UNCHANGED vars  BY <2>2, <2>5 DEF vars, proc, FreshInv, Content
  <2>6. QED  BY <2>1, <2>3, <2>4, <2>5 DEF Next
<1>3. Inv => ProvidesFresh  BY DEF FreshInv, ProvidesFresh
<1>4. QED  BY <1>1, <1>2, <1>3, SolvTypeCorrect, PTL DEF Spec
-----------------------------------------------------------------------------
\* With one refresher at a time only files of the newest version are on disk.
DiskInv ==
    /\ repomd \in {None, latest}
    /\ \A v \in Version : files[v] # {} => v = latest

\* What a load has read so far fits the checksum it began with: the paths in
\* memory are not newer than the checksum, so a file found at such a path is of
\* the checksum's version, the newest one.
LoadInv(p) ==
    /\ md[p] <= latest /\ checksum[p] <= latest /\ info[p] # "garbage"
    /\ pc[p] \in {"checksum", "main"} => ~attached[p]
    /\ pc[p] \in {"write", "ext", "rewrite"} => attached[p]
    /\ pc[p] \in {"checksum", "main", "write", "ext"} => md[p] # None
    /\ pc[p] \in {"main", "write", "ext"} => md[p] <= checksum[p]
    /\ pc[p] = "main" => checksum[p] # None
    /\ pc[p] = "write" => pool[p][part[p]] = checksum[p]
    /\ attached[p] => checksum[p] # None
    /\ pc[p] \in {"write", "ext", "rewrite"} \/ (attached[p] /\ part[p] # Main) =>
          pool[p][Main] = checksum[p]
    /\ \A k \in Part : pool[p][k] # None =>
          attached[p] /\ pool[p][k] = checksum[p] /\ pool[p][Main] = checksum[p]

HonestInv == DiskInv /\ SolvFilesHonest /\ \A p \in Proc : LoadInv(p)

\* A step that leaves the state of a process alone keeps its invariant.
LEMMA BystanderKeeps ==
    ASSUME NEW q \in Proc, LoadInv(q), latest' = latest,
           md'[q] = md[q], checksum'[q] = checksum[q], info'[q] = info[q], pc'[q] = pc[q],
           part'[q] = part[q], pool'[q] = pool[q], attached'[q] = attached[q]
    PROVE  LoadInv(q)'
  BY DEF LoadInv

\* A metadata file found at a path in memory is of the version of the checksum.
LEMMA FileIsOfChecksum ==
    ASSUME TypeOK, DiskInv, NEW p \in Proc, LoadInv(p), pc[p] \in {"main", "ext"},
           NEW k \in Part, k \in files[md[p]]
    PROVE  md[p] = checksum[p]
<1>1. md[p] \in Version /\ checksum[p] \in Nat /\ latest \in Nat /\ md[p] \in Nat
  BY Parts DEF TypeOK, LoadInv, Version, None
<1>2. md[p] = latest  BY <1>1 DEF DiskInv
<1>3. QED  BY <1>1, <1>2 DEF LoadInv

\* With one refresher at a time, metadata that parse and no second load_repo(), no
\* step labels a binary file wrongly or mixes versions in the pool.
LEMMA HonestStep ==
    ASSUME OneRefresher, ~ParseErrors, ~LoadTwice,
           TypeOK, WriterAtPart, HonestInv, [Next]_vars
    PROVE  HonestInv'
<1>1. MaxVersion \in Nat /\ latest \in Nat /\ None = 0  BY Parts DEF TypeOK, Version, None
<1>2. DiskInv'
  <2>1. CASE RefreshRemoves  BY <2>1 DEF RefreshRemoves, HonestInv, DiskInv, TypeOK
  <2>2. CASE RefreshInstalls  BY <2>2 DEF RefreshInstalls, HonestInv, DiskInv, TypeOK
  <2>3. CASE RefreshRaces  BY <2>3 DEF RefreshRaces
  <2>4. CASE UNCHANGED disk  BY <2>4 DEF HonestInv, DiskInv, disk
  <2>5. QED
    BY <2>1, <2>2, <2>3, <2>4 DEF Next, vars, LoadMetadata, LoadRepo, MakeProvidesReady, ProcStep,
       ReadChecksum, MainFromCache, MainFromMetadata, MainParseFails, PrimaryMissing, Write,
       WriteFails, ExtNotOffered, ExtFromCache, ExtFromMetadata, ExtParseFails, LoadRepoDone,
       Rewrite, RewriteFails, Restart, CacheReadFails, ReloadFails
<1>3. SolvFilesHonest'
  <2>1. CASE UNCHANGED solv  BY <2>1 DEF HonestInv, SolvFilesHonest
  <2>2. ASSUME NEW p \in Proc, Write(p) PROVE SolvFilesHonest'
    <3>1. part[p] \in Part /\ pool[p][part[p]] = checksum[p] /\ info[p] # "garbage"
      BY <2>2 DEF Write, WriterAtPart, HonestInv, LoadInv
    <3>2. solv' = [solv EXCEPT ![part[p]] = [cs |-> checksum[p], content |-> checksum[p]]]
      BY <2>2, <3>1 DEF Write
    <3>3. QED  BY <3>2 DEF HonestInv, SolvFilesHonest, TypeOK
  <2>3. ASSUME NEW p \in Proc, Rewrite(p) PROVE SolvFilesHonest'
    <3>1. pool[p][Main] = checksum[p]
      BY <2>3 DEF Rewrite, HonestInv, LoadInv
    <3>2. solv' = [solv EXCEPT ![Main] = [cs |-> checksum[p], content |-> checksum[p]]]
      BY <2>3, <3>1 DEF Rewrite
    <3>3. QED  BY <3>2 DEF HonestInv, SolvFilesHonest, TypeOK
  <2>4. QED
    BY <2>1, <2>2, <2>3 DEF Next, vars, RefreshRemoves, RefreshInstalls, RefreshRaces, LoadMetadata,
       LoadRepo, MakeProvidesReady, ProcStep, ReadChecksum, MainFromCache, MainFromMetadata,
       MainParseFails, PrimaryMissing, WriteFails, ExtNotOffered, ExtFromCache, ExtFromMetadata,
       ExtParseFails, LoadRepoDone, RewriteFails, Restart, CacheReadFails, ReloadFails
<1>4. ASSUME NEW q \in Proc PROVE LoadInv(q)'
  <2>1. LoadInv(q)  BY DEF HonestInv
  <2>2. CASE RefreshRemoves \/ RefreshRaces
    BY <2>1, <2>2 DEF RefreshRemoves, RefreshRaces, proc, LoadInv
  <2>3. CASE RefreshInstalls
    BY <1>1, <2>1, <2>3 DEF RefreshInstalls, proc, LoadInv, TypeOK, Version
  <2>4. ASSUME NEW p \in Proc,
               LoadMetadata(p) \/ LoadRepo(p) \/ MakeProvidesReady(p) \/ ProcStep(p) \/ Restart(p)
        PROVE  LoadInv(q)'
    <3>0. LoadInv(p)  BY DEF HonestInv
    <3>1. CASE LoadMetadata(p)
      BY <1>1, <2>1, <3>1 DEF LoadMetadata, LoadInv, HonestInv, DiskInv, disk, TypeOK
    <3>2. CASE LoadRepo(p) \/ MainParseFails(p) \/ WriteFails(p) \/ LoadRepoDone(p)
               \/ CacheReadFails(p)
      BY <2>1, <3>2 DEF LoadRepo, MainParseFails, WriteFails, LoadRepoDone, CacheReadFails, Goto,
         TypeOK, LoadInv, disk
    <3>3. CASE MakeProvidesReady(p)
      BY <2>1, <3>3 DEF MakeProvidesReady, Goto, TypeOK, LoadInv, disk
    <3>4. CASE ReadChecksum(p)
      BY <1>1, <2>1, <3>4 DEF ReadChecksum, Goto, TypeOK, LoadInv, disk, HonestInv, DiskInv
    <3>5. CASE MainFromCache(p)
      <4>1. ~attached[p] /\ solv[Main].content = checksum[p]
        BY <3>0, <3>5, Parts DEF MainFromCache, CanUseCache, LoadInv, HonestInv, SolvFilesHonest
      <4>2. QED
        <5>1. CASE q # p
          BY <2>1, <3>5, <5>1, BystanderKeeps DEF MainFromCache, Attach, Goto, TypeOK, disk
        <5>2. CASE q = p
          <6>1. /\ pc'[p] = "ext" /\ attached'[p] = TRUE /\ pool'[p] = [pool[p] EXCEPT ![Main] = checksum[p]]
                /\ md' = md /\ checksum' = checksum /\ info' = info /\ latest' = latest
            BY <3>5, <4>1 DEF MainFromCache, Attach, Goto, TypeOK, disk
          <6>2. pool[p] \in [Part -> 0 .. MaxVersion + 1] /\ pc[p] = "main"
            BY <3>5 DEF MainFromCache, TypeOK
          <6>3. QED  BY <3>0, <4>1, <5>2, <6>1, <6>2, Parts DEF LoadInv
        <5>3. QED  BY <5>1, <5>2
    <3>6. CASE MainFromMetadata(p)
      <4>1. ~attached[p] /\ md[p] = checksum[p]
        BY <3>0, <3>6, Parts, FileIsOfChecksum DEF MainFromMetadata, LoadInv, HonestInv
      <4>2. CASE q # p
        BY <2>1, <3>6, <4>2, BystanderKeeps DEF MainFromMetadata, Attach, Goto, TypeOK, disk
      <4>3. CASE q = p
        <5>1. /\ pc'[p] \in {"write", "ext"} /\ (pc'[p] = "write" => part'[p] = Main)
              /\ attached'[p] = TRUE /\ pool'[p] = [pool[p] EXCEPT ![Main] = checksum[p]]
              /\ md' = md /\ checksum' = checksum /\ info' = info /\ latest' = latest
          <6>1. /\ Attach(p, checksum[p], Main, "write") \/ Attach(p, checksum[p], 1, "ext")
                /\ latest' = latest
            BY <3>6, <4>1 DEF MainFromMetadata, disk
          <6>2. CASE Attach(p, checksum[p], Main, "write")
            BY <4>1, <6>1, <6>2 DEF Attach, Goto, TypeOK
          <6>3. CASE Attach(p, checksum[p], 1, "ext")
            BY <4>1, <6>1, <6>3 DEF Attach, Goto, TypeOK
          <6>4. QED  BY <6>1, <6>2, <6>3
        <5>2. pool[p] \in [Part -> 0 .. MaxVersion + 1] /\ pc[p] = "main"
          BY <3>6 DEF MainFromMetadata, TypeOK
        <5>3. QED  BY <3>0, <4>1, <4>3, <5>1, <5>2, Parts DEF LoadInv
      <4>4. QED  BY <4>2, <4>3
    <3>7. CASE PrimaryMissing(p) \/ Restart(p)
      <4>1. Abort(p) /\ latest' = latest  BY <3>7 DEF PrimaryMissing, Restart, disk
      <4>2. CASE q # p  BY <2>1, <4>1, <4>2, BystanderKeeps DEF Abort, TypeOK
      <4>3. CASE q = p
        <5>1. /\ pc'[p] = "idle" /\ attached'[p] = FALSE /\ pool'[p] = Empty
              /\ md'[p] = None /\ checksum'[p] = None /\ info'[p] = "LOADED_CACHE"
          BY <4>1 DEF Abort, TypeOK
        <5>2. QED  BY <1>1, <4>1, <4>3, <5>1 DEF LoadInv, Empty
      <4>4. QED  BY <4>2, <4>3
    <3>8. CASE Write(p)
      BY <2>1, <3>0, <3>8 DEF Write, Goto, TypeOK, LoadInv, disk
    <3>9. CASE ExtNotOffered(p)
      BY <2>1, <3>0, <3>9 DEF ExtNotOffered, ExtNow, TypeOK, LoadInv, disk
    <3>10. CASE ExtFromCache(p)
      <4>1. part[p] \in Part /\ part[p] # Main /\ solv[part[p]].content = checksum[p]
        BY <3>10, Parts DEF ExtFromCache, ExtNow, CanUseCache, HonestInv, SolvFilesHonest, Part, Main
      <4>2. QED
        BY <2>1, <3>0, <3>10, <4>1 DEF ExtFromCache, ExtNow, TypeOK, LoadInv, disk
    <3>11. CASE ExtFromMetadata(p)
      <4>1. part[p] \in Part /\ part[p] # Main
        BY <3>11, Parts DEF ExtFromMetadata, ExtNow, Part, Main
      <4>2. part[p] \in files[md[p]] => md[p] = checksum[p]
        BY <3>0, <3>11, <4>1, FileIsOfChecksum DEF ExtFromMetadata, ExtNow, HonestInv
      <4>3. QED
        <5>1. CASE q # p
          BY <2>1, <3>11, <5>1, BystanderKeeps DEF ExtFromMetadata, Goto, TypeOK, disk
        <5>2. CASE q = p /\ part[p] \in files[md[p]]
          <6>1. /\ pc'[p] \in {"write", "ext"} /\ (pc'[p] = "write" => part'[p] = part[p])
                /\ pool'[p] = [pool[p] EXCEPT ![part[p]] = checksum[p]]
                /\ attached' = attached /\ md' = md /\ checksum' = checksum
                /\ info'[p] = "LOADED_FETCH" /\ latest' = latest /\ pc[p] = "ext"
            BY <3>11, <4>2, <5>2 DEF ExtFromMetadata, ExtNow, Goto, TypeOK, disk
          <6>2. pool[p] \in [Part -> 0 .. MaxVersion + 1]
            BY DEF TypeOK
          <6>3. QED  BY <3>0, <4>1, <5>2, <6>1, <6>2, Parts DEF LoadInv
        <5>3. CASE q = p /\ part[p] \notin files[md[p]]
          <6>1. /\ pc'[p] = "idle" /\ pool' = pool /\ part' = part /\ info' = info
                /\ attached' = attached /\ md' = md /\ checksum' = checksum /\ latest' = latest
            BY <3>11, <5>3 DEF ExtFromMetadata, ExtNow, Goto, TypeOK, disk
          <6>2. QED  BY <3>0, <5>3, <6>1 DEF LoadInv
        <5>4. QED  BY <5>1, <5>2, <5>3
    <3>12. CASE ExtParseFails(p)  BY <3>12 DEF ExtParseFails
    <3>13. CASE Rewrite(p)
      BY <2>1, <3>13 DEF Rewrite, Goto, TypeOK, LoadInv, disk
    <3>14. CASE RewriteFails(p)
      BY <2>1, <3>14, Parts DEF RewriteFails, Goto, TypeOK, LoadInv, disk
    <3>15. CASE ReloadFails(p)
      <4>1. /\ pc'[p] = "idle" /\ pool'[p] = Empty /\ part[p] = Main
            /\ md' = md /\ checksum' = checksum /\ info' = info /\ part' = part
            /\ attached' = attached /\ latest' = latest
        BY <3>15 DEF ReloadFails, Goto, TypeOK, disk
      <4>2. CASE q # p
        BY <2>1, <3>15, <4>1, <4>2, BystanderKeeps DEF ReloadFails, Goto, TypeOK
      <4>3. CASE q = p  BY <3>0, <4>1, <4>3 DEF LoadInv, Empty
      <4>4. QED  BY <4>2, <4>3
    <3>16. QED
      BY <2>4, <3>1, <3>2, <3>3, <3>4, <3>5, <3>6, <3>7, <3>8, <3>9, <3>10, <3>11, <3>12, <3>13,
         <3>14, <3>15 DEF ProcStep
  <2>5. CASE UNCHANGED vars  BY <2>1, <2>5 DEF vars, proc, disk, LoadInv
  <2>6. QED  BY <2>2, <2>3, <2>4, <2>5 DEF Next
<1>5. QED  BY <1>2, <1>3, <1>4 DEF HonestInv

\* With one refresher at a time, metadata that parse and no second load_repo(), a
\* binary file is what its checksum says and the parts of a repository in the pool
\* are of one version, for any number of processes reading, writing and dying.
THEOREM SolvCacheHonest ==
    ASSUME OneRefresher, ~ParseErrors, ~LoadTwice
    PROVE  Spec => [](SolvFilesHonest /\ PoolIsOneVersion)
<1>1. Init => HonestInv
  BY Parts, SolvCacheAssumption
     DEF Init, HonestInv, DiskInv, SolvFilesHonest, LoadInv, None, Main, Empty, Version
<1>2. TypeOK /\ WriterAtPart /\ HonestInv /\ [Next]_vars => HonestInv'  BY HonestStep
<1>3. HonestInv => SolvFilesHonest /\ PoolIsOneVersion
  BY DEF HonestInv, LoadInv, PoolIsOneVersion
<1>4. QED  BY <1>1, <1>2, <1>3, SolvTypeCorrect, PTL DEF Spec

\* Under the same three conditions a pool never mixes metadata of two versions of
\* a repository, although load_repo() reads repomd.xml, the primary file and every
\* extension at different times and other processes rewrite them in between.
THEOREM PoolStaysOneVersion ==
    ASSUME OneRefresher, ~ParseErrors, ~LoadTwice
    PROVE  Spec => []PoolIsOneVersion
<1>1. SolvFilesHonest /\ PoolIsOneVersion => PoolIsOneVersion
  OBVIOUS
<1>2. QED  BY <1>1, SolvCacheHonest, PTL
=============================================================================
