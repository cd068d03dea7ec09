-------------------------- MODULE Dnf4ObjectProofs --------------------------
(***************************************************************************)
(* Proofs about the objects of a dnf-4 process: the binary caches of the   *)
(* sack, its map of considered packages, the signatures and callbacks      *)
(* around an rpm transaction, a repository's configuration, what a goal    *)
(* promises about protected and installonly packages, the searches for     *)
(* advisories, and what queries answer, for any number of processes,       *)
(* repositories, packages, queries and calls.                              *)
(***************************************************************************)
EXTENDS DnfSackCache, DnfQuery, DnfRpmRun, DnfRepoConf, DnfGoal, DnfAdvisory,
        FiniteSetTheorems, TLAPS

-----------------------------------------------------------------------------
(* The binary caches.                                                      *)

ScNames == ScRepoSet \cup {ScSystem}
ScFiles == [label : Int, content : Int]

ScRecords ==
    [pc : ScStages, i : 0 .. Len(ScRepos), k : 0 .. Len(ScExts) + 1, fd : ScFiles, sum : Int,
     md : Int, pool : ScLoads, result : {"none", "TRUE", "FALSE"}]

ScTypes ==
    /\ rpmdb \in [content : Nat \ {0}, stat : Nat \ {0}]
    /\ mdDisk \in [ScRepoSet -> Int]
    /\ binary \in [ScNames -> [ScPart -> ScFiles]]
    /\ sc \in [ScProcs -> ScRecords]

\* A file of the system repository was labelled before its content was read;
\* one of a repository holds what its label says.
FilesHonest ==
    /\ binary[ScSystem][0].label <= binary[ScSystem][0].content
    /\ binary[ScSystem][0].content <= rpmdb.content
    /\ \A r \in ScRepoSet, k \in ScPart :
          binary[r][k].label # ScNone => binary[r][k].content = binary[r][k].label

\* What process p, with sack s, will write has been read after its checksum was
\* taken; a repository's checksum lies between the version the paths name and
\* the version on disk.
ScPlaced(s, db, md) ==
    /\ s.pc = "sysRead" => s.i = 0 /\ s.k = 0 /\ s.sum <= db.content
    /\ s.pc \in {"check", "open", "read", "ext"} => s.i # 0
    /\ s.pc \in {"open", "read"} => s.k = 0
    /\ s.pc = "ext" => s.k # 0
    /\ s.pc = "write" => s.k \in ScPart
    /\ s.pc = "write" /\ s.i = 0 =>
          s.k = 0 /\ s.sum <= s.pool[ScSystem][0] /\ s.pool[ScSystem][0] <= db.content
    /\ s.pc = "open" => s.md <= md[ScRepos[s.i]]
    /\ s.pc \in {"read", "ext", "write"} /\ s.i # 0 =>
          s.md <= s.sum /\ s.sum <= md[ScRepos[s.i]]
    /\ s.pc = "write" /\ s.i # 0 => s.pool[ScRepos[s.i]][s.k] = s.sum

ScInv ==
    /\ ScTypes
    /\ rpmdb.stat = rpmdb.content
    /\ FilesHonest
    /\ \A p \in ScProcs : ScPlaced(sc[p], rpmdb, mdDisk)

LEMMA ScConstants ==
    /\ Len(ScRepos) \in Nat /\ Len(ScExts) \in Nat
    /\ \A i \in 1 .. Len(ScRepos) : ScRepos[i] \in ScRepoSet
    /\ ScSystem \notin ScRepoSet
    /\ 0 \in ScPart
  BY DnfSackCacheAssumption DEF ScRepoSet, ScPart

LEMMA NewSackPlaced == NewSack \in ScRecords /\ NewSack.pc = "idle"
  BY ScConstants DEF NewSack, ScRecords, ScStages, NoFile, ScFiles, ScNone, Junk, NothingLoaded,
     ScLoads

LEMMA ScInit_ScInv == ScInit => ScInv
<1> SUFFICES ASSUME ScInit PROVE ScInv
  OBVIOUS
<1>1. NoFile \in ScFiles /\ NoFile.label = 0 /\ NoFile.content = 0
  BY DEF NoFile, ScFiles, ScNone
<1>2. ScTypes
  BY <1>1, NewSackPlaced DEF ScInit, ScTypes, ScNames
<1>3. FilesHonest
  BY <1>1, ScConstants DEF ScInit, FilesHonest, ScNone
<1>4. \A p \in ScProcs : ScPlaced(sc[p], rpmdb, mdDisk)
  BY NewSackPlaced DEF ScInit, ScPlaced
<1> QED
  BY <1>2, <1>3, <1>4 DEF ScInv, ScInit

\* What is on disk only gets newer, and nobody's place depends on more.
LEMMA PlacedStays ==
    ASSUME NEW s \in ScRecords, NEW db \in [content : Nat, stat : Nat],
           NEW db2 \in [content : Nat, stat : Nat], db.content <= db2.content,
           NEW md \in [ScRepoSet -> Int], NEW md2 \in [ScRepoSet -> Int],
           \A r \in ScRepoSet : md[r] <= md2[r], ScPlaced(s, db, md)
    PROVE  ScPlaced(s, db2, md2)
<1>1. /\ s.i \in 0 .. Len(ScRepos) /\ s.sum \in Int /\ s.md \in Int
      /\ s.pool[ScSystem][0] \in Int
  BY ScConstants DEF ScRecords, ScLoads
<1>2. s.i # 0 => ScRepos[s.i] \in ScRepoSet
  BY <1>1, ScConstants
<1>3. s.i # 0 => /\ md[ScRepos[s.i]] \in Int /\ md2[ScRepos[s.i]] \in Int
                 /\ md[ScRepos[s.i]] <= md2[ScRepos[s.i]]
  BY <1>2
<1>4. db.content \in Int /\ db2.content \in Int
  OBVIOUS
<1>5. s.pc = "sysRead" => s.sum <= db2.content
  BY <1>1, <1>4 DEF ScPlaced
<1>6. s.pc = "write" /\ s.i = 0 => s.pool[ScSystem][0] <= db2.content
  BY <1>1, <1>4 DEF ScPlaced
<1>7. s.pc = "open" => s.md <= md2[ScRepos[s.i]]
  BY <1>1, <1>3 DEF ScPlaced
<1>8. s.pc \in {"read", "ext", "write"} /\ s.i # 0 => s.sum <= md2[ScRepos[s.i]]
  BY <1>1, <1>3 DEF ScPlaced
<1> QED
  BY <1>5, <1>6, <1>7, <1>8 DEF ScPlaced

\* One process goes on, or something on disk gets newer.
LEMMA ScAnyStep ==
    ASSUME ScInv, ScTypes', rpmdb'.stat = rpmdb'.content, FilesHonest',
           rpmdb.content <= rpmdb'.content, \A r \in ScRepoSet : mdDisk[r] <= mdDisk'[r],
           \A p \in ScProcs : sc'[p] = sc[p] \/ ScPlaced(sc'[p], rpmdb', mdDisk')
    PROVE  ScInv'
<1>1. ASSUME NEW p \in ScProcs PROVE ScPlaced(sc'[p], rpmdb', mdDisk')
  <2>1. CASE sc'[p] = sc[p]
    <3>1. sc[p] \in ScRecords /\ ScPlaced(sc[p], rpmdb, mdDisk)
      BY DEF ScInv, ScTypes
    <3>2. rpmdb \in [content : Nat, stat : Nat] /\ rpmdb' \in [content : Nat, stat : Nat]
      BY DEF ScInv, ScTypes
    <3>3. mdDisk \in [ScRepoSet -> Int] /\ mdDisk' \in [ScRepoSet -> Int]
      BY DEF ScInv, ScTypes
    <3> QED
      BY <2>1, <3>1, <3>2, <3>3, PlacedStays
  <2> QED
    BY <2>1
<1>2. \A p \in ScProcs : ScPlaced(sc[p], rpmdb, mdDisk)'
  BY <1>1 DEF ScPlaced
<1> QED
  BY <1>2 DEF ScInv

LEMMA ScOwnStep ==
    ASSUME ScInv, NEW p \in ScProcs, NEW s \in ScRecords, ScBecomes(p, s), OnlySack,
           ScPlaced(s, rpmdb, mdDisk)
    PROVE  ScInv'
<1>1. /\ rpmdb' = rpmdb /\ mdDisk' = mdDisk /\ binary' = binary
      /\ sc' = [sc EXCEPT ![p] = s] /\ sc \in [ScProcs -> ScRecords]
  BY DEF OnlySack, ScBecomes, ScInv, ScTypes
<1>2. ScTypes' /\ FilesHonest' /\ rpmdb'.stat = rpmdb'.content
  BY <1>1 DEF ScInv, ScTypes, FilesHonest
<1>3. \A q \in ScProcs : sc'[q] = sc[q] \/ ScPlaced(sc'[q], rpmdb', mdDisk')
  BY <1>1
<1>4. rpmdb.content <= rpmdb'.content /\ \A r \in ScRepoSet : mdDisk[r] <= mdDisk'[r]
  BY <1>1 DEF ScInv, ScTypes
<1> QED
  BY <1>2, <1>3, <1>4, ScAnyStep

LEMMA RestingPlaced ==
    ASSUME NEW s, s.pc \in {"idle", "next"}, NEW db, NEW md
    PROVE  ScPlaced(s, db, md)
BY DEF ScPlaced

LEMMA ReturnFalseStep ==
    ASSUME ScInv, NEW p \in ScProcs, NEW s \in ScRecords, ReturnFalse(p, s), OnlySack
    PROVE  ScInv'
<1> DEFINE t == [s EXCEPT !.pc = "idle", !.result = "FALSE"]
<1>1. t \in ScRecords /\ t.pc = "idle"
  BY DEF ScRecords, ScStages
<1>2. ScBecomes(p, t)
  BY DEF ReturnFalse
<1> HIDE DEF t
<1> QED
  BY <1>1, <1>2, RestingPlaced, ScOwnStep

LEMMA WithPartIsSack ==
    ASSUME NEW s \in ScRecords, NEW r \in ScNames, NEW k \in ScPart, NEW c \in Int
    PROVE  /\ WithPart(s, r, k, c) \in ScRecords
           /\ WithPart(s, r, k, c).pool[r][k] = c
           /\ WithPart(s, r, k, c).pc = s.pc /\ WithPart(s, r, k, c).i = s.i
           /\ WithPart(s, r, k, c).k = s.k /\ WithPart(s, r, k, c).sum = s.sum
           /\ WithPart(s, r, k, c).md = s.md
<1> DEFINE f == [s.pool EXCEPT ![r][k] = c]
<1>1. f \in ScLoads /\ f[r][k] = c
  BY DEF ScRecords, ScLoads, ScNames
<1>2. WithPart(s, r, k, c) = [s EXCEPT !.pool = f]
  BY DEF WithPart, ScRecords
<1> HIDE DEF f
<1> QED
  BY <1>1, <1>2 DEF ScRecords

LEMMA ScSystemSteps ==
    ASSUME ScInv, NEW p \in ScProcs, LoadSystemRepo(p) \/ ReadSystem(p)
    PROVE  ScInv'
<1>1. /\ sc[p] \in ScRecords /\ ScPlaced(sc[p], rpmdb, mdDisk) /\ FilesHonest
      /\ rpmdb.stat = rpmdb.content /\ rpmdb.content \in Nat \ {0}
      /\ binary \in [ScNames -> [ScPart -> ScFiles]]
  BY DEF ScInv, ScTypes
<1>2. CASE LoadSystemRepo(p)
  <2>1. PICK ok \in BOOLEAN :
           ScBecomes(p, [sc[p] EXCEPT
              !.pc = "sysRead", !.i = 0, !.k = 0, !.fd = binary[ScSystem][0],
              !.sum = IF ok /\ binary[ScSystem][0] # NoFile THEN RpmdbChecksum ELSE Junk])
    BY <1>2 DEF LoadSystemRepo
  <2> DEFINE n == IF ok /\ binary[ScSystem][0] # NoFile THEN RpmdbChecksum ELSE Junk
             s == [sc[p] EXCEPT !.pc = "sysRead", !.i = 0, !.k = 0, !.fd = binary[ScSystem][0],
                                !.sum = n]
  <2>2. n \in Int /\ n <= rpmdb.content
    BY <1>1 DEF RpmdbChecksum, Junk
  <2>3. binary[ScSystem][0] \in ScFiles
    BY <1>1, ScConstants DEF ScNames
  <2>4. ScBecomes(p, s)
    BY <2>1
  <2> HIDE DEF n
  <2>5. s \in ScRecords /\ s.pc = "sysRead" /\ s.i = 0 /\ s.k = 0 /\ s.sum = n
    <3>1. 0 \in 0 .. Len(ScRepos) /\ 0 \in 0 .. Len(ScExts) + 1
      BY ScConstants
    <3> QED
      BY <1>1, <2>2, <2>3, <3>1 DEF ScRecords, ScStages
  <2> HIDE DEF s
  <2>6. ScPlaced(s, rpmdb, mdDisk)
    BY <2>2, <2>5 DEF ScPlaced
  <2> QED
    BY <1>2, <2>4, <2>5, <2>6, ScOwnStep DEF LoadSystemRepo
<1>3. CASE ReadSystem(p)
  <2> DEFINE cached == CanUseCache4(sc[p])
             c == IF cached THEN sc[p].fd.content ELSE rpmdb.content
             s == WithPart(sc[p], ScSystem, 0, c)
             n == IF cached \/ ~ ScBuildCache THEN "idle" ELSE "write"
             t == [s EXCEPT !.pc = n]
  <2>1. sc[p].pc = "sysRead" /\ sc[p].i = 0 /\ sc[p].k = 0 /\ sc[p].sum <= rpmdb.content
    BY <1>1, <1>3 DEF ReadSystem, ScPlaced
  <2>2. ScBecomes(p, t) \/ ReturnFalse(p, sc[p])
    BY <1>3 DEF ReadSystem
  <2>3. c \in Int /\ (n = "write" => c = rpmdb.content)
    BY <1>1 DEF ScRecords, ScFiles
  <2>4. n \in {"idle", "write"}
    OBVIOUS
  <2> HIDE DEF c, n, cached
  <2>5. /\ s \in ScRecords /\ s.pool[ScSystem][0] = c /\ s.i = 0 /\ s.k = 0
        /\ s.sum = sc[p].sum
    BY <1>1, <2>1, <2>3, ScConstants, WithPartIsSack DEF ScNames
  <2> HIDE DEF s
  <2>6. /\ t \in ScRecords /\ t.pc = n /\ t.pool[ScSystem][0] = c /\ t.i = 0 /\ t.k = 0
        /\ t.sum = sc[p].sum
    BY <2>4, <2>5 DEF ScRecords, ScStages
  <2> HIDE DEF t
  <2>7. ScPlaced(t, rpmdb, mdDisk)
    <3>1. CASE n = "idle"
      BY <2>6, <3>1, RestingPlaced
    <3>2. CASE n = "write"
      BY <1>1, <2>1, <2>3, <2>6, <3>2, ScConstants DEF ScPlaced
    <3> QED
      BY <2>4, <3>1, <3>2
  <2>8. OnlySack
    BY <1>3 DEF ReadSystem
  <2> QED
    BY <1>1, <2>2, <2>6, <2>7, <2>8, ScOwnStep, ReturnFalseStep
<1> QED
  BY <1>2, <1>3

\* dnf_sack_add_repos from one repository to the next.
LEMMA ScWalkSteps ==
    ASSUME ScInv, NEW p \in ScProcs, AddRepos(p) \/ NextRepo(p) \/ LoadRepoReturns(p)
    PROVE  ScInv'
<1>1. /\ sc[p] \in ScRecords /\ ScPlaced(sc[p], rpmdb, mdDisk)
      /\ sc[p].i \in 0 .. Len(ScRepos) /\ OnlySack
  BY DEF ScInv, ScTypes, ScRecords, AddRepos, NextRepo, LoadRepoReturns
<1>2. ASSUME NEW i \in 0 .. Len(ScRepos), NEW r \in {"none", "TRUE", "FALSE"},
             NEW pc \in {"idle", "next", "check"}, pc = "check" => i # 0,
             ScBecomes(p, [sc[p] EXCEPT !.pc = pc, !.i = i, !.result = r])
      PROVE  ScInv'
  <2> DEFINE s == [sc[p] EXCEPT !.pc = pc, !.i = i, !.result = r]
  <2>1. s \in ScRecords /\ s.pc = pc /\ s.i = i
    BY <1>1 DEF ScRecords, ScStages
  <2>2. ScBecomes(p, s)
    BY <1>2
  <2> HIDE DEF s
  <2>3. ScPlaced(s, rpmdb, mdDisk)
    BY <1>2, <2>1 DEF ScPlaced
  <2> QED
    BY <1>1, <2>1, <2>2, <2>3, ScOwnStep
<1>3. CASE AddRepos(p)
  <2>1. [sc[p] EXCEPT !.pc = "next", !.i = 0]
          = [sc[p] EXCEPT !.pc = "next", !.i = 0, !.result = sc[p].result]
    BY <1>1 DEF ScRecords
  <2>2. sc[p].result \in {"none", "TRUE", "FALSE"} /\ 0 \in 0 .. Len(ScRepos)
    BY <1>1, ScConstants DEF ScRecords
  <2> QED
    BY <1>2, <1>3, <2>1, <2>2 DEF AddRepos
<1>4. CASE NextRepo(p) /\ sc[p].i = Len(ScRepos)
  <2>1. [sc[p] EXCEPT !.pc = "idle", !.result = "TRUE"]
          = [sc[p] EXCEPT !.pc = "idle", !.i = sc[p].i, !.result = "TRUE"]
    BY <1>1 DEF ScRecords
  <2> QED
    BY <1>1, <1>2, <1>4, <2>1 DEF NextRepo
<1>5. CASE NextRepo(p) /\ sc[p].i # Len(ScRepos)
  <2> DEFINE n == IF ScRepos[sc[p].i + 1] \in ScMetadataOnly /\ ~ ScUnavailable
                  THEN "next" ELSE "check"
  <2>1. [sc[p] EXCEPT !.i = @ + 1, !.pc = n]
          = [sc[p] EXCEPT !.pc = n, !.i = sc[p].i + 1, !.result = sc[p].result]
    BY <1>1 DEF ScRecords
  <2>2. sc[p].i + 1 \in 0 .. Len(ScRepos) /\ sc[p].i + 1 # 0
    BY <1>1, <1>5, ScConstants
  <2>3. sc[p].result \in {"none", "TRUE", "FALSE"} /\ n \in {"next", "check"}
    BY <1>1 DEF ScRecords
  <2>4. ScBecomes(p, [sc[p] EXCEPT !.i = @ + 1, !.pc = n])
    BY <1>5 DEF NextRepo
  <2> HIDE DEF n
  <2> QED
    BY <1>2, <2>1, <2>2, <2>3, <2>4
<1>6. CASE LoadRepoReturns(p)
  <2>1. [sc[p] EXCEPT !.pc = "next"]
          = [sc[p] EXCEPT !.pc = "next", !.i = sc[p].i, !.result = sc[p].result]
    BY <1>1 DEF ScRecords
  <2>2. sc[p].result \in {"none", "TRUE", "FALSE"}
    BY <1>1 DEF ScRecords
  <2> QED
    BY <1>1, <1>2, <1>6, <2>1, <2>2 DEF LoadRepoReturns
<1> QED
  BY <1>3, <1>4, <1>5, <1>6

\* dnf_repo_check, with the update it may make, and the opening of the files.
LEMMA ScOpenSteps ==
    ASSUME ScInv, NEW p \in ScProcs, CheckRepo(p) \/ OpenRepo(p)
    PROVE  ScInv'
<1> DEFINE r == Here(p)
<1>1. /\ sc[p] \in ScRecords /\ ScPlaced(sc[p], rpmdb, mdDisk) /\ FilesHonest
      /\ mdDisk \in [ScRepoSet -> Int] /\ binary \in [ScNames -> [ScPart -> ScFiles]]
  BY DEF ScInv, ScTypes
<1>2. /\ sc[p].pc \in {"check", "open"} /\ sc[p].i \in 0 .. Len(ScRepos) /\ sc[p].i # 0
  BY <1>1 DEF CheckRepo, OpenRepo, ScPlaced, ScRecords
<1>3. r = ScRepos[sc[p].i] /\ r \in ScRepoSet /\ mdDisk[r] \in Int
  BY <1>1, <1>2, ScConstants DEF Here
<1> HIDE DEF r
<1>4. 0 \in 0 .. Len(ScExts) + 1
  BY ScConstants
<1>5. ASSUME NEW v \in Int, v <= mdDisk'[r], mdDisk' \in [ScRepoSet -> Int],
             \A x \in ScRepoSet : mdDisk[x] <= mdDisk'[x], UNCHANGED <<rpmdb, binary, litter>>,
             ScBecomes(p, [sc[p] EXCEPT !.pc = "open", !.k = 0, !.md = v])
      PROVE  ScInv'
  <2> DEFINE s == [sc[p] EXCEPT !.pc = "open", !.k = 0, !.md = v]
  <2>1. s \in ScRecords /\ s.pc = "open" /\ s.i = sc[p].i /\ s.k = 0 /\ s.md = v
    BY <1>1, <1>4 DEF ScRecords, ScStages
  <2>2. sc' = [sc EXCEPT ![p] = s]
    BY <1>5 DEF ScBecomes
  <2> HIDE DEF s
  <2>3. ScPlaced(s, rpmdb', mdDisk')
    BY <1>2, <1>3, <1>5, <2>1 DEF ScPlaced
  <2>4. ScTypes' /\ FilesHonest' /\ rpmdb'.stat = rpmdb'.content
    BY <1>5, <2>1, <2>2 DEF ScInv, ScTypes, FilesHonest
  <2>5. rpmdb.content <= rpmdb'.content
    BY <1>5 DEF ScInv, ScTypes
  <2>6. \A q \in ScProcs : sc'[q] = sc[q] \/ ScPlaced(sc'[q], rpmdb', mdDisk')
    BY <2>2, <2>3 DEF ScInv, ScTypes
  <2> QED
    BY <1>5, <2>4, <2>5, <2>6, ScAnyStep
<1>6. CASE CheckRepo(p)
  <2>1. CASE /\ ScBecomes(p, [sc[p] EXCEPT !.pc = "open", !.k = 0, !.md = mdDisk[r]])
             /\ UNCHANGED mdDisk
    <3>1. mdDisk[r] <= mdDisk'[r] /\ \A x \in ScRepoSet : mdDisk[x] <= mdDisk'[x]
      BY <1>1, <1>3, <2>1
    <3> QED
      BY <1>1, <1>3, <1>5, <1>6, <2>1, <3>1 DEF CheckRepo
  <2>2. CASE /\ mdDisk' = [mdDisk EXCEPT ![r] = @ + 1]
             /\ ScBecomes(p, [sc[p] EXCEPT !.pc = "open", !.k = 0, !.md = mdDisk[r] + 1])
    <3>1. /\ mdDisk' \in [ScRepoSet -> Int] /\ mdDisk[r] + 1 \in Int
          /\ mdDisk[r] + 1 <= mdDisk'[r]
      BY <1>1, <1>3, <2>2
    <3>2. \A x \in ScRepoSet : mdDisk[x] <= mdDisk'[x]
      BY <1>1, <1>3, <2>2
    <3> QED
      BY <1>5, <1>6, <2>2, <3>1, <3>2 DEF CheckRepo
  <2>3. CASE UNCHANGED mdDisk /\ ScBecomes(p, [sc[p] EXCEPT !.pc = "next"])
    <3> DEFINE s == [sc[p] EXCEPT !.pc = "next"]
    <3>1. s \in ScRecords /\ s.pc = "next" /\ ScBecomes(p, s)
      BY <1>1, <2>3 DEF ScRecords, ScStages
    <3> HIDE DEF s
    <3> QED
      BY <1>6, <2>3, <3>1, RestingPlaced, ScOwnStep DEF CheckRepo, OnlySack
  <2>4. CASE UNCHANGED mdDisk /\ ReturnFalse(p, sc[p])
    BY <1>1, <1>6, <2>4, ReturnFalseStep DEF CheckRepo, OnlySack
  <2> QED
    BY <1>6, <2>1, <2>2, <2>3, <2>4 DEF CheckRepo, r
<1>7. CASE OpenRepo(p)
  <2> DEFINE s == [sc[p] EXCEPT !.pc = "read", !.fd = binary[r][0], !.sum = mdDisk[r]]
  <2>1. binary[r][0] \in ScFiles
    BY <1>1, <1>3, ScConstants DEF ScNames
  <2>2. /\ s \in ScRecords /\ s.pc = "read" /\ s.i = sc[p].i /\ s.k = sc[p].k
        /\ s.md = sc[p].md /\ s.sum = mdDisk[r]
    BY <1>1, <1>3, <2>1 DEF ScRecords, ScStages
  <2>3. ScBecomes(p, s) /\ OnlySack
    BY <1>7 DEF OpenRepo, RepomdChecksum, r
  <2>4. sc[p].k = 0 /\ sc[p].md <= mdDisk[r]
    BY <1>1, <1>3, <1>7 DEF OpenRepo, ScPlaced
  <2> HIDE DEF s
  <2>5. ScPlaced(s, rpmdb, mdDisk)
    BY <1>2, <1>3, <2>2, <2>4 DEF ScPlaced
  <2> QED
    BY <2>2, <2>3, <2>5, ScOwnStep
<1> QED
  BY <1>6, <1>7

\* A part is read: from the cache, or from the file that the paths in memory
\* name, which is there only while it is the version on disk; then the
\* checksum, taken in between, is that version too.
LEMMA ScReadSteps ==
    ASSUME ScInv, NEW p \in ScProcs, ReadRepo(p) \/ LoadExt(p)
    PROVE  ScInv'
<1> DEFINE r == Here(p)
<1>1. /\ sc[p] \in ScRecords /\ ScPlaced(sc[p], rpmdb, mdDisk) /\ OnlySack
      /\ mdDisk \in [ScRepoSet -> Int] /\ binary \in [ScNames -> [ScPart -> ScFiles]]
  BY DEF ScInv, ScTypes, ReadRepo, LoadExt
<1>2. /\ sc[p].pc \in {"read", "ext"} /\ sc[p].i \in 0 .. Len(ScRepos) /\ sc[p].i # 0
      /\ sc[p].k \in 0 .. Len(ScExts) + 1 /\ sc[p].md \in Int /\ sc[p].sum \in Int
  BY <1>1 DEF ReadRepo, LoadExt, ScPlaced, ScRecords
<1>3. r = ScRepos[sc[p].i] /\ r \in ScRepoSet /\ r \in ScNames /\ mdDisk[r] \in Int
  BY <1>1, <1>2, ScConstants DEF Here, ScNames
<1> HIDE DEF r
<1>4. sc[p].md <= sc[p].sum /\ sc[p].sum <= mdDisk[r]
  BY <1>1, <1>2, <1>3 DEF ScPlaced
\* On to the next part.
<1>5. ASSUME NEW s \in ScRecords, s.i = sc[p].i, s.md = sc[p].md, s.sum = sc[p].sum,
             NEW k \in 1 .. Len(ScExts) + 1, ScBecomes(p, [s EXCEPT !.pc = "ext", !.k = k])
      PROVE  ScInv'
  <2> DEFINE t == [s EXCEPT !.pc = "ext", !.k = k]
  <2>1. k \in 0 .. Len(ScExts) + 1 /\ k # 0
    BY <1>5, ScConstants
  <2>2. /\ t \in ScRecords /\ t.pc = "ext" /\ t.k = k /\ t.i = sc[p].i
        /\ t.md = sc[p].md /\ t.sum = sc[p].sum
    BY <1>5, <2>1 DEF ScRecords, ScStages
  <2>3. ScBecomes(p, t)
    BY <1>5
  <2> HIDE DEF t
  <2>4. ScPlaced(t, rpmdb, mdDisk)
    BY <1>2, <1>3, <1>4, <2>1, <2>2 DEF ScPlaced
  <2> QED
    BY <1>1, <2>2, <2>3, <2>4, ScOwnStep
\* On to the writing of the part just read.
<1>6. ASSUME NEW k \in ScPart, k = sc[p].k, sc[p].md = mdDisk[r],
             ScBecomes(p, [WithPart(sc[p], r, k, sc[p].md) EXCEPT !.pc = "write"])
      PROVE  ScInv'
  <2> DEFINE s == WithPart(sc[p], r, k, sc[p].md)
             t == [s EXCEPT !.pc = "write"]
  <2>1. /\ s \in ScRecords /\ s.pool[r][k] = sc[p].md /\ s.i = sc[p].i /\ s.k = k
        /\ s.md = sc[p].md /\ s.sum = sc[p].sum
    BY <1>1, <1>2, <1>3, <1>6, WithPartIsSack
  <2>2. ScBecomes(p, t)
    BY <1>6
  <2> HIDE DEF s
  <2>3. /\ t \in ScRecords /\ t.pc = "write" /\ t.pool[r][k] = sc[p].md /\ t.i = sc[p].i
        /\ t.k = k /\ t.md = sc[p].md /\ t.sum = sc[p].sum
    BY <2>1 DEF ScRecords, ScStages
  <2>4. sc[p].sum = sc[p].md
    BY <1>2, <1>3, <1>4, <1>6
  <2> HIDE DEF t
  <2>5. ScPlaced(t, rpmdb, mdDisk)
    BY <1>2, <1>3, <1>4, <1>6, <2>3, <2>4 DEF ScPlaced
  <2> QED
    BY <1>1, <2>2, <2>3, <2>5, ScOwnStep
<1>7. CASE ReadRepo(p)
  <2> DEFINE cached == CanUseCache4(sc[p])
             content == IF cached THEN sc[p].fd.content ELSE sc[p].md
             s == WithPart(sc[p], r, 0, content)
  <2>1. sc[p].k = 0 /\ 0 \in ScPart /\ 1 \in 1 .. Len(ScExts) + 1
    BY <1>1, <1>7, ScConstants DEF ReadRepo, ScPlaced
  <2>2. \/ ScBecomes(p, NewSack)
        \/ cached /\ ScBecomes(p, [s EXCEPT !.pc = "ext", !.k = 1])
        \/ sc[p].md = mdDisk[r] /\ ~ cached /\ ScBecomes(p, [s EXCEPT !.pc = "write"])
        \/ ReturnFalse(p, sc[p])
    BY <1>7 DEF ReadRepo, r
  <2>3. CASE ScBecomes(p, NewSack)
    BY <1>1, <2>3, NewSackPlaced, RestingPlaced, ScOwnStep
  <2>4. CASE cached /\ ScBecomes(p, [s EXCEPT !.pc = "ext", !.k = 1])
    <3>1. content \in Int
      BY <1>1, <1>2 DEF ScRecords, ScFiles
    <3> HIDE DEF content, cached
    <3>2. /\ s \in ScRecords /\ s.i = sc[p].i /\ s.md = sc[p].md /\ s.sum = sc[p].sum
      BY <1>1, <1>3, <2>1, <3>1, WithPartIsSack
    <3> HIDE DEF s
    <3> QED
      BY <1>5, <2>1, <2>4, <3>2
  <2>5. CASE sc[p].md = mdDisk[r] /\ ~ cached /\ ScBecomes(p, [s EXCEPT !.pc = "write"])
    <3>1. content = sc[p].md
      BY <2>5
    <3> HIDE DEF content, cached
    <3> QED
      BY <1>6, <2>1, <2>5, <3>1
  <2> QED
    BY <1>1, <2>2, <2>3, <2>4, <2>5, ReturnFalseStep
<1>8. CASE LoadExt(p)
  <2> DEFINE k == sc[p].k
             file == binary[r][k]
             past == [sc[p] EXCEPT !.k = k + 1]
  <2>1. k \in 1 .. Len(ScExts) /\ k \in ScPart /\ k + 1 \in 1 .. Len(ScExts) + 1
    BY <1>1, <1>2, <1>8, ScConstants DEF LoadExt, ScPlaced, ScPart
  <2>2. \/ ScBecomes(p, past)
        \/ ScBecomes(p, WithPart(past, r, k, file.content))
        \/ /\ sc[p].md = mdDisk[r]
           /\ ScBecomes(p, [WithPart(sc[p], r, k, sc[p].md) EXCEPT !.pc = "write"])
        \/ ReturnFalse(p, sc[p])
    BY <1>8 DEF LoadExt, r
  <2>3. sc[p].pc = "ext"
    BY <1>8 DEF LoadExt
  <2>4. k + 1 \in 0 .. Len(ScExts) + 1
    BY <2>1, ScConstants
  <2>5. /\ past \in ScRecords /\ past.i = sc[p].i /\ past.md = sc[p].md /\ past.k = k + 1
        /\ past.sum = sc[p].sum /\ past.pc = "ext"
    BY <1>1, <2>3, <2>4 DEF ScRecords
  <2>6. file.content \in Int
    BY <1>1, <1>3, <2>1 DEF ScFiles
  <2> DEFINE q == WithPart(past, r, k, file.content)
  <2> HIDE DEF k, file, past
  <2>7. CASE ScBecomes(p, past)
    <3>1. past = [past EXCEPT !.pc = "ext", !.k = k + 1]
      BY <2>5 DEF ScRecords
    <3> QED
      BY <1>5, <2>1, <2>5, <2>7, <3>1
  <2>8. CASE ScBecomes(p, q)
    <3>1. /\ q \in ScRecords /\ q.i = sc[p].i /\ q.md = sc[p].md /\ q.k = k + 1
          /\ q.sum = sc[p].sum /\ q.pc = "ext"
      BY <1>3, <2>1, <2>5, <2>6, WithPartIsSack
    <3> HIDE DEF q
    <3>2. q = [q EXCEPT !.pc = "ext", !.k = k + 1]
      BY <3>1 DEF ScRecords
    <3> QED
      BY <1>5, <2>1, <2>8, <3>1, <3>2
  <2> QED
    BY <1>1, <1>6, <2>1, <2>2, <2>7, <2>8, ReturnFalseStep DEF k
<1> QED
  BY <1>7, <1>8

\* The rename puts an honest file in place.
LEMMA PlaceIsHonest ==
    ASSUME ScInv, NEW p \in ScProcs, sc[p].pc = "write", Place(p), UNCHANGED rpmdb
    PROVE  FilesHonest' /\ binary' \in [ScNames -> [ScPart -> ScFiles]]
<1> DEFINE r == Here(p)
           k == sc[p].k
           c == sc[p].pool[r][k]
           f == [label |-> sc[p].sum, content |-> c]
<1>1. /\ sc[p] \in ScRecords /\ ScPlaced(sc[p], rpmdb, mdDisk) /\ FilesHonest
      /\ binary \in [ScNames -> [ScPart -> ScFiles]]
  BY DEF ScInv, ScTypes
<1>2. /\ k \in ScPart /\ sc[p].i \in 0 .. Len(ScRepos) /\ sc[p].sum \in Int
      /\ sc[p].pool \in [ScNames -> [ScPart -> Int]]
  BY <1>1 DEF ScPlaced, ScRecords, ScLoads, ScNames
<1>3. CASE sc[p].i = 0
  <2>1. r = ScSystem /\ r \in ScNames
    BY <1>3 DEF Here, ScNames
  <2>2. k = 0 /\ f.label <= f.content /\ f.content <= rpmdb.content
    BY <1>1, <1>3, <2>1 DEF ScPlaced
  <2>3. f \in ScFiles
    BY <1>2, <2>1 DEF ScFiles
  <2>4. binary' = [binary EXCEPT ![r][k] = f]
    BY DEF Place
  <2> HIDE DEF f, r, k
  <2>5. binary'[ScSystem][0] = f /\ \A x \in ScRepoSet : binary'[x] = binary[x]
    BY <1>1, <1>2, <2>1, <2>2, <2>4, ScConstants DEF ScNames
  <2>6. binary' \in [ScNames -> [ScPart -> ScFiles]]
    BY <1>1, <1>2, <2>1, <2>3, <2>4
  <2> QED
    BY <1>1, <2>2, <2>5, <2>6 DEF FilesHonest
<1>4. CASE sc[p].i # 0
  <2>1. r = ScRepos[sc[p].i] /\ r \in ScRepoSet /\ r \in ScNames /\ r # ScSystem
    BY <1>2, <1>4, ScConstants DEF Here, ScNames
  <2>2. f.content = f.label
    BY <1>1, <1>4, <2>1 DEF ScPlaced
  <2>3. f \in ScFiles
    BY <1>2, <2>1 DEF ScFiles
  <2>4. binary' = [binary EXCEPT ![r][k] = f]
    BY DEF Place
  <2> HIDE DEF f, r, k
  <2>5. binary'[ScSystem] = binary[ScSystem]
    BY <1>1, <1>2, <2>1, <2>4 DEF ScNames
  <2>6. binary' \in [ScNames -> [ScPart -> ScFiles]]
    BY <1>1, <1>2, <2>1, <2>3, <2>4
  <2>7. \A x \in ScRepoSet, n \in ScPart :
           binary'[x][n] = IF x = r /\ n = k THEN f ELSE binary[x][n]
    BY <1>1, <1>2, <2>1, <2>4 DEF ScNames
  <2> QED
    BY <1>1, <2>2, <2>5, <2>6, <2>7 DEF FilesHonest
<1> QED
  BY <1>3, <1>4

LEMMA ScWriteSteps ==
    ASSUME ScInv, NEW p \in ScProcs, WriteSolv(p) \/ WriteSolvFails(p) \/ SackProcessEnds(p)
    PROVE  ScInv'
<1>1. /\ sc[p] \in ScRecords /\ ScPlaced(sc[p], rpmdb, mdDisk) /\ FilesHonest
      /\ sc[p].k \in 0 .. Len(ScExts) + 1 /\ sc[p].i \in 0 .. Len(ScRepos)
      /\ UNCHANGED <<rpmdb, mdDisk>>
  BY DEF ScInv, ScTypes, ScRecords, WriteSolv, WriteSolvFails, SackProcessEnds
<1>2. ASSUME FilesHonest', binary' \in [ScNames -> [ScPart -> ScFiles]],
             NEW s \in ScRecords, ScBecomes(p, s), ScPlaced(s, rpmdb, mdDisk)
      PROVE  ScInv'
  <2>1. sc' = [sc EXCEPT ![p] = s] /\ sc \in [ScProcs -> ScRecords]
    BY <1>2 DEF ScBecomes, ScInv, ScTypes
  <2>2. ScTypes' /\ rpmdb'.stat = rpmdb'.content
    BY <1>1, <1>2, <2>1 DEF ScInv, ScTypes
  <2>3. rpmdb.content <= rpmdb'.content /\ \A r \in ScRepoSet : mdDisk[r] <= mdDisk'[r]
    BY <1>1 DEF ScInv, ScTypes
  <2>4. \A q \in ScProcs : sc'[q] = sc[q] \/ ScPlaced(sc'[q], rpmdb', mdDisk')
    BY <1>1, <1>2, <2>1
  <2> QED
    BY <1>2, <2>2, <2>3, <2>4, ScAnyStep
<1>3. ASSUME FilesHonest', binary' \in [ScNames -> [ScPart -> ScFiles]],
             NEW s \in ScRecords, ReturnFalse(p, s)
      PROVE  ScInv'
  <2> DEFINE t == [s EXCEPT !.pc = "idle", !.result = "FALSE"]
  <2>1. t \in ScRecords /\ t.pc = "idle"
    BY DEF ScRecords, ScStages
  <2>2. ScBecomes(p, t)
    BY <1>3 DEF ReturnFalse
  <2> HIDE DEF t
  <2> QED
    BY <1>2, <1>3, <2>1, <2>2, RestingPlaced
<1>4. CASE WriteSolv(p)
  <2>1. sc[p].pc = "write" /\ FilesHonest' /\ binary' \in [ScNames -> [ScPart -> ScFiles]]
    BY <1>4, PlaceIsHonest DEF WriteSolv
  <2>2. CASE Written4(p)
    <3> DEFINE n == IF sc[p].i = 0 THEN "idle" ELSE "ext"
               s == [sc[p] EXCEPT !.k = @ + 1, !.pc = n]
    <3>1. sc[p].k \in ScPart
      BY <1>1, <2>1 DEF ScPlaced
    <3>2. sc[p].k + 1 \in 0 .. Len(ScExts) + 1 /\ sc[p].k + 1 # 0
      BY <3>1, ScConstants DEF ScPart
    <3>3. n \in {"idle", "ext"} /\ (n = "ext" => sc[p].i # 0)
      OBVIOUS
    <3>4. ScBecomes(p, s)
      BY <2>2 DEF Written4
    <3> HIDE DEF n
    <3>5. /\ s \in ScRecords /\ s.pc = n /\ s.k = sc[p].k + 1 /\ s.i = sc[p].i
          /\ s.md = sc[p].md /\ s.sum = sc[p].sum
      BY <1>1, <3>2, <3>3 DEF ScRecords, ScStages
    <3> HIDE DEF s
    <3>6. CASE n = "idle"
      BY <1>2, <2>1, <3>4, <3>5, <3>6, RestingPlaced
    <3>7. CASE n = "ext"
      <4>1. ScPlaced(s, rpmdb, mdDisk)
        BY <1>1, <2>1, <3>2, <3>3, <3>5, <3>7 DEF ScPlaced
      <4> QED
        BY <1>2, <2>1, <3>4, <3>5, <4>1
    <3> QED
      BY <3>3, <3>6, <3>7
  <2> QED
    BY <1>1, <1>3, <1>4, <2>1, <2>2 DEF WriteSolv
<1>5. ASSUME UNCHANGED binary
      PROVE  FilesHonest' /\ binary' \in [ScNames -> [ScPart -> ScFiles]]
  BY <1>1, <1>5 DEF FilesHonest, ScInv, ScTypes
<1>6. CASE WriteSolvFails(p)
  <2>1. ReturnFalse(p, sc[p]) \/ (sc[p].k = 0 /\ ReturnFalse(p, WithPart(sc[p], Here(p), 0, ScNone)))
    BY <1>6 DEF WriteSolvFails
  <2>2. Here(p) \in ScNames /\ ScNone \in Int
    BY <1>1, ScConstants DEF Here, ScNames, ScNone
  <2>3. WithPart(sc[p], Here(p), 0, ScNone) \in ScRecords
    BY <1>1, <2>2, ScConstants, WithPartIsSack
  <2> QED
    BY <1>1, <1>3, <1>5, <1>6, <2>1, <2>3 DEF WriteSolvFails
<1>7. CASE SackProcessEnds(p)
  BY <1>2, <1>5, <1>7, NewSackPlaced, RestingPlaced DEF SackProcessEnds
<1> QED
  BY <1>4, <1>6, <1>7

LEMMA ScNextKeepsInv ==
    ASSUME StatMoves = TRUE
    PROVE  ScInv /\ [ScNext]_scVars => ScInv'
<1> SUFFICES ASSUME ScInv, [ScNext]_scVars PROVE ScInv'
  OBVIOUS
<1>1. ASSUME NEW p \in ScProcs, SackStep(p) \/ SackProcessEnds(p) PROVE ScInv'
  BY <1>1, ScSystemSteps, ScWalkSteps, ScOpenSteps, ScReadSteps, ScWriteSteps DEF SackStep
<1>2. CASE RpmdbChanges
  <2>1. /\ rpmdb.content \in Nat \ {0} /\ rpmdb.stat = rpmdb.content
        /\ rpmdb' = [content |-> rpmdb.content + 1, stat |-> rpmdb.stat + 1]
        /\ mdDisk' = mdDisk /\ binary' = binary /\ sc' = sc
    BY <1>2 DEF RpmdbChanges, ScInv, ScTypes
  <2>2. /\ rpmdb'.content = rpmdb.content + 1 /\ rpmdb'.stat = rpmdb'.content
        /\ rpmdb' \in [content : Nat \ {0}, stat : Nat \ {0}]
    BY <2>1
  <2>3. ScTypes'
    BY <2>1, <2>2 DEF ScInv, ScTypes
  <2>4. binary[ScSystem][0].content \in Int
    BY ScConstants DEF ScInv, ScTypes, ScNames, ScFiles
  <2>5. binary[ScSystem][0].content <= rpmdb'.content
    BY <2>1, <2>2, <2>4 DEF ScInv, FilesHonest
  <2>6. FilesHonest'
    BY <2>1, <2>5 DEF ScInv, FilesHonest
  <2>7. rpmdb.content <= rpmdb'.content /\ \A r \in ScRepoSet : mdDisk[r] <= mdDisk'[r]
    BY <2>1, <2>2 DEF ScInv, ScTypes
  <2> QED
    BY <2>1, <2>2, <2>3, <2>6, <2>7, ScAnyStep
<1>3. ASSUME NEW r \in ScRepoSet, MetadataChanges(r) PROVE ScInv'
  <2>1. /\ mdDisk \in [ScRepoSet -> Int] /\ mdDisk' = [mdDisk EXCEPT ![r] = @ + 1]
        /\ rpmdb' = rpmdb /\ binary' = binary /\ sc' = sc
    BY <1>3 DEF MetadataChanges, ScInv, ScTypes
  <2>2. mdDisk' \in [ScRepoSet -> Int] /\ \A x \in ScRepoSet : mdDisk[x] <= mdDisk'[x]
    BY <2>1
  <2>3. ScTypes' /\ FilesHonest' /\ rpmdb'.stat = rpmdb'.content
    BY <2>1, <2>2 DEF ScInv, ScTypes, FilesHonest
  <2>4. rpmdb.content <= rpmdb'.content
    BY <2>1 DEF ScInv, ScTypes
  <2> QED
    BY <2>1, <2>2, <2>3, <2>4, ScAnyStep
<1>4. CASE UNCHANGED scVars
  BY <1>4 DEF scVars, ScInv, ScTypes, FilesHonest, ScPlaced
<1> QED
  BY <1>1, <1>2, <1>3, <1>4 DEF ScNext

\* No binary file of dnf-4's cache ever passes for a version it was not made
\* from, for any number of processes, repositories and extensions, as long as
\* every change of the rpm database shows in what stat() tells of it.
THEOREM BinaryStaysHonest ==
    ASSUME StatMoves = TRUE
    PROVE  ScSpec => []BinaryIsHonest
<1>1. ScInv => BinaryIsHonest
  <2> SUFFICES ASSUME ScInv PROVE BinaryIsHonest
    OBVIOUS
  <2>1. /\ binary[ScSystem][0].label \in Int /\ binary[ScSystem][0].content \in Int
        /\ rpmdb.content \in Int
    BY ScConstants DEF ScInv, ScTypes, ScNames, ScFiles
  <2>2. binary[ScSystem][0].label = rpmdb.stat => binary[ScSystem][0].content = rpmdb.content
    BY <2>1 DEF ScInv, FilesHonest
  <2> QED
    BY <2>2 DEF BinaryIsHonest, ScInv, FilesHonest
<1> QED
  BY <1>1, ScInit_ScInv, ScNextKeepsInv, PTL DEF ScSpec

-----------------------------------------------------------------------------
(* The map of considered packages.                                         *)

\* A map that was not made hides and includes nothing.
IsMap(m) ==
    /\ m = [there |-> m.there, set |-> m.set, size |-> m.size]
    /\ m.there \in BOOLEAN
    /\ ~ m.there => m.set = {}

MapsWhole ==
    /\ sackMaps = [k \in MapKinds |-> sackMaps[k]]
    /\ \A k \in MapKinds : IsMap(sackMaps[k])
    /\ IsMap(consideredMap)
    /\ uptodate \in BOOLEAN /\ torn \in BOOLEAN

SackInv == MapsWhole /\ ConsideredFresh

LEMMA SackInit_SackInv == SackInit => SackInv
<1> SUFFICES ASSUME SackInit PROVE SackInv
  OBVIOUS
<1>1. IsMap(NoMap)
  BY DEF IsMap, NoMap
<1>2. MapsWhole
  BY <1>1 DEF SackInit, MapsWhole
<1>3. ConsideredFresh
  BY DEF SackInit, ConsideredFresh
<1> QED
  BY <1>2, <1>3 DEF SackInv

\* Of the fresh map only what it is computed from matters.
LEMMA FreshStays ==
    ASSUME ConsideredFresh, UNCHANGED <<sackPool, sackMaps, useIncludes, consideredMap, torn>>,
           uptodate' => uptodate
    PROVE  ConsideredFresh'
BY DEF ConsideredFresh, ConsideredNow, Hidden, Included, InPool, OfRepo, LoadedRepos, RepoOf

\* dnf_sack_recompute_considered makes the map right, also where it makes none.
LEMMA RecomputedIsFresh ==
    ASSUME MapsWhole
    PROVE  LET m == Recomputed(consideredMap, {}) IN
           /\ IsMap(m)
           /\ m.there => m.size = Len(sackPool)
           /\ (IF m.there THEN m.set ELSE InPool) = ConsideredNow({})
<1> DEFINE m == Recomputed(consideredMap, {})
<1>1. CASE ~ consideredMap.there /\ \A k \in MapKinds \ {} : ~ sackMaps[k].there
  <2>1. m = consideredMap
    BY <1>1 DEF Recomputed
  <2>2. \A k \in MapKinds : sackMaps[k].set = {}
    BY <1>1 DEF MapsWhole, IsMap
  <2>3. Hidden({}) = {}
    BY <2>2 DEF Hidden, MapKinds
  <2>4. Included({}) = InPool
    BY <1>1 DEF Included, MapKinds
  <2> QED
    BY <1>1, <2>1, <2>3, <2>4 DEF MapsWhole, ConsideredNow
<1>2. CASE ~ (~ consideredMap.there /\ \A k \in MapKinds \ {} : ~ sackMaps[k].there)
  BY <1>2 DEF Recomputed, IsMap
<1> QED
  BY <1>1, <1>2

LEMMA ReconsiderStep ==
    ASSUME SackInv, NEW Q, Reconsider(Q)
    PROVE  SackInv'
<1>1. /\ MapsWhole /\ ConsideredFresh /\ UNCHANGED <<sackPool, sackMaps, useIncludes, torn>>
  BY DEF SackInv, Reconsider
<1>2. CASE ~ Reconsiders(Q) \/ uptodate
  <2>1. UNCHANGED <<consideredMap, uptodate>>
    BY <1>1, <1>2 DEF Reconsider, RecomputeConsidered, MapsWhole
  <2> QED
    BY <1>1, <2>1, FreshStays DEF SackInv, MapsWhole
<1>3. CASE Reconsiders(Q) /\ ~ uptodate
  <2>1. consideredMap' = Recomputed(consideredMap, {}) /\ uptodate' = TRUE
    BY <1>3 DEF Reconsider, RecomputeConsidered
  <2>2. /\ IsMap(consideredMap') /\ (consideredMap'.there => consideredMap'.size = Len(sackPool))
        /\ (IF consideredMap'.there THEN consideredMap'.set ELSE InPool) = ConsideredNow({})
    BY <1>1, <2>1, RecomputedIsFresh
  <2>3. InPool' = InPool /\ ConsideredNow({})' = ConsideredNow({})
    BY <1>1 DEF ConsideredNow, Hidden, Included, InPool, OfRepo, LoadedRepos, RepoOf
  <2>4. ConsideredFresh'
    BY <1>1, <2>2, <2>3 DEF ConsideredFresh
  <2>5. MapsWhole'
    BY <1>1, <2>1, <2>2 DEF MapsWhole, IsMap
  <2> QED
    BY <2>4, <2>5 DEF SackInv
<1> QED
  BY <1>2, <1>3

\* An edit of a map takes the considered map out of use.
LEMMA EditMapStep ==
    ASSUME SackInv, NEW k \in MapKinds, NEW m, IsMap(m), EditMap(k, m)
    PROVE  SackInv'
BY DEF SackInv, EditMap, MapsWhole, ConsideredFresh, IsMap

LEMMA SackStepKeepsInv ==
    ASSUME SackInv, SackNext
    PROVE  SackInv'
<1>1. MapsWhole /\ ConsideredFresh
  BY DEF SackInv
<1>2. ASSUME NEW r, LoadRepo(r) PROVE SackInv'
  BY <1>1, <1>2 DEF LoadRepo, SackInv, MapsWhole, ConsideredFresh, IsMap
<1>3. ASSUME NEW p, AddCmdlinePackage(p) PROVE SackInv'
  BY <1>1, <1>3 DEF AddCmdlinePackage, SackInv, MapsWhole, ConsideredFresh, IsMap
<1>4. ASSUME NEW k \in MapKinds, NEW S, AddToMap(k, S) PROVE SackInv'
  <2> DEFINE m == [there |-> TRUE, set |-> sackMaps[k].set \cup S, size |-> Len(sackPool)]
  <2>1. IsMap(m) /\ EditMap(k, m)
    BY <1>4 DEF AddToMap, IsMap
  <2> QED
    BY <2>1, EditMapStep
<1>5. ASSUME NEW k \in MapKinds, NEW S, RemoveFromMap(k, S) PROVE SackInv'
  <2> DEFINE o == sackMaps[k]
             m == [o EXCEPT !.set = @ \ S]
  <2>1. o = [there |-> o.there, set |-> o.set, size |-> o.size] /\ o.there = TRUE
    BY <1>1, <1>5 DEF RemoveFromMap, IsMap, MapsWhole
  <2>2. EditMap(k, m)
    BY <1>5 DEF RemoveFromMap
  <2> HIDE DEF o
  <2>3. m = [there |-> TRUE, set |-> o.set \ S, size |-> o.size]
    <3>1. PICK a, b, c : o = [there |-> a, set |-> b, size |-> c]
      BY <2>1, Zenon
    <3>2. a = TRUE /\ b = o.set /\ c = o.size
      BY <2>1, <3>1
    <3>3. m = [there |-> a, set |-> b \ S, size |-> c]
      BY <3>1
    <3> QED
      BY <3>2, <3>3
  <2> HIDE DEF m
  <2>4. IsMap(m)
    BY <2>3 DEF IsMap
  <2> QED
    BY <2>2, <2>4, EditMapStep
<1>6. ASSUME NEW k \in MapKinds, NEW m, IsMap(m), SetMap(k, m) PROVE SackInv'
  BY <1>6, EditMapStep DEF SetMap
<1>7. ASSUME NEW R, NEW b \in BOOLEAN, SetUseIncludes(R, b) PROVE SackInv'
  <2>1. UNCHANGED <<sackPool, sackMaps, consideredMap, torn>> /\ uptodate' \in BOOLEAN
    BY <1>1, <1>7 DEF SetUseIncludes
  <2>2. uptodate' => uptodate /\ UNCHANGED useIncludes
    BY <1>1, <1>7 DEF SetUseIncludes, MapsWhole
  <2>3. CASE uptodate'
    BY <1>1, <2>1, <2>2, <2>3, FreshStays DEF SackInv, MapsWhole, IsMap
  <2>4. CASE ~ uptodate'
    BY <1>1, <2>1, <2>4 DEF SackInv, MapsWhole, IsMap, ConsideredFresh
  <2> QED
    BY <2>3, <2>4
<1>8. ASSUME NEW r, NEW b \in BOOLEAN, RepoEnabled(r, b) PROVE SackInv'
  <2> DEFINE o == sackMaps["repo_excludes"]
             n == IF o.there THEN o.size ELSE Len(sackPool)
             m == [there |-> TRUE, size |-> n,
                   set |-> IF b THEN o.set \ OfRepo(r) ELSE o.set \cup OfRepo(r)]
  <2>1. IsMap(m)
    BY DEF IsMap
  <2>2. EditMap("repo_excludes", m)
    BY <1>8 DEF RepoEnabled
  <2> HIDE DEF m
  <2> QED
    BY <2>1, <2>2, EditMapStep DEF MapKinds
<1>9. ASSUME NEW R, ProcessExcludes(R) PROVE SackInv'
  <2>1. consideredMap' = RecomputeConsidered /\ uptodate' = FALSE /\ UNCHANGED torn
    BY <1>9 DEF ProcessExcludes
  <2>2. IsMap(consideredMap')
    BY <1>1, <2>1, RecomputedIsFresh DEF RecomputeConsidered, MapsWhole
  <2>3. PICK I, J, n : sackMaps' = [sackMaps EXCEPT
            !["pkg_includes"] = IF I = {} THEN @
                ELSE [there |-> TRUE, set |-> sackMaps["pkg_includes"].set \cup I, size |-> n],
            !["pkg_excludes"] =
                [there |-> TRUE, set |-> sackMaps["pkg_excludes"].set \cup J, size |-> n]]
    BY <1>9 DEF ProcessExcludes
  <2>4. /\ sackMaps' = [k \in MapKinds |-> sackMaps'[k]]
        /\ \A k \in MapKinds : IsMap(sackMaps'[k])
    BY <1>1, <2>3 DEF MapsWhole, IsMap, MapKinds
  <2> QED
    BY <1>1, <2>1, <2>2, <2>4 DEF SackInv, MapsWhole, IsMap, ConsideredFresh
<1>10. IsMap(NoMap)
  BY DEF IsMap, NoMap
<1>11. \A S : IsMap([there |-> TRUE, set |-> S, size |-> Len(sackPool)])
  BY DEF IsMap
<1>12. {"pkg_excludes", "pkg_includes", "module_excludes"} \subseteq MapKinds
  BY DEF MapKinds
<1> QED
  BY <1>2, <1>3, <1>4, <1>5, <1>6, <1>7, <1>8, <1>9, <1>10, <1>11, <1>12 DEF SackNext

LEMMA QueryStepKeepsInv ==
    ASSUME SackInv, QueryNext
    PROVE  SackInv'
<1>1. CASE UNCHANGED sackVars
  BY <1>1, FreshStays DEF sackVars, SackInv, MapsWhole, IsMap
<1>2. ASSUME NEW Q, Reconsider(Q) PROVE SackInv'
  BY <1>2, ReconsiderStep
<1> QED
  BY <1>1, <1>2 DEF QueryNext, CreateQuery, CopyQuery, AddFilter, Run, ClearQuery, Combine, Replace,
     FilterDuplicated, FilterExtras, FilterRecent

\* A considered map that calls itself up to date is the one the settings of the
\* moment define, for any repositories and packages, however loads, edits and
\* queries of the sack are interleaved.
THEOREM ConsideredStaysFresh == SackQuerySpec => []ConsideredFresh
<1>1. SackInv /\ [SackQueryNext]_<<sackVars, query>> => SackInv'
  <2> SUFFICES ASSUME SackInv, [SackQueryNext]_<<sackVars, query>> PROVE SackInv'
    OBVIOUS
  <2>1. CASE UNCHANGED <<sackVars, query>>
    BY <2>1, FreshStays DEF sackVars, SackInv, MapsWhole, IsMap
  <2> QED
    BY <2>1, SackStepKeepsInv, QueryStepKeepsInv DEF SackQueryNext
<1>2. SackInv => ConsideredFresh
  BY DEF SackInv
<1> QED
  BY <1>1, <1>2, SackInit_SackInv, PTL DEF SackQuerySpec

-----------------------------------------------------------------------------
(* The rpm transaction.                                                    *)

Trans4 ==
    [pc : {"idle", "keys", "add", "ready", "running"}, trusted : BOOLEAN, test : BOOLEAN,
     elements : SUBSET DOMAIN RrPkg, step : {"IGNORE", "STARTED", "PREPARING", "WRITING"},
     fd : DOMAIN RrPkg \cup {"none"}, changed : SUBSET DOMAIN RrPkg, verified : SUBSET DOMAIN RrPkg,
     commits : Nat, spoils : Nat]

RpmWork ==
    [todo : SUBSET DOMAIN RrPkg, element : DOMAIN RrPkg \cup {"none"},
     at : {"start", "rest", "started"}]

RrTypes ==
    /\ goalNow \in RrGoals
    /\ trans \in Trans4
    /\ rpmNow \in RpmWork

\* The signature of a file names a key of the ring.
KeyKnown(f, ring) ==
    f \notin Unusable /\ f.sig # "garbled" /\ f.sig # "unsigned" /\ f.sig \in ring

\* The repository of p asks for signatures.
Gpgchecked(p) == HasRepo(p) /\ RrRepo[RrRepoOf(p)].gpgcheck

\* What is to be verified of the packages g installs was verified.
AreVerified(g, t) ==
    \A p \in t.elements \cap ToSet(g.install) :
        (t.trusted \/ (Gpgchecked(p) /\ p \notin t.changed)) => p \in t.verified

\* A file of such a repository that has not changed since the check is one whose
\* key was found.
KeysFound(g, t, d, ring) ==
    \A p \in ToSet(g.install) : (Gpgchecked(p) /\ p \notin t.changed) => KeyKnown(d[p], ring)

RrGoalPkgs(g) == ToSet(g.install) \cup g.remove \cup g.helper

\* The whole of the invariant as a relation of the values it speaks of, so that
\* a step is judged by the new values alone.  Elements are there only after all
\* the packages were checked with the keyring that stays until the end of the
\* commit; nothing is downloaded meanwhile; librpm works only while it runs, on
\* packages of the goal.
Sound(g, t, w, ring, d) ==
    /\ t.pc \in {"idle", "keys", "add"} => t.elements = {}
    /\ t.pc = "add" => KeysFound(g, t, d, ring)
    /\ t.elements \subseteq RrGoalPkgs(g)
    /\ t.pc # "running" => w.at # "started" /\ w.todo = {}
    /\ w.todo \subseteq RrGoalPkgs(g)
    /\ w.at = "started" => w.element \in w.todo
    /\ AreVerified(g, t)

NoDownload == transfer.on => trans.pc = "idle"

RrInv == RrTypes /\ Sound(goalNow, trans, rpmNow, keyring, disk) /\ NoDownload /\ MarkedIsHandled

LEMMA RrInit_RrInv == RrInit => RrInv
<1> SUFFICES ASSUME RrInit PROVE RrInv
  OBVIOUS
<1>1. /\ Idle4 \in Trans4 /\ Idle4.pc = "idle" /\ Idle4.elements = {}
  BY DEF Idle4, Trans4
<1>2. Quiet \in RpmWork /\ Quiet.at = "rest" /\ Quiet.todo = {}
  BY DEF Quiet, RpmWork
<1>3. goalNow \in RrGoals /\ trans = Idle4 /\ rpmNow = Quiet /\ marked = {} /\ handled = {}
  BY DEF RrInit
<1>4. Sound(goalNow, trans, rpmNow, keyring, disk)
  BY <1>1, <1>2, <1>3 DEF Sound, AreVerified
<1> QED
  BY <1>1, <1>2, <1>3, <1>4 DEF RrInv, RrTypes, NoDownload, MarkedIsHandled

\* What goes past dnf_transaction_gpgcheck_package names a key of the ring.
LEMMA GpgcheckFindsKey ==
    ASSUME NEW p, NEW ring, GpgcheckPackage(p, ring), Gpgchecked(p)
    PROVE  KeyKnown(disk[p], ring)
<1>1. /\ CheckUntrustedFile(p, ring) # "FILE_INVALID"
      /\ CheckUntrustedFile(p, ring) # "GPG_SIGNATURE_INVALID"
  BY DEF GpgcheckPackage, Gpgchecked
<1>2. disk[p] \notin Unusable /\ disk[p].sig # "garbled"
  BY <1>1 DEF CheckUntrustedFile
<1>3. disk[p].sig # "unsigned"
  BY <1>1, <1>2 DEF CheckUntrustedFile
<1> QED
  BY <1>1, <1>2, <1>3 DEF CheckUntrustedFile, KeyKnown

\* A package whose key is known, or any with ONLY_TRUSTED, becomes an element
\* only with a signature librpm has found good.
LEMMA AddedIsVerified ==
    ASSUME NEW p, AddInstall(p), trans.trusted \/ KeyKnown(disk[p], keyring)
    PROVE  ReadPackageFile(p) = "OK"
<1>1. CASE trans.trusted
  BY <1>1 DEF AddInstall
<1>2. CASE KeyKnown(disk[p], keyring)
  <2>1. ReadPackageFile(p) \in {"OK", "FAIL"}
    BY <1>2 DEF KeyKnown, ReadPackageFile
  <2> QED
    BY <2>1 DEF AddInstall
<1> QED
  BY <1>1, <1>2

\* The header of what librpm erased is in the goal, so it is found before any
\* name is looked up.
LEMMA FoundByHeader ==
    ASSUME NEW p, NEW A, NEW B, NEW C, NEW D, A \subseteq {p}, B \subseteq {p}, p \in A \cup B
    PROVE  FirstFound(<<A, B, C, D>>) = {p}
<1> DEFINE s == <<A, B, C, D>>
           First(i) == s[i] # {} /\ \A j \in 1 .. i - 1 : s[j] = {}
           n == CHOOSE i \in DOMAIN s : First(i)
<1>1. DOMAIN s = 1 .. 4 /\ s[1] = A /\ s[2] = B
  OBVIOUS
<1> HIDE DEF s
<1>2. \E i \in DOMAIN s : First(i)
  <2>1. CASE A # {}
    <3>1. First(1) /\ 1 \in DOMAIN s
      BY <1>1, <2>1
    <3> QED
      BY <3>1
  <2>2. CASE A = {}
    <3>1. s[2] # {} /\ 2 \in DOMAIN s
      BY <1>1, <2>2
    <3>2. \A j \in 1 .. 2 - 1 : j = 1
      OBVIOUS
    <3>3. First(2)
      BY <1>1, <2>2, <3>1, <3>2
    <3> QED
      BY <3>1, <3>3
  <2> QED
    BY <2>1, <2>2
<1>3. n \in 1 .. 4 /\ First(n)
  BY <1>1, <1>2
<1> HIDE DEF n
<1>4. n \in {1, 2}
  <2>1. SUFFICES ASSUME n \in {3, 4} PROVE FALSE
    BY <1>3
  <2>2. 1 \in 1 .. n - 1 /\ 2 \in 1 .. n - 1
    BY <2>1
  <2> QED
    BY <1>1, <1>3, <2>2
<1>5. s[n] = {p}
  BY <1>1, <1>3, <1>4
<1>6. ~ \A i \in DOMAIN s : s[i] = {}
  BY <1>1, <1>3
<1>7. FirstFound(s) = s[n]
  BY <1>6 DEF FirstFound, n
<1> QED
  BY <1>5, <1>7 DEF s

LEMMA RrInvNext ==
    ASSUME RrTypes', Sound(goalNow', trans', rpmNow', keyring', disk'), NoDownload', MarkedIsHandled'
    PROVE  RrInv'
BY DEF RrInv, Sound, AreVerified, KeysFound, RrTypes, NoDownload, MarkedIsHandled, Gpgchecked, HasRepo, RrRepoOf

\* The packages of a goal are packages.
LEMMA GoalFacts ==
    ASSUME NEW g \in RrGoals
    PROVE  RrGoalPkgs(g) \subseteq DOMAIN RrPkg
BY DnfRpmRunAssumption DEF RrGoalPkgs

\* The label out: no elements are left, and librpm is at rest.
LEMMA OutIsSound ==
    ASSUME RrInv, Out4, NEW w \in RpmWork, w.at # "started", w.todo = {},
           NEW ring, NEW d
    PROVE  trans' \in Trans4 /\ trans'.pc = "idle" /\ Sound(goalNow, trans', w, ring, d)
<1>1. /\ trans \in Trans4
      /\ trans' = [trans EXCEPT !.pc = "idle", !.elements = {}, !.changed = {}, !.verified = {}]
  BY DEF RrInv, RrTypes, Out4
<1>2. trans' \in Trans4 /\ trans'.pc = "idle" /\ trans'.elements = {}
  BY <1>1 DEF Trans4
<1> QED
  BY <1>2 DEF Sound, AreVerified

\* What does not touch the download keeps it apart from the commits.
LEMMA DownloadKept ==
    ASSUME NoDownload, transfer' = transfer,
           \/ trans'.pc = "idle" \/ trans.pc # "idle" \/ ~ transfer.on
    PROVE  NoDownload'
BY DEF NoDownload

\* The calls before librpm works.
LEMMA Prepare_RrInv ==
    ASSUME RrInv,
           \/ \E g \in RrGoals : RrDepsolve(g)
           \/ \E trusted, test \in BOOLEAN : Begin4(trusted, test)
           \/ NoKeyDirectory \/ ImportAndCheck \/ AddElements \/ RunTransaction
    PROVE  RrInv'
<1>1. goalNow \in RrGoals /\ trans \in Trans4 /\ rpmNow \in RpmWork /\ marked = handled
  BY DEF RrInv, RrTypes, MarkedIsHandled
<1>2. Sound(goalNow, trans, rpmNow, keyring, disk)
  BY DEF RrInv
<1>9. NoDownload
  BY DEF RrInv
<1>3. CASE \E g \in RrGoals : RrDepsolve(g)
  <2>1. PICK g \in RrGoals : RrDepsolve(g)
    BY <1>3
  <2>2. /\ goalNow' = g /\ trans.pc = "idle" /\ trans' = trans /\ rpmNow' = rpmNow
        /\ keyring' = keyring /\ disk' = disk /\ marked' = marked /\ handled' = handled
        /\ transfer' = transfer
    BY <2>1 DEF RrDepsolve
  <2>3. Sound(g, trans, rpmNow, keyring, disk)
    BY <1>2, <2>2 DEF Sound, AreVerified
  <2>4. NoDownload'
    BY <1>9, <2>2, DownloadKept
  <2> QED
    BY <1>1, <2>1, <2>2, <2>3, <2>4, RrInvNext DEF RrTypes, MarkedIsHandled
<1>4. CASE \E trusted, test \in BOOLEAN : Begin4(trusted, test)
  <2>1. PICK trusted \in BOOLEAN, test \in BOOLEAN : Begin4(trusted, test)
    BY <1>4
  <2>2. /\ trans' = [trans EXCEPT !.pc = "keys", !.trusted = trusted, !.test = test,
                                  !.commits = trans.commits + 1]
        /\ trans.pc = "idle" /\ goalNow' = goalNow /\ rpmNow' = rpmNow
        /\ keyring' = keyring /\ disk' = disk /\ marked' = marked /\ handled' = handled
        /\ transfer' = transfer /\ ~ transfer.on
    BY <2>1 DEF Begin4
  <2>3. trans.commits + 1 \in Nat
    BY <1>1 DEF Trans4
  <2>4. trans' \in Trans4 /\ trans'.pc = "keys" /\ trans'.elements = trans.elements
    BY <1>1, <2>2, <2>3 DEF Trans4
  <2>5. Sound(goalNow, trans', rpmNow, keyring, disk)
    BY <1>2, <2>2, <2>4 DEF Sound, AreVerified
  <2>6. NoDownload'
    BY <1>9, <2>2, DownloadKept
  <2> QED
    BY <1>1, <2>2, <2>4, <2>5, <2>6, RrInvNext DEF RrTypes, MarkedIsHandled
<1>5. CASE NoKeyDirectory
  <2>1. /\ Out4 /\ trans.pc = "keys" /\ goalNow' = goalNow /\ rpmNow' = rpmNow
        /\ keyring' = keyring /\ disk' = disk /\ marked' = marked /\ handled' = handled
        /\ transfer' = transfer
    BY <1>5 DEF NoKeyDirectory
  <2>2. rpmNow.at # "started" /\ rpmNow.todo = {}
    BY <1>2, <2>1 DEF Sound
  <2>3. trans' \in Trans4 /\ Sound(goalNow, trans', rpmNow, keyring, disk)
    BY <1>1, <2>1, <2>2, OutIsSound
  <2>4. NoDownload'
    BY <1>9, <2>1, DownloadKept
  <2> QED
    BY <1>1, <2>1, <2>3, <2>4, RrInvNext DEF RrTypes, MarkedIsHandled
<1>6. CASE ImportAndCheck
  <2> DEFINE r == ImportKeys(keyring)
             Checks == \A i \in DOMAIN goalNow.install : GpgcheckPackage(goalNow.install[i], r.ring)
  <2>1. /\ trans.pc = "keys" /\ keyring' = r.ring
        /\ \/ Checks /\ trans' = [trans EXCEPT !.pc = "add"]
           \/ Out4
        /\ goalNow' = goalNow /\ rpmNow' = rpmNow /\ marked' = marked /\ handled' = handled
        /\ disk' = disk /\ transfer' = transfer
    BY <1>6 DEF ImportAndCheck
  <2>2. rpmNow.at # "started" /\ rpmNow.todo = {} /\ trans.elements = {}
    BY <1>2, <2>1 DEF Sound
  <2>3. ASSUME Checks, NEW p \in ToSet(goalNow.install), Gpgchecked(p)
        PROVE  KeyKnown(disk[p], r.ring)
    BY <2>3, GpgcheckFindsKey DEF ToSet
  <2> HIDE DEF r, Checks
  <2>4. trans' \in Trans4 /\ Sound(goalNow, trans', rpmNow, r.ring, disk)
    <3>1. CASE Checks /\ trans' = [trans EXCEPT !.pc = "add"]
      <4>1. trans' \in Trans4 /\ trans'.pc = "add" /\ trans'.elements = {}
        BY <1>1, <2>2, <3>1 DEF Trans4
      <4> QED
        BY <2>2, <2>3, <3>1, <4>1 DEF Sound, KeysFound, AreVerified
    <3>2. CASE Out4
      BY <1>1, <2>2, <3>2, OutIsSound
    <3> QED
      BY <2>1, <3>1, <3>2
  <2>5. NoDownload'
    BY <1>9, <2>1, DownloadKept
  <2> QED
    BY <1>1, <2>1, <2>4, <2>5, RrInvNext DEF RrTypes, MarkedIsHandled
<1>7. CASE AddElements
  <2> DEFINE E == ToSet(goalNow.install) \cup goalNow.remove
             V == {p \in ToSet(goalNow.install) : ReadPackageFile(p) = "OK"}
             Adds == \A i \in DOMAIN goalNow.install : AddInstall(goalNow.install[i])
  <2>1. /\ trans.pc = "add" /\ keyring' = keyring /\ disk' = disk /\ transfer' = transfer
        /\ \/ Adds /\ trans' = [trans EXCEPT !.pc = "ready", !.elements = E, !.verified = V]
           \/ Out4
        /\ goalNow' = goalNow /\ rpmNow' = rpmNow /\ marked' = marked /\ handled' = handled
    BY <1>7 DEF AddElements
  <2>2. rpmNow.at # "started" /\ rpmNow.todo = {} /\ KeysFound(goalNow, trans, disk, keyring)
    BY <1>2, <2>1 DEF Sound
  <2>3. E \subseteq RrGoalPkgs(goalNow) /\ E \subseteq DOMAIN RrPkg /\ V \subseteq E
    BY <1>1, GoalFacts DEF RrGoalPkgs
  <2>4. ASSUME Adds, NEW p \in ToSet(goalNow.install),
               trans.trusted \/ (Gpgchecked(p) /\ p \notin trans.changed)
        PROVE  p \in V
    <3>1. AddInstall(p)
      BY <2>4 DEF ToSet
    <3>2. trans.trusted \/ KeyKnown(disk[p], keyring)
      BY <2>2, <2>4 DEF KeysFound
    <3> QED
      BY <2>4, <3>1, <3>2, AddedIsVerified
  <2> HIDE DEF E, V, Adds
  <2>5. /\ trans' \in Trans4 /\ trans'.pc \in {"ready", "idle"}
        /\ Sound(goalNow, trans', rpmNow, keyring, disk)
    <3>1. CASE Adds /\ trans' = [trans EXCEPT !.pc = "ready", !.elements = E, !.verified = V]
      <4>1. /\ trans' \in Trans4 /\ trans'.pc = "ready" /\ trans'.elements = E
            /\ trans'.verified = V /\ trans'.changed = trans.changed
            /\ trans'.trusted = trans.trusted
        BY <1>1, <2>3, <3>1 DEF Trans4
      <4>2. AreVerified(goalNow, trans')
        BY <2>4, <3>1, <4>1 DEF AreVerified
      <4> QED
        BY <2>2, <2>3, <4>1, <4>2 DEF Sound
    <3>2. CASE Out4
      BY <1>1, <2>2, <3>2, OutIsSound
    <3> QED
      BY <2>1, <3>1, <3>2
  <2>6. NoDownload'
    BY <1>9, <2>1, DownloadKept
  <2> QED
    BY <1>1, <2>1, <2>5, <2>6, RrInvNext DEF RrTypes, MarkedIsHandled
<1>8. CASE RunTransaction
  <2> DEFINE T == IF trans.test THEN {} ELSE trans.elements \cup (goalNow.helper \cap systemPkgs)
             s == IF trans.test THEN "IGNORE" ELSE "STARTED"
             w == [todo |-> T, element |-> "none", at |-> "start"]
  <2>1. /\ trans.pc = "ready" /\ keyring' = keyring /\ disk' = disk
        /\ \/ trans' = [trans EXCEPT !.pc = "running", !.step = s] /\ rpmNow' = w
           \/ Out4 /\ rpmNow' = rpmNow
        /\ goalNow' = goalNow /\ marked' = {} /\ handled' = {} /\ transfer' = transfer
    BY <1>8 DEF RunTransaction
  <2>2. rpmNow.at # "started" /\ rpmNow.todo = {}
    BY <1>2, <2>1 DEF Sound
  <2>3. T \subseteq RrGoalPkgs(goalNow) /\ T \subseteq DOMAIN RrPkg
    BY <1>1, <1>2, GoalFacts DEF RrGoalPkgs, Sound
  <2>4. s \in {"IGNORE", "STARTED"}
    OBVIOUS
  <2> HIDE DEF T, s
  <2>5. trans' \in Trans4 /\ rpmNow' \in RpmWork /\ Sound(goalNow, trans', rpmNow', keyring, disk)
    <3>1. CASE trans' = [trans EXCEPT !.pc = "running", !.step = s] /\ rpmNow' = w
      <4>1. /\ trans' \in Trans4 /\ trans'.pc = "running" /\ trans'.elements = trans.elements
            /\ trans'.verified = trans.verified /\ trans'.changed = trans.changed
            /\ trans'.trusted = trans.trusted
        BY <1>1, <2>4, <3>1 DEF Trans4
      <4>2. w \in RpmWork /\ w.at = "start" /\ w.todo = T
        BY <2>3 DEF RpmWork
      <4> HIDE DEF w
      <4> QED
        BY <1>2, <2>3, <3>1, <4>1, <4>2 DEF Sound, AreVerified
    <3>2. CASE Out4 /\ rpmNow' = rpmNow
      BY <1>1, <2>2, <3>2, OutIsSound
    <3> QED
      BY <2>1, <3>1, <3>2
  <2>6. NoDownload'
    BY <1>9, <2>1, DownloadKept
  <2> QED
    BY <1>1, <2>1, <2>5, <2>6, RrInvNext DEF RrTypes, MarkedIsHandled
<1> QED
  BY <1>3, <1>4, <1>5, <1>6, <1>7, <1>8

\* A commit whose elements, and what is known of them, are the same.
SameElements(t) ==
    /\ t.pc = trans.pc /\ t.elements = trans.elements /\ t.trusted = trans.trusted
    /\ t.changed = trans.changed /\ t.verified = trans.verified

\* librpm goes on to the next element, or puts the one it had away.
LEMMA WorkIsSound ==
    ASSUME RrInv, trans.pc = "running", NEW t \in Trans4, NEW w \in RpmWork,
           SameElements(t),
           w.todo \subseteq rpmNow.todo, w.at = "started" => w.element \in w.todo
    PROVE  Sound(goalNow, t, w, keyring, disk)
<1>1. Sound(goalNow, trans, rpmNow, keyring, disk)
  BY DEF RrInv
<1> QED
  BY <1>1 DEF Sound, AreVerified, SameElements

\* While an element is at work the transaction runs, and the element is one of
\* the goal's packages.
LEMMA AtWork ==
    ASSUME RrInv, rpmNow.at = "started"
    PROVE  trans.pc = "running" /\ rpmNow.element \in RrGoalPkgs(goalNow)
BY DEF RrInv, Sound

\* The callbacks and the end of the run.
LEMMA Callback_RrInv ==
    ASSUME RrInv,
           \/ CbTransStart
           \/ \E p \in DOMAIN RrPkg : \/ CbInstStart(p) \/ CbInstStop(p)
                                      \/ CbUninstStart(p) \/ CbUninstStop(p)
           \/ EndRun
    PROVE  RrInv'
<1>1. goalNow \in RrGoals /\ trans \in Trans4 /\ rpmNow \in RpmWork /\ marked = handled
  BY DEF RrInv, RrTypes, MarkedIsHandled
<1>6. transfer' = transfer /\ NoDownload'
  <2>1. transfer' = transfer /\ trans.pc = "running"
    BY AtWork DEF CbTransStart, CbInstStart, CbInstStop, CbUninstStart, CbUninstStop, EndRun, Called
  <2> QED
    BY <2>1, DownloadKept DEF RrInv
<1>2. CASE CbTransStart
  <2> DEFINE t == IF trans.step = "IGNORE" THEN trans ELSE [trans EXCEPT !.step = "PREPARING"]
             w == [rpmNow EXCEPT !.at = "rest"]
  <2>1. /\ trans.pc = "running" /\ trans' = t /\ rpmNow' = w
        /\ goalNow' = goalNow /\ keyring' = keyring /\ disk' = disk /\ marked' = marked /\ handled' = handled
    BY <1>2 DEF CbTransStart, Called
  <2>2. t \in Trans4 /\ SameElements(t)
    BY <1>1 DEF Trans4, SameElements
  <2>3. w \in RpmWork /\ w.todo = rpmNow.todo /\ w.at = "rest"
    BY <1>1 DEF RpmWork
  <2> HIDE DEF t, w
  <2>4. Sound(goalNow, t, w, keyring, disk)
    BY <2>1, <2>2, <2>3, WorkIsSound
  <2> QED
    BY <1>1, <1>6, <2>1, <2>2, <2>3, <2>4, RrInvNext DEF RrTypes, MarkedIsHandled
<1>3. ASSUME NEW p \in DOMAIN RrPkg, CbInstStart(p) \/ CbUninstStart(p) PROVE RrInv'
  <2> DEFINE w == [rpmNow EXCEPT !.element = p, !.at = "started"]
  <2>1. /\ trans.pc = "running" /\ p \in rpmNow.todo /\ rpmNow' = w
        /\ \/ trans' = [trans EXCEPT !.step = "WRITING", !.fd = p]
           \/ trans' = [trans EXCEPT !.step = "WRITING"]
        /\ goalNow' = goalNow /\ keyring' = keyring /\ disk' = disk /\ marked' = marked /\ handled' = handled
    BY <1>3 DEF CbInstStart, CbUninstStart, Called
  <2>2. trans' \in Trans4 /\ SameElements(trans')
    BY <1>1, <2>1 DEF Trans4, SameElements
  <2>3. w \in RpmWork /\ w.todo = rpmNow.todo /\ w.element = p
    BY <1>1 DEF RpmWork
  <2> HIDE DEF w
  <2>4. Sound(goalNow, trans', w, keyring, disk)
    BY <2>1, <2>2, <2>3, WorkIsSound
  <2> QED
    BY <1>1, <1>6, <2>1, <2>2, <2>3, <2>4, RrInvNext DEF RrTypes, MarkedIsHandled
<1>4. ASSUME NEW p \in DOMAIN RrPkg, CbInstStop(p) \/ CbUninstStop(p) PROVE RrInv'
  <2> DEFINE w == [todo |-> rpmNow.todo \ {p}, element |-> "none", at |-> "rest"]
  <2>1. /\ rpmNow.at = "started" /\ rpmNow.element = p /\ rpmNow' = w
        /\ trans' = [trans EXCEPT !.fd = "none"] \/ trans' = trans
        /\ goalNow' = goalNow /\ keyring' = keyring /\ disk' = disk /\ handled' = handled \cup {p}
    BY <1>4 DEF CbInstStop, CbUninstStop, Called
  <2>2. trans.pc = "running" /\ p \in RrGoalPkgs(goalNow)
    BY <2>1, AtWork
  <2>3. trans' \in Trans4 /\ SameElements(trans')
    BY <1>1, <2>1 DEF Trans4, SameElements
  <2>4. w \in RpmWork /\ w.todo \subseteq rpmNow.todo /\ w.at = "rest"
    BY <1>1 DEF RpmWork
  <2>5. marked' = marked \cup {p}
    <3>1. CASE CbInstStop(p)
      BY <3>1 DEF CbInstStop, ByHeader
    <3>2. CASE CbUninstStop(p)
      <4>1. p \in goalNow.remove \cup goalNow.helper
        BY <2>2, <3>2 DEF CbUninstStop, RrGoalPkgs
      <4>2. UninstStopped(p) = {p}
        BY <4>1, FoundByHeader DEF UninstStopped, ByHeader
      <4> QED
        BY <3>2, <4>2 DEF CbUninstStop
    <3> QED
      BY <1>4, <3>1, <3>2
  <2> HIDE DEF w
  <2>6. Sound(goalNow, trans', w, keyring, disk)
    BY <2>2, <2>3, <2>4, WorkIsSound
  <2>7. MarkedIsHandled'
    BY <1>1, <2>1, <2>5 DEF MarkedIsHandled
  <2> QED
    BY <1>1, <1>6, <2>1, <2>3, <2>4, <2>6, <2>7, RrInvNext DEF RrTypes
<1>5. CASE EndRun
  <2>1. /\ Out4 /\ rpmNow' = Quiet
        /\ goalNow' = goalNow /\ keyring' = keyring /\ marked' = marked /\ handled' = handled
    BY <1>5 DEF EndRun
  <2>2. Quiet \in RpmWork /\ Quiet.at # "started" /\ Quiet.todo = {}
    BY DEF Quiet, RpmWork
  <2>3. trans' \in Trans4 /\ Sound(goalNow, trans', Quiet, keyring, disk')
    BY <2>1, <2>2, OutIsSound
  <2> QED
    BY <1>1, <1>6, <2>1, <2>2, <2>3, RrInvNext DEF RrTypes, MarkedIsHandled
<1> QED
  BY <1>2, <1>3, <1>4, <1>5

\* The downloads run while no commit does, and a file that changes after the check
\* is one of which nothing is claimed any more.
LEMMA Others_RrInv ==
    ASSUME RrInv,
           \/ StartDownload \/ \E r \in DOMAIN RrRepo : StartRepository(r)
           \/ \E p \in toDownload : Arrive(p) \/ \E n \in 0 .. RrPkg[p].size : Progress(p, n)
           \/ EndDownload
           \/ \E p \in DOMAIN RrPkg : Spoil(p)
           \/ UNCHANGED rrVars
    PROVE  RrInv'
<1>1. goalNow \in RrGoals /\ trans \in Trans4 /\ rpmNow \in RpmWork /\ marked = handled
  BY DEF RrInv, RrTypes, MarkedIsHandled
<1>2. Sound(goalNow, trans, rpmNow, keyring, disk) /\ NoDownload
  BY DEF RrInv
<1>3. trans.spoils + 1 \in Nat
  BY <1>1 DEF Trans4
<1>4. CASE \E p \in DOMAIN RrPkg : Spoil(p)
  <2>1. PICK p \in DOMAIN RrPkg : Spoil(p)
    BY <1>4
  <2> DEFINE C == IF trans.pc = "add" THEN trans.changed \cup {p} ELSE trans.changed
  <2>2. /\ trans' = [trans EXCEPT !.spoils = trans.spoils + 1, !.changed = C]
        /\ \E f : disk' = [disk EXCEPT ![p] = f]
        /\ goalNow' = goalNow /\ rpmNow' = rpmNow /\ keyring' = keyring /\ transfer' = transfer
        /\ marked' = marked /\ handled' = handled
    BY <2>1 DEF Spoil
  <2>3. C \subseteq DOMAIN RrPkg /\ trans.changed \subseteq C /\ (trans.pc = "add" => p \in C)
    BY <1>1 DEF Trans4
  <2> HIDE DEF C
  <2>4. /\ trans' \in Trans4 /\ trans'.pc = trans.pc /\ trans'.elements = trans.elements
        /\ trans'.trusted = trans.trusted /\ trans'.verified = trans.verified
        /\ trans'.changed = C
    BY <1>1, <1>3, <2>2, <2>3 DEF Trans4
  <2>5. \A q : q # p => disk'[q] = disk[q]
    BY <2>2
  <2>6. trans.pc = "add" => KeysFound(goalNow, trans', disk', keyring)
    BY <1>2, <2>3, <2>4, <2>5 DEF Sound, KeysFound
  <2>7. AreVerified(goalNow, trans')
    BY <1>2, <2>3, <2>4 DEF Sound, AreVerified
  <2>8. Sound(goalNow, trans', rpmNow, keyring, disk')
    BY <1>2, <2>4, <2>6, <2>7 DEF Sound
  <2>9. NoDownload'
    BY <1>2, <2>2, <2>4 DEF NoDownload
  <2> QED
    BY <1>1, <2>2, <2>4, <2>8, <2>9, RrInvNext DEF RrTypes, MarkedIsHandled
<1>5. CASE \E p \in toDownload : Arrive(p)
  <2>1. /\ goalNow' = goalNow /\ rpmNow' = rpmNow /\ keyring' = keyring
        /\ marked' = marked /\ handled' = handled /\ transfer.on
        /\ trans' = trans \/ trans' = [trans EXCEPT !.spoils = trans.spoils + 1]
    BY <1>5 DEF Arrive
  <2>2. trans.pc = "idle"
    BY <1>2, <2>1 DEF NoDownload
  <2>3. trans' \in Trans4 /\ trans'.pc = "idle" /\ trans'.elements = trans.elements
    BY <1>1, <1>3, <2>1, <2>2 DEF Trans4
  <2>4. Sound(goalNow, trans', rpmNow, keyring, disk') /\ NoDownload'
    BY <1>2, <2>2, <2>3 DEF Sound, AreVerified, NoDownload
  <2> QED
    BY <1>1, <2>1, <2>3, <2>4, RrInvNext DEF RrTypes, MarkedIsHandled
<1>6. ASSUME \/ StartDownload \/ \E r \in DOMAIN RrRepo : StartRepository(r)
             \/ \E p \in toDownload : \E n \in 0 .. RrPkg[p].size : Progress(p, n)
             \/ EndDownload \/ UNCHANGED rrVars
      PROVE  RrInv'
  <2>1. /\ goalNow' = goalNow /\ rpmNow' = rpmNow /\ keyring' = keyring /\ disk' = disk
        /\ marked' = marked /\ handled' = handled /\ trans' = trans
    BY <1>6 DEF StartDownload, StartRepository, Progress, EndDownload, rrVars
  <2>2. NoDownload'
    <3>1. CASE transfer' = transfer
      BY <1>2, <2>1, <3>1 DEF NoDownload
    <3>2. CASE trans.pc = "idle" \/ ~ transfer'.on
      BY <2>1, <3>2 DEF NoDownload
    <3>3. \/ transfer' = transfer \/ trans.pc = "idle" \/ ~ transfer'.on
      BY <1>2, <1>6 DEF StartDownload, StartRepository, Progress, EndDownload, rrVars, NoDownload, NoTransfer
    <3> QED
      BY <3>1, <3>2, <3>3
  <2> QED
    BY <1>1, <1>2, <2>1, <2>2, RrInvNext DEF RrTypes, MarkedIsHandled
<1> QED
  BY <1>4, <1>5, <1>6

LEMMA RrNext_RrInv == RrInv /\ [RrNext]_rrVars => RrInv'
BY Prepare_RrInv, Callback_RrInv, Others_RrInv DEF RrNext

LEMMA RrInvHolds == RrSpec => []RrInv
<1>1. RrInit => RrInv
  BY RrInit_RrInv
<1>2. RrInv /\ [RrNext]_rrVars => RrInv'
  BY RrNext_RrInv
<1> QED
  BY <1>1, <1>2, PTL DEF RrSpec

\* dnf_transaction_check_untrusted and dnf_rpmts_add_install_filename2: whatever
\* the keys, the goals and the packages are, and whatever rpm takes the place of a
\* file at any moment, what becomes an element with ONLY_TRUSTED was read with a
\* good signature, and so was, without it, every element of a repository with
\* gpgcheck that is still the file that was checked.
THEOREM ElementsStayVerified == RrSpec => []ElementsAreVerified
<1>1. RrInv => ElementsAreVerified
  BY DEF RrInv, Sound, AreVerified, ElementsAreVerified, Gpgchecked
<1> QED
  BY <1>1, RrInvHolds, PTL

\* dnf_transaction_ts_progress_cb: for every goal, also one that removes and
\* replaces packages of the same name, the history items set DONE are exactly
\* those of the packages librpm has finished with.
THEOREM MarkedStaysHandled == RrSpec => []MarkedIsHandled
<1>1. RrInv => MarkedIsHandled
  BY DEF RrInv
<1> QED
  BY <1>1, RrInvHolds, PTL

-----------------------------------------------------------------------------
(* Repository configuration.                                               *)

\* Strings, with the ones the code writes itself spelled out for the provers.
RcText == STRING \cup {Unset, "", "0", "1", "100", "1000", "172800", "cache", "mount"}
RcPris == {"DEFAULT", "REPOCONFIG", "RUNTIME"}
RcKinds == {"REMOTE", "LOCAL", "MEDIA"}
RcEnabled == {{}, {"METADATA"}, {"PACKAGES", "METADATA"}}

\* The values of an option: what the program or a file gives it, and the number
\* of seconds a metadata_expire stands for, or the texts of a list.
RcVals == RcText \cup {ToString(ParseTime(e).sec) : e \in RcText} \cup SUBSET RcText
RcHandles ==
    [urls : RcText, mirrorlist : RcText, metalink : RcText, gpgcheck : RcVals, local : BOOLEAN,
     proxy : RcText, userpwd : RcText \X RcText, sslverify : RcText]
RcConfs == [OptNames -> [pri : RcPris, val : RcVals]]
RcRepos ==
    [kind : RcKinds, enabled : RcEnabled, conf : RcConfs, handle : RcHandles, keys : RcText,
     location : RcText, tmp : RcText, packages : RcText, keyring : RcText,
     ok : BOOLEAN, checked : BOOLEAN]
RcKeyfiles == [KeyNames -> RcText]

RcTypes ==
    /\ keyfile \in [RcIds -> RcKeyfiles]
    /\ onDisk4 \in [RcIds -> RcKeyfiles]
    /\ repos4 \in [RcIds -> RcRepos]

\* dnf_repo_set_keyfile_data succeeds on keyfile k and a new HyRepo.
KeyfileFits(k) ==
    /\ k.metadata_expire = Unset \/ ParseTime(k.metadata_expire).ok
    /\ KeyfileConf(FreshConf, k, 8)["repo_gpgcheck"].val # "1" \/ k.gpgkey \notin {"", Unset}

\* Handle h with the TLS option s.
WithTls(h, s) == [h EXCEPT !.sslverify = s]

\* Repository r is as keyfile k describes it.
FollowsKeyfile(r, k) ==
    /\ KeyfileFits(k)
    /\ r.conf = KeyfileConf(FreshConf, k, 8)
    /\ r.keys = (IF k.gpgkey = "" THEN Unset ELSE k.gpgkey)
    /\ r.handle = KeyfileHandle(WithTls(FreshHandle, r.handle.sslverify), k,
                                r.conf["repo_gpgcheck"].val)

RcInv == RcTypes /\ \A id \in RcIds : repos4[id].checked => FollowsKeyfile(repos4[id], keyfile[id])

\* An option set twice from one keyfile is as if it had been set once, and the
\* later steps leave what the earlier ones did.
LEMMA KeyfileConfAgain ==
    ASSUME NEW c \in RcConfs, NEW k, NEW n \in {6, 8}
    PROVE KeyfileConf(KeyfileConf(c, k, 8), k, n) = KeyfileConf(c, k, 8)
  <1> DEFINE d == KeyfileConf(c, k, 8)
  <1>1. \A o \in OptNames : c[o].pri \in RcPris
    BY DEF RcConfs
  <1>2. \A o \in OptNames : KeyfilePri(o) \in RcPris /\ KeyfileStep[o] \in Nat
    BY DEF KeyfilePri, RcPris, KeyfileStep, OptNames, OptDefault
  <1>3. \A o \in OptNames :
           d[o] = IF KeyfileStep[o] <= 8 /\ o \in KeyfileGives(k) /\ Rank[KeyfilePri(o)] >= Rank[c[o].pri]
                  THEN [pri |-> KeyfilePri(o), val |-> KeyfileValue(k, o)] ELSE c[o]
    BY DEF KeyfileConf, SetOpt, RcConfs
  <1>4. d = [o \in OptNames |-> d[o]]
    BY DEF KeyfileConf
  <1>5. KeyfileConf(d, k, n) = [o \in OptNames |->
           IF KeyfileStep[o] <= n /\ o \in KeyfileGives(k)
           THEN SetOpt(d, o, KeyfilePri(o), KeyfileValue(k, o))[o] ELSE d[o]]
    BY DEF KeyfileConf
  <1> HIDE DEF d
  <1>6. \A o \in OptNames : SetOpt(d, o, KeyfilePri(o), KeyfileValue(k, o))[o] =
           IF Rank[KeyfilePri(o)] >= Rank[d[o].pri]
           THEN [pri |-> KeyfilePri(o), val |-> KeyfileValue(k, o)] ELSE d[o]
    BY <1>4 DEF SetOpt
  <1>7. \A o \in OptNames : KeyfileStep[o] <= n => KeyfileStep[o] <= 8
    BY <1>2
  <1>8. ASSUME NEW o \in OptNames
        PROVE (IF KeyfileStep[o] <= n /\ o \in KeyfileGives(k)
               THEN SetOpt(d, o, KeyfilePri(o), KeyfileValue(k, o))[o] ELSE d[o]) = d[o]
    <2>1. CASE ~ (KeyfileStep[o] <= n /\ o \in KeyfileGives(k))
      BY <2>1
    <2>2. CASE /\ KeyfileStep[o] <= n /\ o \in KeyfileGives(k)
               /\ Rank[KeyfilePri(o)] >= Rank[c[o].pri]
      <3>1. d[o] = [pri |-> KeyfilePri(o), val |-> KeyfileValue(k, o)]
        BY <2>2, <1>3, <1>7
      <3> QED BY <3>1, <1>6, <2>2
    <2>3. CASE /\ KeyfileStep[o] <= n /\ o \in KeyfileGives(k)
               /\ ~ (Rank[KeyfilePri(o)] >= Rank[c[o].pri])
      <3>1. d[o] = c[o]
        BY <2>3, <1>3
      <3> QED BY <3>1, <1>6, <2>3
    <2> QED BY <2>1, <2>2, <2>3
  <1> QED BY <1>4, <1>5, <1>8 DEF d

\* Of the metadata's signature check the first six steps decide.
LEMMA GpgcheckEarly ==
    ASSUME NEW c, NEW k
    PROVE KeyfileConf(c, k, 6)["repo_gpgcheck"] = KeyfileConf(c, k, 8)["repo_gpgcheck"]
  <1>1. "repo_gpgcheck" \in OptNames /\ KeyfileStep["repo_gpgcheck"] = 6
    BY DEF OptNames, OptDefault, KeyfileStep
  <1> QED BY <1>1 DEF KeyfileConf

LEMMA KeyfileConfType ==
    ASSUME NEW c \in RcConfs, NEW k \in RcKeyfiles, NEW n
    PROVE KeyfileConf(c, k, n) \in RcConfs
  <1>1. \A o \in OptNames : o \in KeyNames
    BY DEF OptNames, OptDefault, KeyNames
  <1>2. "exclude" \in KeyNames /\ "excludepkgs" \in KeyNames /\ "metalink" \in KeyNames
        /\ "mirrorlist" \in KeyNames /\ "metadata_expire" \in KeyNames
    BY DEF OptNames, OptDefault, KeyNames
  <1>3. \A o \in OptNames : GetBoolean(k, o) \in RcText
    BY DEF GetBoolean, RcText
  <1>4. MetalinkUrl(k) \in RcText /\ MirrorlistUrl(k) \in RcText
    BY <1>2 DEF MetalinkUrl, MirrorlistUrl, RcKeyfiles, Unset, RcText
  <1>5. ToString(ParseTime(k.metadata_expire).sec) \in RcVals
    <2>1. k.metadata_expire \in RcText
      BY <1>2 DEF RcKeyfiles
    <2> QED BY <2>1 DEF RcVals
  <1>6. \A o \in OptNames : KeyfileValue(k, o) \in RcVals
    <2> TAKE o \in OptNames
    <2>1. \A x \in RcText : x \in RcVals
      BY DEF RcVals
    <2>2. k[o] \in RcText /\ k.excludepkgs \in RcText /\ k.exclude \in RcText
      BY <1>1, <1>2 DEF RcKeyfiles
    <2>3. CASE o \in {"cost", "includepkgs"}
      BY <2>3, <2>1, <2>2 DEF KeyfileValue
    <2>4. CASE o = "metadata_expire"
      BY <2>4, <1>5 DEF KeyfileValue
    <2>5. CASE o = "metalink"
      BY <2>5, <1>4, <2>1 DEF KeyfileValue
    <2>6. CASE o = "mirrorlist"
      BY <2>6, <1>4, <2>1 DEF KeyfileValue
    <2>7. CASE o = "excludepkgs"
      <3> DEFINE texts == {k[key] : key \in Present(k, {"exclude", "excludepkgs"})}
      <3>1. KeyfileValue(k, o) = texts
        BY <2>7 DEF KeyfileValue
      <3>2. texts \in SUBSET RcText
        BY <2>2 DEF Present
      <3> HIDE DEF texts
      <3> QED BY <3>1, <3>2 DEF RcVals
    <2>8. CASE o = "module_hotfixes"
      BY <2>8, <2>1 DEF KeyfileValue, RcText
    <2>9. CASE o \notin {"cost", "includepkgs", "metadata_expire", "metalink", "mirrorlist",
                         "excludepkgs", "module_hotfixes"}
      BY <2>9, <2>1, <1>3 DEF KeyfileValue
    <2> QED BY <2>3, <2>4, <2>5, <2>6, <2>7, <2>8, <2>9
  <1>7. \A o \in OptNames : KeyfilePri(o) \in RcPris
    BY DEF KeyfilePri, RcPris
  <1>8. ASSUME NEW o \in OptNames
        PROVE SetOpt(c, o, KeyfilePri(o), KeyfileValue(k, o))[o] \in [pri : RcPris, val : RcVals]
    BY <1>6, <1>7 DEF SetOpt, RcConfs
  <1> QED BY <1>8 DEF KeyfileConf, RcConfs

LEMMA FreshConfType == FreshConf \in RcConfs /\ FreshHandle \in RcHandles
  <1>1. \A o \in OptNames : OptDefault[o] \in RcText \cup SUBSET RcText
    <2>1. OptNames = {"skip_if_unavailable", "cost", "module_hotfixes", "metadata_expire", "metalink",
                      "mirrorlist", "countme", "gpgcheck", "repo_gpgcheck", "excludepkgs",
                      "includepkgs"}
      BY DEF OptNames, OptDefault
    <2>2.    /\ OptDefault["skip_if_unavailable"] = "0" /\ OptDefault["cost"] = "1000"
          /\ OptDefault["module_hotfixes"] = "0" /\ OptDefault["metadata_expire"] = "172800"
          /\ OptDefault["metalink"] = Unset /\ OptDefault["mirrorlist"] = Unset
          /\ OptDefault["countme"] = "0" /\ OptDefault["gpgcheck"] = "1"
          /\ OptDefault["repo_gpgcheck"] = "0" /\ OptDefault["excludepkgs"] = {}
          /\ OptDefault["includepkgs"] = ""
      BY DEF OptDefault
    <2> QED BY <2>1, <2>2 DEF RcText
  <1>2. FreshHandle \in RcHandles
    BY DEF FreshHandle, RcHandles, Unset, RcText, RcVals
  <1> QED BY <1>1, <1>2 DEF FreshConf, RcConfs, RcPris, RcVals

\* Where a repository's directories are says nothing of its options.
LEMMA PlacedKeeps ==
    ASSUME NEW r \in RcRepos, NEW k \in RcKeyfiles
    PROVE /\ Placed(r, k) \in RcRepos
          /\ Placed(r, k).handle = r.handle
          /\ Placed(r, k).conf = r.conf
          /\ Placed(r, k).checked = r.checked
  <1>1. k.baseurl \in RcText
    BY DEF RcKeyfiles, KeyNames
  <1> DEFINE kind == IF IsFileRepo(k) /\ k.baseurl = "file" THEN "LOCAL" ELSE r.kind
             loc == IF IsFileRepo(k) THEN k.baseurl ELSE r.location
             ring == IF IsFileRepo(k) THEN k.baseurl ELSE IF loc = Unset THEN "cache" ELSE r.keyring
             pkgs == IF loc = Unset \/ r.packages = Unset THEN "cache" ELSE r.packages
             tmp == IF kind # "REMOTE" THEN r.tmp ELSE IF loc = Unset THEN "cache" ELSE loc
             where == IF loc = Unset THEN "cache" ELSE loc
  <1>2. Placed(r, k) = [r EXCEPT !.kind = kind, !.location = where, !.keyring = ring,
                                 !.packages = pkgs, !.tmp = tmp]
    BY DEF Placed, RcRepos
  <1>0. "cache" \in RcText
    BY DEF RcText
  <1>3. /\ kind \in RcKinds /\ loc \in RcText /\ ring \in RcText /\ pkgs \in RcText
        /\ tmp \in RcText /\ where \in RcText
    BY <1>0, <1>1 DEF RcRepos, RcKinds
  <1> HIDE DEF kind, loc, ring, pkgs, tmp, where
  <1> QED BY <1>2, <1>3 DEF RcRepos

\* What the keyfile's data make of a repository's options and its handle.
LEMMA SetKeyfileDataIs ==
    ASSUME NEW r \in RcRepos, NEW k \in RcKeyfiles
    PROVE LET s == SetKeyfileData(r, k)
          IN /\ s \in RcRepos
             /\ s.checked = r.checked
             /\ s.ok <=> /\ k.metadata_expire = Unset \/ ParseTime(k.metadata_expire).ok
                         /\ \/ KeyfileConf(r.conf, k, 8)["repo_gpgcheck"].val # "1"
                            \/ k.gpgkey \notin {"", Unset}
             /\ s.ok => /\ s.conf = KeyfileConf(r.conf, k, 8)
                        /\ s.keys = (IF k.gpgkey = "" THEN Unset ELSE k.gpgkey)
                        /\ s.handle = KeyfileHandle(r.handle, k, s.conf["repo_gpgcheck"].val)
  <1> DEFINE s == SetKeyfileData(r, k)
             p == Placed(r, k)
             keys == IF k.gpgkey = "" THEN Unset ELSE k.gpgkey
             bad == k.metadata_expire # Unset /\ ~ ParseTime(k.metadata_expire).ok
             c(n) == KeyfileConf(r.conf, k, n)
             gpg == c(6)["repo_gpgcheck"].val
  <1>1. p \in RcRepos /\ p.handle = r.handle /\ p.conf = r.conf /\ p.checked = r.checked
    BY PlacedKeeps
  <1>2. \A n : c(n) \in RcConfs
    BY KeyfileConfType DEF RcRepos
  <1>3. gpg = c(8)["repo_gpgcheck"].val
    BY GpgcheckEarly
  <1>4. s = IF bad THEN [r EXCEPT !.handle.urls = k.baseurl, !.ok = FALSE, !.conf = c(3)]
            ELSE IF gpg = "1" /\ keys = Unset
            THEN [p EXCEPT !.conf = c(6), !.keys = keys, !.ok = FALSE, !.handle = UrlHandle(r.handle, k)]
            ELSE [p EXCEPT !.conf = c(8), !.keys = keys, !.ok = TRUE,
                           !.handle = KeyfileHandle(r.handle, k, gpg)]
    BY <1>1 DEF SetKeyfileData
  <1>5. /\ k.baseurl \in RcText /\ k.gpgkey \in RcText /\ k.proxy \in RcText
        /\ k.username \in RcText /\ k.password \in RcText
        /\ MetalinkUrl(k) \in RcText /\ MirrorlistUrl(k) \in RcText
    BY DEF RcKeyfiles, KeyNames, OptNames, OptDefault, MetalinkUrl, MirrorlistUrl, Unset, RcText
  <1>6. UrlHandle(r.handle, k) \in RcHandles
    BY <1>5 DEF UrlHandle, RcHandles, RcRepos
  <1>7. gpg \in RcVals
    BY <1>2 DEF RcConfs, OptNames, OptDefault
  <1>8. keys \in RcText
    BY <1>5 DEF RcText
  <1>9. KeyfileHandle(r.handle, k, gpg) \in RcHandles
    <2> DEFINE proxy == IF k.proxy = Unset THEN ContextProxy
                        ELSE IF k.proxy = "_none_" THEN Unset ELSE k.proxy
               u == UrlHandle(r.handle, k)
               up == <<k.username, k.password>>
    <2>1. proxy \in RcText
      BY <1>5, DnfRepoConfAssumption DEF RcText
    <2>2. KeyfileHandle(r.handle, k, gpg) =
             [u EXCEPT !.gpgcheck = gpg, !.proxy = proxy, !.userpwd = up]
      BY DEF KeyfileHandle
    <2>3. u \in RcHandles
      BY <1>6
    <2>4. up \in RcText \X RcText
      BY <1>5
    <2> HIDE DEF proxy, u, up, gpg
    <2> QED BY <2>1, <2>2, <2>3, <2>4, <1>7 DEF RcHandles
  <1> HIDE DEF s, p, keys, c, gpg
  <1>10. CASE bad
    <2>1. s.checked = r.checked /\ s.ok = FALSE /\ s \in RcRepos
      BY <1>10, <1>2, <1>4, <1>5 DEF RcRepos, RcHandles
    <2> QED BY <2>1, <1>10 DEF s
  <1>11. CASE ~ bad /\ gpg = "1" /\ keys = Unset
    <2>1. s.checked = r.checked /\ s.ok = FALSE /\ s \in RcRepos
      BY <1>11, <1>1, <1>2, <1>4, <1>6, <1>8 DEF RcRepos
    <2>2. k.gpgkey \in {"", Unset}
      BY <1>11 DEF keys
    <2> QED BY <2>1, <2>2, <1>3, <1>11 DEF s, c
  <1>12. CASE ~ bad /\ ~ (gpg = "1" /\ keys = Unset)
    <2>1. /\ s.checked = r.checked /\ s.ok = TRUE /\ s \in RcRepos /\ s.conf = c(8)
          /\ s.keys = keys /\ s.handle = KeyfileHandle(r.handle, k, gpg)
      BY <1>12, <1>1, <1>2, <1>4, <1>9, <1>8 DEF RcRepos
    <2>2. keys = Unset <=> k.gpgkey \in {"", Unset}
      BY DEF keys
    <2>3. s.handle = KeyfileHandle(r.handle, k, s.conf["repo_gpgcheck"].val)
      BY <2>1, <1>3
    <2> QED BY <2>1, <2>2, <2>3, <1>3, <1>12 DEF s, c, keys
  <1> QED BY <1>10, <1>11, <1>12

\* Of the handle a keyfile leaves only the TLS option alone.
LEMMA HandleFromKeyfile ==
    ASSUME NEW h \in RcHandles, NEW g \in RcHandles, NEW k, NEW gpg
    PROVE /\ KeyfileHandle(h, k, gpg) =
                KeyfileHandle(WithTls(g, KeyfileHandle(h, k, gpg).sslverify), k, gpg)
          /\ \A s \in RcText :
                WithTls(KeyfileHandle(h, k, gpg), s) = KeyfileHandle(WithTls(g, s), k, gpg)
  <1> DEFINE proxy == IF k.proxy = Unset THEN ContextProxy
                      ELSE IF k.proxy = "_none_" THEN Unset ELSE k.proxy
             up == <<k.username, k.password>>
             base == k.baseurl
             mir == MirrorlistUrl(k)
             met == MetalinkUrl(k)
             H(ssl) == [urls |-> base, mirrorlist |-> mir, metalink |-> met, gpgcheck |-> gpg,
                        local |-> FALSE, proxy |-> proxy, userpwd |-> up, sslverify |-> ssl]
  <1>1. ASSUME NEW x \in RcHandles
        PROVE KeyfileHandle(x, k, gpg) = H(x.sslverify)
    <2>1. KeyfileHandle(x, k, gpg) =
             [[x EXCEPT !.urls = base, !.mirrorlist = mir, !.metalink = met, !.local = FALSE]
                 EXCEPT !.gpgcheck = gpg, !.proxy = proxy, !.userpwd = up]
      BY DEF KeyfileHandle, UrlHandle
    <2> HIDE DEF proxy, up, base, mir, met
    <2> QED BY <2>1 DEF RcHandles
  <1>2. KeyfileHandle(h, k, gpg) = H(h.sslverify)
    BY <1>1
  <1>3. WithTls(g, h.sslverify) \in RcHandles
        /\ WithTls(g, h.sslverify).sslverify = h.sslverify
    BY DEF RcHandles, WithTls
  <1>4. KeyfileHandle(WithTls(g, h.sslverify), k, gpg) = H(h.sslverify)
    BY <1>1, <1>3
  <1>5. H(h.sslverify).sslverify = h.sslverify
    OBVIOUS
  <1>6. ASSUME NEW s \in RcText
        PROVE WithTls(H(h.sslverify), s) = KeyfileHandle(WithTls(g, s), k, gpg)
    <2>1. WithTls(g, s) \in RcHandles /\ WithTls(g, s).sslverify = s
      BY DEF RcHandles, WithTls
    <2>2. KeyfileHandle(WithTls(g, s), k, gpg) = H(s)
      BY <1>1, <2>1
    <2> DEFINE S == [urls : {base}, mirrorlist : {mir}, metalink : {met}, gpgcheck : {gpg},
                     local : {FALSE}, proxy : {proxy}, userpwd : {up}, sslverify : {h.sslverify, s}]
               x == H(h.sslverify)
               y == H(s)
    <2> HIDE DEF proxy, up, base, mir, met
    <2>3. x \in S /\ y \in S /\ y.sslverify = s
      OBVIOUS
    <2>4. [x EXCEPT !.sslverify = s] = y
      <3> HIDE DEF x, y
      <3> QED BY <2>3
    <2> QED BY <2>2, <2>4 DEF WithTls
  <1> HIDE DEF H
  <1> QED BY <1>2, <1>4, <1>5, <1>6

\* Before that its handle is pointed at the repository's directory.
LEMMA AtLocationType ==
    ASSUME NEW r \in RcRepos
    PROVE AtLocation(r) \in RcRepos /\ AtLocation(r).checked = FALSE
  <1> DEFINE place == r.location
             h == r.handle
             g == [h EXCEPT !.urls = place, !.local = TRUE, !.mirrorlist = Unset, !.metalink = Unset]
  <1>1. h \in RcHandles /\ place \in RcText /\ Unset \in RcText
    BY DEF RcRepos, Unset, RcText
  <1>2. AtLocation(r) = [r EXCEPT !.handle = g, !.checked = FALSE]
    BY DEF AtLocation, RcRepos, RcHandles
  <1> HIDE DEF place, h
  <1>3. g \in RcHandles
    BY <1>1 DEF RcHandles
  <1> HIDE DEF g
  <1> QED BY <1>2, <1>3 DEF RcRepos

\* What dnf_repo_check_internal leaves follows the keyfile, if it succeeds.
LEMMA CheckedFollows ==
    ASSUME NEW r \in RcRepos, NEW k \in RcKeyfiles
    PROVE /\ CheckedRepo(r, k) \in RcRepos
          /\ CheckedRepo(r, k).checked => FollowsKeyfile(CheckedRepo(r, k), k)
  <1> DEFINE q == [AtLocation(r) EXCEPT !.conf = FreshConf]
             new == SetKeyfileData(q, k)
  <1>1. q \in RcRepos /\ q.conf = FreshConf
    BY AtLocationType, FreshConfType DEF RcRepos
  <1>2. CheckedRepo(r, k) = [new EXCEPT !.checked = new.ok]
    BY DEF CheckedRepo
  <1> HIDE DEF q
  <1>3. /\ new \in RcRepos
        /\ new.ok => /\ KeyfileFits(k)
                     /\ new.conf = KeyfileConf(FreshConf, k, 8)
                     /\ new.keys = (IF k.gpgkey = "" THEN Unset ELSE k.gpgkey)
                     /\ new.handle = KeyfileHandle(q.handle, k, new.conf["repo_gpgcheck"].val)
    BY <1>1, SetKeyfileDataIs DEF KeyfileFits
  <1> HIDE DEF new
  <1>4. /\ CheckedRepo(r, k) \in RcRepos
        /\ CheckedRepo(r, k).checked = new.ok /\ CheckedRepo(r, k).conf = new.conf
        /\ CheckedRepo(r, k).keys = new.keys /\ CheckedRepo(r, k).handle = new.handle
    BY <1>2, <1>3 DEF RcRepos
  <1>5. FreshHandle \in RcHandles /\ r.handle \in RcHandles /\ q.handle \in RcHandles
    BY FreshConfType, <1>1 DEF RcRepos
  <1>6. ASSUME new.ok
        PROVE new.handle = KeyfileHandle(WithTls(FreshHandle, new.handle.sslverify), k,
                                         new.conf["repo_gpgcheck"].val)
    <2> DEFINE g == new.conf["repo_gpgcheck"].val
               h == q.handle
    <2> HIDE DEF g, h
    <2>1. h \in RcHandles /\ FreshHandle \in RcHandles
      BY <1>5 DEF h
    <2>2. KeyfileHandle(h, k, g) =
             KeyfileHandle(WithTls(FreshHandle, KeyfileHandle(h, k, g).sslverify), k, g)
      BY <2>1, HandleFromKeyfile
    <2>3. new.handle = KeyfileHandle(h, k, g)
      BY <1>3, <1>6 DEF g, h
    <2> QED BY <2>2, <2>3 DEF g
  <1> QED BY <1>3, <1>4, <1>6 DEF FollowsKeyfile

\* A repository that follows its keyfile still does when the keyfile is copied
\* onto it once more (dnf_repo_update, dnf_repo_download_packages).
LEMMA ReusedFollows ==
    ASSUME NEW r \in RcRepos, NEW k \in RcKeyfiles, FollowsKeyfile(r, k)
    PROVE FollowsKeyfile(SetKeyfileData(r, k), k)
  <1> DEFINE s == SetKeyfileData(r, k)
             c == KeyfileConf(FreshConf, k, 8)
  <1>1. KeyfileConf(r.conf, k, 8) = c
    BY KeyfileConfAgain, FreshConfType DEF FollowsKeyfile
  <1>2. s.ok /\ s \in RcRepos
    BY <1>1, SetKeyfileDataIs DEF FollowsKeyfile, KeyfileFits
  <1>3. /\ s.conf = c
        /\ s.keys = (IF k.gpgkey = "" THEN Unset ELSE k.gpgkey)
        /\ s.handle = KeyfileHandle(r.handle, k, s.conf["repo_gpgcheck"].val)
    BY <1>1, <1>2, SetKeyfileDataIs
  <1> HIDE DEF s
  <1>4. r.handle \in RcHandles /\ FreshHandle \in RcHandles
    BY FreshConfType DEF RcRepos
  <1>5. s.handle = KeyfileHandle(WithTls(FreshHandle, s.handle.sslverify), k,
                                 s.conf["repo_gpgcheck"].val)
    <2> DEFINE g == s.conf["repo_gpgcheck"].val
               h == r.handle
    <2> HIDE DEF g, h
    <2>1. h \in RcHandles /\ FreshHandle \in RcHandles
      BY <1>4 DEF h
    <2>2. KeyfileHandle(h, k, g) =
             KeyfileHandle(WithTls(FreshHandle, KeyfileHandle(h, k, g).sslverify), k, g)
      BY <2>1, HandleFromKeyfile
    <2>3. s.handle = KeyfileHandle(h, k, g)
      BY <1>3 DEF g, h
    <2> QED BY <2>2, <2>3 DEF g
  <1> QED BY <1>3, <1>5 DEF FollowsKeyfile, s

LEMMA NewRepoType ==
    ASSUME NEW kind \in RcKinds
    PROVE NewDnfRepo(kind) \in RcRepos /\ NewDnfRepo(kind).checked = FALSE
  <1>1. Unset \in RcText /\ {} \in RcEnabled
    BY DEF RcText, RcEnabled
  <1> QED BY <1>1, FreshConfType DEF NewDnfRepo, RcRepos

\* Setting a repository up tells nothing of what was checked before.
LEMMA SetupType ==
    ASSUME NEW r \in RcRepos, NEW id, NEW k \in RcKeyfiles
    PROVE SetupRepo(r, id, k) \in RcRepos /\ SetupRepo(r, id, k).checked = r.checked
  <1> DEFINE pkgs == k.enabled = Unset \/ GetBoolean(k, "enabled") = "1"
             meta == IF k.enabled_metadata # Unset THEN GetBoolean(k, "enabled_metadata") = "1"
                     ELSE id \in RedhatRepo
             on == Implied((IF pkgs THEN {"PACKAGES"} ELSE {}) \cup (IF meta THEN {"METADATA"} ELSE {}))
             ssl == IF k.sslverify # Unset THEN GetBoolean(k, "sslverify") ELSE "1"
             q == [r EXCEPT !.enabled = on, !.handle.sslverify = ssl]
  <1>1. on \in RcEnabled
    <2> HIDE DEF pkgs, meta
    <2>1. CASE pkgs
      <3>1. "PACKAGES" \in {"PACKAGES"} \cup (IF meta THEN {"METADATA"} ELSE {})
        OBVIOUS
      <3>2. on = {"PACKAGES", "METADATA"}
        BY <2>1 DEF Implied
      <3> QED BY <3>2 DEF RcEnabled
    <2>2. CASE ~ pkgs /\ meta
      <3>1. on = {"METADATA"}
        BY <2>2 DEF Implied
      <3> QED BY <3>1 DEF RcEnabled
    <2>3. CASE ~ pkgs /\ ~ meta
      <3>1. on = {}
        BY <2>3 DEF Implied
      <3> QED BY <3>1 DEF RcEnabled
    <2> QED BY <2>1, <2>2, <2>3
  <1>2. ssl \in RcText
    BY DEF GetBoolean, RcText
  <1>3. SetupRepo(r, id, k) = SetKeyfileData(q, k)
    BY DEF SetupRepo
  <1> HIDE DEF on, ssl
  <1>4. q \in RcRepos /\ q.checked = r.checked
    BY <1>1, <1>2 DEF RcRepos, RcHandles
  <1> HIDE DEF q
  <1> QED BY <1>3, <1>4, SetKeyfileDataIs

LEMMA RcInvInit == RcInit => RcInv
  <1> SUFFICES ASSUME RcInit PROVE RcInv
    OBVIOUS
  <1>1. KeyfileOf \in [RcIds -> RcKeyfiles]
    BY DnfRepoConfAssumption DEF RcIds, RcKeyfiles, RcText
  <1>2. \A id \in RcIds : repos4[id] \in RcRepos /\ repos4[id].checked = FALSE
    BY NewRepoType DEF RcInit, RcKinds
  <1>3. repos4 \in [RcIds -> RcRepos]
    BY <1>2 DEF RcInit
  <1> QED BY <1>1, <1>2, <1>3 DEF RcInit, RcInv, RcTypes

\* A step that changes repository id alone, to one that follows its keyfile.
LEMMA RcOneRepo ==
    ASSUME RcTypes, RcInv, NEW id \in RcIds, NEW r \in RcRepos,
           repos4' = [repos4 EXCEPT ![id] = r], onDisk4' \in [RcIds -> RcKeyfiles],
           keyfile' \in [RcIds -> RcKeyfiles],
           \A x \in RcIds \ {id} : keyfile'[x] = keyfile[x],
           r.checked => FollowsKeyfile(r, keyfile'[id])
    PROVE RcInv'
  <1>1. repos4' \in [RcIds -> RcRepos]
    BY DEF RcTypes
  <1>2. ASSUME NEW x \in RcIds, repos4'[x].checked
        PROVE FollowsKeyfile(repos4'[x], keyfile'[x])
    <2>1. CASE x = id
      BY <2>1, <1>2 DEF RcTypes
    <2>2. CASE x # id
      <3>1. repos4'[x] = repos4[x] /\ keyfile'[x] = keyfile[x]
        BY <2>2 DEF RcTypes
      <3> QED BY <3>1, <1>2 DEF RcInv
    <2> QED BY <2>1, <2>2
  <1>3. RcTypes'
    BY <1>1 DEF RcTypes
  <1> QED BY <1>2, <1>3 DEF RcInv

LEMMA RcRefresh ==
    ASSUME RcInv, Refresh4
    PROVE RcInv'
  <1>1. RcTypes
    BY DEF RcInv
  <1> DEFINE ids == RepoFileIds \o MediaIds
             made == [id \in RcIds |-> IF id \in ToSet(MediaIds) THEN MediaRepo(id) ELSE ParsedRepo(id)]
             bad == {i \in DOMAIN ids : ~ made[ids[i]].ok}
             kept == IF bad = {} THEN ids
                     ELSE SubSeq(ids, 1, (CHOOSE i \in bad : \A j \in bad : i <= j) - 1)
             here == ToSet(kept)
  <1>2. ASSUME NEW id \in RcIds
        PROVE made[id] \in RcRepos /\ made[id].checked = FALSE
    <2>1. onDisk4[id] \in RcKeyfiles
      BY <1>1 DEF RcTypes
    <2>2. ParsedRepo(id) \in RcRepos /\ ParsedRepo(id).checked = FALSE
      BY <2>1, NewRepoType, SetupType DEF ParsedRepo, RcKinds
    <2>3. MediaRepo(id) \in RcRepos /\ MediaRepo(id).checked = FALSE
      <3> DEFINE preset == [o \in {"gpgcheck", "skip_if_unavailable", "cost"} |->
                              IF o = "cost" THEN "100" ELSE "1"]
                 new == NewDnfRepo("MEDIA")
                 c == SetAll(new.conf, "RUNTIME", preset)
                 q == [new EXCEPT !.conf = c, !.location = "mount", !.packages = "mount",
                                  !.keyring = "mount"]
      <3>1. new \in RcRepos /\ new.checked = FALSE
        BY NewRepoType DEF RcKinds
      <3>2. \A o \in DOMAIN preset : preset[o] \in RcVals
        BY DEF RcVals, RcText
      <3>3. c \in RcConfs
        <4> HIDE DEF preset, new
        <4>1. new.conf \in RcConfs
          BY <3>1 DEF RcRepos
        <4>2. ASSUME NEW o \in OptNames, o \in DOMAIN preset
              PROVE SetOpt(new.conf, o, "RUNTIME", preset[o])[o] \in [pri : RcPris, val : RcVals]
          BY <4>1, <4>2, <3>2 DEF SetOpt, RcConfs, RcPris
        <4> QED BY <4>1, <4>2 DEF SetAll, RcConfs
      <3>4. MediaRepo(id) = SetupRepo(q, id, onDisk4[id])
        BY <3>1 DEF MediaRepo, RcRepos
      <3> HIDE DEF c, new
      <3>5. "mount" \in RcText
        BY DEF RcText
      <3>6. q \in RcRepos /\ q.checked = FALSE
        BY <3>1, <3>3, <3>5 DEF RcRepos
      <3> HIDE DEF q
      <3> QED BY <2>1, <3>4, <3>6, SetupType
    <2> QED BY <2>2, <2>3
  <1>3. /\ repos4' = [id \in RcIds |-> IF id \in here THEN made[id] ELSE repos4[id]]
        /\ keyfile' = [id \in RcIds |-> IF id \in here THEN onDisk4[id] ELSE keyfile[id]]
        /\ onDisk4' = onDisk4
    BY Zenon DEF Refresh4
  <1> HIDE DEF made, here
  <1>4. RcTypes'
    <2>1. repos4' \in [RcIds -> RcRepos]
      BY <1>1, <1>2, <1>3 DEF RcTypes
    <2>2. keyfile' \in [RcIds -> RcKeyfiles]
      BY <1>1, <1>3 DEF RcTypes
    <2> QED BY <1>1, <1>3, <2>1, <2>2 DEF RcTypes
  <1>5. ASSUME NEW id \in RcIds, repos4'[id].checked
        PROVE FollowsKeyfile(repos4'[id], keyfile'[id])
    <2>1. id \notin here
      BY <1>2, <1>3, <1>5
    <2>2. repos4'[id] = repos4[id] /\ keyfile'[id] = keyfile[id]
      BY <1>3, <2>1
    <2> QED BY <2>2, <1>5 DEF RcInv
  <1> QED BY <1>4, <1>5 DEF RcInv

LEMMA RcInvNext == RcInv /\ [RcNext]_rcVars => RcInv'
  <1> SUFFICES ASSUME RcInv, [RcNext]_rcVars PROVE RcInv'
    OBVIOUS
  <1>0. RcTypes
    BY DEF RcInv
  <1>1. CASE Refresh4
    BY <1>1, RcRefresh
  <1>2. ASSUME NEW id \in RcIds, NEW e \in RuntimeSets, SetRuntime(id, e[1], e[2]) PROVE RcInv'
    <2> DEFINE r == [repos4[id] EXCEPT !.conf = SetOpt(repos4[id].conf, e[1], "RUNTIME", e[2]),
                                       !.checked = FALSE]
    <2>1. repos4[id] \in RcRepos
      BY <1>0 DEF RcTypes
    <2>2. SetOpt(repos4[id].conf, e[1], "RUNTIME", e[2]) \in RcConfs
      <3>1. e[1] \in OptNames /\ e[2] \in RcVals
        BY DnfRepoConfAssumption DEF RcVals, RcText
      <3> QED BY <2>1, <3>1 DEF RcRepos, RcConfs, RcPris, SetOpt
    <2>3. repos4' = [repos4 EXCEPT ![id] = r]
      BY <1>2, <2>1, <1>0 DEF SetRuntime, RcTypes, RcRepos
    <2>4. r \in RcRepos /\ r.checked = FALSE
      BY <2>1, <2>2 DEF RcRepos
    <2>5. keyfile' = keyfile /\ onDisk4' = onDisk4
      BY <1>2 DEF SetRuntime
    <2> HIDE DEF r
    <2> QED BY <1>0, <2>3, <2>4, <2>5, RcOneRepo DEF RcTypes
  <1>3. ASSUME NEW id \in RcIds, NEW e \in DataEdits, SetData(id, e[1], e[2]) PROVE RcInv'
    <2> DEFINE r == [repos4[id] EXCEPT !.checked = FALSE]
    <2>1. repos4[id] \in RcRepos
      BY <1>0 DEF RcTypes
    <2>2. repos4' = [repos4 EXCEPT ![id] = r]
      BY <1>3, <2>1, <1>0 DEF SetData, RcTypes, RcRepos
    <2>3. r \in RcRepos /\ r.checked = FALSE
      BY <2>1 DEF RcRepos
    <2>4. keyfile' \in [RcIds -> RcKeyfiles] /\ onDisk4' = onDisk4
      BY <1>3, <1>0, DnfRepoConfAssumption DEF SetData, RcTypes, RcKeyfiles, RcText
    <2>5. \A x \in RcIds \ {id} : keyfile'[x] = keyfile[x]
      BY <1>3, <1>0 DEF SetData, RcTypes
    <2> HIDE DEF r
    <2> QED BY <1>0, <2>2, <2>3, <2>4, <2>5, RcOneRepo DEF RcTypes
  <1>4. ASSUME NEW id \in RcIds, CommitConf(id) PROVE RcInv'
    <2>1. keyfile' = keyfile /\ repos4' = repos4 /\ onDisk4' \in [RcIds -> RcKeyfiles]
      BY <1>4, <1>0 DEF CommitConf, RcTypes
    <2> QED BY <2>1, <1>0 DEF RcInv, RcTypes
  <1>5. ASSUME NEW id \in RcIds, CheckConf(id) PROVE RcInv'
    <2>1. repos4[id] \in RcRepos /\ keyfile[id] \in RcKeyfiles
      BY <1>0 DEF RcTypes
    <2>2. /\ repos4' = [repos4 EXCEPT ![id] = CheckedRepo(repos4[id], keyfile[id])]
          /\ keyfile' = keyfile /\ onDisk4' = onDisk4
      BY <1>5 DEF CheckConf
    <2> DEFINE r == CheckedRepo(repos4[id], keyfile[id])
    <2>3. r \in RcRepos /\ (r.checked => FollowsKeyfile(r, keyfile[id]))
      BY <2>1, CheckedFollows
    <2> HIDE DEF r
    <2>4. repos4' = [repos4 EXCEPT ![id] = r]
      BY <2>2 DEF r
    <2> QED BY <1>0, <2>2, <2>3, <2>4, RcOneRepo DEF RcTypes
  <1>9. ASSUME NEW id \in RcIds, CheckConfFails(id) PROVE RcInv'
    <2> DEFINE enabled == IF repos4[id].conf["skip_if_unavailable"].val = "1" THEN {} ELSE repos4[id].enabled
               v == Vanished(repos4[id])
               a == AtLocation(repos4[id])
    <2>1. repos4[id] \in RcRepos
      BY <1>0 DEF RcTypes
    <2>2. enabled \in RcEnabled /\ v = [repos4[id] EXCEPT !.enabled = enabled, !.checked = FALSE]
      BY <2>1 DEF Vanished, RcEnabled, RcRepos
    <2> HIDE DEF enabled
    <2>3. v \in RcRepos /\ v.checked = FALSE /\ a \in RcRepos /\ a.checked = FALSE
      BY <2>1, <2>2, AtLocationType DEF RcRepos
    <2>4. /\ repos4' = [repos4 EXCEPT ![id] = v] \/ repos4' = [repos4 EXCEPT ![id] = a]
          /\ keyfile' = keyfile /\ onDisk4' = onDisk4
      BY <1>9 DEF CheckConfFails
    <2> HIDE DEF v, a
    <2>5. ASSUME NEW r \in RcRepos, r.checked = FALSE, repos4' = [repos4 EXCEPT ![id] = r] PROVE RcInv'
      BY <1>0, <2>4, <2>5, RcOneRepo DEF RcTypes
    <2> QED BY <2>3, <2>4, <2>5
  <1>6. ASSUME NEW id \in RcIds, ReuseConf(id) PROVE RcInv'
    <2>1. repos4[id] \in RcRepos /\ keyfile[id] \in RcKeyfiles
      BY <1>0 DEF RcTypes
    <2>2. /\ repos4' = [repos4 EXCEPT ![id] = SetKeyfileData(repos4[id], keyfile[id])]
          /\ keyfile' = keyfile /\ onDisk4' = onDisk4
      BY <1>6 DEF ReuseConf
    <2> DEFINE r == SetKeyfileData(repos4[id], keyfile[id])
    <2>3. r \in RcRepos /\ r.checked = repos4[id].checked
      BY <2>1, SetKeyfileDataIs
    <2>4. r.checked => FollowsKeyfile(r, keyfile[id])
      BY <2>1, <2>3, ReusedFollows DEF RcInv
    <2> HIDE DEF r
    <2>5. repos4' = [repos4 EXCEPT ![id] = r]
      BY <2>2 DEF r
    <2> QED BY <1>0, <2>2, <2>3, <2>4, <2>5, RcOneRepo DEF RcTypes
  <1>7. ASSUME NEW id \in RcIds, NEW E \in {{}, {"PACKAGES"}}, RepoSetEnabled(id, E) PROVE RcInv'
    <2> DEFINE r == [repos4[id] EXCEPT !.enabled = Implied(E)]
    <2>1. repos4[id] \in RcRepos
      BY <1>0 DEF RcTypes
    <2>2. repos4' = [repos4 EXCEPT ![id] = r] /\ keyfile' = keyfile /\ onDisk4' = onDisk4
      BY <1>7 DEF RepoSetEnabled
    <2>3. Implied(E) \in RcEnabled
      BY DEF Implied, RcEnabled
    <2>4. /\ r \in RcRepos /\ r.checked = repos4[id].checked /\ r.conf = repos4[id].conf
          /\ r.keys = repos4[id].keys /\ r.handle = repos4[id].handle
      BY <2>1, <2>3 DEF RcRepos
    <2> HIDE DEF r
    <2>5. r.checked => FollowsKeyfile(r, keyfile[id])
      BY <2>4 DEF RcInv, FollowsKeyfile
    <2> QED BY <1>0, <2>2, <2>4, <2>5, RcOneRepo DEF RcTypes
  <1>8. CASE UNCHANGED rcVars
    BY <1>8 DEF RcInv, RcTypes, rcVars
  <1> QED BY <1>1, <1>2, <1>3, <1>4, <1>5, <1>6, <1>7, <1>8, <1>9 DEF RcNext

LEMMA RcInvGives == RcInv => CheckedIsFresh
  <1> SUFFICES ASSUME RcInv, NEW id \in RcIds, repos4[id].checked
               PROVE LET new == SetKeyfileData(NewDnfRepo(repos4[id].kind), keyfile[id])
                     IN /\ repos4[id].conf = new.conf
                        /\ repos4[id].keys = new.keys
                        /\ [repos4[id].handle EXCEPT !.sslverify = "1"] = new.handle
    BY DEF CheckedIsFresh
  <1> DEFINE r == repos4[id]
             k == keyfile[id]
             f == NewDnfRepo(r.kind)
             new == SetKeyfileData(f, k)
  <1>1. r \in RcRepos /\ k \in RcKeyfiles /\ FollowsKeyfile(r, k)
    BY DEF RcInv, RcTypes
  <1>2. f \in RcRepos /\ f.conf = FreshConf /\ f.handle = FreshHandle
    <2>1. r.kind \in RcKinds
      BY <1>1 DEF RcRepos
    <2> QED BY <2>1, NewRepoType DEF NewDnfRepo
  <1> HIDE DEF r, k, f
  <1>3. /\ new.ok /\ new.conf = KeyfileConf(FreshConf, k, 8)
        /\ new.keys = (IF k.gpgkey = "" THEN Unset ELSE k.gpgkey)
        /\ new.handle = KeyfileHandle(FreshHandle, k, new.conf["repo_gpgcheck"].val)
    <2>1. new.ok
      BY <1>1, <1>2, SetKeyfileDataIs DEF FollowsKeyfile, KeyfileFits
    <2> QED BY <2>1, <1>1, <1>2, SetKeyfileDataIs
  <1> HIDE DEF new
  <1>4. r.conf = new.conf /\ r.keys = new.keys
    BY <1>1, <1>3 DEF FollowsKeyfile
  <1>5. [r.handle EXCEPT !.sslverify = "1"] = new.handle
    <2> DEFINE g == new.conf["repo_gpgcheck"].val
    <2> HIDE DEF g
    <2>1. FreshHandle \in RcHandles /\ r.handle \in RcHandles
      BY <1>1, FreshConfType DEF RcRepos
    <2>2. r.handle = KeyfileHandle(WithTls(FreshHandle, r.handle.sslverify), k, g)
      BY <1>1, <1>4 DEF FollowsKeyfile, g
    <2>3. new.handle = KeyfileHandle(FreshHandle, k, g)
      BY <1>3 DEF g
    <2> DEFINE h == WithTls(FreshHandle, r.handle.sslverify)
    <2>4. h \in RcHandles /\ "1" \in RcText
      BY <2>1 DEF RcHandles, WithTls, RcText
    <2> HIDE DEF h
    <2>5. WithTls(KeyfileHandle(h, k, g), "1") = KeyfileHandle(WithTls(FreshHandle, "1"), k, g)
      BY <2>1, <2>4, HandleFromKeyfile
    <2>6. WithTls(FreshHandle, "1") = FreshHandle
      <3>1. FreshHandle.sslverify = "1"
        BY DEF FreshHandle
      <3> QED BY <2>1, <3>1 DEF RcHandles, WithTls
    <2>7. WithTls(r.handle, "1") = new.handle
      BY <2>2, <2>3, <2>5, <2>6 DEF h
    <2> QED BY <2>7 DEF WithTls
  <1> QED BY <1>4, <1>5 DEF r, k, f, new

\* CheckedIsFresh for every set of repositories, keyfiles and edits: after a
\* successful dnf_repo_check the options, keys and librepo handle are those of a
\* repository newly set up from the keyfile, however the program got there.
THEOREM CheckedIsFreshAlways == RcSpec => []CheckedIsFresh
  BY RcInvInit, RcInvNext, RcInvGives, PTL DEF RcSpec

-----------------------------------------------------------------------------
(* Goals.  A goal is a record whose fields need no types here.             *)

IsGoal(g) ==
    g \in [staging : {g.staging}, actions : {g.actions}, protected : {g.protected}, removal : {g.removal},
           trans : {g.trans}, problems : {g.problems}, rules : {g.rules}, solv : {g.solv}]

\* A transaction that keeps the limit on packages installed side by side.
KeepsLimit(D) ==
    InstallonlyLimit > 0 =>
        \A w \in InstallonlyProvides : \A q \in Siblings(D, w) \ GoalInstalled :
            Cardinality(Sides(D, <<w, GPkg[q].name>>)) <= InstallonlyLimit

\* What a run leaves: a failure of the solver, or a transaction.
RunResult(g) ==
    /\ IsGoal(g) /\ g.solv = TRUE
    /\ \/ g.trans = NoTrans /\ g.problems = 1
       \/ /\ g.trans.made = TRUE /\ g.problems = 0
          /\ g.protected # {} => g.removal = ProtectedInRemovals(g, g.trans.result)
    /\ KernelSet \subseteq g.protected

LEMMA FailedResult ==
    ASSUME NEW g, IsGoal(g), KernelSet \subseteq g.protected, NEW jobs
    PROVE  RunResult(Failed(g, jobs)) /\ Failed(g, jobs).protected = g.protected
           /\ Failed(g, jobs).trans = NoTrans
<1> DEFINE rules == ProblemRules(jobs)
           h == Failed(g, jobs)
<1>1. h = [g EXCEPT !.trans = NoTrans, !.problems = 1, !.rules = rules, !.solv = TRUE]
  BY DEF Failed
<1> HIDE DEF rules, h
<1>2. /\ h.trans = NoTrans /\ h.problems = 1 /\ h.solv = TRUE /\ h.protected = g.protected
      /\ h.staging = g.staging /\ h.actions = g.actions /\ h.removal = g.removal /\ h.rules = rules
      /\ h \in [staging : {g.staging}, actions : {g.actions}, protected : {g.protected}, removal : {g.removal},
                trans : {NoTrans}, problems : {1}, rules : {rules}, solv : {TRUE}]
  BY <1>1 DEF IsGoal
<1>3. IsGoal(h)
  BY <1>2 DEF IsGoal
<1> QED
  BY <1>2, <1>3 DEF RunResult, h

LEMMA DecidedResult ==
    ASSUME NEW g, IsGoal(g), KernelSet \subseteq g.protected, NEW D
    PROVE  /\ RunResult(Decided(g, D)) /\ Decided(g, D).protected = g.protected
           /\ Decided(g, D).trans.made = TRUE /\ Decided(g, D).trans.result = D
<1> DEFINE removal == IF g.protected = {} THEN g.removal ELSE ProtectedInRemovals(g, D)
           outcome == [made |-> TRUE, result |-> D]
           h == Decided(g, D)
<1>1. h = [g EXCEPT !.trans = outcome, !.problems = 0, !.rules = {}, !.solv = TRUE, !.removal = removal]
  BY DEF Decided
<1>0. outcome.made = TRUE /\ outcome.result = D
  OBVIOUS
<1> HIDE DEF removal, outcome, h
<1>2. /\ h.trans = outcome /\ h.problems = 0 /\ h.solv = TRUE /\ h.protected = g.protected
      /\ h.staging = g.staging /\ h.actions = g.actions /\ h.removal = removal /\ h.rules = {}
      /\ h \in [staging : {g.staging}, actions : {g.actions}, protected : {g.protected}, removal : {removal},
                trans : {outcome}, problems : {0}, rules : {{}}, solv : {TRUE}]
  BY <1>1 DEF IsGoal
<1>3. IsGoal(h)
  BY <1>2 DEF IsGoal
<1>4. h.protected # {} => h.removal = ProtectedInRemovals(h, D)
  BY <1>2 DEF removal, ProtectedInRemovals
<1> QED
  BY <1>0, <1>2, <1>3, <1>4 DEF RunResult, h

\* What the solver answers obeys the jobs.
LEMMA SolutionsObey ==
    ASSUME NEW jobs, NEW downgrade, NEW ignoreWeak, NEW D \in Solutions(jobs, downgrade, ignoreWeak)
    PROVE  /\ D \in SUBSET GoalPkgs
           /\ \A j \in jobs : j.how = "erase" => j.what \cap D = {}
<1> DEFINE all == {E \in Consistent : ObeysJobs(E, jobs, downgrade, ignoreWeak) /\ Wanted(E, jobs, Hopes(jobs))}
<1>1. D \in all
  BY DEF Solutions, SolutionsWith, Hopeful
<1>2. D \in Consistent /\ ObeysJobs(D, jobs, downgrade, ignoreWeak)
  BY <1>1
<1>3. D \in SUBSET GoalPkgs
  BY <1>2 DEF Consistent
<1> QED
  BY <1>2, <1>3 DEF ObeysJobs, JobsOf

LEMMA SidesFinite ==
    ASSUME NEW D \in SUBSET GoalPkgs, NEW T \in SUBSET D
    PROVE  IsFiniteSet(T) /\ Cardinality(T) \in Nat
<1>1. T \in SUBSET GoalPkgs /\ IsFiniteSet(GoalPkgs)
  BY DnfGoalAssumption DEF GoalPkgs, GPkg
<1> QED
  BY <1>1, FS_Subset, FS_CardinalityType

\* Where limitInstallonlyPackages asks for nothing, the limit is kept.
LEMMA NotOverLimit ==
    ASSUME NEW D \in SUBSET GoalPkgs, NEW w \in InstallonlyProvides, NEW q \in Siblings(D, w) \ GoalInstalled,
           InstallonlyLimit > 0, <<w, GPkg[q].name>> \notin OverLimit(D)
    PROVE  Cardinality(Sides(D, <<w, GPkg[q].name>>)) <= InstallonlyLimit
<1> DEFINE over == <<w, GPkg[q].name>>
           S == Sides(D, over)
           T == Siblings(D, w)
<1>1. S \in SUBSET T /\ T \in SUBSET D /\ S \in SUBSET D
  BY DEF Sides, Siblings
<1>2. IsFiniteSet(T) /\ Cardinality(T) \in Nat /\ Cardinality(S) \in Nat
  BY <1>1, SidesFinite
<1>3. over \in InstallonlyProvides \X NameOf(D) /\ over[1] = w
  BY <1>1 DEF NameOf
<1>4. ~ LimitNeeded(D, w) \/ ~ (Cardinality(S) > InstallonlyLimit)
  BY <1>3 DEF OverLimit
<1>5. CASE ~ LimitNeeded(D, w)
  <2>1. q \in T /\ ~ GPkg[q].installed
    BY <1>1 DEF GoalInstalled
  <2>2. ~ (Cardinality(T) > InstallonlyLimit)
    BY <1>5, <2>1 DEF LimitNeeded
  <2>3. Cardinality(S) <= Cardinality(T)
    BY <1>1, <1>2, FS_Subset
  <2> HIDE DEF S, T
  <2> QED
    BY <1>2, <2>2, <2>3, DnfGoalAssumption DEF S
<1>6. CASE ~ (Cardinality(S) > InstallonlyLimit)
  <2> HIDE DEF S
  <2> QED
    BY <1>2, <1>6, DnfGoalAssumption DEF S
<1> QED
  BY <1>4, <1>5, <1>6

LEMMA LimitOfFirst ==
    ASSUME NEW D \in SUBSET GoalPkgs, OverLimit(D) = {}
    PROVE  KeepsLimit(D)
  BY NotOverLimit DEF KeepsLimit

\* A transaction that obeys the jobs limitInstallonlyPackages adds, and has
\* nothing side by side that the first one had not, keeps the limit.
LEMMA LimitOfSecond ==
    ASSUME NEW D \in SUBSET GoalPkgs, NEW E \in SUBSET GoalPkgs, NEW jobs, NEW queue \in Limited(jobs, D),
           OverLimit(D) # {},
           \A j \in queue : j.how = "erase" => j.what \cap E = {},
           \A p \in E : Installonly(p) => p \in D
    PROVE  KeepsLimit(E)
<1> SUFFICES ASSUME InstallonlyLimit > 0, NEW w \in InstallonlyProvides, NEW q \in Siblings(E, w) \ GoalInstalled
             PROVE  Cardinality(Sides(E, <<w, GPkg[q].name>>)) <= InstallonlyLimit
  BY DEF KeepsLimit
<1> DEFINE n == <<w, GPkg[q].name>>
           S == Sides(E, n)
           T == Sides(D, n)
<1>0. q \in Siblings(D, w) \ GoalInstalled
  BY DEF Siblings, Installonly
<1>1. S \in SUBSET T /\ T \in SUBSET D /\ S \in SUBSET E
  BY DEF Sides, Siblings, Installonly
<1>2. IsFiniteSet(T) /\ Cardinality(T) \in Nat /\ Cardinality(S) \in Nat
  BY <1>1, SidesFinite
<1>3. CASE n \notin OverLimit(D)
  <2>1. Cardinality(T) <= InstallonlyLimit
    BY <1>0, <1>3, NotOverLimit
  <2>2. Cardinality(S) <= Cardinality(T)
    BY <1>1, <1>2, FS_Subset
  <2> HIDE DEF S, T
  <2> QED
    BY <1>2, <2>1, <2>2, DnfGoalAssumption DEF S
<1>4. CASE n \in OverLimit(D)
  <2>1. PICK f \in [OverLimit(D) -> UNION {KeptChoices(Sides(D, m)) : m \in OverLimit(D)}] :
          /\ \A m \in OverLimit(D) : f[m] \in KeptChoices(Sides(D, m))
          /\ queue = jobs \cup UNION {{Job(IF p \in f[m] THEN "install" ELSE "erase", FALSE, {p}) :
                                           p \in Sides(D, m)} : m \in OverLimit(D)}
    BY DEF Limited
  <2>2. f[n] \in SUBSET T /\ Cardinality(f[n]) = InstallonlyLimit
    BY <1>4, <2>1 DEF KeptChoices
  <2>3. ASSUME NEW p \in S PROVE p \in f[n]
    <3>1. SUFFICES ASSUME p \notin f[n] PROVE FALSE
      OBVIOUS
    <3>2. p \in Sides(D, n)
      BY <1>1, <2>3
    <3>3. Job("erase", FALSE, {p}) \in queue
      <4>1. Job("erase", FALSE, {p}) \in {Job(IF r \in f[n] THEN "install" ELSE "erase", FALSE, {r}) :
                                           r \in Sides(D, n)}
        BY <3>1, <3>2
      <4> DEFINE added(m) == {Job(IF r \in f[m] THEN "install" ELSE "erase", FALSE, {r}) : r \in Sides(D, m)}
      <4>2. queue = jobs \cup UNION {added(m) : m \in OverLimit(D)}
        BY <2>1
      <4>3. Job("erase", FALSE, {p}) \in added(n)
        BY <4>1
      <4> HIDE DEF added
      <4> QED
        BY <4>2, <4>3, <1>4
    <3>4. {p} \cap E = {}
      BY <3>3 DEF Job
    <3> QED
      BY <3>4, <2>3, <1>1
  <2>4. S \in SUBSET f[n] /\ f[n] \in SUBSET D
    BY <2>3, <2>2, <1>1
  <2>5. IsFiniteSet(f[n])
    BY <2>4, SidesFinite
  <2>6. Cardinality(S) <= Cardinality(f[n])
    BY <2>4, <2>5, FS_Subset
  <2> QED
    BY <2>2, <2>6
<1> QED
  BY <1>3, <1>4

-----------------------------------------------------------------------------
\* The goal a run starts from.
ToRun(flags) == [goal EXCEPT !.protected = @ \cup KernelSet, !.actions = @ \cup flags]

\* libsolv's second run, with the jobs of the limit, brings in nothing side by
\* side that its first run had not.
SecondRunNear(g, flags) ==
    LET jobs == ConstructJob(g.staging, g.protected, flags)
        found(queue) == Solutions(queue, "ALLOW_DOWNGRADE" \in g.actions, "IGNORE_WEAK" \in flags)
    IN \A D \in found(jobs) :
          OverLimit(D) # {} =>
              \A queue \in Limited(jobs, D) : \A E \in found(queue \cup {AllowUninstall(g.protected)}) :
                  \A p \in E : Installonly(p) => p \in D

\* Whatever run comes next.  Goal::solve does not look at the limit again.
SecondRunAddsNoSides == \A flags \in RunFlags : SecondRunNear(ToRun(flags), flags)

LEMMA SolvedResult ==
    ASSUME NEW g, IsGoal(g), KernelSet \subseteq g.protected, NEW flags, NEW h \in Solved(g, flags)
    PROVE  /\ RunResult(h) /\ h.protected = g.protected
           /\ h.trans = NoTrans \/ h.trans.made = TRUE
           /\ SecondRunNear(g, flags) /\ h.trans # NoTrans => KeepsLimit(h.trans.result)
<1> DEFINE jobs == ConstructJob(g.staging, g.protected, flags)
           downgrade == "ALLOW_DOWNGRADE" \in g.actions
           ignoreWeak == "IGNORE_WEAK" \in flags
           first == Solutions(jobs, downgrade, ignoreWeak)
           again(queue) == Solutions(queue \cup {AllowUninstall(g.protected)}, downgrade, ignoreWeak)
<1>1. h \in SolvedFrom(g, flags, jobs, first)
  BY DEF Solved, SolveJobs
<1>2. \/ h = Failed(g, jobs)
      \/ \E D \in first : \E queue \in Limited(jobs, D) :
            \/ queue = jobs /\ h = Decided(g, D)
            \/ h = Failed(g, queue)
            \/ queue # jobs /\ \E E \in again(queue) : h = Decided(g, E)
  <2> HIDE DEF jobs, first
  <2> DEFINE next(D, queue) == IF queue = jobs THEN {Decided(g, D)} ELSE SolveAgain(g, flags, queue)
             tried(D) == UNION {next(D, queue) : queue \in Limited(jobs, D)}
  <2>1. \/ h = Failed(g, jobs)
        \/ h \in UNION {tried(D) : D \in first}
    BY <1>1 DEF SolvedFrom
  <2>2. CASE h \in UNION {tried(D) : D \in first}
    <3> HIDE DEF tried
    <3>1. PICK D \in first : h \in tried(D)
      BY <2>2
    <3> HIDE DEF next
    <3>2. PICK queue \in Limited(jobs, D) : h \in next(D, queue)
      BY <3>1 DEF tried
    <3>3. \/ queue = jobs /\ h = Decided(g, D)
          \/ queue # jobs /\ h \in SolvedOr(g, queue, again(queue))
      BY <3>2 DEF next, SolveAgain
    <3> HIDE DEF again
    <3>4. h \in SolvedOr(g, queue, again(queue)) =>
             h = Failed(g, queue) \/ \E E \in again(queue) : h = Decided(g, E)
      BY DEF SolvedOr
    <3> QED
      BY <3>3, <3>4
  <2> QED
    BY <2>1, <2>2
<1> HIDE DEF jobs
<1>3. CASE h = Failed(g, jobs)
  BY <1>3, FailedResult
<1>4. ASSUME NEW D \in first, NEW queue \in Limited(jobs, D), h = Failed(g, queue)
      PROVE  /\ RunResult(h) /\ h.protected = g.protected /\ h.trans = NoTrans
  BY <1>4, FailedResult
<1>5. ASSUME NEW D \in first, NEW queue \in Limited(jobs, D), queue = jobs, h = Decided(g, D)
      PROVE  /\ RunResult(h) /\ h.protected = g.protected /\ h.trans.made = TRUE
             /\ KeepsLimit(h.trans.result)
  <2>1. D \in SUBSET GoalPkgs /\ \A j \in jobs : j.how = "erase" => j.what \cap D = {}
    BY SolutionsObey
  <2>2. KeepsLimit(D)
    <3>1. CASE OverLimit(D) = {}
      BY <2>1, <3>1, LimitOfFirst
    <3>2. CASE OverLimit(D) # {}
      BY <2>1, <3>2, <1>5, LimitOfSecond
    <3> QED
      BY <3>1, <3>2
  <2> QED
    BY <1>5, <2>2, DecidedResult
<1>6. ASSUME NEW D \in first, NEW queue \in Limited(jobs, D), queue # jobs, NEW E \in again(queue),
             h = Decided(g, E)
      PROVE  /\ RunResult(h) /\ h.protected = g.protected /\ h.trans.made = TRUE
             /\ SecondRunNear(g, flags) => KeepsLimit(h.trans.result)
  <2>1. D \in SUBSET GoalPkgs /\ \A j \in jobs : j.how = "erase" => j.what \cap D = {}
    BY SolutionsObey
  <2>2. E \in SUBSET GoalPkgs /\ \A j \in queue : j.how = "erase" => j.what \cap E = {}
    BY SolutionsObey
  <2>3. ASSUME SecondRunNear(g, flags) PROVE KeepsLimit(E)
    <3>1. CASE OverLimit(D) # {}
      <4>1. \A p \in E : Installonly(p) => p \in D
        BY <2>3, <3>1 DEF SecondRunNear, jobs
      <4> QED
        BY <2>1, <2>2, <3>1, <4>1, LimitOfSecond
    <3>2. CASE OverLimit(D) = {}
      BY <3>2, <1>6 DEF Limited
    <3> QED
      BY <3>1, <3>2
  <2> QED
    BY <1>6, <2>3, DecidedResult
<1> QED
  BY <1>2, <1>3, <1>4, <1>5, <1>6

-----------------------------------------------------------------------------
\* What the goal and the answer of the last run say together.
GoalInv ==
    /\ IsGoal(goal) /\ goal.solv \in BOOLEAN
    /\ goalRun \in [count : Nat, failed : BOOLEAN, protected : {goalRun.protected}]
    /\ goal.trans = NoTrans \/ (goal.trans.made = TRUE /\ goal.solv = TRUE)
    /\ goalRun.count > 0 => KernelSet \subseteq goalRun.protected
    /\ goal.solv => goalRun.count > 0
    /\ goal.solv /\ goalRun.failed =>
          \/ goal.trans = NoTrans /\ goal.problems = 1
          \/ goal.trans.made = TRUE /\ goal.problems = 0 /\ goal.removal # {}
    /\ goal.solv /\ ~ goalRun.failed => goal.trans.made = TRUE
    /\ goal.trans.made /\ ~ goalRun.failed =>
          (Erased(goal.trans.result) \cup Obsoleted(goal.trans.result)) \cap goalRun.protected = {}

LimitInv == goal.trans.made => KeepsLimit(goal.trans.result)

LEMMA GoalInitial == GoalInit => GoalInv
<1> SUFFICES ASSUME GoalInit PROVE GoalInv
  OBVIOUS
<1>1. goal = [staging |-> {}, actions |-> {}, protected |-> {}, removal |-> {},
              trans |-> NoTrans, problems |-> 0, rules |-> {}, solv |-> FALSE]
      /\ goalRun = [count |-> 0, failed |-> FALSE, protected |-> {}]
  BY DEF GoalInit
<1>2. IsGoal(goal) /\ goal.solv = FALSE /\ goal.trans = NoTrans
  BY <1>1 DEF IsGoal
<1>3. goalRun \in [count : Nat, failed : BOOLEAN, protected : {goalRun.protected}] /\ goalRun.count = 0
  BY <1>1
<1>4. goal.trans.made = FALSE
  BY <1>2 DEF NoTrans
<1>5. ~ (goalRun.count > 0)
  BY <1>3
<1> QED
  BY <1>2, <1>3, <1>4, <1>5 DEF GoalInv

\* A step that stages jobs or names protected packages.
LEMMA StagedKept ==
    ASSUME GoalInv, NEW staging, NEW actions, NEW protected, UNCHANGED goalRun,
           goal' = [goal EXCEPT !.staging = staging, !.actions = actions, !.protected = protected]
    PROVE  GoalInv' /\ UNCHANGED goal.trans
<1>1. /\ goal'.removal = goal.removal /\ goal'.trans = goal.trans /\ goal'.problems = goal.problems
      /\ goal'.rules = goal.rules /\ goal'.solv = goal.solv
      /\ goal'.staging = staging /\ goal'.actions = actions /\ goal'.protected = protected
      /\ goal' \in [staging : {staging}, actions : {actions}, protected : {protected}, removal : {goal.removal},
                    trans : {goal.trans}, problems : {goal.problems}, rules : {goal.rules}, solv : {goal.solv}]
  BY DEF GoalInv, IsGoal
<1>2. IsGoal(goal')
  BY <1>1 DEF IsGoal
<1> QED
  BY <1>1, <1>2 DEF GoalInv

LEMMA GoalNextKeeps ==
    ASSUME GoalInv, [GoalNext]_goalVars
    PROVE  /\ GoalInv'
           /\ LimitInv /\ SecondRunAddsNoSides => LimitInv'
<1>1. ASSUME NEW actions, NEW jobs, Stage(actions, jobs) PROVE GoalInv' /\ UNCHANGED goal.trans
  <2> DEFINE A == goal.actions \cup actions
             J == goal.staging \cup jobs
  <2>1. goal' = [goal EXCEPT !.staging = J, !.actions = A, !.protected = goal.protected] /\ UNCHANGED goalRun
    BY <1>1 DEF Stage, GoalInv, IsGoal
  <2> HIDE DEF A, J
  <2> QED
    BY <2>1, StagedKept
<1>2. ASSUME GoalStage PROVE GoalInv' /\ UNCHANGED goal.trans
  BY <1>1, <1>2 DEF GoalStage, GoalInstall, GoalErase, GoalUpgrade, GoalDistupgrade, GoalUserInstalled,
         GoalInstallSelector, GoalEraseSelector, GoalUpgradeSelector, GoalDistupgradeSelector,
         GoalUpgradeAll, GoalDistupgradeAll
<1>3. ASSUME NEW S, SetProtected(S) \/ AddProtected(S) PROVE GoalInv' /\ UNCHANGED goal.trans
  <2>1. PICK P : goal' = [goal EXCEPT !.protected = P] /\ UNCHANGED goalRun
    BY <1>3 DEF SetProtected, AddProtected
  <2> DEFINE A == goal.actions
             J == goal.staging
  <2>2. goal' = [goal EXCEPT !.staging = J, !.actions = A, !.protected = P]
    BY <2>1 DEF GoalInv, IsGoal
  <2>3. UNCHANGED goalRun
    BY <2>1
  <2> HIDE DEF A, J
  <2> QED
    BY <2>2, <2>3, StagedKept
<1>4. ASSUME NEW flags \in RunFlags, GoalRun(flags)
      PROVE  GoalInv' /\ (SecondRunAddsNoSides => LimitInv')
  <2> DEFINE P == goal.protected \cup KernelSet
             A == goal.actions \cup flags
             before == [goal EXCEPT !.protected = P, !.actions = A]
  <2>1. PICK g \in Solved(before, flags) :
          /\ goal' = g
          /\ goalRun' = [count |-> goalRun.count + 1, failed |-> GoalFailed(g), protected |-> g.protected]
    BY <1>4 DEF GoalRun
  <2>0. before = ToRun(flags)
    BY DEF ToRun
  <2>2. IsGoal(before) /\ KernelSet \subseteq before.protected
    <3> HIDE DEF P, A
    <3>1. /\ before.removal = goal.removal /\ before.trans = goal.trans /\ before.problems = goal.problems
          /\ before.rules = goal.rules /\ before.solv = goal.solv
          /\ before.staging = goal.staging /\ before.actions = A /\ before.protected = P
          /\ before \in [staging : {goal.staging}, actions : {A}, protected : {P}, removal : {goal.removal},
                    trans : {goal.trans}, problems : {goal.problems}, rules : {goal.rules}, solv : {goal.solv}]
      BY DEF GoalInv, IsGoal
    <3>2. IsGoal(before)
      BY <3>1 DEF IsGoal
    <3> QED
      BY <3>1, <3>2 DEF P
  <2> HIDE DEF before
  <2>3. /\ RunResult(g) /\ g.protected = before.protected
        /\ g.trans = NoTrans \/ g.trans.made = TRUE
        /\ SecondRunNear(before, flags) /\ g.trans # NoTrans => KeepsLimit(g.trans.result)
    BY <2>1, <2>2, SolvedResult
  <2>4. NoTrans.made = FALSE
    BY DEF NoTrans
  <2> DEFINE failed == GoalFailed(g)
  <2>5. failed \in BOOLEAN /\ (failed <=> ~ g.trans.made \/ ProtectedInRemovals(g, g.trans.result) # {})
    BY <2>3, <2>4 DEF GoalFailed
  <2> HIDE DEF failed
  <2>6. /\ goalRun' \in [count : Nat, failed : BOOLEAN, protected : {goalRun'.protected}]
        /\ goalRun'.count > 0 /\ goalRun'.failed = failed /\ goalRun'.protected = g.protected
    <3>1. goalRun.count \in Nat
      BY DEF GoalInv
    <3> QED
      BY <3>1, <2>1, <2>5 DEF failed
  <2>7. GoalInv'
    BY <2>1, <2>3, <2>4, <2>5, <2>6 DEF GoalInv, RunResult, ProtectedInRemovals
  <2>8. SecondRunAddsNoSides => SecondRunNear(before, flags)
    BY <2>0 DEF SecondRunAddsNoSides
  <2>9. goal'.trans = g.trans
    BY <2>1
  <2> QED
    BY <2>3, <2>4, <2>7, <2>8, <2>9 DEF LimitInv
<1>5. ASSUME GoalClone PROVE GoalInv' /\ LimitInv'
  <2>1. /\ goal' = [goal EXCEPT !.trans = NoTrans, !.problems = 0, !.rules = {}, !.solv = FALSE]
        /\ goalRun' = [goalRun EXCEPT !.failed = FALSE]
    BY <1>5 DEF GoalClone
  <2>2. /\ goal'.trans = NoTrans /\ goal'.solv = FALSE /\ goal'.problems = 0 /\ goal'.rules = {}
        /\ goal'.staging = goal.staging /\ goal'.actions = goal.actions
        /\ goal'.protected = goal.protected /\ goal'.removal = goal.removal
        /\ goal' \in [staging : {goal.staging}, actions : {goal.actions}, protected : {goal.protected},
                      removal : {goal.removal}, trans : {NoTrans}, problems : {0}, rules : {{}}, solv : {FALSE}]
    BY <2>1 DEF GoalInv, IsGoal
  <2>3. IsGoal(goal')
    BY <2>2 DEF IsGoal
  <2>4. /\ goalRun' \in [count : Nat, failed : BOOLEAN, protected : {goalRun'.protected}]
        /\ goalRun'.count = goalRun.count /\ goalRun'.protected = goalRun.protected
    BY <2>1 DEF GoalInv
  <2>5. NoTrans.made = FALSE
    BY DEF NoTrans
  <2> QED
    BY <2>2, <2>3, <2>4, <2>5 DEF GoalInv, LimitInv
<1>6. ASSUME UNCHANGED goalVars PROVE GoalInv' /\ UNCHANGED goal.trans
  BY <1>6 DEF goalVars, GoalInv
<1>7. ASSUME UNCHANGED goal.trans, LimitInv PROVE LimitInv'
  BY <1>7 DEF LimitInv
<1> QED
  BY <1>2, <1>3, <1>4, <1>5, <1>6, <1>7 DEF GoalNext

\* A failed run has a problem to show, and no description is empty.
LEMMA DescriptionsSaySomething ==
    ASSUME NEW g, g.problems \in {0, 1}, CountProblems(g) > 0, g.problems = 0 => g.removal # {}
    PROVE  /\ \A i \in 0 .. CountProblems(g) - 1 : DescribeProblemRules(g, i) # {}
           /\ DescribeAllProblemRules(g) # {} /\ {} \notin Depsolve(g).lines
<1>1. CountProblems(g) \in {1, 2}
  BY DEF CountProblems
<1>2. g.removal # {} => DescribeProtectedRemoval(g) # {}
  BY DEF DescribeProtectedRemoval, NameOf
<1>3. ASSUME NEW i \in 0 .. CountProblems(g) - 1 PROVE DescribeProblemRules(g, i) # {}
  <2>1. ~ (i >= CountProblems(g)) /\ i \in Nat
    BY <1>1, <1>3
  <2>2. CASE g.removal # {}
    BY <1>2, <2>1, <2>2 DEF DescribeProblemRules
  <2>3. CASE g.removal = {}
    <3>1. g.problems = 1 /\ CountProblems(g) = 1
      BY <2>3 DEF CountProblems
    <3>2. i < g.problems
      BY <3>1, <1>3
    <3> QED
      BY <2>1, <3>2 DEF DescribeProblemRules
  <2> QED
    BY <2>2, <2>3
<1>4. 0 \in 0 .. CountProblems(g) - 1
  BY <1>1
<1>5. DescribeAllProblemRules(g) # {}
  BY <1>3, <1>4 DEF DescribeAllProblemRules
<1>6. {} \notin Depsolve(g).lines
  <2> DEFINE all == {DescribeProblemRules(g, i) : i \in 0 .. (CountProblems(g) - 1)}
             error == IF g.staging = {} THEN "NO_PACKAGES_TO_UPDATE" ELSE "none"
  <2>1. {} \notin all
    BY <1>3
  <2>2. Depsolve(g) = IF GoalFailed(g) THEN [error |-> "PACKAGE_CONFLICTS", lines |-> all]
                      ELSE [error |-> error, lines |-> {}]
    BY DEF Depsolve
  <2> HIDE DEF all, error
  <2>3. Depsolve(g).lines = all \/ Depsolve(g).lines = {}
    BY <2>2
  <2> QED
    BY <2>1, <2>3
<1> QED
  BY <1>3, <1>5, <1>6

\* What the lists of a transaction hold together.
LEMMA ListsAreWhole ==
    ASSUME NEW g, g.trans.made = TRUE
    PROVE  /\ ListInstalls(g).error = "none"
           /\ GoalGetPackages(g, {"INSTALL", "UPDATE", "DOWNGRADE"}) = g.trans.result \ GoalInstalled
           /\ (GoalInstalled \ g.trans.result) \ GoalGetPackages(g, {"REMOVE", "OBSOLETE"})
                \subseteq {p \in GoalInstalled : ReplacedIn(p, g.trans.result)}
<1> DEFINE D == g.trans.result
           installs == (D \ GoalInstalled) \ (Upgraded(D) \cup Downgraded(D))
<1>1. ASSUME NEW pkgs PROVE ListResults(g, pkgs).error = "none" /\ ListResults(g, pkgs).pkgs = pkgs
  BY DEF ListResults
<1>2. ListInstalls(g).error = "none" /\ ListInstalls(g).pkgs = installs
  BY <1>1 DEF ListInstalls
<1> DEFINE list(info) == CASE info = "REMOVE" -> Erased(D)
                           [] info = "OBSOLETE" -> Obsoleted(D)
                           [] info = "UPDATE" -> Upgraded(D)
                           [] info = "DOWNGRADE" -> Downgraded(D)
                           [] info = "INSTALL" -> ListInstalls(g).pkgs
<1>3. ASSUME NEW infos PROVE GoalGetPackages(g, infos) = UNION {list(info) : info \in infos}
  <2>1. GoalGetPackages(g, infos) = UNION {ListResults(g, list(info)).pkgs : info \in infos}
    BY DEF GoalGetPackages
  <2> HIDE DEF list
  <2> QED
    BY <2>1, <1>1
<1>4. /\ list("REMOVE") = Erased(D) /\ list("OBSOLETE") = Obsoleted(D) /\ list("UPDATE") = Upgraded(D)
      /\ list("DOWNGRADE") = Downgraded(D) /\ list("INSTALL") = installs
  BY <1>2
<1> HIDE DEF list, installs
<1>5. GoalGetPackages(g, {"INSTALL", "UPDATE", "DOWNGRADE"}) = installs \cup Upgraded(D) \cup Downgraded(D)
  BY <1>3, <1>4
<1>6. GoalGetPackages(g, {"REMOVE", "OBSOLETE"}) = Erased(D) \cup Obsoleted(D)
  BY <1>3, <1>4
<1>7. Upgraded(D) \subseteq D \ GoalInstalled /\ Downgraded(D) \subseteq D \ GoalInstalled
  BY DEF Upgraded, Downgraded
<1>8. installs \cup Upgraded(D) \cup Downgraded(D) = D \ GoalInstalled
  BY <1>7 DEF installs
<1>9. (GoalInstalled \ D) \ (Erased(D) \cup Obsoleted(D)) \subseteq {p \in GoalInstalled : ReplacedIn(p, D)}
  BY DEF Erased
<1> QED
  BY <1>2, <1>5, <1>6, <1>8, <1>9

LEMMA GoalInvSays ==
    ASSUME GoalInv
    PROVE  /\ ProtectedSurvives /\ FailureIsExplained
           /\ LimitInv => LimitKept
<1>1. ProtectedSurvives
  BY DEF GoalInv, ProtectedSurvives
<1>2. LimitInv => LimitKept
  BY DEF LimitInv, LimitKept, KeepsLimit
<1>3. ASSUME goal.solv, goalRun.count > 0, goalRun.failed
      PROVE  CountProblems(goal) > 0 /\ {} \notin Depsolve(goal).lines /\ DescribeAllProblemRules(goal) # {}
  <2>1. goal.problems \in {0, 1} /\ (goal.problems = 0 => goal.removal # {})
    BY <1>3 DEF GoalInv
  <2>2. CountProblems(goal) > 0
    BY <2>1 DEF CountProblems
  <2> QED
    BY <2>1, <2>2, DescriptionsSaySomething
<1>4. ASSUME goal.solv, goalRun.count > 0, ~ goalRun.failed PROVE goal.trans.made = TRUE
  BY <1>4 DEF GoalInv
<1>5. FailureIsExplained
  BY <1>3, <1>4, ListsAreWhole DEF FailureIsExplained
<1> QED
  BY <1>1, <1>2, <1>5

\* For every pool, jobs, selectors and sequence of runs: a run that succeeds lets
\* no protected package and not the running kernel go, and a run that fails is
\* explained (Goal::run, Goal::solve, describeProblemRules).
THEOREM ProtectedStay == GoalSpec => [](ProtectedSurvives /\ FailureIsExplained)
  BY GoalInitial, GoalNextKeeps, GoalInvSays, PTL DEF GoalSpec

\* Together with the limit on packages installed side by side, when libsolv's
\* second run adds none of them (Goal::solve, limitInstallonlyPackages).
THEOREM PromisesStayKept == GoalSpec /\ []SecondRunAddsNoSides => []RunKeepsPromises
<1>1. GoalInit => GoalInv /\ LimitInv
  <2>1. ASSUME GoalInit PROVE goal.trans.made = FALSE
    BY <2>1 DEF GoalInit, NoTrans
  <2> QED
    BY <2>1, GoalInitial DEF LimitInv
<1>2. GoalInv /\ LimitInv => RunKeepsPromises
  BY GoalInvSays DEF RunKeepsPromises
<1> QED
  BY <1>1, <1>2, GoalNextKeeps, PTL DEF GoalSpec

-----------------------------------------------------------------------------
(* Sorting and searching the packages of advisories.                       *)

LEMMA SmallestOf ==
    ASSUME NEW T \in SUBSET Nat, T # {}
    PROVE  \E x \in T : \A y \in T : x <= y
<1> DEFINE R == OpToRel(<, Nat)
<1>1. \A a, b \in Nat : a < b => <<a, b>> \in R
  BY DEF OpToRel
<1>2. IsWellFoundedOn(R, Nat)
  BY NatLessThanWellFounded
<1> HIDE DEF R
<1>3. PICK x \in T : \A y \in T : ~ (<<y, x>> \in R)
  BY <1>2, WFMin
<1>4. \A y \in T : ~ (y < x)
  BY <1>1, <1>3
<1> QED
  BY <1>3, <1>4

LEMMA LargestOf ==
    ASSUME NEW S, S # {}, NEW n \in Nat, NEW h, \A k \in S : h[k] \in 0 .. n
    PROVE  \E m \in S : \A k \in S : h[k] <= h[m]
<1> DEFINE T == {n - h[k] : k \in S}
<1>1. T \in SUBSET Nat /\ T # {}
  OBVIOUS
<1>2. PICK x \in T : \A y \in T : x <= y
  BY <1>1, SmallestOf
<1>3. PICK m \in S : x = n - h[m]
  BY <1>2
<1>4. ASSUME NEW k \in S PROVE h[k] <= h[m]
  <2>1. n - h[m] <= n - h[k]
    BY <1>2, <1>3
  <2> QED
    BY <2>1
<1> QED
  BY <1>4

\* The entries below entry k of f, and those that entry k is not below.
Under(f, k) == {j \in DOMAIN f : Below(f[j], f[k])}
UpTo(f, k) == {j \in DOMAIN f : ~ Below(f[k], f[j])}

IsEntries(f) == f \in [DOMAIN f -> AdvEntry] /\ IsFiniteSet(DOMAIN f)

LEMMA BelowOrders ==
    /\ \A p \in AdvEntry : ~ Below(p, p)
    /\ \A p, q, r \in AdvEntry : Below(p, q) /\ ~ Below(r, q) => Below(p, r)
    /\ \A p, q, r \in AdvEntry : Below(p, q) /\ Below(q, r) => Below(p, r)
    /\ \A p, q \in AdvEntry : Below(p, q) => ~ Below(q, p)
    /\ \A p, q \in AdvEntry : ~ Below(p, q) /\ ~ Below(q, p) => p = q
BY DEF Below, AdvEntry

LEMMA BetweenIsSame ==
    ASSUME NEW p \in AdvEntry, NEW q \in AdvEntry, NEW r \in AdvEntry, NEW s \in AdvEntry,
           ~ NameArchBelow(p, s), ~ Below(q, p), ~ Below(r, q), SameNameArch(r, s)
    PROVE  SameNameArch(q, s)
BY DEF Below, NameArchBelow, SameNameArch, AdvEntry

LEMMA RanksAreCounts ==
    ASSUME NEW f, IsEntries(f), NEW k \in DOMAIN f
    PROVE  /\ IsFiniteSet(Under(f, k)) /\ Cardinality(Under(f, k)) \in 0 .. Cardinality(DOMAIN f)
           /\ IsFiniteSet(UpTo(f, k)) /\ Cardinality(UpTo(f, k)) \in 0 .. Cardinality(DOMAIN f)
           /\ Cardinality(DOMAIN f) \in Nat
<1>1. Under(f, k) \in SUBSET DOMAIN f /\ UpTo(f, k) \in SUBSET DOMAIN f
  BY DEF Under, UpTo
<1>2. IsFiniteSet(DOMAIN f)
  BY DEF IsEntries
<1>3. IsFiniteSet(Under(f, k)) /\ Cardinality(Under(f, k)) <= Cardinality(DOMAIN f)
  BY <1>1, <1>2, FS_Subset
<1>4. IsFiniteSet(UpTo(f, k)) /\ Cardinality(UpTo(f, k)) <= Cardinality(DOMAIN f)
  BY <1>1, <1>2, FS_Subset
<1>5. /\ Cardinality(DOMAIN f) \in Nat /\ Cardinality(Under(f, k)) \in Nat
      /\ Cardinality(UpTo(f, k)) \in Nat
  BY <1>2, <1>3, <1>4, FS_CardinalityType
<1> QED
  BY <1>3, <1>4, <1>5

\* Of two entries the lower has its counts below those of the higher.
LEMMA RanksGrow ==
    ASSUME NEW f, IsEntries(f), NEW k \in DOMAIN f, NEW j \in DOMAIN f, Below(f[k], f[j])
    PROVE  /\ Cardinality(Under(f, k)) < Cardinality(Under(f, j))
           /\ Cardinality(UpTo(f, k)) < Cardinality(UpTo(f, j))
           /\ Cardinality(UpTo(f, k)) <= Cardinality(Under(f, j))
<1>1. \A i \in DOMAIN f : f[i] \in AdvEntry
  BY DEF IsEntries
<1>2. Under(f, k) \in SUBSET Under(f, j) /\ k \in Under(f, j) \ Under(f, k)
  BY <1>1, BelowOrders DEF Under
<1>3. UpTo(f, k) \in SUBSET UpTo(f, j) /\ j \in UpTo(f, j) \ UpTo(f, k)
  BY <1>1, BelowOrders DEF UpTo
<1>4. UpTo(f, k) \in SUBSET Under(f, j)
  BY <1>1, BelowOrders DEF UpTo, Under
<1>5. Cardinality(Under(f, k)) <= Cardinality(Under(f, j)) /\ Cardinality(Under(f, k)) # Cardinality(Under(f, j))
  BY <1>2, RanksAreCounts, FS_Subset
<1>6. Cardinality(UpTo(f, k)) <= Cardinality(UpTo(f, j)) /\ Cardinality(UpTo(f, k)) # Cardinality(UpTo(f, j))
  BY <1>3, RanksAreCounts, FS_Subset
<1>7. Cardinality(UpTo(f, k)) <= Cardinality(Under(f, j))
  BY <1>4, RanksAreCounts, FS_Subset
<1> QED
  BY <1>5, <1>6, <1>7, RanksAreCounts

\* In a non-empty part of the entries one is not below any other.
LEMMA HasHighest ==
    ASSUME NEW f, IsEntries(f), NEW S \in SUBSET DOMAIN f, S # {}
    PROVE  \E m \in S : S \subseteq UpTo(f, m)
<1> DEFINE h == [k \in S |-> Cardinality(UpTo(f, k))]
           n == Cardinality(DOMAIN f)
<1>1. \A k \in S : h[k] \in 0 .. n
  BY RanksAreCounts
<1>2. n \in Nat
  BY RanksAreCounts
<1> HIDE DEF n
<1>3. PICK m \in S : \A k \in S : h[k] <= h[m]
  <2> HIDE DEF h
  <2> QED
    BY <1>1, <1>2, LargestOf
<1>4. ASSUME NEW j \in S, Below(f[m], f[j]) PROVE FALSE
  <2>1. h[m] < h[j]
    BY <1>4, RanksGrow
  <2>2. h[m] \in Nat /\ h[j] \in Nat
    BY <1>1, <1>2
  <2> QED
    BY <1>3, <2>1, <2>2
<1> QED
  BY <1>4 DEF UpTo

\* Every place has its entry.
LEMMA PlaceHasEntry ==
    ASSUME NEW f, IsEntries(f), NEW i \in 1 .. Cardinality(DOMAIN f)
    PROVE  \E k \in DOMAIN f : Cardinality(Under(f, k)) < i /\ i <= Cardinality(UpTo(f, k))
<1>1. IsFiniteSet(DOMAIN f) /\ Cardinality(DOMAIN f) \in Nat /\ DOMAIN f # {}
  BY FS_CardinalityType, FS_EmptySet DEF IsEntries
<1> DEFINE K == {k \in DOMAIN f : i <= Cardinality(UpTo(f, k))}
           T == {Cardinality(Under(f, k)) : k \in K}
<1>2. K # {}
  <2>1. PICK m \in DOMAIN f : DOMAIN f \subseteq UpTo(f, m)
    BY <1>1, HasHighest
  <2>2. UpTo(f, m) = DOMAIN f
    BY <2>1 DEF UpTo
  <2> QED
    BY <1>1, <2>2
<1>3. T \in SUBSET Nat /\ T # {}
  BY <1>2, RanksAreCounts
<1>4. PICK x \in T : \A y \in T : x <= y
  <2> HIDE DEF T
  <2> QED
    BY <1>3, SmallestOf
<1>5. PICK k \in K : x = Cardinality(Under(f, k))
  BY <1>4
<1>6. ASSUME ~ (Cardinality(Under(f, k)) < i) PROVE FALSE
  <2>1. Cardinality(Under(f, k)) \in Nat /\ IsFiniteSet(Under(f, k)) /\ Under(f, k) \in SUBSET DOMAIN f
    BY RanksAreCounts DEF Under
  <2>2. Cardinality(Under(f, k)) # 0
    BY <1>6, <2>1
  <2>3. Under(f, k) # {}
    BY <2>2, FS_EmptySet
  <2>4. PICK m \in Under(f, k) : Under(f, k) \subseteq UpTo(f, m)
    BY <2>1, <2>3, HasHighest
  <2>5. m \in DOMAIN f /\ Below(f[m], f[k])
    BY <2>4 DEF Under
  <2>6. Cardinality(Under(f, k)) <= Cardinality(UpTo(f, m)) /\ Cardinality(UpTo(f, m)) \in Nat
    BY <2>4, <2>5, RanksAreCounts, FS_Subset
  <2>7. m \in K
    BY <1>1, <1>6, <2>1, <2>5, <2>6
  <2>8. Cardinality(Under(f, m)) < Cardinality(Under(f, k)) /\ Cardinality(Under(f, m)) \in Nat
    BY <2>5, RanksGrow, RanksAreCounts
  <2>9. Cardinality(Under(f, k)) <= Cardinality(Under(f, m))
    BY <1>4, <1>5, <2>7
  <2> QED
    BY <2>1, <2>8, <2>9
<1> QED
  BY <1>5, <1>6

\* What sorting leaves: the same entries, none before a lower one.
LEMMA SortedIsSorted ==
    ASSUME NEW f, IsEntries(f)
    PROVE  /\ Sorted(f) \in Seq(AdvEntry)
           /\ {Sorted(f)[i] : i \in 1 .. Len(Sorted(f))} = {f[k] : k \in DOMAIN f}
           /\ \A i, j \in 1 .. Len(Sorted(f)) : i < j => ~ Below(Sorted(f)[j], Sorted(f)[i])
<1> DEFINE n == Cardinality(DOMAIN f)
           place(i) == CHOOSE k \in DOMAIN f : Cardinality(Under(f, k)) < i /\ i <= Cardinality(UpTo(f, k))
           q == Sorted(f)
<1>1. q = [i \in 1 .. n |-> f[place(i)]]
  BY DEF Sorted, SortBy, Under, UpTo
<1>2. \A i \in 1 .. n : /\ place(i) \in DOMAIN f
                        /\ Cardinality(Under(f, place(i))) < i /\ i <= Cardinality(UpTo(f, place(i)))
  BY PlaceHasEntry
<1>0. n \in Nat
  BY FS_CardinalityType DEF IsEntries
<1> HIDE DEF n, place, q
<1>3. \A k \in DOMAIN f : f[k] \in AdvEntry
  BY DEF IsEntries
<1>4. q \in Seq(AdvEntry) /\ Len(q) = n
  BY <1>0, <1>1, <1>2, <1>3
<1>5. ASSUME NEW i \in 1 .. n, NEW j \in 1 .. n, i < j, Below(q[j], q[i]) PROVE FALSE
  <2>1. Below(f[place(j)], f[place(i)]) /\ place(i) \in DOMAIN f /\ place(j) \in DOMAIN f
    BY <1>1, <1>2, <1>5
  <2>2. Cardinality(UpTo(f, place(j))) <= Cardinality(Under(f, place(i)))
    BY <2>1, RanksGrow
  <2>3. Cardinality(UpTo(f, place(j))) \in Int /\ Cardinality(Under(f, place(i))) \in Int
    BY <2>1, RanksAreCounts
  <2>4. Cardinality(Under(f, place(i))) < i /\ j <= Cardinality(UpTo(f, place(j)))
    BY <1>2
  <2> QED
    BY <1>0, <1>5, <2>2, <2>3, <2>4
<1>6. ASSUME NEW k \in DOMAIN f PROVE \E i \in 1 .. n : q[i] = f[k]
  <2> DEFINE i == Cardinality(Under(f, k)) + 1
  <2>1. Under(f, k) \in SUBSET UpTo(f, k) /\ k \in UpTo(f, k) \ Under(f, k)
    BY <1>3, BelowOrders DEF Under, UpTo
  <2>2. Cardinality(Under(f, k)) <= Cardinality(UpTo(f, k)) /\ Cardinality(Under(f, k)) # Cardinality(UpTo(f, k))
    BY <2>1, RanksAreCounts, FS_Subset
  <2>3. Cardinality(Under(f, k)) \in 0 .. n /\ Cardinality(UpTo(f, k)) \in 0 .. n
    BY RanksAreCounts DEF n
  <2>4. i \in 1 .. n /\ Cardinality(Under(f, k)) < i /\ i <= Cardinality(UpTo(f, k))
    BY <1>0, <2>2, <2>3
  <2> HIDE DEF i
  <2>5. /\ place(i) \in DOMAIN f
        /\ Cardinality(Under(f, place(i))) < i /\ i <= Cardinality(UpTo(f, place(i)))
    BY <1>2, <2>4
  <2>6. /\ Cardinality(Under(f, place(i))) \in Int /\ Cardinality(UpTo(f, place(i))) \in Int
        /\ Cardinality(Under(f, k)) \in Int /\ Cardinality(UpTo(f, k)) \in Int
    BY <2>5, RanksAreCounts
  <2>7. ~ Below(f[k], f[place(i)])
    <3>1. ASSUME Below(f[k], f[place(i)]) PROVE FALSE
      <4>1. Cardinality(UpTo(f, k)) <= Cardinality(Under(f, place(i)))
        BY <2>5, <3>1, RanksGrow
      <4> QED
        BY <1>0, <2>4, <2>5, <2>6, <4>1
    <3> QED
      BY <3>1
  <2>8. ~ Below(f[place(i)], f[k])
    <3>1. ASSUME Below(f[place(i)], f[k]) PROVE FALSE
      <4>1. Cardinality(UpTo(f, place(i))) <= Cardinality(Under(f, k))
        BY <2>5, <3>1, RanksGrow
      <4> QED
        BY <1>0, <2>4, <2>5, <2>6, <4>1
    <3> QED
      BY <3>1
  <2>9. f[place(i)] = f[k]
    BY <1>3, <2>5, <2>7, <2>8, BelowOrders
  <2> QED
    BY <1>1, <2>4, <2>9
<1>7. {q[i] : i \in 1 .. n} = {f[k] : k \in DOMAIN f}
  BY <1>1, <1>2, <1>6
<1> QED
  BY <1>4, <1>5, <1>7 DEF q

\* A list that sorting left, whatever list that is.
SortedEntries(q) ==
    /\ q \in Seq(AdvEntry)
    /\ \A i, j \in 1 .. Len(q) : i < j => ~ Below(q[j], q[i])

LEMMA LowerBoundIs ==
    ASSUME NEW q \in Seq(AdvEntry), NEW s
    PROVE  /\ LowerBound(q, s, Below) \in 1 .. Len(q) + 1
           /\ \A j \in 1 .. LowerBound(q, s, Below) - 1 : Below(q[j], s)
           /\ LowerBound(q, s, Below) <= Len(q) => ~ Below(q[LowerBound(q, s, Below)], s)
           /\ LowerBound(q, s, NameArchBelow) \in 1 .. Len(q) + 1
           /\ \A j \in 1 .. LowerBound(q, s, NameArchBelow) - 1 : NameArchBelow(q[j], s)
           /\ LowerBound(q, s, NameArchBelow) <= Len(q)
                => ~ NameArchBelow(q[LowerBound(q, s, NameArchBelow)], s)
<1>0. Len(q) \in Nat
  OBVIOUS
<1>1. ASSUME NEW L
      PROVE  \E low \in 1 .. Len(q) + 1 : (\A j \in 1 .. low - 1 : j \in L) /\ (low <= Len(q) => low \notin L)
  <2> DEFINE T == {j \in 1 .. Len(q) + 1 : j <= Len(q) => j \notin L}
  <2>1. T \in SUBSET Nat /\ Len(q) + 1 \in T
    BY <1>0
  <2>2. PICK low \in T : \A y \in T : low <= y
    <3> HIDE DEF T
    <3> QED
      BY <2>1, SmallestOf
  <2>3. ASSUME NEW j \in 1 .. low - 1, j \notin L PROVE FALSE
    <3>1. j \in T
      BY <1>0, <2>3
    <3> QED
      BY <1>0, <2>2, <3>1
  <2> QED
    BY <2>2, <2>3
<1>2. \E low \in 1 .. Len(q) + 1 : /\ \A j \in 1 .. low - 1 : Below(q[j], s)
                                   /\ low <= Len(q) => ~ Below(q[low], s)
  <2> DEFINE L == {j \in 1 .. Len(q) : Below(q[j], s)}
  <2>1. PICK low \in 1 .. Len(q) + 1 : (\A j \in 1 .. low - 1 : j \in L) /\ (low <= Len(q) => low \notin L)
    <3> HIDE DEF L
    <3> QED
      BY <1>1
  <2> QED
    BY <1>0, <2>1
<1>3. \E low \in 1 .. Len(q) + 1 : /\ \A j \in 1 .. low - 1 : NameArchBelow(q[j], s)
                                   /\ low <= Len(q) => ~ NameArchBelow(q[low], s)
  <2> DEFINE L == {j \in 1 .. Len(q) : NameArchBelow(q[j], s)}
  <2>1. PICK low \in 1 .. Len(q) + 1 : (\A j \in 1 .. low - 1 : j \in L) /\ (low <= Len(q) => low \notin L)
    <3> HIDE DEF L
    <3> QED
      BY <1>1
  <2> QED
    BY <1>0, <2>1
<1>4. /\ LowerBound(q, s, Below) \in 1 .. Len(q) + 1
      /\ \A j \in 1 .. LowerBound(q, s, Below) - 1 : Below(q[j], s)
      /\ LowerBound(q, s, Below) <= Len(q) => ~ Below(q[LowerBound(q, s, Below)], s)
  BY <1>2 DEF LowerBound
<1>5. /\ LowerBound(q, s, NameArchBelow) \in 1 .. Len(q) + 1
      /\ \A j \in 1 .. LowerBound(q, s, NameArchBelow) - 1 : NameArchBelow(q[j], s)
      /\ LowerBound(q, s, NameArchBelow) <= Len(q)
                => ~ NameArchBelow(q[LowerBound(q, s, NameArchBelow)], s)
  BY <1>3 DEF LowerBound
<1> QED
  BY <1>4, <1>5

\* The search finds a package exactly when it is in the list.
LEMMA SearchById ==
    ASSUME NEW q, SortedEntries(q), NEW s \in AdvEntry, NEW low, low = LowerBound(q, s, Below)
    PROVE  (low <= Len(q) /\ q[low] = s) <=> \E k \in 1 .. Len(q) : q[k] = s
<1>1. q \in Seq(AdvEntry) /\ Len(q) \in Nat /\ \A k \in 1 .. Len(q) : q[k] \in AdvEntry
  BY DEF SortedEntries
<1>2. /\ low \in 1 .. Len(q) + 1 /\ \A j \in 1 .. low - 1 : Below(q[j], s)
      /\ low <= Len(q) => ~ Below(q[low], s)
  BY <1>1, LowerBoundIs
<1>3. ASSUME NEW k \in 1 .. Len(q), q[k] = s PROVE low <= Len(q) /\ q[low] = s
  <2>1. ~ (k \in 1 .. low - 1)
    BY <1>1, <1>2, <1>3, BelowOrders
  <2>2. low <= k /\ low <= Len(q) /\ low \in 1 .. Len(q)
    BY <1>1, <1>2, <2>1
  <2>3. low = k \/ low < k
    BY <2>2
  <2>4. ~ Below(s, q[low])
    BY <1>1, <1>3, <2>2, <2>3, BelowOrders DEF SortedEntries
  <2> QED
    BY <1>1, <1>2, <2>2, <2>4, BelowOrders
<1> QED
  BY <1>1, <1>2, <1>3

\* The entries from the bound on are all those of the name and architecture.
LEMMA SearchByNameArch ==
    ASSUME NEW q, SortedEntries(q), NEW s \in AdvEntry
    PROVE  AdvRun(q, LowerBound(q, s, NameArchBelow), s) = {k \in 1 .. Len(q) : SameNameArch(q[k], s)}
<1> DEFINE low == LowerBound(q, s, NameArchBelow)
<1>1. q \in Seq(AdvEntry) /\ Len(q) \in Nat /\ \A k \in 1 .. Len(q) : q[k] \in AdvEntry
  BY DEF SortedEntries
<1>2. /\ low \in 1 .. Len(q) + 1 /\ \A j \in 1 .. low - 1 : NameArchBelow(q[j], s)
      /\ low <= Len(q) => ~ NameArchBelow(q[low], s)
  BY <1>1, LowerBoundIs
<1> HIDE DEF low
<1>3. ASSUME NEW k \in 1 .. Len(q), SameNameArch(q[k], s)
      PROVE  k \in low .. Len(q) /\ \A j \in low .. k : SameNameArch(q[j], s)
  <2>1. ~ NameArchBelow(q[k], s)
    BY <1>1, <1>3 DEF SameNameArch, NameArchBelow, AdvEntry
  <2>2. k \in low .. Len(q) /\ low \in 1 .. Len(q)
    BY <1>1, <1>2, <2>1
  <2>3. ASSUME NEW j \in low .. k PROVE SameNameArch(q[j], s)
    <3>1. j \in 1 .. Len(q)
      BY <1>1, <2>2
    <3>2. ~ Below(q[k], q[j]) /\ ~ Below(q[j], q[low])
      BY <1>1, <2>2, <2>3, <3>1, BelowOrders DEF SortedEntries
    <3>3. ~ NameArchBelow(q[low], s)
      BY <1>2, <2>2
    <3> QED
      BY <1>1, <1>3, <2>2, <3>1, <3>2, <3>3, BetweenIsSame
  <2> QED
    BY <2>2, <2>3
<1>4. ASSUME NEW k \in low .. Len(q), \A j \in low .. k : SameNameArch(q[j], s)
      PROVE  k \in 1 .. Len(q) /\ SameNameArch(q[k], s)
  BY <1>1, <1>2, <1>4
<1> QED
  BY <1>3, <1>4 DEF AdvRun, low

-----------------------------------------------------------------------------
(* Advisories.                                                             *)

AdvTaken(advs) == {a \in ToSet(AdvSeq) : a \in advs /\ Applicable(a)}
AllEntries == UNION {ToSet(a.pkgs) : a \in ToSet(AdvSeq)}

LEMMA CollectedIs ==
    ASSUME NEW advs
    PROVE  /\ IsEntries(Collected(advs))
           /\ {Collected(advs)[e] : e \in DOMAIN Collected(advs)} = UNION {ToSet(a.pkgs) : a \in AdvTaken(advs)}
<1> DEFINE taken == {i \in DOMAIN AdvSeq : AdvSeq[i] \in advs /\ Applicable(AdvSeq[i])}
           places(i) == {i} \X DOMAIN AdvSeq[i].pkgs
           dom == UNION {places(i) : i \in taken}
           f == Collected(advs)
<1>1. f = [e \in dom |-> AdvSeq[e[1]].pkgs[e[2]]]
  BY DEF Collected
<1>2. \A i \in DOMAIN AdvSeq : AdvSeq[i].pkgs \in Seq(AdvEntry)
  BY DnfAdvisoryAssumption
<1>3. \A e : e \in dom <=> \E i \in taken : \E k \in DOMAIN AdvSeq[i].pkgs : e = <<i, k>>
  OBVIOUS
<1>4. IsFiniteSet(dom)
  <2>1. IsFiniteSet(taken)
    <3>1. DOMAIN AdvSeq = 1 .. Len(AdvSeq) /\ Len(AdvSeq) \in Nat
      BY DnfAdvisoryAssumption
    <3>2. IsFiniteSet(DOMAIN AdvSeq)
      BY <3>1, FS_Interval
    <3> QED
      BY <3>2, FS_Subset
  <2>2. ASSUME NEW i \in taken PROVE IsFiniteSet(places(i))
    <3> DEFINE D == DOMAIN AdvSeq[i].pkgs
    <3>1. D = 1 .. Len(AdvSeq[i].pkgs) /\ Len(AdvSeq[i].pkgs) \in Nat
      BY <1>2
    <3>2. IsFiniteSet(D)
      BY <3>1, FS_Interval
    <3>4. IsFiniteSet({i})
      BY FS_Singleton
    <3> HIDE DEF D
    <3>3. IsFiniteSet({i} \X D)
      BY <3>2, <3>4, FS_Product
    <3> QED
      BY <3>3 DEF D
  <2> DEFINE all == {places(i) : i \in taken}
  <2>3. IsFiniteSet(all)
    <3> HIDE DEF places, taken
    <3> DEFINE g == [i \in taken |-> places(i)]
    <3>1. g \in Surjection(taken, all)
      BY DEF Surjection
    <3> HIDE DEF g, all
    <3> QED
      BY <2>1, <3>1, FS_Surjection
  <2>4. \A T \in all : IsFiniteSet(T)
    BY <2>2
  <2> HIDE DEF all
  <2>5. IsFiniteSet(UNION all)
    BY <2>3, <2>4, FS_UNION
  <2> QED
    BY <2>5 DEF all
<1>5. IsEntries(f)
  <2>1. DOMAIN f = dom
    BY <1>1
  <2>2. ASSUME NEW e \in dom PROVE f[e] \in AdvEntry
    <3> HIDE DEF dom
    <3>1. PICK i \in taken : \E k \in DOMAIN AdvSeq[i].pkgs : e = <<i, k>>
      BY <1>3
    <3>2. PICK k \in DOMAIN AdvSeq[i].pkgs : e = <<i, k>>
      BY <3>1
    <3>4. f[e] = AdvSeq[i].pkgs[k]
      BY <1>1, <3>2
    <3> QED
      BY <1>2, <3>2, <3>4
  <2> HIDE DEF dom, f
  <2>3. f \in [dom -> AdvEntry]
    BY <1>1, <2>1, <2>2
  <2> QED
    BY <1>4, <2>1, <2>3 DEF IsEntries
<1>6. {f[e] : e \in DOMAIN f} = UNION {ToSet(a.pkgs) : a \in AdvTaken(advs)}
  <2> HIDE DEF dom
  <2>1. ASSUME NEW e \in dom PROVE f[e] \in UNION {ToSet(a.pkgs) : a \in AdvTaken(advs)}
    <3>1. PICK i \in taken : \E k \in DOMAIN AdvSeq[i].pkgs : e = <<i, k>>
      BY <1>3
    <3>2. PICK k \in DOMAIN AdvSeq[i].pkgs : e = <<i, k>>
      BY <3>1
    <3>4. f[e] = AdvSeq[i].pkgs[k]
      BY <1>1, <3>2
    <3>3. AdvSeq[i] \in AdvTaken(advs)
      BY DEF AdvTaken, ToSet
    <3> QED
      BY <3>2, <3>3, <3>4 DEF ToSet
  <2>2. ASSUME NEW a \in AdvTaken(advs), NEW p \in ToSet(a.pkgs) PROVE \E e \in dom : f[e] = p
    <3>1. PICK i \in DOMAIN AdvSeq : a = AdvSeq[i]
      BY DEF AdvTaken, ToSet
    <3>2. i \in taken
      BY <2>2, <3>1 DEF AdvTaken
    <3>3. PICK k \in DOMAIN AdvSeq[i].pkgs : p = AdvSeq[i].pkgs[k]
      BY <2>2, <3>1 DEF ToSet
    <3>4. <<i, k>> \in dom
      BY <1>3, <3>2, <3>3
    <3>5. f[<<i, k>>] = p
      BY <1>1, <3>3, <3>4
    <3> QED
      BY <3>4, <3>5
  <2>3. DOMAIN f = dom
    BY <1>1
  <2> HIDE DEF f
  <2> QED
    BY <2>1, <2>2, <2>3
<1> QED
  BY <1>5, <1>6

LEMMA SortedCollected ==
    ASSUME NEW advs, NEW q, q = Sorted(Collected(advs))
    PROVE  /\ SortedEntries(q)
           /\ \A p : (\E k \in 1 .. Len(q) : q[k] = p) <=> \E a \in AdvTaken(advs) : p \in ToSet(a.pkgs)
<1> DEFINE f == Collected(advs)
           all == {f[e] : e \in DOMAIN f}
<1>1. IsEntries(f) /\ all = UNION {ToSet(a.pkgs) : a \in AdvTaken(advs)}
  BY CollectedIs
<1>0. q = Sorted(f)
  OBVIOUS
<1> HIDE DEF f
<1>2. /\ q \in Seq(AdvEntry) /\ {q[i] : i \in 1 .. Len(q)} = all
      /\ \A i, j \in 1 .. Len(q) : i < j => ~ Below(q[j], q[i])
  <2>1. IsEntries(f)
    BY <1>1
  <2>2. /\ Sorted(f) \in Seq(AdvEntry) /\ {Sorted(f)[i] : i \in 1 .. Len(Sorted(f))} = all
        /\ \A i, j \in 1 .. Len(Sorted(f)) : i < j => ~ Below(Sorted(f)[j], Sorted(f)[i])
    BY <2>1, SortedIsSorted
  <2> HIDE DEF all
  <2> QED
    BY <1>0, <2>2
<1> HIDE DEF all
<1>3. \A p : (\E k \in 1 .. Len(q) : q[k] = p) <=> p \in all
  BY <1>2
<1>4. \A p : p \in all <=> \E a \in AdvTaken(advs) : p \in ToSet(a.pkgs)
  BY <1>1
<1> QED
  BY <1>2, <1>3, <1>4 DEF SortedEntries

\* Turning a comparison round.
LEMMA OrderFlips ==
    ASSUME NEW a, NEW b, AdvVersion[a] \in Int, AdvVersion[b] \in Int, NEW cmp \in CmpTypes
    PROVE  /\ Order(a, b) \in cmp <=> Order(b, a) \in Flipped(cmp)
           /\ cmp = {"EQ"} => (Order(b, a) \in Flipped(cmp) <=> AdvVersion[a] = AdvVersion[b])
<1>1. /\ "GT" \in Flipped(cmp) <=> "LT" \in cmp
      /\ "LT" \in Flipped(cmp) <=> "GT" \in cmp
      /\ "EQ" \in Flipped(cmp) <=> "EQ" \in cmp
  BY DEF Flipped, CmpTypes
<1> QED
  BY <1>1 DEF Order

\* Two evrs that compare equal are the same string.
VersionsDistinct ==
    \A p, q \in AdvPackages \cup AllEntries : AdvVersion[p.evr] = AdvVersion[q.evr] => p.evr = q.evr

LEMMA EntryFacts ==
    ASSUME NEW p \in AdvPackages \cup AllEntries
    PROVE  p \in AdvEntry /\ AdvVersion[p.evr] \in Int
<1>1. AdvVersion[p.evr] \in Int
  BY DnfAdvisoryAssumption DEF AllEntries
<1>2. ASSUME p \in AllEntries PROVE p \in AdvEntry
  <2>1. PICK a \in ToSet(AdvSeq) : p \in ToSet(a.pkgs)
    BY <1>2 DEF AllEntries
  <2>2. PICK i \in DOMAIN AdvSeq : a = AdvSeq[i]
    BY DEF ToSet
  <2>3. a.pkgs \in Seq(AdvEntry)
    BY <2>2, DnfAdvisoryAssumption
  <2> QED
    BY <2>1, <2>3 DEF ToSet
<1> QED
  BY <1>1, <1>2, DnfAdvisoryAssumption

\* What GetAdvisories finds, by package instead of by place.
LEMMA GetAdvisoriesIs ==
    ASSUME NEW s, NEW cmp, NEW a
    PROVE  a \in GetAdvisories(s, cmp) <=>
              /\ a \in ToSet(AdvSeq) /\ Applicable(a)
              /\ \E p \in ToSet(a.pkgs) : SameNameArch(p, s) /\ Order(p.evr, s.evr) \in cmp
BY DEF GetAdvisories, ToSet

LEMMA FilterFinds ==
    ASSUME VersionsDistinct, NEW key, NEW match, NEW cmp \in CmpTypes
    PROVE  FilterAdvisory(key, match, cmp) =
              {s \in AdvPackages : \E a \in GetAdvisories(s, Flipped(cmp)) : Matches(a, key, match)}
<1> DEFINE advs == {a \in ToSet(AdvSeq) : Matches(a, key, match)}
           q == Sorted(Collected(advs))
           found(s) == \E a \in GetAdvisories(s, Flipped(cmp)) : Matches(a, key, match)
           ById(s) == LowerBound(q, s, Below) <= Len(q) /\ q[LowerBound(q, s, Below)] = s
           ByVersion(s) == \E k \in AdvRun(q, LowerBound(q, s, NameArchBelow), s) : Order(s.evr, q[k].evr) \in cmp
<1>1. FilterAdvisory(key, match, cmp) = {s \in AdvPackages : IF cmp = {"EQ"} THEN ById(s) ELSE ByVersion(s)}
  BY DEF FilterAdvisory
<1>2. /\ SortedEntries(q)
      /\ \A p : (\E k \in 1 .. Len(q) : q[k] = p) <=> \E a \in AdvTaken(advs) : p \in ToSet(a.pkgs)
  BY SortedCollected
<1> HIDE DEF q
<1>3. \A a : a \in AdvTaken(advs) <=> a \in ToSet(AdvSeq) /\ Applicable(a) /\ Matches(a, key, match)
  BY DEF AdvTaken
<1> HIDE DEF advs
<1>4. ASSUME NEW s \in AdvPackages
      PROVE  found(s) <=> \E a \in AdvTaken(advs) : \E p \in ToSet(a.pkgs) :
                              SameNameArch(p, s) /\ Order(p.evr, s.evr) \in Flipped(cmp)
  BY <1>3, GetAdvisoriesIs
<1>5. \A a \in AdvTaken(advs) : \A p \in ToSet(a.pkgs) : p \in AllEntries
  BY <1>3 DEF AllEntries
<1>6. ASSUME NEW s \in AdvPackages PROVE found(s) <=> IF cmp = {"EQ"} THEN ById(s) ELSE ByVersion(s)
  <2> HIDE DEF found
  <2>1. s \in AdvEntry /\ AdvVersion[s.evr] \in Int
    BY EntryFacts
  <2>2. ASSUME NEW p \in AllEntries
        PROVE  /\ p \in AdvEntry
               /\ Order(s.evr, p.evr) \in cmp <=> Order(p.evr, s.evr) \in Flipped(cmp)
               /\ cmp = {"EQ"} => (SameNameArch(p, s) /\ Order(p.evr, s.evr) \in Flipped(cmp) <=> p = s)
    <3>1. p \in AdvEntry /\ AdvVersion[p.evr] \in Int
      BY EntryFacts
    <3>2. /\ Order(s.evr, p.evr) \in cmp <=> Order(p.evr, s.evr) \in Flipped(cmp)
          /\ cmp = {"EQ"} => (Order(p.evr, s.evr) \in Flipped(cmp) <=> AdvVersion[s.evr] = AdvVersion[p.evr])
      BY <2>1, <3>1, OrderFlips
    <3>3. AdvVersion[s.evr] = AdvVersion[p.evr] <=> s.evr = p.evr
      BY DEF VersionsDistinct
    <3>4. p = s <=> SameNameArch(p, s) /\ s.evr = p.evr
      BY <2>1, <3>1 DEF SameNameArch, AdvEntry
    <3> QED
      BY <3>1, <3>2, <3>3, <3>4
  <2>3. CASE cmp = {"EQ"}
    <3>1. ById(s) <=> \E k \in 1 .. Len(q) : q[k] = s
      BY <1>2, <2>1, SearchById
    <3>2. found(s) <=> \E a \in AdvTaken(advs) : s \in ToSet(a.pkgs)
      BY <1>4, <1>5, <2>2, <2>3
    <3> HIDE DEF ById
    <3> QED
      BY <1>2, <2>3, <3>1, <3>2
  <2>4. CASE cmp # {"EQ"}
    <3>1. AdvRun(q, LowerBound(q, s, NameArchBelow), s) = {k \in 1 .. Len(q) : SameNameArch(q[k], s)}
      BY <1>2, <2>1, SearchByNameArch
    <3>2. ByVersion(s) <=> \E k \in 1 .. Len(q) : SameNameArch(q[k], s) /\ Order(s.evr, q[k].evr) \in cmp
      BY <3>1
    <3>3. (\E k \in 1 .. Len(q) : SameNameArch(q[k], s) /\ Order(s.evr, q[k].evr) \in cmp)
            <=> \E a \in AdvTaken(advs) : \E p \in ToSet(a.pkgs) : SameNameArch(p, s) /\ Order(s.evr, p.evr) \in cmp
      BY <1>2
    <3>4. found(s) <=> \E a \in AdvTaken(advs) : \E p \in ToSet(a.pkgs) :
                           SameNameArch(p, s) /\ Order(s.evr, p.evr) \in cmp
      BY <1>4, <1>5, <2>2
    <3> HIDE DEF ByVersion
    <3> QED
      BY <2>4, <3>2, <3>3, <3>4
  <2> QED
    BY <2>3, <2>4
<1> HIDE DEF found, ById, ByVersion
<1>7. FilterAdvisory(key, match, cmp) = {s \in AdvPackages : found(s)}
  BY <1>1, <1>6
<1> QED
  BY <1>7 DEF found

LEMMA PkgsFound ==
    ASSUME NEW cmp
    PROVE  GetAdvisoryPkgs(cmp) =
              {p \in AllEntries : \E s \in AdvPackages : \E a \in GetAdvisories(s, cmp) :
                  p \in ToSet(a.pkgs) /\ SameNameArch(p, s) /\ Order(p.evr, s.evr) \in cmp}
<1> DEFINE q == Sorted(Collected(ToSet(AdvSeq)))
           hits(s) == {q[k] : k \in {j \in AdvRun(q, LowerBound(q, s, NameArchBelow), s) :
                                        Order(q[j].evr, s.evr) \in cmp}}
<1>1. GetAdvisoryPkgs(cmp) = UNION {hits(s) : s \in AdvPackages}
  BY DEF GetAdvisoryPkgs
<1>2. /\ SortedEntries(q)
      /\ \A p : (\E k \in 1 .. Len(q) : q[k] = p) <=> \E a \in AdvTaken(ToSet(AdvSeq)) : p \in ToSet(a.pkgs)
  BY SortedCollected
<1> HIDE DEF q
<1>3. ASSUME NEW s \in AdvPackages, NEW p
      PROVE  p \in hits(s) <=> \E a \in AdvTaken(ToSet(AdvSeq)) :
                 p \in ToSet(a.pkgs) /\ SameNameArch(p, s) /\ Order(p.evr, s.evr) \in cmp
  <2>1. s \in AdvEntry
    BY EntryFacts
  <2>2. AdvRun(q, LowerBound(q, s, NameArchBelow), s) = {k \in 1 .. Len(q) : SameNameArch(q[k], s)}
    BY <1>2, <2>1, SearchByNameArch
  <2>3. p \in hits(s) <=> \E k \in 1 .. Len(q) : q[k] = p /\ SameNameArch(p, s) /\ Order(p.evr, s.evr) \in cmp
    BY <2>2
  <2> HIDE DEF hits
  <2> QED
    BY <1>2, <2>3
<1> HIDE DEF hits
<1>4. ASSUME NEW s \in AdvPackages, NEW p
      PROVE  p \in hits(s) <=> \E a \in GetAdvisories(s, cmp) :
                 p \in ToSet(a.pkgs) /\ SameNameArch(p, s) /\ Order(p.evr, s.evr) \in cmp
  BY <1>3, GetAdvisoriesIs DEF AdvTaken
<1>5. ASSUME NEW s, NEW a \in GetAdvisories(s, cmp), NEW p \in ToSet(a.pkgs) PROVE p \in AllEntries
  BY GetAdvisoriesIs DEF AllEntries
<1>6. ASSUME NEW p
      PROVE  p \in GetAdvisoryPkgs(cmp) <=>
                 p \in AllEntries /\ \E s \in AdvPackages : \E a \in GetAdvisories(s, cmp) :
                     p \in ToSet(a.pkgs) /\ SameNameArch(p, s) /\ Order(p.evr, s.evr) \in cmp
  <2>1. p \in GetAdvisoryPkgs(cmp) <=> \E s \in AdvPackages : p \in hits(s)
    BY <1>1
  <2> QED
    BY <1>4, <1>5, <2>1
<1> QED
  BY <1>6

AdvInv ==
    \/ advResult = NoAdvResult
    \/ /\ advResult.cmp \in CmpTypes
       /\ advResult.hits = FilterAdvisory(advResult.key, advResult.match, advResult.cmp)

LEMMA AdvInvNext == AdvInv /\ [AdvNext]_advVars => AdvInv'
<1> SUFFICES ASSUME AdvInv, [AdvNext]_advVars PROVE AdvInv'
  OBVIOUS
<1>1. ASSUME NEW f \in AdvFilters, NEW cmp \in CmpTypes, AskFilter(f, cmp) PROVE AdvInv'
  <2> DEFINE hits == FilterAdvisory(f[1], f[2], cmp)
  <2>1. advResult' = [key |-> f[1], match |-> f[2], cmp |-> cmp, hits |-> hits] /\ enabledStreams' = enabledStreams
    BY <1>1 DEF AskFilter
  <2>2. hits = FilterAdvisory(f[1], f[2], cmp)'
    BY <2>1 DEF FilterAdvisory, Collected, Applicable
  <2> HIDE DEF hits
  <2>3. /\ advResult'.key = f[1] /\ advResult'.match = f[2] /\ advResult'.cmp = cmp /\ advResult'.hits = hits
    BY <2>1
  <2> QED
    BY <2>2, <2>3 DEF AdvInv
<1>2. ASSUME NEW s \in AdvStreams, SwitchStream(s) PROVE AdvInv'
  BY <1>2 DEF SwitchStream, AdvInv
<1>3. ASSUME UNCHANGED advVars PROVE AdvInv'
  BY <1>3 DEF advVars, AdvInv, FilterAdvisory, Collected, Applicable
<1> QED
  BY <1>1, <1>2, <1>3 DEF AdvNext

\* For any advisories, packages, filters and enabled streams, when evrs that
\* compare equal are equal: sorting and searching the packages of advisories
\* (Query::Impl::filterAdvisory, Query::getAdvisoryPkgs) finds what going over the
\* advisories finds (dnf_package_get_advisories).
THEOREM AdvisoriesStayAgreed ==
    ASSUME VersionsDistinct
    PROVE  AdvSpec => []AdvisoriesAgree
<1>1. AdvInit => AdvInv
  BY DEF AdvInit, AdvInv
<1>2. ASSUME AdvInv PROVE AdvisoriesAgree
  <2>1. CASE advResult = NoAdvResult
    BY <2>1 DEF AdvisoriesAgree, NoAdvResult
  <2>2. CASE /\ advResult.cmp \in CmpTypes
             /\ advResult.hits = FilterAdvisory(advResult.key, advResult.match, advResult.cmp)
    <3> DEFINE cmp == Flipped(advResult.cmp)
    <3>1. advResult.hits = {s \in AdvPackages :
               \E a \in GetAdvisories(s, cmp) : Matches(a, advResult.key, advResult.match)}
      BY <1>2, <2>2, FilterFinds
    <3>2. GetAdvisoryPkgs(cmp) =
               {p \in UNION {ToSet(a.pkgs) : a \in ToSet(AdvSeq)} :
                   \E s \in AdvPackages : \E a \in GetAdvisories(s, cmp) :
                       p \in ToSet(a.pkgs) /\ SameNameArch(p, s) /\ Order(p.evr, s.evr) \in cmp}
      <4> HIDE DEF cmp
      <4> QED
        BY PkgsFound DEF AllEntries
    <3> QED
      BY <3>1, <3>2 DEF AdvisoriesAgree
  <2> QED
    BY <1>2, <2>1, <2>2 DEF AdvInv
<1> QED
  BY <1>1, <1>2, AdvInvNext, PTL DEF AdvSpec

-----------------------------------------------------------------------------
(* The bytes of a download.                                                *)

\* A set of numbers that holds 0 and with each number the next one.
LEMMA ReachesUpTo ==
    ASSUME NEW N \in Nat, NEW G, 0 \in G, \A n \in 1 .. N : n - 1 \in G => n \in G
    PROVE  N \in G
<1> DEFINE T == {n \in 0 .. N : n \notin G}
<1>1. SUFFICES ASSUME T # {} PROVE FALSE
  OBVIOUS
<1>2. T \in SUBSET Nat
  OBVIOUS
<1>3. PICK n \in T : \A m \in T : n <= m
  <2> HIDE DEF T
  <2> QED
    BY <1>1, <1>2, SmallestOf
<1>4. n \in 1 .. N /\ n - 1 \in 0 .. N /\ ~ (n <= n - 1)
  BY <1>3
<1> QED
  BY <1>3, <1>4

\* The sums of the first n elements, for n up to N.
SumsOf(f, list, sum, N) ==
    sum = [n \in 0 .. N |-> IF n = 0 THEN 0 ELSE sum[n - 1] + f[list[n]]]

\* The recursion of Added has a solution.
LEMMA AddedBySteps ==
    ASSUME NEW f, NEW list, Len(list) \in Nat
    PROVE  \E sum : /\ sum[0] = 0
                    /\ \A n \in 1 .. Len(list) : sum[n] = sum[n - 1] + f[list[n]]
                    /\ Added(f, list) = sum[Len(list)]
<1> DEFINE N == Len(list)
           Some(n) == \E sum : SumsOf(f, list, sum, n)
           G == {n \in 0 .. N : Some(n)}
<1>0. N \in Nat
  OBVIOUS
<1> HIDE DEF N
<1>1. 0 \in G
  <2> DEFINE sum == [n \in 0 .. 0 |-> 0]
  <2>1. SumsOf(f, list, sum, 0)
    BY DEF SumsOf
  <2>2. Some(0)
    BY <2>1
  <2> HIDE DEF Some
  <2> QED
    BY <1>0, <2>2
<1>2. ASSUME NEW n \in 1 .. N, n - 1 \in G PROVE n \in G
  <2>1. PICK h : SumsOf(f, list, h, n - 1)
    BY <1>2
  <2> DEFINE last == h[n - 1] + f[list[n]]
             g == [m \in 0 .. n |-> IF m = n THEN last ELSE h[m]]
  <2>2. n \in Nat /\ n # 0 /\ n - 1 \in 0 .. n - 1 /\ n \in 0 .. n
    BY <1>0
  <2>3. h[0] = 0 /\ \A m \in 1 .. n - 1 : h[m] = h[m - 1] + f[list[m]]
    BY <2>1, <2>2 DEF SumsOf
  <2> HIDE DEF last
  <2>4. g[n] = last /\ \A m \in 0 .. n - 1 : g[m] = h[m]
    BY <2>2
  <2>5. DOMAIN g = 0 .. n /\ g = [m \in 0 .. n |-> g[m]]
    OBVIOUS
  <2> HIDE DEF g
  <2>6. g[0] = 0
    BY <2>2, <2>3, <2>4
  <2>7. ASSUME NEW m \in 1 .. n PROVE g[m] = g[m - 1] + f[list[m]]
    <3>1. m - 1 \in 0 .. n - 1 /\ (m = n \/ m \in 1 .. n - 1)
      BY <2>2
    <3>2. g[m - 1] = h[m - 1]
      BY <2>4, <3>1
    <3>3. CASE m = n
      BY <2>4, <3>2, <3>3 DEF last
    <3>4. CASE m \in 1 .. n - 1
      BY <2>2, <2>3, <2>4, <3>2, <3>4
    <3> QED
      BY <3>1, <3>3, <3>4
  <2>8. \A m \in 0 .. n : g[m] = IF m = 0 THEN 0 ELSE g[m - 1] + f[list[m]]
    BY <2>2, <2>6, <2>7
  <2>9. Some(n)
    BY <2>5, <2>8 DEF SumsOf
  <2> HIDE DEF Some
  <2> QED
    BY <1>0, <2>9
<1>3. N \in G
  <2> HIDE DEF G
  <2> QED
    BY <1>0, <1>1, <1>2, ReachesUpTo
<1> DEFINE sum == CHOOSE h : SumsOf(f, list, h, N)
<1>4. SumsOf(f, list, sum, N)
  BY <1>3
<1>5. Added(f, list) = sum[N]
  BY DEF Added, SumsOf, N
<1> HIDE DEF sum
<1>6. sum[0] = 0 /\ \A n \in 1 .. N : sum[n] = sum[n - 1] + f[list[n]]
  BY <1>0, <1>4 DEF SumsOf
<1> QED
  BY <1>5, <1>6 DEF N

\* A sum of smaller numbers is smaller.
LEMMA AddedGrows ==
    ASSUME NEW f, NEW g, NEW list, Len(list) \in Nat,
           \A n \in 1 .. Len(list) :
               f[list[n]] \in Nat /\ g[list[n]] \in Nat /\ f[list[n]] <= g[list[n]]
    PROVE  Added(f, list) \in Nat /\ Added(g, list) \in Nat /\ Added(f, list) <= Added(g, list)
<1> DEFINE N == Len(list)
<1>1. PICK a : /\ a[0] = 0 /\ \A n \in 1 .. N : a[n] = a[n - 1] + f[list[n]]
               /\ Added(f, list) = a[N]
  BY AddedBySteps
<1>2. PICK b : /\ b[0] = 0 /\ \A n \in 1 .. N : b[n] = b[n - 1] + g[list[n]]
               /\ Added(g, list) = b[N]
  BY AddedBySteps
<1> DEFINE Good(n) == a[n] \in Nat /\ b[n] \in Nat /\ a[n] <= b[n]
           H == {n \in 0 .. N : Good(n)}
<1>3. N \in Nat /\ \A n \in 1 .. N : f[list[n]] \in Nat /\ g[list[n]] \in Nat /\ f[list[n]] <= g[list[n]]
  OBVIOUS
<1> HIDE DEF N
<1>4. 0 \in H
  BY <1>1, <1>2, <1>3
<1>5. ASSUME NEW n \in 1 .. N, n - 1 \in H PROVE n \in H
  <2>1. a[n - 1] \in Nat /\ b[n - 1] \in Nat /\ a[n - 1] <= b[n - 1]
    BY <1>5
  <2>2. /\ a[n] = a[n - 1] + f[list[n]] /\ b[n] = b[n - 1] + g[list[n]]
        /\ f[list[n]] \in Nat /\ g[list[n]] \in Nat /\ f[list[n]] <= g[list[n]]
    BY <1>1, <1>2, <1>3
  <2>3. Good(n)
    BY <2>1, <2>2
  <2> HIDE DEF Good
  <2> QED
    BY <1>3, <2>3
<1>6. N \in H
  <2> HIDE DEF H
  <2> QED
    BY <1>3, <1>4, <1>5, ReachesUpTo
<1> QED
  BY <1>1, <1>2, <1>6

\* One number changed changes the sum by the difference.
LEMMA AddedChanges ==
    ASSUME NEW f, NEW g, NEW list, Len(list) \in Nat, NEW k \in 1 .. Len(list),
           \A n \in 1 .. Len(list) : f[list[n]] \in Nat /\ g[list[n]] \in Nat,
           \A n \in 1 .. Len(list) : n # k => g[list[n]] = f[list[n]]
    PROVE  Added(g, list) = Added(f, list) + (g[list[k]] - f[list[k]])
<1> DEFINE N == Len(list)
<1>0. ASSUME NEW h
      PROVE  \E sum : /\ sum[0] = 0
                      /\ \A n \in 1 .. Len(list) : sum[n] = sum[n - 1] + h[list[n]]
                      /\ Added(h, list) = sum[Len(list)]
  BY ONLY Len(list) \in Nat, AddedBySteps
<1>1. PICK a : /\ a[0] = 0 /\ \A n \in 1 .. N : a[n] = a[n - 1] + f[list[n]]
               /\ Added(f, list) = a[N]
  BY <1>0, Zenon
<1>2. PICK b : /\ b[0] = 0 /\ \A n \in 1 .. N : b[n] = b[n - 1] + g[list[n]]
               /\ Added(g, list) = b[N]
  BY <1>0, Zenon
<1> DEFINE d == g[list[k]] - f[list[k]]
<1>3. /\ N \in Nat /\ k \in 1 .. N /\ d \in Int /\ g[list[k]] = f[list[k]] + d
      /\ \A n \in 1 .. N : f[list[n]] \in Nat /\ g[list[n]] \in Nat
      /\ \A n \in 1 .. N : n # k => g[list[n]] = f[list[n]]
  OBVIOUS
<1> HIDE DEF N, d
<1> DEFINE Good(n) == a[n] \in Int /\ b[n] = a[n] + (IF n < k THEN 0 ELSE d)
           H == {n \in 0 .. N : Good(n)}
<1>4. 0 \in H
  BY <1>1, <1>2, <1>3
<1>5. ASSUME NEW n \in 1 .. N, n - 1 \in H PROVE n \in H
  <2>1. a[n - 1] \in Int /\ b[n - 1] = a[n - 1] + (IF n - 1 < k THEN 0 ELSE d)
    BY <1>5
  <2>2. a[n] = a[n - 1] + f[list[n]] /\ b[n] = b[n - 1] + g[list[n]] /\ f[list[n]] \in Nat
    BY <1>1, <1>2, <1>3
  <2>3. CASE n = k
    BY <1>3, <2>1, <2>2, <2>3
  <2>4. CASE n # k
    <3>1. g[list[n]] = f[list[n]] /\ (n - 1 < k <=> n < k)
      BY <1>3, <2>4
    <3>2. Good(n)
      BY <1>3, <2>1, <2>2, <3>1
    <3> HIDE DEF Good
    <3> QED
      BY <1>3, <3>2
  <2> QED
    BY <2>3, <2>4
<1>6. N \in H
  <2> HIDE DEF H
  <2> QED
    BY <1>3, <1>4, <1>5, ReachesUpTo
<1>7. Good(N) /\ ~ (N < k)
  BY <1>3, <1>6
<1> QED
  BY <1>1, <1>2, <1>7 DEF d

\* SetToSeq lists each element of a finite set once.
LEMMA ListOfSet ==
    ASSUME NEW S, IsFiniteSet(S)
    PROVE  /\ Len(SetToSeq(S)) \in Nat
           /\ \A n \in 1 .. Len(SetToSeq(S)) : SetToSeq(S)[n] \in S
           /\ \A m, n \in 1 .. Len(SetToSeq(S)) : SetToSeq(S)[m] = SetToSeq(S)[n] => m = n
           /\ \A x \in S : \E n \in 1 .. Len(SetToSeq(S)) : SetToSeq(S)[n] = x
<1> DEFINE c == Cardinality(S)
           list == SetToSeq(S)
<1>1. c \in Nat /\ ExistsBijection(1 .. c, S)
  BY FS_CardinalityType
<1>2. \E h \in [1 .. c -> S] : IsInjective(h)
  BY <1>1 DEF ExistsBijection, Bijection, Injection
<1>3. list \in [1 .. c -> S] /\ IsInjective(list)
  BY <1>2 DEF SetToSeq
<1> HIDE DEF list
<1>4. IsFiniteSet(1 .. c) /\ Cardinality(1 .. c) = c
  <2> HIDE DEF c
  <2> QED
    BY <1>1, FS_Interval
<1>5. list \in Injection(1 .. c, S)
  BY <1>3 DEF Injection
<1>6. list \in Surjection(1 .. c, S)
  BY <1>4, <1>5, FS_Injection
<1>7. \A x \in S : \E n \in 1 .. c : list[n] = x
  BY <1>6 DEF Surjection
<1>8. Len(list) = c
  BY <1>1, <1>3
<1>9. /\ \A n \in 1 .. c : list[n] \in S
      /\ \A m, n \in 1 .. c : list[m] = list[n] => m = n
  BY <1>3 DEF IsInjective
<1> QED
  BY <1>1, <1>7, <1>8, <1>9 DEF list

LEMMA AddedOfNothing ==
    ASSUME NEW f, NEW list, Len(list) \in Nat, \A n \in 1 .. Len(list) : f[list[n]] = 0
    PROVE  Added(f, list) = 0
<1> DEFINE N == Len(list)
<1>1. PICK a : /\ a[0] = 0 /\ \A n \in 1 .. N : a[n] = a[n - 1] + f[list[n]]
               /\ Added(f, list) = a[N]
  BY AddedBySteps
<1>2. N \in Nat /\ \A n \in 1 .. N : f[list[n]] = 0
  OBVIOUS
<1> HIDE DEF N
<1> DEFINE H == {n \in 0 .. N : a[n] = 0}
<1>3. 0 \in H
  BY <1>1, <1>2
<1>4. ASSUME NEW n \in 1 .. N, n - 1 \in H PROVE n \in H
  <2>1. a[n - 1] = 0 /\ f[list[n]] = 0 /\ a[n] = a[n - 1] + f[list[n]]
    BY <1>1, <1>2, <1>4
  <2> QED
    BY <1>2, <2>1
<1>5. N \in H
  <2> HIDE DEF H
  <2> QED
    BY <1>2, <1>3, <1>4, ReachesUpTo
<1> QED
  BY <1>1, <1>5

Transfers ==
    [on : BOOLEAN, left : SUBSET DOMAIN RrPkg, global : Nat,
     now : UNION {[D -> Nat] : D \in SUBSET DOMAIN RrPkg}]

\* A download in progress is of packages of one goal; each has at most its size,
\* and the sum of them all is what was reported.
Counted(t) ==
    t.on =>
      /\ \E g \in RrGoals : DOMAIN t.now \cup t.left \subseteq ToSet(g.install)
      /\ \A p \in DOMAIN t.now : t.now[p] <= RrPkg[p].size
      /\ t.global = Added(t.now, SetToSeq(DOMAIN t.now))

\* The sum of what is there, whatever there is of each package of a goal, stays
\* within the size.
LEMMA SumInRange ==
    ASSUME NEW g \in RrGoals, NEW D, D \subseteq ToSet(g.install), NEW now \in [D -> Nat],
           \A p \in D : now[p] <= RrPkg[p].size
    PROVE  /\ IsFiniteSet(D)
           /\ Added(now, SetToSeq(D)) \in Nat /\ DownloadSize(D) \in Nat
           /\ Added(now, SetToSeq(D)) <= DownloadSize(D)
<1> DEFINE list == SetToSeq(D)
           size == [p \in D |-> RrPkg[p].size]
<1>1. D \subseteq DOMAIN RrPkg /\ IsFiniteSet(D)
  BY DnfRpmRunAssumption, FS_Subset
<1>2. Len(list) \in Nat /\ \A n \in 1 .. Len(list) : list[n] \in D
  BY <1>1, ListOfSet
<1>3. \A p \in D : size[p] \in Nat /\ now[p] \in Nat /\ now[p] <= size[p]
  BY <1>1, DnfRpmRunAssumption
<1>4. DownloadSize(D) = Added(size, list)
  BY DEF DownloadSize
<1> HIDE DEF list, size
<1>7. \A n \in 1 .. Len(list) :
         now[list[n]] \in Nat /\ size[list[n]] \in Nat /\ now[list[n]] <= size[list[n]]
  BY <1>2, <1>3
<1>8. /\ Added(now, list) \in Nat /\ Added(size, list) \in Nat
      /\ Added(now, list) <= Added(size, list)
  BY <1>2, <1>7, AddedGrows
<1> QED
  BY <1>1, <1>4, <1>8 DEF list

\* package_download_update_state_cb: the difference, also a negative one, keeps
\* the sum.
LEMMA ProgressCounts ==
    ASSUME NEW t \in Transfers, Counted(t), t.on, NEW p \in DOMAIN t.now, NEW n \in 0 .. RrPkg[p].size,
           NEW u, u = [t EXCEPT !.now[p] = n, !.global = @ + (n - t.now[p])]
    PROVE  u \in Transfers /\ Counted(u)
<1> DEFINE D == DOMAIN t.now
           list == SetToSeq(D)
           now == [t.now EXCEPT ![p] = n]
<1>1. PICK g \in RrGoals : D \cup t.left \subseteq ToSet(g.install)
  BY DEF Counted
<1>2. /\ D \subseteq DOMAIN RrPkg /\ t.now \in [D -> Nat] /\ p \in D
      /\ \A q \in D : t.now[q] <= RrPkg[q].size
      /\ t.global = Added(t.now, list)
  BY DEF Counted, Transfers
<1>3. /\ RrPkg[p].size \in Nat /\ n \in Nat /\ n <= RrPkg[p].size
      /\ now \in [D -> Nat] /\ now[p] = n /\ \A q \in D : q # p => now[q] = t.now[q]
  BY <1>2, DnfRpmRunAssumption
<1>4. /\ u.on = t.on /\ u.left = t.left /\ u.now = now
      /\ u.global = t.global + (n - t.now[p])
      /\ DOMAIN u = {"on", "left", "global", "now"} /\ u = [on |-> u.on, left |-> u.left, global |-> u.global, now |-> u.now]
  BY DEF Transfers
<1>5. \A q \in D : now[q] <= RrPkg[q].size
  BY <1>2, <1>3
<1> HIDE DEF now
<1> HIDE DEF D
<1>6. /\ IsFiniteSet(D) /\ Added(now, list) \in Nat /\ DownloadSize(D) \in Nat
      /\ Added(now, list) <= DownloadSize(D)
  BY <1>1, <1>3, <1>5, SumInRange
<1>7. /\ Len(list) \in Nat
      /\ \A m \in 1 .. Len(list) : list[m] \in D
      /\ \A m, k \in 1 .. Len(list) : list[m] = list[k] => m = k
      /\ \E k \in 1 .. Len(list) : list[k] = p
  BY <1>2, <1>6, ListOfSet
<1> HIDE DEF list
<1>8. PICK k \in 1 .. Len(list) : list[k] = p
  BY <1>7
<1>9. /\ \A m \in 1 .. Len(list) : t.now[list[m]] \in Nat /\ now[list[m]] \in Nat
      /\ \A m \in 1 .. Len(list) : m # k => now[list[m]] = t.now[list[m]]
  BY <1>2, <1>3, <1>7, <1>8
<1>10. Added(now, list) = Added(t.now, list) + (now[list[k]] - t.now[list[k]])
  <2> DEFINE old == t.now
  <2>1. /\ \A m \in 1 .. Len(list) : old[list[m]] \in Nat /\ now[list[m]] \in Nat
        /\ \A m \in 1 .. Len(list) : m # k => now[list[m]] = old[list[m]]
    BY <1>9
  <2> HIDE DEF old
  <2>2. Added(now, list) = Added(old, list) + (now[list[k]] - old[list[k]])
    BY ONLY Len(list) \in Nat, k \in 1 .. Len(list), <1>7, <2>1, AddedChanges
  <2> QED
    BY <2>2 DEF old
<1>11. Added(now, list) = t.global + (n - t.now[p])
  BY <1>2, <1>3, <1>8, <1>10
<1>13. u.global = Added(now, list)
  BY <1>4, <1>11
<1>14. DOMAIN now = D
  BY <1>3
<1>15. Counted(u)
  BY <1>1, <1>4, <1>5, <1>13, <1>14 DEF Counted, list, D
<1>16. u \in Transfers
  <2>1. u.now \in UNION {[E -> Nat] : E \in SUBSET DOMAIN RrPkg}
    BY <1>2, <1>3, <1>4
  <2>2. u.on \in BOOLEAN /\ u.left \in SUBSET DOMAIN RrPkg
    BY <1>4 DEF Transfers
  <2>3. u.global \in Nat
    BY <1>6, <1>13
  <2> QED
    BY <1>4, <2>1, <2>2, <2>3 DEF Transfers
<1> QED
  BY <1>15, <1>16

ProgInv ==
    /\ goalNow \in RrGoals
    /\ toDownload \subseteq ToSet(goalNow.install)
    /\ transfer \in Transfers
    /\ Counted(transfer)

LEMMA NoTransferCounts == NoTransfer \in Transfers /\ Counted(NoTransfer)
<1>1. << >> \in [{} -> Nat]
  OBVIOUS
<1>2. << >> \in UNION {[E -> Nat] : E \in SUBSET DOMAIN RrPkg}
  BY <1>1
<1> QED
  BY <1>2 DEF NoTransfer, Transfers, Counted

\* A repository's counters start at nothing.
LEMMA StartCounts ==
    ASSUME NEW g \in RrGoals, NEW L, L \subseteq ToSet(g.install), NEW D, D \subseteq L, NEW u,
           u = [on |-> TRUE, left |-> L, now |-> [p \in D |-> 0], global |-> 0]
    PROVE  u \in Transfers /\ Counted(u)
<1> DEFINE zero == [p \in D |-> 0]
           list == SetToSeq(D)
<1>1. L \subseteq DOMAIN RrPkg /\ D \subseteq DOMAIN RrPkg /\ IsFiniteSet(D)
  BY DnfRpmRunAssumption, FS_Subset
<1>2. \A p \in D : zero[p] <= RrPkg[p].size
  BY <1>1, DnfRpmRunAssumption
<1>3. zero \in [D -> Nat] /\ DOMAIN zero = D
  OBVIOUS
<1>4. Len(list) \in Nat /\ \A n \in 1 .. Len(list) : list[n] \in D
  BY <1>1, ListOfSet
<1>5. \A p \in D : zero[p] = 0
  OBVIOUS
<1>6. /\ u.on = TRUE /\ u.left = L /\ u.global = 0 /\ u.now = zero
      /\ u = [on |-> TRUE, left |-> L, now |-> zero, global |-> 0]
  OBVIOUS
<1> HIDE DEF zero, list
<1>7. Added(zero, list) = 0
  BY <1>4, <1>5, AddedOfNothing
<1>8. Counted(u)
  BY <1>2, <1>3, <1>6, <1>7 DEF Counted, list
<1>9. zero \in UNION {[E -> Nat] : E \in SUBSET DOMAIN RrPkg}
  BY <1>1, <1>3
<1>10. u \in Transfers
  BY <1>1, <1>6, <1>9 DEF Transfers
<1> QED
  BY <1>8, <1>10

\* Every step that is not of a download leaves the download alone, and the list
\* of packages as it was, new with the goal, or empty.
LEMMA ProgNextKeeps == ProgInv /\ [RrNext]_rrVars => ProgInv'
<1> SUFFICES ASSUME ProgInv, [RrNext]_rrVars PROVE ProgInv'
  OBVIOUS
<1>1. ASSUME NEW g \in RrGoals, RrDepsolve(g) PROVE ProgInv'
  <2>1. toDownload' \subseteq ToSet(g.install)
    BY <1>1 DEF RrDepsolve, ToSet
  <2> QED
    BY <1>1, <2>1 DEF RrDepsolve, ProgInv, Counted
<1>2. ASSUME StartDownload PROVE ProgInv'
  <2> DEFINE none == [p \in {} |-> 0]
  <2>1. transfer' = [on |-> TRUE, left |-> toDownload, now |-> none, global |-> 0]
    <3>1. none = << >>
      OBVIOUS
    <3> QED
      BY <1>2, <3>1 DEF StartDownload
  <2>2. transfer' \in Transfers /\ Counted(transfer')
    BY <2>1, StartCounts DEF ProgInv
  <2> QED
    BY <1>2, <2>2 DEF StartDownload, ProgInv, Counted
<1>11. ASSUME NEW r \in DOMAIN RrRepo, StartRepository(r) PROVE ProgInv'
  <2>1. PICK g \in RrGoals : transfer.left \subseteq ToSet(g.install)
    BY <1>11 DEF StartRepository, ProgInv, Counted
  <2>2. transfer' = [on |-> TRUE, left |-> transfer.left, now |-> [p \in Batch(r) |-> 0], global |-> 0]
    BY <1>11 DEF StartRepository, ProgInv, Transfers
  <2>3. Batch(r) \subseteq transfer.left
    BY DEF Batch
  <2>4. transfer' \in Transfers /\ Counted(transfer')
    BY <2>1, <2>2, <2>3, StartCounts
  <2> QED
    BY <1>11, <2>4 DEF StartRepository, ProgInv, Counted
<1>3. ASSUME NEW p \in toDownload, NEW n \in 0 .. RrPkg[p].size, Progress(p, n) PROVE ProgInv'
  <2>1. transfer.on /\ p \in DOMAIN transfer.now
    BY <1>3 DEF Progress, Fetching
  <2>2. transfer' \in Transfers /\ Counted(transfer')
    BY <1>3, <2>1, ProgressCounts DEF Progress, ProgInv
  <2> QED
    BY <1>3, <2>2 DEF Progress, ProgInv, Counted
<1>4. ASSUME NEW p \in toDownload, Arrive(p) PROVE ProgInv'
  <2>1. transfer' = [transfer EXCEPT !.left = @ \ {p}]
    BY <1>4 DEF Arrive
  <2>2. transfer' \in Transfers
    BY <2>1 DEF Transfers, ProgInv
  <2>3. /\ transfer'.on = transfer.on /\ transfer'.left = transfer.left \ {p}
        /\ transfer'.now = transfer.now /\ transfer'.global = transfer.global
    BY <2>1 DEF Transfers, ProgInv
  <2>4. Counted(transfer')
    BY <2>3 DEF Counted, ProgInv
  <2> QED
    BY <1>4, <2>2, <2>4 DEF Arrive, ProgInv, Counted
<1>5. ASSUME EndDownload PROVE ProgInv'
  BY <1>5, NoTransferCounts DEF EndDownload, ProgInv, Counted
<1>6. ASSUME UNCHANGED <<goalNow, transfer>>, toDownload' = toDownload \/ toDownload' = {}
      PROVE  ProgInv'
  BY <1>6 DEF ProgInv, Counted
<1>7. ASSUME NEW trusted \in BOOLEAN, NEW test \in BOOLEAN, Begin4(trusted, test) PROVE ProgInv'
  BY <1>6, <1>7 DEF Begin4
<1>8. ASSUME NoKeyDirectory \/ ImportAndCheck \/ AddElements \/ RunTransaction \/ CbTransStart \/ EndRun
      PROVE  ProgInv'
  BY <1>6, <1>8 DEF NoKeyDirectory, ImportAndCheck, AddElements, RunTransaction, CbTransStart, EndRun,
                    Out4, Called
<1>9. ASSUME NEW p \in DOMAIN RrPkg,
             CbInstStart(p) \/ CbInstStop(p) \/ CbUninstStart(p) \/ CbUninstStop(p) \/ Spoil(p)
      PROVE  ProgInv'
  BY <1>6, <1>9 DEF CbInstStart, CbInstStop, CbUninstStart, CbUninstStop, Spoil, Called
<1>10. CASE UNCHANGED rrVars
  BY <1>6, <1>10 DEF rrVars
<1> QED
  BY <1>1, <1>2, <1>3, <1>4, <1>5, <1>7, <1>8, <1>9, <1>10, <1>11 DEF RrNext

\* The callbacks of librepo and of rpm leave the books balanced, whatever the
\* packages and their sizes are, however often a mirror fails and a transfer
\* starts again (package_download_update_state_cb,
\* dnf_transaction_ts_progress_cb).
THEOREM CallbacksStayBalanced == RrSpec => []CallbacksBalance
<1>1. RrInit => ProgInv
  BY NoTransferCounts DEF RrInit, ProgInv
<1>2. ASSUME ProgInv PROVE ProgressInRange
  <2>1. SUFFICES ASSUME transfer.on PROVE transfer.global \in 0 .. DownloadSize(DOMAIN transfer.now)
    BY DEF ProgressInRange
  <2> DEFINE D == DOMAIN transfer.now
  <2>2. PICK g \in RrGoals : D \subseteq ToSet(g.install)
    BY <1>2, <2>1 DEF ProgInv, Counted
  <2>3. transfer.now \in [D -> Nat] /\ \A p \in D : transfer.now[p] <= RrPkg[p].size
    BY <1>2, <2>1 DEF ProgInv, Counted, Transfers
  <2>4. transfer.global = Added(transfer.now, SetToSeq(D))
    BY <1>2, <2>1 DEF ProgInv, Counted
  <2> HIDE DEF D
  <2>5. /\ Added(transfer.now, SetToSeq(D)) \in Nat /\ DownloadSize(D) \in Nat
        /\ Added(transfer.now, SetToSeq(D)) <= DownloadSize(D)
    BY <2>2, <2>3, SumInRange
  <2> QED
    BY <2>4, <2>5 DEF D
<1>3. MarkedIsHandled /\ ProgressInRange => CallbacksBalance
  BY DEF CallbacksBalance
<1> QED
  BY <1>1, <1>2, <1>3, ProgNextKeeps, MarkedStaysHandled, PTL DEF RrSpec

-----------------------------------------------------------------------------
(* The filters on the newest versions.                                     *)

\* A strict order of n things gives each number from 0 to n - 1 to one of them.
PlaceIn(S, R, i) == Cardinality({j \in S : <<j, i>> \in R})

LEMMA RanksAreAll ==
    ASSUME NEW S, IsFiniteSet(S), NEW R,
           \A i \in S : <<i, i>> \notin R,
           \A i, j \in S : i # j => <<i, j>> \in R \/ <<j, i>> \in R,
           \A i, j, k \in S : <<i, j>> \in R /\ <<j, k>> \in R => <<i, k>> \in R
    PROVE  /\ \A i \in S : PlaceIn(S, R, i) \in 0 .. Cardinality(S) - 1
           /\ \A r \in 0 .. Cardinality(S) - 1 : \E i \in S : PlaceIn(S, R, i) = r
           /\ \A i, j \in S : <<i, j>> \in R => PlaceIn(S, R, i) < PlaceIn(S, R, j)
<1> DEFINE U(i) == {j \in S : <<j, i>> \in R}
           rank(i) == Cardinality(U(i))
           n == Cardinality(S)
<1>1. n \in Nat
  BY FS_CardinalityType
<1>2. ASSUME NEW i \in S
      PROVE  IsFiniteSet(U(i)) /\ rank(i) \in Nat /\ rank(i) <= n /\ rank(i) # n
  <2>1. U(i) \in SUBSET S /\ U(i) # S
    OBVIOUS
  <2> QED
    BY <2>1, FS_Subset, FS_CardinalityType
<1>3. ASSUME NEW i \in S, NEW j \in S, <<i, j>> \in R PROVE rank(i) < rank(j)
  <2>1. U(i) \in SUBSET U(j) /\ i \in U(j) /\ i \notin U(i)
    BY <1>3
  <2>2. rank(i) <= rank(j) /\ rank(i) # rank(j)
    BY <1>2, <2>1, FS_Subset
  <2> QED
    BY <1>2, <2>2
<1>4. \A i \in S : rank(i) \in 0 .. n - 1
  BY <1>1, <1>2
<1> DEFINE f == [i \in S |-> rank(i)]
           T == 0 .. n - 1
<1>5. f \in Injection(S, T)
  <2>1. ASSUME NEW i \in S, NEW j \in S, f[i] = f[j] PROVE i = j
    <3>1. rank(i) = rank(j) /\ rank(i) \in Nat
      BY <1>2, <2>1
    <3>2. ~ (<<i, j>> \in R) /\ ~ (<<j, i>> \in R)
      <4> HIDE DEF rank
      <4> QED
        BY <1>3, <3>1
    <3> QED
      BY <3>2
  <2>2. f \in [S -> T]
    BY <1>4
  <2> QED
    BY <2>1, <2>2 DEF Injection, IsInjective
<1>6. IsFiniteSet(T) /\ Cardinality(T) = n
  <2>1. 0 \in Int /\ n - 1 \in Int
    BY <1>1
  <2>2. IsFiniteSet(0 .. (n - 1)) /\ Cardinality(0 .. (n - 1)) = IF 0 > n - 1 THEN 0 ELSE (n - 1) - 0 + 1
    BY <2>1, FS_Interval
  <2> QED
    BY <1>1, <2>2
<1>7. f \in Surjection(S, T)
  <2> HIDE DEF f, T
  <2> QED
    BY <1>5, <1>6, FS_Injection
<1>8. \A r \in T : \E i \in S : rank(i) = r
  BY <1>7 DEF Surjection
<1> QED
  BY <1>3, <1>4, <1>8 DEF PlaceIn

DqPkgs == DOMAIN PkgName

DqPool == sackPool \in Seq(DqPkgs)

\* The architecture as far as the sort looks at it.
ArchIn(perArch, p) == IF perArch THEN PkgArch[p] ELSE 0

\* Where a pool holds a package first, and what is sorted by that: IdOf,
\* Before, Samename and FilterLatest of the pool that is given.
PlaceOf(pool, p) == CHOOSE i \in DOMAIN pool : pool[i] = p /\ \A j \in 1 .. i - 1 : pool[j] # p

Ahead(pool, perArch, a, b) ==
    LET key(p) == <<PkgName[p], IF perArch THEN PkgArch[p] ELSE 0>> IN
    IF key(a) = key(b)
    THEN PkgEvr[a] > PkgEvr[b] \/ (PkgEvr[a] = PkgEvr[b] /\ PlaceOf(pool, a) < PlaceOf(pool, b))
    ELSE \E i \in 1 .. 2 : /\ key(a)[i] < key(b)[i]
                           /\ \A j \in 1 .. i - 1 : key(a)[j] = key(b)[j]

LatestIn(pool, S, perArch, latest) ==
    IF latest = 0 THEN {}
    ELSE LatestOf([k \in 1 .. Cardinality(S) |->
                     CHOOSE p \in S : Cardinality({o \in S : Ahead(pool, perArch, o, p)}) = k - 1],
                  perArch, latest)

LEMMA LatestInPool ==
    ASSUME NEW S, NEW perArch, NEW latest
    PROVE  FilterLatest(S, perArch, latest) = LatestIn(sackPool, S, perArch, latest)
<1>1. \A p : IdOf(p) = PlaceOf(sackPool, p)
  BY DEF IdOf, PlaceOf
<1>2. \A a, b : Before(perArch, a, b) = Ahead(sackPool, perArch, a, b)
  BY <1>1 DEF Before, Ahead
<1>3. Samename(S, perArch) =
         [k \in 1 .. Cardinality(S) |->
            CHOOSE p \in S : Cardinality({o \in S : Ahead(sackPool, perArch, o, p)}) = k - 1]
  BY <1>2 DEF Samename
<1> QED
  BY <1>3 DEF FilterLatest, LatestIn

LEMMA PlaceIs ==
    ASSUME NEW D, NEW pool \in Seq(D), NEW p \in ToSet(pool)
    PROVE  /\ PlaceOf(pool, p) \in 1 .. Len(pool) /\ pool[PlaceOf(pool, p)] = p
           /\ \A j \in 1 .. PlaceOf(pool, p) - 1 : pool[j] # p
<1>1. DOMAIN pool = 1 .. Len(pool) /\ Len(pool) \in Nat
  OBVIOUS
<1>2. PICK k \in 1 .. Len(pool) : pool[k] = p
  BY <1>1 DEF ToSet
<1> DEFINE First(i) == i \in 1 .. Len(pool) /\ pool[i] = p /\ \A j \in 1 .. i - 1 : pool[j] # p
           G == {i \in 0 .. k : \A j \in 1 .. i : pool[j] # p}
<1>3. \E i : First(i)
  <2> SUFFICES ASSUME \A i : ~ First(i) PROVE FALSE
    OBVIOUS
  <2>1. 0 \in G
    BY <1>1
  <2>2. ASSUME NEW i \in 1 .. k, i - 1 \in G PROVE i \in G
    <3>1. i \in 1 .. Len(pool) /\ \A j \in 1 .. i - 1 : pool[j] # p
      BY <1>1, <2>2
    <3>2. pool[i] # p
      BY <3>1
    <3>3. \A j \in 1 .. i : j = i \/ j \in 1 .. i - 1
      OBVIOUS
    <3> QED
      BY <3>1, <3>2, <3>3
  <2> HIDE DEF G
  <2>3. k \in G
    BY <1>1, <2>1, <2>2, ReachesUpTo
  <2> QED
    BY <1>1, <1>2, <2>3 DEF G
<1> QED
  BY <1>1, <1>3 DEF PlaceOf

\* Packages that are loaded later change nothing in the order.
LEMMA LatestStays ==
    ASSUME NEW D, NEW pool \in Seq(D), NEW e \in Seq(D), NEW S \in SUBSET ToSet(pool),
           NEW perArch, NEW latest
    PROVE  LatestIn(pool \o e, S, perArch, latest) = LatestIn(pool, S, perArch, latest)
<1> DEFINE more == pool \o e
<1>1. /\ more \in Seq(D) /\ Len(more) = Len(pool) + Len(e) /\ Len(pool) \in Nat /\ Len(e) \in Nat
      /\ \A i \in 1 .. Len(pool) : more[i] = pool[i]
  OBVIOUS
<1>2. DOMAIN more = 1 .. Len(more) /\ DOMAIN pool = 1 .. Len(pool)
  OBVIOUS
<1> HIDE DEF more
<1>3. ASSUME NEW p \in S PROVE PlaceOf(more, p) = PlaceOf(pool, p)
  <2> DEFINE i == PlaceOf(pool, p)
             j == PlaceOf(more, p)
  <2>1. i \in 1 .. Len(pool) /\ pool[i] = p /\ \A k \in 1 .. i - 1 : pool[k] # p
    BY PlaceIs
  <2>2. p \in ToSet(more)
    BY <1>1, <1>2, <2>1 DEF ToSet
  <2>3. j \in 1 .. Len(more) /\ more[j] = p /\ \A k \in 1 .. j - 1 : more[k] # p
    BY <1>1, <2>2, PlaceIs
  <2> HIDE DEF i, j
  <2>4. ~ (i < j)
    BY <1>1, <2>1, <2>3
  <2>5. ~ (j < i)
    BY <1>1, <2>1, <2>3
  <2>6. i = j
    BY <1>1, <2>1, <2>3, <2>4, <2>5
  <2> QED
    BY <2>6 DEF i, j
<1>4. \A a, b \in S : Ahead(more, perArch, a, b) = Ahead(pool, perArch, a, b)
  BY <1>3 DEF Ahead
<1>5. \A p \in S : {o \in S : Ahead(more, perArch, o, p)} = {o \in S : Ahead(pool, perArch, o, p)}
  BY <1>4
<1> DEFINE F(k) == CHOOSE p \in S : Cardinality({o \in S : Ahead(more, perArch, o, p)}) = k - 1
           G(k) == CHOOSE p \in S : Cardinality({o \in S : Ahead(pool, perArch, o, p)}) = k - 1
<1>6. ASSUME NEW k PROVE F(k) = G(k)
  <2>1. \A p \in S : (Cardinality({o \in S : Ahead(more, perArch, o, p)}) = k - 1)
                       <=> (Cardinality({o \in S : Ahead(pool, perArch, o, p)}) = k - 1)
    BY <1>5
  <2> QED
    BY <2>1
<1>7. LatestIn(more, S, perArch, latest) = LatestIn(pool, S, perArch, latest)
  <2>1. [k \in 1 .. Cardinality(S) |-> F(k)] = [k \in 1 .. Cardinality(S) |-> G(k)]
    <3> HIDE DEF F, G
    <3> QED
      BY <1>6
  <2> QED
    BY <2>1 DEF LatestIn
<1> QED
  BY <1>7 DEF more

LEMMA PoolIsFinite ==
    ASSUME DqPool
    PROVE  /\ InPool \in SUBSET DqPkgs /\ IsFiniteSet(InPool)
           /\ \A p \in InPool : IdOf(p) \in Nat /\ sackPool[IdOf(p)] = p
<1>1. DOMAIN sackPool = 1 .. Len(sackPool) /\ Len(sackPool) \in Nat
      /\ \A i \in 1 .. Len(sackPool) : sackPool[i] \in DqPkgs
  BY DEF DqPool
<1>2. InPool = {sackPool[i] : i \in 1 .. Len(sackPool)}
  BY <1>1 DEF InPool, ToSet
<1>3. IsFiniteSet(1 .. Len(sackPool))
  BY <1>1, FS_Interval
<1>4. IsFiniteSet(InPool)
  <2> DEFINE f == [i \in 1 .. Len(sackPool) |-> sackPool[i]]
  <2>1. f \in Surjection(1 .. Len(sackPool), InPool)
    BY <1>2 DEF Surjection
  <2> QED
    BY <1>3, <2>1, FS_Surjection
<1>5. ASSUME NEW p \in InPool PROVE IdOf(p) \in Nat /\ sackPool[IdOf(p)] = p
  <2>1. IdOf(p) = PlaceOf(sackPool, p)
    BY DEF IdOf, PlaceOf
  <2>2. p \in ToSet(sackPool) /\ sackPool \in Seq(DqPkgs)
    BY DEF InPool, DqPool
  <2>3. PlaceOf(sackPool, p) \in 1 .. Len(sackPool) /\ sackPool[PlaceOf(sackPool, p)] = p
    BY <2>2, PlaceIs
  <2> QED
    BY <1>1, <2>1, <2>3
<1> QED
  BY <1>1, <1>2, <1>4, <1>5

LEMMA PkgNumbers ==
    ASSUME NEW p \in DqPkgs, NEW perArch \in BOOLEAN
    PROVE  PkgName[p] \in Int /\ PkgEvr[p] \in Int /\ ArchIn(perArch, p) \in Int
BY DnfQueryAssumption DEF DqPkgs, ArchIn

\* The order of the sort, field by field.
LEMMA BeforeIs ==
    ASSUME NEW perArch \in BOOLEAN, NEW a \in DqPkgs, NEW b \in DqPkgs
    PROVE  Before(perArch, a, b) <=>
             \/ PkgName[a] < PkgName[b]
             \/ PkgName[a] = PkgName[b] /\ ArchIn(perArch, a) < ArchIn(perArch, b)
             \/ /\ PkgName[a] = PkgName[b] /\ ArchIn(perArch, a) = ArchIn(perArch, b)
                /\ PkgEvr[a] > PkgEvr[b] \/ (PkgEvr[a] = PkgEvr[b] /\ IdOf(a) < IdOf(b))
<1> DEFINE n == PkgName[a]
           m == PkgName[b]
           x == ArchIn(perArch, a)
           y == ArchIn(perArch, b)
           k == <<n, x>>
           l == <<m, y>>
           Less == \E i \in 1 .. 2 : k[i] < l[i] /\ \A j \in 1 .. i - 1 : k[j] = l[j]
           Newer == PkgEvr[a] > PkgEvr[b] \/ (PkgEvr[a] = PkgEvr[b] /\ IdOf(a) < IdOf(b))
<1>1. n \in Int /\ m \in Int /\ x \in Int /\ y \in Int
  BY PkgNumbers
<1>2. Before(perArch, a, b) <=> IF k = l THEN Newer ELSE Less
  BY DEF Before, ArchIn
<1> HIDE DEF n, m, x, y
<1>3. k[1] = n /\ k[2] = x /\ l[1] = m /\ l[2] = y /\ (k = l <=> n = m /\ x = y)
  OBVIOUS
<1> HIDE DEF k, l
<1>4. Less <=> n < m \/ (x < y /\ n = m)
  <2>1. 1 .. 2 = {1, 2} /\ 1 .. 1 - 1 = {} /\ 1 .. 2 - 1 = {1}
    OBVIOUS
  <2>2. Less <=> \/ k[1] < l[1] /\ \A j \in 1 .. 1 - 1 : k[j] = l[j]
                 \/ k[2] < l[2] /\ \A j \in 1 .. 2 - 1 : k[j] = l[j]
    BY <2>1
  <2> QED
    BY <1>3, <2>1, <2>2
<1> HIDE DEF Less, Newer
<1>5. Before(perArch, a, b) <=> n < m \/ (n = m /\ x < y) \/ (n = m /\ x = y /\ Newer)
  BY <1>1, <1>2, <1>3, <1>4
<1> QED
  BY <1>5 DEF n, m, x, y, Newer

LEMMA SameBlockIs ==
    ASSUME NEW perArch \in BOOLEAN, NEW a, NEW b
    PROVE  SameBlock(perArch, a, b)
             <=> PkgName[a] = PkgName[b] /\ ArchIn(perArch, a) = ArchIn(perArch, b)
BY DEF SameBlock, ArchIn

LEMMA NewerIsFinite ==
    ASSUME NEW S, IsFiniteSet(S), NEW perArch, NEW p
    PROVE  IsFiniteSet(NewerIn(S, perArch, p)) /\ Cardinality(NewerIn(S, perArch, p)) \in Nat
<1> DEFINE T == {x \in S : SameBlock(perArch, x, p) /\ PkgEvr[x] > PkgEvr[p]}
           f == [x \in T |-> PkgEvr[x]]
<1>1. IsFiniteSet(T)
  <2>1. T \in SUBSET S
    OBVIOUS
  <2> QED
    BY <2>1, FS_Subset
<1>2. f \in Surjection(T, NewerIn(S, perArch, p))
  BY DEF Surjection, NewerIn
<1> QED
  BY <1>1, <1>2, FS_Surjection, FS_CardinalityType

\* s holds every package of S, in the order of the sort.
InOrder(S, perArch, n, s) ==
    /\ n \in Nat /\ s \in [1 .. n -> S]
    /\ \A p \in S : \E i \in 1 .. n : s[i] = p
    /\ \A i, j \in 1 .. n : Before(perArch, s[i], s[j]) <=> i < j

\* The sort leaves every package of S, each in one place, in the order.
LEMMA SamenameIs ==
    ASSUME DqPool, NEW S \in SUBSET InPool, NEW perArch \in BOOLEAN
    PROVE  InOrder(S, perArch, Cardinality(S), Samename(S, perArch))
<1> DEFINE n == Cardinality(S)
           s == Samename(S, perArch)
           R == {e \in S \X S : Before(perArch, e[1], e[2])}
           place(p) == Cardinality({o \in S : Before(perArch, o, p)})
<1>1. S \in SUBSET DqPkgs /\ IsFiniteSet(S) /\ n \in Nat
      /\ \A p \in S : IdOf(p) \in Nat /\ sackPool[IdOf(p)] = p
  BY PoolIsFinite, FS_Subset, FS_CardinalityType
<1>2. \A a, b \in S : <<a, b>> \in R <=> Before(perArch, a, b)
  OBVIOUS
<1> HIDE DEF R
<1>3. \A p \in S : PkgName[p] \in Int /\ PkgEvr[p] \in Int /\ ArchIn(perArch, p) \in Int
  BY <1>1, PkgNumbers
<1>4. ASSUME NEW a \in S PROVE ~ Before(perArch, a, a)
  BY <1>1, <1>3, BeforeIs
<1>5. ASSUME NEW a \in S, NEW b \in S, a # b PROVE Before(perArch, a, b) \/ Before(perArch, b, a)
  <2>1. IdOf(a) # IdOf(b) /\ IdOf(a) \in Nat /\ IdOf(b) \in Nat
    BY <1>1, <1>5
  <2>2. a \in DqPkgs /\ b \in DqPkgs
    BY <1>1
  <2> QED
    BY <1>3, <2>1, <2>2, BeforeIs
<1>6. ASSUME NEW a \in S, NEW b \in S, NEW c \in S, Before(perArch, a, b), Before(perArch, b, c)
      PROVE  Before(perArch, a, c)
  <2>1. a \in DqPkgs /\ b \in DqPkgs /\ c \in DqPkgs
        /\ IdOf(a) \in Nat /\ IdOf(b) \in Nat /\ IdOf(c) \in Nat
    BY <1>1
  <2> QED
    BY <1>3, <1>6, <2>1, BeforeIs
<1>7. \A p \in S : PlaceIn(S, R, p) = place(p)
  <2> SUFFICES ASSUME NEW p \in S PROVE PlaceIn(S, R, p) = place(p)
    OBVIOUS
  <2>1. {j \in S : <<j, p>> \in R} = {o \in S : Before(perArch, o, p)}
    BY <1>2
  <2> QED
    BY <2>1 DEF PlaceIn
<1>8. /\ \A p \in S : place(p) \in 0 .. n - 1
      /\ \A r \in 0 .. n - 1 : \E p \in S : place(p) = r
      /\ \A a, b \in S : Before(perArch, a, b) => place(a) < place(b)
  <2>1. /\ \A p \in S : PlaceIn(S, R, p) \in 0 .. n - 1
        /\ \A r \in 0 .. n - 1 : \E p \in S : PlaceIn(S, R, p) = r
        /\ \A a, b \in S : <<a, b>> \in R => PlaceIn(S, R, a) < PlaceIn(S, R, b)
    BY <1>1, <1>2, <1>4, <1>5, <1>6, RanksAreAll
  <2> HIDE DEF place
  <2> QED
    BY <1>2, <1>7, <2>1
<1>9. s = [k \in 1 .. n |-> CHOOSE p \in S : place(p) = k - 1]
  BY DEF Samename
<1> HIDE DEF s, n, place
<1>10. ASSUME NEW k \in 1 .. n PROVE s[k] \in S /\ place(s[k]) = k - 1
  <2>1. k - 1 \in 0 .. n - 1
    BY <1>1
  <2>2. \E p \in S : place(p) = k - 1
    BY <1>8, <2>1
  <2> QED
    BY <1>9, <2>2
<1>11. s \in [1 .. n -> S]
  BY <1>9, <1>10
<1>12. \A i, j \in 1 .. n : Before(perArch, s[i], s[j]) <=> i < j
  <2> SUFFICES ASSUME NEW i \in 1 .. n, NEW j \in 1 .. n
               PROVE  Before(perArch, s[i], s[j]) <=> i < j
    OBVIOUS
  <2>1. s[i] \in S /\ s[j] \in S /\ place(s[i]) = i - 1 /\ place(s[j]) = j - 1
    BY <1>10
  <2>2. Before(perArch, s[i], s[j]) => i - 1 < j - 1
    BY <1>8, <2>1
  <2>3. Before(perArch, s[j], s[i]) => j - 1 < i - 1
    BY <1>8, <2>1
  <2>4. s[i] # s[j] => Before(perArch, s[i], s[j]) \/ Before(perArch, s[j], s[i])
    BY <1>5, <2>1
  <2>5. i # j => s[i] # s[j]
    BY <2>1, <1>1
  <2> QED
    BY <1>1, <2>2, <2>3, <2>4, <2>5
<1>13. ASSUME NEW p \in S PROVE \E i \in 1 .. n : s[i] = p
  <2> DEFINE i == place(p) + 1
  <2>1. place(p) \in 0 .. n - 1
    BY <1>8
  <2>2. i \in 1 .. n /\ i - 1 = place(p)
    BY <1>1, <2>1
  <2>3. s[i] \in S /\ place(s[i]) = place(p)
    BY <1>10, <2>2
  <2>4. place(s[i]) \in 0 .. n - 1
    BY <1>8, <2>3
  <2> HIDE DEF i
  <2>5. ~ Before(perArch, s[i], p) /\ ~ Before(perArch, p, s[i])
    <3>1. /\ Before(perArch, s[i], p) => place(s[i]) < place(p)
          /\ Before(perArch, p, s[i]) => place(p) < place(s[i])
      BY <1>8, <2>3
    <3> QED
      BY <2>1, <2>3, <2>4, <3>1
  <2> QED
    BY <1>5, <2>2, <2>3, <2>5
<1> QED
  BY <1>1, <1>11, <1>12, <1>13 DEF InOrder, s, n

\* A loop over steps st that stay in D.
IsLoop(n, D, S, st, r) ==
    r \in [0 .. n -> D] /\ r[0] = S /\ \A k \in 1 .. n : r[k] = st[<<r[k - 1], k>>]

LEMMA LoopRuns ==
    ASSUME NEW n \in Nat, NEW D, NEW S \in D, NEW st, st \in [D \X (1 .. n) -> D]
    PROVE  \E r : IsLoop(n, D, S, st, r)
<1> DEFINE Some(m) == \E r \in [0 .. m -> D] : r[0] = S /\ \A k \in 1 .. m : r[k] = st[<<r[k - 1], k>>]
           G == {m \in 0 .. n : Some(m)}
<1>1. 0 \in G
  <2> DEFINE r == [k \in 0 .. 0 |-> S]
  <2>1. r \in [0 .. 0 -> D] /\ r[0] = S /\ 1 .. 0 = {}
    OBVIOUS
  <2> HIDE DEF r
  <2>2. Some(0)
    BY <2>1
  <2> HIDE DEF Some
  <2> QED
    BY <2>2
<1>2. ASSUME NEW m \in 1 .. n, m - 1 \in G PROVE m \in G
  <2>1. PICK r \in [0 .. m - 1 -> D] : r[0] = S /\ \A k \in 1 .. m - 1 : r[k] = st[<<r[k - 1], k>>]
    BY <1>2
  <2> DEFINE last == st[<<r[m - 1], m>>]
             w == [k \in 0 .. m |-> IF k = m THEN last ELSE r[k]]
  <2>2. m \in Nat /\ m # 0 /\ m - 1 \in 0 .. m - 1 /\ m \in 0 .. m
    OBVIOUS
  <2>3. last \in D
    <3>1. <<r[m - 1], m>> \in D \X (1 .. n)
      BY <2>1, <2>2
    <3> QED
      BY <3>1
  <2>4. \A k \in 0 .. m : k = m \/ k \in 0 .. m - 1
    BY <2>2
  <2> HIDE DEF last
  <2>5. w \in [0 .. m -> D] /\ w[m] = last /\ \A k \in 0 .. m - 1 : w[k] = r[k]
    BY <2>1, <2>2, <2>3, <2>4
  <2> HIDE DEF w
  <2>6. w[0] = S
    BY <2>1, <2>2, <2>5
  <2>7. ASSUME NEW k \in 1 .. m PROVE w[k] = st[<<w[k - 1], k>>]
    <3>1. k - 1 \in 0 .. m - 1 /\ w[k - 1] = r[k - 1]
      BY <2>2, <2>5
    <3>2. CASE k = m
      BY <2>5, <3>1, <3>2 DEF last
    <3>3. CASE k # m
      <4>1. k \in 1 .. m - 1 /\ k \in 0 .. m - 1
        BY <2>2, <3>3
      <4> QED
        BY <2>1, <2>5, <3>1, <4>1
    <3> QED
      BY <3>2, <3>3
  <2>8. Some(m)
    BY <2>5, <2>6, <2>7
  <2> HIDE DEF Some
  <2> QED
    BY <2>8
<1>3. n \in G
  <2> HIDE DEF G
  <2> QED
    BY <1>1, <1>2, ReachesUpTo
<1> QED
  BY <1>3 DEF IsLoop

\* The counter of add_latest_to_map.
CountsOf(s, perArch, h) ==
    h = [i \in DOMAIN s |->
           IF i = 1 THEN 0
           ELSE IF ~ SameBlock(perArch, s[i - 1], s[i]) THEN 0
           ELSE h[i - 1] + (IF PkgEvrId[s[i]] = PkgEvrId[s[i - 1]] THEN 0 ELSE 1)]

\* From package to package the number of newer versions in its block changes as
\* the counter would if it compared versions and not their spelling.
LEMMA CounterIs ==
    ASSUME DqPool, NEW S \in SUBSET InPool, NEW perArch \in BOOLEAN,
           NEW n, NEW s, InOrder(S, perArch, n, s)
    PROVE  \A i \in 1 .. n : Cardinality(NewerIn(S, perArch, s[i])) =
              IF i = 1 THEN 0
              ELSE IF ~ SameBlock(perArch, s[i - 1], s[i]) THEN 0
              ELSE Cardinality(NewerIn(S, perArch, s[i - 1]))
                     + (IF PkgEvr[s[i]] = PkgEvr[s[i - 1]] THEN 0 ELSE 1)
<1>0. /\ n \in Nat /\ s \in [1 .. n -> S]
      /\ \A p \in S : \E i \in 1 .. n : s[i] = p
      /\ \A i, j \in 1 .. n : Before(perArch, s[i], s[j]) <=> i < j
  BY DEF InOrder
<1> DEFINE newer(i) == NewerIn(S, perArch, s[i])
<1>1. S \in SUBSET DqPkgs /\ IsFiniteSet(S)
  BY PoolIsFinite, FS_Subset
<1>2. \A i \in 1 .. n : /\ s[i] \in S /\ s[i] \in DqPkgs /\ PkgName[s[i]] \in Int
                        /\ PkgEvr[s[i]] \in Int /\ ArchIn(perArch, s[i]) \in Int
  BY <1>0, <1>1, PkgNumbers
<1>3. \A i, j \in 1 .. n : SameBlock(perArch, s[i], s[j])
         <=> PkgName[s[i]] = PkgName[s[j]] /\ ArchIn(perArch, s[i]) = ArchIn(perArch, s[j])
  BY SameBlockIs
<1>4. \A i, j \in 1 .. n : i < j =>
         \/ PkgName[s[i]] < PkgName[s[j]]
         \/ PkgName[s[i]] = PkgName[s[j]] /\ ArchIn(perArch, s[i]) < ArchIn(perArch, s[j])
         \/ SameBlock(perArch, s[i], s[j]) /\ PkgEvr[s[i]] >= PkgEvr[s[j]]
  <2> SUFFICES ASSUME NEW i \in 1 .. n, NEW j \in 1 .. n, i < j
               PROVE  \/ PkgName[s[i]] < PkgName[s[j]]
                      \/ PkgName[s[i]] = PkgName[s[j]] /\ ArchIn(perArch, s[i]) < ArchIn(perArch, s[j])
                      \/ SameBlock(perArch, s[i], s[j]) /\ PkgEvr[s[i]] >= PkgEvr[s[j]]
    OBVIOUS
  <2>1. Before(perArch, s[i], s[j]) /\ s[i] \in DqPkgs /\ s[j] \in DqPkgs
        /\ PkgEvr[s[i]] \in Int /\ PkgEvr[s[j]] \in Int
    BY <1>0, <1>2
  <2> QED
    BY <1>3, <2>1, BeforeIs
\* Of two packages of a block the newer one comes first.
<1>5. ASSUME NEW i \in 1 .. n, NEW j \in 1 .. n, SameBlock(perArch, s[j], s[i]), PkgEvr[s[j]] > PkgEvr[s[i]]
      PROVE  j < i
  <2>1. PkgName[s[i]] = PkgName[s[j]] /\ ArchIn(perArch, s[i]) = ArchIn(perArch, s[j])
    BY <1>3, <1>5
  <2>2. i # j
    BY <1>2, <1>5
  <2>3. ~ (i < j)
    BY <1>2, <1>4, <1>5, <2>1
  <2> QED
    BY <2>2, <2>3
<1>6. \A i \in 1 .. n : \A v : v \in newer(i) <=>
         \E j \in 1 .. n : SameBlock(perArch, s[j], s[i]) /\ PkgEvr[s[j]] > PkgEvr[s[i]] /\ v = PkgEvr[s[j]]
  <2> SUFFICES ASSUME NEW i \in 1 .. n, NEW v
               PROVE  v \in newer(i) <=>
                        \E j \in 1 .. n : /\ SameBlock(perArch, s[j], s[i]) /\ PkgEvr[s[j]] > PkgEvr[s[i]]
                                          /\ v = PkgEvr[s[j]]
    OBVIOUS
  <2>1. v \in newer(i) <=> \E o \in S : /\ SameBlock(perArch, o, s[i]) /\ PkgEvr[o] > PkgEvr[s[i]]
                                        /\ v = PkgEvr[o]
    BY DEF NewerIn
  <2> QED
    BY <1>0, <1>2, <2>1
<1>7. \A i \in 1 .. n : IsFiniteSet(newer(i)) /\ Cardinality(newer(i)) \in Nat
  BY <1>1, NewerIsFinite
<1> HIDE DEF newer
<1>8. Cardinality({}) = 0
  BY FS_EmptySet
<1>9. ASSUME NEW i \in 1 .. n, i = 1 \/ ~ SameBlock(perArch, s[i - 1], s[i]) PROVE newer(i) = {}
  <2>1. ASSUME NEW j \in 1 .. n, SameBlock(perArch, s[j], s[i]), PkgEvr[s[j]] > PkgEvr[s[i]]
        PROVE  FALSE
    <3>1. j < i
      BY <1>5, <2>1
    <3>2. i # 1 /\ i - 1 \in 1 .. n /\ ~ SameBlock(perArch, s[i - 1], s[i]) /\ j # i - 1
      BY <1>0, <1>9, <2>1, <3>1
    <3>3. j < i - 1 /\ i - 1 < i
      BY <3>1, <3>2
    <3>4. PkgName[s[i]] = PkgName[s[j]] /\ ArchIn(perArch, s[i]) = ArchIn(perArch, s[j])
      BY <1>3, <2>1
    <3> DEFINE h == i - 1
    <3>5. h \in 1 .. n /\ j < h /\ h < i /\ ~ SameBlock(perArch, s[h], s[i])
      BY <3>2, <3>3
    <3> HIDE DEF h
    <3>6. \/ PkgName[s[j]] < PkgName[s[h]]
          \/ PkgName[s[j]] = PkgName[s[h]] /\ ArchIn(perArch, s[j]) < ArchIn(perArch, s[h])
          \/ SameBlock(perArch, s[j], s[h])
      BY <1>4, <3>5
    <3>7. \/ PkgName[s[h]] < PkgName[s[i]]
          \/ PkgName[s[h]] = PkgName[s[i]] /\ ArchIn(perArch, s[h]) < ArchIn(perArch, s[i])
      BY <1>4, <3>5
    <3> QED
      BY <1>2, <1>3, <3>4, <3>5, <3>6, <3>7
  <2> QED
    BY <1>6, <2>1
<1>10. ASSUME NEW i \in 1 .. n, i # 1, SameBlock(perArch, s[i - 1], s[i])
       PROVE  Cardinality(newer(i)) = Cardinality(newer(i - 1))
                                        + (IF PkgEvr[s[i]] = PkgEvr[s[i - 1]] THEN 0 ELSE 1)
  <2> DEFINE h == i - 1
  <2>1. h \in 1 .. n /\ h < i /\ SameBlock(perArch, s[h], s[i]) /\ \A j \in 1 .. n : j < i => j = h \/ j < h
    BY <1>0, <1>10
  <2> HIDE DEF h
  <2>2. PkgName[s[h]] = PkgName[s[i]] /\ ArchIn(perArch, s[h]) = ArchIn(perArch, s[i])
    BY <1>3, <2>1
  <2>3. PkgEvr[s[h]] >= PkgEvr[s[i]] /\ PkgEvr[s[h]] \in Int /\ PkgEvr[s[i]] \in Int
    BY <1>2, <1>4, <2>1, <2>2
  <2>4. \A j \in 1 .. n : SameBlock(perArch, s[j], s[h]) <=> SameBlock(perArch, s[j], s[i])
    BY <1>3, <2>1, <2>2
  <2>5. newer(h) \subseteq newer(i)
    <3> SUFFICES ASSUME NEW v \in newer(h) PROVE v \in newer(i)
      OBVIOUS
    <3>1. PICK j \in 1 .. n : SameBlock(perArch, s[j], s[h]) /\ PkgEvr[s[j]] > PkgEvr[s[h]] /\ v = PkgEvr[s[j]]
      BY <1>6, <2>1
    <3>2. PkgEvr[s[j]] > PkgEvr[s[i]]
      BY <1>2, <2>3, <3>1
    <3> QED
      BY <1>6, <2>4, <3>1, <3>2
  <2>6. \A v \in newer(i) : v \in newer(h) \/ v = PkgEvr[s[h]]
    <3> SUFFICES ASSUME NEW v \in newer(i), v # PkgEvr[s[h]] PROVE v \in newer(h)
      OBVIOUS
    <3>1. PICK j \in 1 .. n : SameBlock(perArch, s[j], s[i]) /\ PkgEvr[s[j]] > PkgEvr[s[i]] /\ v = PkgEvr[s[j]]
      BY <1>6
    <3>2. j < h
      BY <1>5, <2>1, <3>1
    <3>3. PkgName[s[j]] = PkgName[s[h]] /\ ArchIn(perArch, s[j]) = ArchIn(perArch, s[h])
      BY <1>3, <2>1, <2>4, <3>1
    <3>4. PkgEvr[s[j]] >= PkgEvr[s[h]]
      BY <1>2, <1>4, <2>1, <3>2, <3>3
    <3>5. PkgEvr[s[j]] > PkgEvr[s[h]]
      BY <1>2, <2>3, <3>1, <3>4
    <3> QED
      BY <1>6, <2>1, <2>4, <3>1, <3>5
  <2>7. PkgEvr[s[h]] \notin newer(h)
    <3> SUFFICES ASSUME PkgEvr[s[h]] \in newer(h) PROVE FALSE
      OBVIOUS
    <3>1. PICK j \in 1 .. n : PkgEvr[s[j]] > PkgEvr[s[h]] /\ PkgEvr[s[h]] = PkgEvr[s[j]]
      BY <1>6, <2>1
    <3> QED
      BY <1>2, <3>1
  <2>8. CASE PkgEvr[s[i]] = PkgEvr[s[h]]
    <3>1. PkgEvr[s[h]] \notin newer(i)
      <4> SUFFICES ASSUME PkgEvr[s[h]] \in newer(i) PROVE FALSE
        OBVIOUS
      <4>1. PICK j \in 1 .. n : PkgEvr[s[j]] > PkgEvr[s[i]] /\ PkgEvr[s[h]] = PkgEvr[s[j]]
        BY <1>6
      <4> QED
        BY <1>2, <2>8, <4>1
    <3>2. newer(i) = newer(h)
      BY <2>5, <2>6, <3>1
    <3>3. Cardinality(newer(h)) \in Nat
      BY <1>7, <2>1
    <3> QED
      BY <2>8, <3>2, <3>3 DEF h
  <2>9. CASE PkgEvr[s[i]] # PkgEvr[s[h]]
    <3>1. PkgEvr[s[h]] > PkgEvr[s[i]]
      BY <2>3, <2>9
    <3>2. PkgEvr[s[h]] \in newer(i)
      BY <1>6, <2>1, <3>1
    <3>3. newer(i) = newer(h) \cup {PkgEvr[s[h]]}
      BY <2>5, <2>6, <3>2
    <3>4. IsFiniteSet(newer(h)) /\ Cardinality(newer(h)) \in Nat
      BY <1>7, <2>1
    <3>5. Cardinality(newer(h) \cup {PkgEvr[s[h]]}) = Cardinality(newer(h)) + 1
      BY <2>7, <3>4, FS_AddElement
    <3> QED
      BY <2>9, <3>3, <3>5 DEF h
  <2> QED
    BY <2>8, <2>9
<1> SUFFICES ASSUME NEW i \in 1 .. n
             PROVE  Cardinality(newer(i)) =
                      IF i = 1 THEN 0
                      ELSE IF ~ SameBlock(perArch, s[i - 1], s[i]) THEN 0
                      ELSE Cardinality(newer(i - 1)) + (IF PkgEvr[s[i]] = PkgEvr[s[i - 1]] THEN 0 ELSE 1)
  BY DEF newer
<1> QED
  BY <1>8, <1>9, <1>10

\* The counter exists: a number for each place of the list.
LEMMA CounterRuns ==
    ASSUME NEW n \in Nat, NEW s, DOMAIN s = 1 .. n, NEW perArch
    PROVE  \E h \in [1 .. n -> Nat] : CountsOf(s, perArch, h)
<1> DEFINE next(x, k) == IF k = 1 THEN 0
                         ELSE IF ~ SameBlock(perArch, s[k - 1], s[k]) THEN 0
                         ELSE x + (IF PkgEvrId[s[k]] = PkgEvrId[s[k - 1]] THEN 0 ELSE 1)
           st == [y \in Nat \X (1 .. n) |-> next(y[1], y[2])]
<1>1. \A x \in Nat, k \in 1 .. n : next(x, k) \in Nat
  OBVIOUS
<1>2. st \in [Nat \X (1 .. n) -> Nat] /\ \A x \in Nat, k \in 1 .. n : st[<<x, k>>] = next(x, k)
  <2> HIDE DEF next
  <2> QED
    BY <1>1
<1> HIDE DEF st
<1>3. PICK r : IsLoop(n, Nat, 0, st, r)
  BY <1>2, LoopRuns
<1>4. r \in [0 .. n -> Nat] /\ \A k \in 1 .. n : r[k] = st[<<r[k - 1], k>>]
  BY <1>3 DEF IsLoop
<1>5. \A k \in 1 .. n : r[k] = next(r[k - 1], k) /\ r[k] \in Nat
  <2> HIDE DEF next
  <2> SUFFICES ASSUME NEW k \in 1 .. n PROVE r[k] = next(r[k - 1], k) /\ r[k] \in Nat
    OBVIOUS
  <2>1. k - 1 \in 0 .. n /\ k \in 0 .. n
    OBVIOUS
  <2> QED
    BY <1>2, <1>4, <2>1
<1> DEFINE h == [k \in 1 .. n |-> r[k]]
<1>6. h \in [1 .. n -> Nat] /\ \A k \in 1 .. n : h[k] = r[k]
  BY <1>5
<1>7. \A k \in 1 .. n : k = 1 \/ k - 1 \in 1 .. n
  OBVIOUS
<1>8. \A k \in 1 .. n : h[k] =
           IF k = 1 THEN 0
           ELSE IF ~ SameBlock(perArch, s[k - 1], s[k]) THEN 0
           ELSE h[k - 1] + (IF PkgEvrId[s[k]] = PkgEvrId[s[k - 1]] THEN 0 ELSE 1)
  BY <1>5, <1>6, <1>7
<1>9. h = [k \in 1 .. n |-> h[k]]
  OBVIOUS
<1> HIDE DEF h
<1> QED
  BY <1>6, <1>8, <1>9 DEF CountsOf

\* What filterLatest counts at each package of S is at least the number of newer
\* versions in its block, and this number where versions are spelled alike; it
\* keeps the packages by their count.
Counts(S, perArch, c) ==
    /\ c \in [S -> Nat]
    /\ \A p \in S : Cardinality(NewerIn(S, perArch, p)) \in Nat
                    /\ Cardinality(NewerIn(S, perArch, p)) <= c[p]
    /\ SpeltAlike(S, perArch) => \A p \in S : c[p] = Cardinality(NewerIn(S, perArch, p))
    /\ \A latest \in Int \ {0} :
          FilterLatest(S, perArch, latest) =
             {p \in S : IF latest > 0 THEN c[p] < latest ELSE c[p] >= 0 - latest}

LEMMA LatestCounts ==
    ASSUME DqPool, NEW S \in SUBSET InPool, NEW perArch \in BOOLEAN
    PROVE  \E c : Counts(S, perArch, c)
<1> DEFINE n == Cardinality(S)
           s == Samename(S, perArch)
<1>1. InOrder(S, perArch, n, s)
  BY SamenameIs
<1>2. \A latest \in Int \ {0} : FilterLatest(S, perArch, latest) = LatestOf(s, perArch, latest)
  BY DEF FilterLatest
<1> HIDE DEF n, s
<1>3. /\ n \in Nat /\ s \in [1 .. n -> S] /\ DOMAIN s = 1 .. n
      /\ \A p \in S : \E i \in 1 .. n : s[i] = p
      /\ \A i, j \in 1 .. n : Before(perArch, s[i], s[j]) <=> i < j
  BY <1>1 DEF InOrder
<1>4. S \in SUBSET DqPkgs /\ IsFiniteSet(S)
  BY PoolIsFinite, FS_Subset
<1> DEFINE newer(i) == Cardinality(NewerIn(S, perArch, s[i]))
           counter == CHOOSE h : CountsOf(s, perArch, h)
           Keep(latest, x) == IF latest > 0 THEN x < latest ELSE x >= 0 - latest
<1>5. \A i \in 1 .. n : newer(i) =
            IF i = 1 THEN 0
            ELSE IF ~ SameBlock(perArch, s[i - 1], s[i]) THEN 0
            ELSE newer(i - 1) + (IF PkgEvr[s[i]] = PkgEvr[s[i - 1]] THEN 0 ELSE 1)
  BY <1>1, CounterIs
<1>6. \A p \in S : Cardinality(NewerIn(S, perArch, p)) \in Nat
  BY <1>4, NewerIsFinite
<1>7. \A i \in 1 .. n : newer(i) \in Nat /\ s[i] \in S /\ s[i] \in DqPkgs
  BY <1>3, <1>4, <1>6
<1>8. \A latest \in Int \ {0} :
         LatestOf(s, perArch, latest) = {s[i] : i \in {k \in 1 .. n : Keep(latest, counter[k])}}
  BY <1>3 DEF LatestOf, CountsOf
<1> HIDE DEF newer
<1>9. CountsOf(s, perArch, counter)
  <2>1. \E h : CountsOf(s, perArch, h)
    BY <1>3, CounterRuns
  <2> QED
    BY <2>1
<1> HIDE DEF counter, Keep
<1>10. \A i \in 1 .. n : counter[i] =
            IF i = 1 THEN 0
            ELSE IF ~ SameBlock(perArch, s[i - 1], s[i]) THEN 0
            ELSE counter[i - 1] + (IF PkgEvrId[s[i]] = PkgEvrId[s[i - 1]] THEN 0 ELSE 1)
  BY <1>3, <1>9 DEF CountsOf
<1> DEFINE Alike == SpeltAlike(S, perArch)
           Good(m) == counter[m] \in Nat /\ newer(m) <= counter[m] /\ (Alike => counter[m] = newer(m))
           G == {m \in 0 .. n : m = 0 \/ Good(m)}
<1>11. ASSUME NEW m \in 1 .. n, m - 1 \in G PROVE m \in G
  <2>1. CASE m = 1 \/ ~ SameBlock(perArch, s[m - 1], s[m])
    <3>1. counter[m] = 0 /\ newer(m) = 0
      BY <1>5, <1>10, <2>1
    <3> QED
      BY <3>1
  <2>2. CASE m # 1 /\ SameBlock(perArch, s[m - 1], s[m])
    <3> DEFINE l == m - 1
    <3>1. l \in 1 .. n /\ Good(l)
      BY <1>11, <2>2
    <3>2. newer(m) = newer(l) + (IF PkgEvr[s[m]] = PkgEvr[s[l]] THEN 0 ELSE 1)
      BY <1>5, <2>2
    <3>3. counter[m] = counter[l] + (IF PkgEvrId[s[m]] = PkgEvrId[s[l]] THEN 0 ELSE 1)
      BY <1>10, <2>2
    <3>4. PkgEvrId[s[m]] = PkgEvrId[s[l]] => PkgEvr[s[m]] = PkgEvr[s[l]]
      BY <1>7, <3>1, DnfQueryAssumption DEF DqPkgs
    <3>5. Alike /\ PkgEvr[s[m]] = PkgEvr[s[l]] => PkgEvrId[s[m]] = PkgEvrId[s[l]]
      <4>1. s[l] \in S /\ s[m] \in S /\ SameBlock(perArch, s[l], s[m])
        BY <1>7, <2>2, <3>1
      <4> QED
        BY <4>1 DEF SpeltAlike
    <3> HIDE DEF l, Alike
    <3>6. newer(m) \in Nat /\ newer(l) \in Nat
      BY <1>7, <3>1
    <3> QED
      BY <3>1, <3>2, <3>3, <3>4, <3>5, <3>6
  <2> QED
    BY <2>1, <2>2
<1>12. ASSUME NEW i \in 1 .. n PROVE Good(i)
  <2>1. 0 \in G /\ \A m \in 1 .. i : m - 1 \in G => m \in G
    BY <1>3, <1>11
  <2> HIDE DEF G
  <2>2. i \in G
    BY <1>3, <2>1, ReachesUpTo
  <2> QED
    BY <2>2 DEF G
\* A package stands in one place.
<1>13. \A i, j \in 1 .. n : s[i] = s[j] => i = j
  <2> SUFFICES ASSUME NEW i \in 1 .. n, NEW j \in 1 .. n, s[i] = s[j] PROVE i = j
    OBVIOUS
  <2>1. ~ (i < j) /\ ~ (j < i)
    BY <1>3
  <2> QED
    BY <2>1
<1> DEFINE at(p) == CHOOSE i \in 1 .. n : s[i] = p
           c == [p \in S |-> counter[at(p)]]
<1>14. \A p \in S : at(p) \in 1 .. n /\ s[at(p)] = p
  BY <1>3
<1>15. \A i \in 1 .. n : at(s[i]) = i
  BY <1>7, <1>13, <1>14
<1>16. \A i \in 1 .. n : c[s[i]] = counter[i]
  BY <1>7, <1>15
<1>17. \A p \in S : c[p] = counter[at(p)]
  OBVIOUS
<1>18. c \in [S -> Nat]
  BY <1>12, <1>14
<1> HIDE DEF at, c
<1>19. \A p \in S : /\ Cardinality(NewerIn(S, perArch, p)) <= c[p]
                    /\ Alike => c[p] = Cardinality(NewerIn(S, perArch, p))
  BY <1>12, <1>14, <1>17 DEF newer
<1>20. \A latest \in Int \ {0} : FilterLatest(S, perArch, latest) = {p \in S : Keep(latest, c[p])}
  <2> SUFFICES ASSUME NEW latest \in Int \ {0}
               PROVE  FilterLatest(S, perArch, latest) = {p \in S : Keep(latest, c[p])}
    OBVIOUS
  <2>1. FilterLatest(S, perArch, latest) = {s[i] : i \in {k \in 1 .. n : Keep(latest, counter[k])}}
    BY <1>2, <1>8
  <2>2. \A i \in 1 .. n : Keep(latest, c[s[i]]) <=> Keep(latest, counter[i])
    BY <1>16
  <2> QED
    BY <1>3, <1>7, <2>1, <2>2
<1> QED
  BY <1>6, <1>18, <1>19, <1>20 DEF Counts, Keep

LEMMA NewestAndRest ==
    ASSUME DqPool, NEW S \in SUBSET InPool, NEW perArch \in BOOLEAN, NEW n \in 1 .. 2
    PROVE  /\ FilterLatest(S, perArch, n) \subseteq Newest(S, perArch, n)
           /\ SpeltAlike(S, perArch) => FilterLatest(S, perArch, n) = Newest(S, perArch, n)
           /\ FilterLatest(S, perArch, 0 - n) = S \ FilterLatest(S, perArch, n)
<1>1. PICK c : Counts(S, perArch, c)
  BY LatestCounts
<1>2. /\ \A p \in S : /\ c[p] \in Nat /\ Cardinality(NewerIn(S, perArch, p)) \in Nat
                      /\ Cardinality(NewerIn(S, perArch, p)) <= c[p]
                      /\ SpeltAlike(S, perArch) => c[p] = Cardinality(NewerIn(S, perArch, p))
      /\ \A latest \in Int \ {0} :
            FilterLatest(S, perArch, latest) =
               {p \in S : IF latest > 0 THEN c[p] < latest ELSE c[p] >= 0 - latest}
  BY <1>1 DEF Counts
<1>3. n \in Int \ {0} /\ 0 - n \in Int \ {0} /\ n > 0 /\ ~ (0 - n > 0) /\ 0 - (0 - n) = n
  OBVIOUS
<1>4. FilterLatest(S, perArch, n) = {p \in S : c[p] < n}
  BY <1>2, <1>3
<1>5. FilterLatest(S, perArch, 0 - n) = {p \in S : c[p] >= n}
  <2> DEFINE m == 0 - n
  <2>1. m \in Int \ {0} /\ ~ (m > 0) /\ 0 - m = n
    BY <1>3
  <2> HIDE DEF m
  <2>2. FilterLatest(S, perArch, m) = {p \in S : c[p] >= n}
    BY <1>2, <2>1
  <2> QED
    BY <2>2 DEF m
<1>6. Newest(S, perArch, n) = {p \in S : Cardinality(NewerIn(S, perArch, p)) < n}
  BY DEF Newest
<1>7. FilterLatest(S, perArch, n) \subseteq Newest(S, perArch, n)
  BY <1>2, <1>4, <1>6
<1>8. SpeltAlike(S, perArch) => FilterLatest(S, perArch, n) = Newest(S, perArch, n)
  BY <1>2, <1>4, <1>6
<1>9. FilterLatest(S, perArch, 0 - n) = S \ FilterLatest(S, perArch, n)
  BY <1>2, <1>4, <1>5
<1> QED
  BY <1>7, <1>8, <1>9

-----------------------------------------------------------------------------
(* The filters of a query, staged or not.                                  *)

DqKeys == {"EMPTY", "PKG", "NAME", "REPONAME", "LATEST", "LATEST_PER_ARCH", "UPGRADES",
           "DOWNGRADES", "OBSOLETES", "OBSOLETES_BY_PRIORITY", "UPGRADES_BY_PRIORITY",
           "UPGRADABLE", "DOWNGRADABLE"}

DqAsked == {Stored(f, P) : f \in {g \in Filters : ValidFilter(g)}, P \in SUBSET DqPkgs}

LEMMA StoredIs ==
    ASSUME NEW f \in Filters, ValidFilter(f), NEW P
    PROVE  /\ Stored(f, P).key \in DqKeys
           /\ Stored(f, P).key = "OBSOLETES_BY_PRIORITY" => f.type = "pkg" /\ Stored(f, P).arg = f.arg
<1> DEFINE k == f.key
           t == f.type
<1>1. t \in {"num", "pkg", "reldep", "str"} /\ k \in MatchType(t)
  BY DnfQueryAssumption DEF ValidFilter
<1>2. ASSUME NEW c, NEW a, NEW m, NEW l, NEW u
      PROVE  StoredFilter(l, u, c, a, m).key = l /\ StoredFilter(l, u, c, a, m).arg = a
  BY DEF StoredFilter
<1>3. CASE t = "num" \/ t = "pkg"
  <2>1. k \in DqKeys /\ (k = "OBSOLETES_BY_PRIORITY" => t = "pkg")
    BY <1>1, <1>3 DEF MatchType, DqKeys
  <2>2. Stored(f, P) = StoredFilter(k, t, f.cmp, f.arg, P)
    BY <1>3 DEF Stored
  <2> QED
    BY <1>2, <2>1, <2>2
<1>4. CASE t = "reldep" \/ (t = "str" /\ k = "OBSOLETES")
  <2>1. k = "OBSOLETES"
    BY <1>1, <1>4 DEF MatchType
  <2>2. Stored(f, P) = IF f.arg = {} THEN StoredFilter("EMPTY", "num", {"EQ"}, 1, {})
                       ELSE StoredFilter(k, "reldep", {"EQ"}, f.arg, {})
    BY <1>4, <2>1 DEF Stored
  <2>3. Stored(f, P).key \in {"EMPTY", "OBSOLETES"}
    BY <1>2, <2>1, <2>2
  <2> QED
    BY <2>3 DEF DqKeys
<1>5. CASE t = "str" /\ k # "OBSOLETES"
  <2>1. k \in {"NAME", "REPONAME"}
    BY <1>1, <1>5 DEF MatchType
  <2>2. \E c : Stored(f, P) = StoredFilter(k, t, c, f.arg, {})
    BY <1>5 DEF Stored
  <2>3. Stored(f, P).key = k
    BY <1>2, <2>2
  <2> QED
    BY <2>1, <2>3 DEF DqKeys
<1> QED
  BY <1>1, <1>3, <1>4, <1>5

LEMMA AskedIs ==
    ASSUME NEW f \in DqAsked
    PROVE  f.key \in DqKeys
BY StoredIs DEF DqAsked

\* What a filter that does not look around names in S, in a pool that may grow.
MeantBy(pool, S, f) ==
    CASE f.key = "EMPTY" -> {}
      [] f.key = "PKG" -> f.arg
      [] f.key = "NAME" -> {p \in S : PkgName[p] \in f.arg}
      [] f.key = "REPONAME" -> {p \in S : RepoOf(p) \in f.arg}
      [] f.key = "LATEST" -> LatestIn(pool, S, FALSE, f.arg)
      [] f.key = "LATEST_PER_ARCH" -> LatestIn(pool, S, TRUE, f.arg)
      [] f.key = "OBSOLETES" -> {p \in S : PkgObsoletes[p] \cap f.arg # {}}
      [] f.key = "OBSOLETES_BY_PRIORITY" ->
            {p \in BestPriority(S) \cup {p \in S : RepoOf(p) = SystemRepo} :
                \E o \in f.arg : PkgName[o] \in PkgObsoletes[p]}

\* What it leaves of S; what a package set was not made for passes.
Kept(pool, S, f) ==
    IF "NOT" \in f.cmp THEN S \ MeantBy(pool, S, f)
    ELSE {p \in S : (f.key = "PKG" => p \in f.made) => p \in MeantBy(pool, S, f)}

\* None of the filters fs looks beyond the result; the packages they name are
\* in P.
Plain(fs) == \A i \in 1 .. Len(fs) : fs[i].key \notin LooksAround

NamesIn(fs, P) ==
    \A i \in 1 .. Len(fs) : fs[i].key = "OBSOLETES_BY_PRIORITY" => fs[i].arg \subseteq P

LEMMA NarrowedShrinks ==
    ASSUME NEW own, NEW S, NEW fs, NEW k
    PROVE  Narrowed(own, S, fs, k) \in SUBSET S
BY DEF Narrowed

LEMMA MatchedIsMeant ==
    ASSUME DqPool, NEW own, NEW S \in SUBSET InPool, NEW f \in DqAsked, f.key \notin LooksAround,
           f.key = "OBSOLETES_BY_PRIORITY" => f.arg \subseteq InPool
    PROVE  Matched(own, S, f) = MeantBy(sackPool, S, f)
<1>1. f.key \in {"EMPTY", "PKG", "NAME", "REPONAME", "LATEST", "LATEST_PER_ARCH", "OBSOLETES",
                 "OBSOLETES_BY_PRIORITY"}
  BY AskedIs DEF DqKeys, LooksAround
<1>2. CASE f.key = "EMPTY"
  BY <1>2 DEF Matched, MeantBy
<1>3. CASE f.key = "PKG"
  BY <1>3 DEF Matched, MeantBy
<1>4. CASE f.key = "NAME"
  BY <1>4 DEF Matched, MeantBy
<1>5. CASE f.key = "REPONAME"
  BY <1>5 DEF Matched, MeantBy
<1>6. CASE f.key = "LATEST"
  <2>1. FilterLatest(S, FALSE, f.arg) = LatestIn(sackPool, S, FALSE, f.arg)
    BY LatestInPool
  <2> QED
    BY <1>6, <2>1 DEF Matched, MeantBy
<1>7. CASE f.key = "LATEST_PER_ARCH"
  <2>1. FilterLatest(S, TRUE, f.arg) = LatestIn(sackPool, S, TRUE, f.arg)
    BY LatestInPool
  <2> QED
    BY <1>7, <2>1 DEF Matched, MeantBy
<1>8. CASE f.key = "OBSOLETES"
  BY <1>8 DEF Matched, MeantBy
<1>9. CASE f.key = "OBSOLETES_BY_PRIORITY"
  <2>1. S \cap Installed = {p \in S : RepoOf(p) = SystemRepo}
    BY DEF Installed, OfRepo
  <2>2. f.arg \cap InPool = f.arg
    BY <1>9
  <2>3. FilterObsoletesByPriority(S, f.arg) = MeantBy(sackPool, S, f)
    BY <1>9, <2>1, <2>2 DEF FilterObsoletesByPriority, MeantBy
  <2> QED
    BY <1>9, <2>3 DEF Matched
<1> QED
  BY <1>1, <1>2, <1>3, <1>4, <1>5, <1>6, <1>7, <1>8, <1>9

\* The map that an older package set left does not show while the filters are
\* settled.
LEMMA NarrowedIsKept ==
    ASSUME DqPool, NEW own, NEW T \in SUBSET InPool, NEW S \in SUBSET T, NEW fs \in Seq(DqAsked),
           NEW k \in 1 .. Len(fs), Plain(fs), NamesIn(fs, InPool), Settled(T, fs)
    PROVE  Narrowed(own, S, fs, k) = Kept(sackPool, S, fs[k])
<1> DEFINE f == fs[k]
           M == MeantBy(sackPool, S, f)
<1>1. /\ Len(fs) \in Nat /\ DOMAIN fs = 1 .. Len(fs) /\ f \in DqAsked /\ f.key \notin LooksAround
      /\ f.key = "OBSOLETES_BY_PRIORITY" => f.arg \subseteq InPool
  BY DEF Plain, NamesIn
<1>2. Matched(own, S, f) = M
  <2>1. S \in SUBSET InPool
    OBVIOUS
  <2> HIDE DEF f
  <2> QED
    BY <1>1, <2>1, MatchedIsMeant
<1>3. ASSUME f.key = "PKG", NEW p PROVE InMap(fs, k, p) <=> p \in f.made
  <2>1. k \in 1 .. k /\ k + 1 .. k = {}
    BY <1>1
  <2>2. ASSUME NEW i \in 1 .. k, \A j \in i + 1 .. k : fs[j].key # "PKG" PROVE i = k
    <3>1. i # k => k \in i + 1 .. k
      BY <1>1
    <3> QED
      BY <1>3, <2>2, <3>1
  <2> QED
    BY <1>3, <2>1, <2>2 DEF InMap
<1>4. ASSUME f.key # "PKG", "NOT" \notin f.cmp, NEW p \in S PROVE InMap(fs, k, p)
  <2> SUFFICES ASSUME NEW i \in 1 .. k, fs[i].key = "PKG" PROVE p \in fs[i].made
    BY DEF InMap
  <2>1. i # k /\ i \in DOMAIN fs /\ k \in i + 1 .. Len(fs)
    BY <1>1, <1>4
  <2>2. T \subseteq fs[i].made
    BY <1>4, <2>1 DEF Settled
  <2> QED
    BY <2>2
<1>5. Narrowed(own, S, fs, k) = IF "NOT" \in f.cmp THEN S \ M ELSE {p \in S : InMap(fs, k, p) => p \in M}
  BY <1>2 DEF Narrowed
<1>6. Kept(sackPool, S, f) = IF "NOT" \in f.cmp THEN S \ M
                             ELSE {p \in S : (f.key = "PKG" => p \in f.made) => p \in M}
  BY DEF Kept
<1> HIDE DEF f, M
<1>7. Narrowed(own, S, fs, k) = Kept(sackPool, S, f)
  BY <1>3, <1>4, <1>5, <1>6
<1> QED
  BY <1>7 DEF f

\* Some walk through the filters fs leads from S to T.
Leads(pool, S, fs, T) ==
    \E r : /\ r[0] = S /\ r[Len(fs)] = T
           /\ \A k \in 0 .. Len(fs) : r[k] \subseteq S
           /\ \A k \in 1 .. Len(fs) : r[k] = Kept(pool, r[k - 1], fs[k])

LEMMA LeadsDown ==
    ASSUME NEW pool, NEW S, NEW fs \in Seq(DqAsked), NEW T, Leads(pool, S, fs, T)
    PROVE  T \subseteq S
<1>1. Len(fs) \in 0 .. Len(fs)
  OBVIOUS
<1> QED
  BY <1>1 DEF Leads

LEMMA KeptStays ==
    ASSUME NEW pool \in Seq(DqPkgs), NEW e \in Seq(DqPkgs), NEW S \in SUBSET ToSet(pool), NEW f \in DqAsked
    PROVE  Kept(pool \o e, S, f) = Kept(pool, S, f)
<1>1. \A a, l : LatestIn(pool \o e, S, a, l) = LatestIn(pool, S, a, l)
  BY LatestStays
<1>2. MeantBy(pool \o e, S, f) = MeantBy(pool, S, f)
  <2>1. CASE f.key = "LATEST"
    BY <1>1, <2>1 DEF MeantBy
  <2>2. CASE f.key = "LATEST_PER_ARCH"
    BY <1>1, <2>2 DEF MeantBy
  <2>3. CASE f.key \notin {"LATEST", "LATEST_PER_ARCH"}
    BY <2>3 DEF MeantBy
  <2> QED
    BY <2>1, <2>2, <2>3
<1> QED
  BY <1>2 DEF Kept

LEMMA LeadsStays ==
    ASSUME NEW pool \in Seq(DqPkgs), NEW e \in Seq(DqPkgs), NEW S \in SUBSET ToSet(pool),
           NEW fs \in Seq(DqAsked), NEW T, Leads(pool, S, fs, T)
    PROVE  Leads(pool \o e, S, fs, T)
<1>1. PICK r : /\ r[0] = S /\ r[Len(fs)] = T
               /\ \A k \in 0 .. Len(fs) : r[k] \subseteq S
               /\ \A k \in 1 .. Len(fs) : r[k] = Kept(pool, r[k - 1], fs[k])
  BY DEF Leads
<1>2. ASSUME NEW k \in 1 .. Len(fs) PROVE r[k] = Kept(pool \o e, r[k - 1], fs[k])
  <2>1. k - 1 \in 0 .. Len(fs) /\ fs[k] \in DqAsked
    OBVIOUS
  <2>2. r[k - 1] \in SUBSET ToSet(pool)
    BY <1>1, <2>1
  <2>3. Kept(pool \o e, r[k - 1], fs[k]) = Kept(pool, r[k - 1], fs[k])
    BY <2>1, <2>2, KeptStays
  <2> QED
    BY <1>1, <2>3
<1> QED
  BY <1>1, <1>2 DEF Leads

LEMMA LeadsNowhere ==
    ASSUME NEW pool, NEW S
    PROVE  Leads(pool, S, << >>, S)
<1> DEFINE r == [k \in {0} |-> S]
<1>1. r[0] = S /\ Len(<< >>) = 0 /\ 1 .. 0 = {} /\ 0 .. 0 = {0}
  OBVIOUS
<1> QED
  BY <1>1 DEF Leads

LEMMA LeadsOn ==
    ASSUME NEW pool, NEW S, NEW T, NEW U, NEW d \in Seq(DqAsked), NEW e \in Seq(DqAsked),
           Leads(pool, S, d, T), Leads(pool, T, e, U)
    PROVE  Leads(pool, S, d \o e, U)
<1>1. PICK r : /\ r[0] = S /\ r[Len(d)] = T /\ \A k \in 0 .. Len(d) : r[k] \subseteq S
               /\ \A k \in 1 .. Len(d) : r[k] = Kept(pool, r[k - 1], d[k])
  BY DEF Leads
<1>2. PICK t : /\ t[0] = T /\ t[Len(e)] = U /\ \A k \in 0 .. Len(e) : t[k] \subseteq T
               /\ \A k \in 1 .. Len(e) : t[k] = Kept(pool, t[k - 1], e[k])
  BY DEF Leads
<1> DEFINE n == Len(d)
           m == Len(e)
           c == d \o e
           w == [k \in 0 .. n + m |-> IF k <= n THEN r[k] ELSE t[k - n]]
<1>3. n \in Nat /\ m \in Nat /\ Len(c) = n + m
      /\ (\A k \in 1 .. n : c[k] = d[k]) /\ (\A k \in n + 1 .. n + m : c[k] = e[k - n])
  OBVIOUS
<1>4. r[n] = T /\ t[m] = U
  BY <1>1, <1>2
<1>0. (\A k \in 0 .. n : r[k] \subseteq S) /\ (\A k \in 0 .. m : t[k] \subseteq T) /\ T \subseteq S
  <2>1. n \in 0 .. n
    BY <1>3
  <2> QED
    BY <1>1, <1>2, <2>1
<1>5. (\A k \in 1 .. n : r[k] = Kept(pool, r[k - 1], d[k])) /\ (\A k \in 1 .. m : t[k] = Kept(pool, t[k - 1], e[k]))
  BY <1>1, <1>2
<1> HIDE DEF n, m, c
<1>6. \A k \in 0 .. n : w[k] = r[k]
  BY <1>3
<1>7. \A k \in n .. n + m : w[k] = t[k - n]
  <2> SUFFICES ASSUME NEW k \in n .. n + m PROVE w[k] = t[k - n]
    OBVIOUS
  <2>1. CASE k = n
    <3>1. k - n = 0 /\ w[k] = r[n]
      BY <1>3, <2>1
    <3> QED
      BY <1>2, <1>4, <3>1
  <2>2. CASE k # n
    BY <1>3, <2>2
  <2> QED
    BY <2>1, <2>2
<1> HIDE DEF w
<1>8. w[0] = S /\ w[n + m] = U
  <2>1. 0 \in 0 .. n
    BY <1>3
  <2>2. w[0] = r[0]
    BY <1>6, <2>1
  <2> DEFINE l == n + m
  <2>3. l \in n .. n + m /\ l - n = m
    BY <1>3
  <2> HIDE DEF l
  <2>4. w[l] = t[l - n]
    BY <1>7, <2>3
  <2>5. w[l] = t[m]
    BY <2>3, <2>4
  <2>6. w[l] = U
    BY <1>4, <2>5
  <2> QED
    BY <1>1, <2>2, <2>6 DEF l
<1>9. ASSUME NEW k \in 1 .. n + m PROVE w[k] = Kept(pool, w[k - 1], c[k])
  <2>1. CASE k <= n
    <3>1. k \in 1 .. n /\ k \in 0 .. n /\ k - 1 \in 0 .. n
      BY <1>3, <2>1
    <3> QED
      BY <1>3, <1>5, <1>6, <3>1
  <2>2. CASE ~ (k <= n)
    <3>1. k \in n + 1 .. n + m /\ k \in n .. n + m /\ k - 1 \in n .. n + m /\ k - n \in 1 .. m
          /\ k - 1 - n = k - n - 1
      BY <1>3, <2>2
    <3> QED
      BY <1>3, <1>5, <1>7, <3>1
  <2> QED
    BY <2>1, <2>2
<1>10. ASSUME NEW k \in 0 .. n + m PROVE w[k] \subseteq S
  <2>1. CASE k <= n
    <3>1. k \in 0 .. n
      BY <1>3, <2>1
    <3> QED
      BY <1>0, <1>6, <3>1
  <2>2. CASE ~ (k <= n)
    <3>1. k \in n .. n + m /\ k - n \in 0 .. m
      BY <1>3, <2>2
    <3> QED
      BY <1>0, <1>7, <3>1
  <2> QED
    BY <2>1, <2>2
<1> QED
  BY <1>3, <1>8, <1>9, <1>10 DEF Leads, c

LEMMA LeadsToOne ==
    ASSUME NEW pool, NEW S, NEW T, NEW U, NEW fs \in Seq(DqAsked),
           Leads(pool, S, fs, T), Leads(pool, S, fs, U)
    PROVE  T = U
<1> DEFINE n == Len(fs)
<1>1. PICK r : r[0] = S /\ r[n] = T /\ \A k \in 1 .. n : r[k] = Kept(pool, r[k - 1], fs[k])
  BY DEF Leads
<1>2. PICK t : t[0] = S /\ t[n] = U /\ \A k \in 1 .. n : t[k] = Kept(pool, t[k - 1], fs[k])
  BY DEF Leads
<1>3. n \in Nat
  OBVIOUS
<1> HIDE DEF n
<1> DEFINE G == {k \in 0 .. n : r[k] = t[k]}
<1>4. 0 \in G /\ \A k \in 1 .. n : k - 1 \in G => k \in G
  BY <1>1, <1>2, <1>3
<1> HIDE DEF G
<1>5. n \in G
  BY <1>3, <1>4, ReachesUpTo
<1> QED
  BY <1>1, <1>2, <1>5 DEF G

\* The loop of Query::Impl::apply.
LoopOf(own, S, fs, n, h) ==
    h = [k \in 0 .. n |-> IF k = 0 THEN S ELSE Narrowed(own, h[k - 1], fs, k)]

LEMMA FilteredRuns ==
    ASSUME NEW P, NEW S \in SUBSET P, NEW own, NEW fs, Len(fs) \in Nat
    PROVE  \E r \in [0 .. Len(fs) -> SUBSET P] :
             /\ r[0] = S /\ Filtered(own, S, fs) = r[Len(fs)]
             /\ \A k \in 1 .. Len(fs) : r[k] = Narrowed(own, r[k - 1], fs, k)
<1> DEFINE n == Len(fs)
           D == SUBSET P
           st == [x \in D \X (1 .. n) |-> Narrowed(own, x[1], fs, x[2])]
           h == CHOOSE h : LoopOf(own, S, fs, n, h)
<1>1. Filtered(own, S, fs) = h[n]
  BY DEF Filtered, Walk, LoopOf
<1>2. st \in [D \X (1 .. n) -> D]
  <2> SUFFICES ASSUME NEW x \in D \X (1 .. n) PROVE Narrowed(own, x[1], fs, x[2]) \in D
    OBVIOUS
  <2>1. x[1] \in D /\ Narrowed(own, x[1], fs, x[2]) \in SUBSET x[1]
    BY NarrowedShrinks
  <2> QED
    BY <2>1
<1>3. \A T \in D, k \in 1 .. n : st[<<T, k>>] = Narrowed(own, T, fs, k)
  OBVIOUS
<1>4. n \in Nat
  OBVIOUS
<1> HIDE DEF st, n
<1>5. PICK r : r \in [0 .. n -> D] /\ r[0] = S /\ \A k \in 1 .. n : r[k] = st[<<r[k - 1], k>>]
  <2>1. S \in D
    OBVIOUS
  <2> HIDE DEF D
  <2>2. PICK r : IsLoop(n, D, S, st, r)
    BY <1>2, <1>4, <2>1, LoopRuns
  <2> QED
    BY <2>2 DEF IsLoop
<1>6. \A k \in 1 .. n : r[k] = Narrowed(own, r[k - 1], fs, k)
  <2> SUFFICES ASSUME NEW k \in 1 .. n PROVE r[k] = Narrowed(own, r[k - 1], fs, k)
    OBVIOUS
  <2>1. r[k - 1] \in D
    BY <1>4, <1>5
  <2> QED
    BY <1>3, <1>5, <2>1
<1>7. LoopOf(own, S, fs, n, r)
  <2>1. \A k \in 0 .. n : r[k] = IF k = 0 THEN S ELSE Narrowed(own, r[k - 1], fs, k)
    BY <1>4, <1>5, <1>6
  <2>2. r = [k \in 0 .. n |-> r[k]]
    BY <1>5
  <2> QED
    BY <2>1, <2>2 DEF LoopOf
<1>8. LoopOf(own, S, fs, n, h)
  BY <1>7
<1> HIDE DEF h
<1>9. h[0] = S /\ \A k \in 1 .. n : h[k] = Narrowed(own, h[k - 1], fs, k)
  BY <1>4, <1>8 DEF LoopOf
<1> DEFINE G == {k \in 0 .. n : h[k] = r[k]}
<1>10. 0 \in G /\ \A k \in 1 .. n : k - 1 \in G => k \in G
  BY <1>4, <1>5, <1>6, <1>9
<1> HIDE DEF G
<1>11. n \in G
  BY <1>4, <1>10, ReachesUpTo
<1>12. h[n] = r[n]
  BY <1>11 DEF G
<1> QED
  BY <1>1, <1>5, <1>6, <1>12 DEF n

LEMMA FilteredShrinks ==
    ASSUME NEW own, NEW S, NEW fs, Len(fs) \in Nat
    PROVE  Filtered(own, S, fs) \in SUBSET S
<1>1. ASSUME NEW P, S \in SUBSET P PROVE Filtered(own, S, fs) \in SUBSET P
  <2>1. PICK r \in [0 .. Len(fs) -> SUBSET P] : Filtered(own, S, fs) = r[Len(fs)]
    BY <1>1, FilteredRuns
  <2> QED
    BY <2>1
<1> QED
  BY <1>1

LEMMA FilteredLeads ==
    ASSUME DqPool, NEW own, NEW S \in SUBSET InPool, NEW fs \in Seq(DqAsked),
           Plain(fs), NamesIn(fs, InPool), Settled(S, fs)
    PROVE  Leads(sackPool, S, fs, Filtered(own, S, fs))
<1>1. Len(fs) \in Nat
  OBVIOUS
<1>2. PICK r \in [0 .. Len(fs) -> SUBSET S] :
             /\ r[0] = S /\ Filtered(own, S, fs) = r[Len(fs)]
             /\ \A k \in 1 .. Len(fs) : r[k] = Narrowed(own, r[k - 1], fs, k)
  BY <1>1, FilteredRuns
<1>3. ASSUME NEW k \in 1 .. Len(fs) PROVE r[k] = Kept(sackPool, r[k - 1], fs[k])
  <2>1. r[k - 1] \in SUBSET S
    BY <1>1, <1>2
  <2> QED
    BY <1>2, <2>1, NarrowedIsKept
<1>4. \A k \in 0 .. Len(fs) : r[k] \subseteq S
  BY <1>2
<1> QED
  BY <1>2, <1>3, <1>4 DEF Leads

-----------------------------------------------------------------------------
(* Queries in use.                                                         *)

DqMaps == [there : BOOLEAN, set : SUBSET DqPkgs, size : Nat]

DqQueries ==
    [ignored : ExcludeFlags \cup {{}}, applied : BOOLEAN, there : BOOLEAN, size : Nat,
     result : SUBSET DqPkgs, filters : Seq(DqAsked), cached : DqMaps, start : SUBSET DqPkgs,
     all : Seq(DqAsked)]

\* The filters d that query s has gone through lead from where it started to
\* its result; those that are left follow them.
Staged(s, pool) ==
    \E d \in Seq(DqAsked) :
        /\ s.all = d \o s.filters
        /\ ~ s.there => d = << >>
        /\ s.there /\ Plain(s.all) /\ Settled(s.start, s.all) => Leads(pool, s.start, d, s.result)

\* Query s holds packages of P only.
QueryIn(s, P) ==
    /\ s.result \subseteq P /\ s.start \subseteq P /\ s.cached.set \subseteq P
    /\ NamesIn(s.all, P)

QueryWhole(s, pool) ==
    /\ s \in DqQueries
    /\ QueryIn(s, ToSet(pool))
    /\ s.applied => s.there /\ s.filters = << >>
    /\ Staged(s, pool)

DqInv ==
    /\ DqPool
    /\ consideredMap \in DqMaps /\ consideredMap.set \subseteq InPool
    /\ query = [q \in Queries |-> query[q]]
    /\ \A q \in Queries : QueryWhole(query[q], sackPool)

LEMMA NewQueryWhole ==
    ASSUME NEW ignored \in ExcludeFlags \cup {{}}, NEW pool
    PROVE  QueryWhole(NewQuery(ignored), pool)
<1> DEFINE s == NewQuery(ignored)
<1>1. NoMap \in DqMaps /\ NoMap.set = {}
  BY DEF NoMap, DqMaps
<1>2. << >> \in Seq(DqAsked) /\ << >> = << >> \o << >> /\ Len(<< >>) = 0 /\ 1 .. 0 = {}
  OBVIOUS
<1>3. s \in DqQueries
  BY <1>1, <1>2 DEF DqQueries, NewQuery
<1>4. /\ s.result = {} /\ s.start = {} /\ s.cached = NoMap /\ s.all = << >> /\ s.filters = << >>
      /\ s.there = FALSE /\ s.applied = FALSE
  BY DEF NewQuery
<1> HIDE DEF s
<1>5. QueryIn(s, ToSet(pool))
  BY <1>1, <1>2, <1>4 DEF NamesIn, QueryIn
<1>6. Staged(s, pool)
  BY <1>2, <1>4 DEF Staged
<1>7. QueryWhole(s, pool)
  BY <1>3, <1>4, <1>5, <1>6 DEF QueryWhole
<1> QED
  BY <1>7 DEF s

\* considered_cached says nothing of the filters.
LEMMA OtherCache ==
    ASSUME NEW s, NEW pool, QueryWhole(s, pool), NEW m \in DqMaps, m.set \subseteq ToSet(pool)
    PROVE  QueryWhole([s EXCEPT !.cached = m], pool)
<1> DEFINE t == [s EXCEPT !.cached = m]
<1>1. s \in DqQueries /\ QueryIn(s, ToSet(pool)) /\ Staged(s, pool)
      /\ (s.applied => s.there /\ s.filters = << >>)
  BY DEF QueryWhole
<1>2. /\ t \in DqQueries /\ t.there = s.there /\ t.applied = s.applied /\ t.result = s.result
      /\ t.start = s.start /\ t.cached = m /\ t.filters = s.filters /\ t.all = s.all
  BY <1>1 DEF DqQueries
<1> HIDE DEF t
<1>3. QueryIn(t, ToSet(pool)) /\ Staged(t, pool)
  BY <1>1, <1>2 DEF QueryIn, Staged
<1>4. QueryWhole(t, pool)
  BY <1>1, <1>2, <1>3 DEF QueryWhole
<1> QED
  BY <1>4 DEF t

\* The initial state has no packages and no filters.
LEMMA DqInvInit == SackInit /\ QueryInit => DqInv
<1> SUFFICES ASSUME SackInit, QueryInit PROVE DqInv
  OBVIOUS
<1>1. sackPool = << >> /\ consideredMap = NoMap /\ query = [q \in Queries |-> NewQuery({})]
  BY DEF SackInit, QueryInit
<1>2. DqPool
  BY <1>1 DEF DqPool
<1>3. NoMap \in DqMaps /\ NoMap.set = {}
  BY DEF NoMap, DqMaps
<1>4. QueryWhole(NewQuery({}), sackPool)
  BY NewQueryWhole
<1> QED
  BY <1>1, <1>2, <1>3, <1>4 DEF DqInv

\* What is recomputed is a map of packages of the pool.
LEMMA RecomputedIn ==
    ASSUME DqPool, NEW m \in DqMaps, m.set \subseteq InPool, NEW ignored
    PROVE  Recomputed(m, ignored) \in DqMaps /\ Recomputed(m, ignored).set \subseteq InPool
<1>1. ConsideredNow(ignored) \subseteq InPool
  BY DEF ConsideredNow
<1>2. Len(sackPool) \in Nat /\ InPool \subseteq DqPkgs
  BY PoolIsFinite DEF DqPool
<1>3. CASE Recomputed(m, ignored) = m
  BY <1>3
<1>4. CASE Recomputed(m, ignored) = [there |-> TRUE, size |-> Len(sackPool), set |-> ConsideredNow(ignored)]
  BY <1>1, <1>2, <1>4 DEF DqMaps
<1> QED
  BY <1>3, <1>4 DEF Recomputed

LEMMA ReconsideredIn ==
    ASSUME DqInv
    PROVE  RecomputeConsidered \in DqMaps /\ RecomputeConsidered.set \subseteq InPool
BY RecomputedIn DEF DqInv, RecomputeConsidered

\* A query that is given a result and no filters yet.
LEMMA StartedWhole ==
    ASSUME DqPool, NEW s, QueryWhole(s, sackPool), ~ s.there,
           NEW own \in DqMaps, own.set \subseteq InPool
    PROVE  QueryWhole(StartWith(s, own), sackPool) /\ StartWith(s, own).there
<1> DEFINE S == Seen(own)
           t == StartWith(s, own)
<1>0. InPool = ToSet(sackPool)
  BY DEF InPool
<1>1. s \in DqQueries /\ QueryIn(s, InPool) /\ ~ s.applied
  BY <1>0 DEF QueryWhole
<1>2. S \in SUBSET InPool /\ S \in SUBSET DqPkgs /\ Len(sackPool) \in Nat
  BY PoolIsFinite DEF DqPool, Seen, Beyond
<1> HIDE DEF S
<1>3. PICK c \in DqMaps : /\ c.set \subseteq InPool
                          /\ t = [s EXCEPT !.there = TRUE, !.size = Len(sackPool), !.result = S,
                                           !.start = S, !.cached = c]
  <2>1. s.cached \in DqMaps /\ s.cached.set \subseteq InPool
    BY <1>1 DEF QueryIn, DqQueries
  <2>2. t = [s EXCEPT !.there = TRUE, !.size = Len(sackPool), !.result = S, !.start = S,
                      !.cached = IF s.ignored = {} THEN s.cached ELSE own]
    BY DEF StartWith, S
  <2> HIDE DEF t
  <2>3. CASE s.ignored = {}
    BY <2>1, <2>2, <2>3
  <2>4. CASE s.ignored # {}
    BY <2>2, <2>4
  <2> QED
    BY <2>3, <2>4
<1> HIDE DEF t
<1>4. /\ t \in DqQueries /\ t.there = TRUE /\ t.applied = s.applied /\ t.result = S /\ t.start = S
      /\ t.cached = c /\ t.filters = s.filters /\ t.all = s.all
  BY <1>1, <1>2, <1>3 DEF DqQueries
<1>5. Staged(t, sackPool)
  <2>1. PICK d \in Seq(DqAsked) : s.all = d \o s.filters /\ d = << >>
    BY DEF QueryWhole, Staged
  <2>2. Leads(sackPool, S, << >>, S)
    BY LeadsNowhere
  <2> QED
    BY <1>4, <2>1, <2>2 DEF Staged
<1>6. QueryIn(t, InPool)
  BY <1>1, <1>2, <1>3, <1>4 DEF QueryIn
<1> QED
  BY <1>0, <1>1, <1>4, <1>5, <1>6 DEF QueryWhole, t

\* Query::Impl::apply goes through the filters that are left.
LEMMA ApplyWhole ==
    ASSUME DqPool, NEW s, QueryWhole(s, sackPool), s.there, NEW own
    PROVE  QueryWhole(ApplyFilters(s, own), sackPool) /\ ApplyFilters(s, own).applied
<1> DEFINE T == Filtered(own, s.result, s.filters)
           t == ApplyFilters(s, own)
<1>0. InPool = ToSet(sackPool)
  BY DEF InPool
<1>1. s \in DqQueries /\ QueryIn(s, InPool)
  BY <1>0 DEF QueryWhole
<1>2. s.filters \in Seq(DqAsked) /\ Len(s.filters) \in Nat /\ s.result \in SUBSET DqPkgs
  BY <1>1 DEF DqQueries
<1>3. T \in SUBSET s.result
  BY <1>2, FilteredShrinks
<1>4. s.result \subseteq InPool
  BY <1>1 DEF QueryIn
<1> HIDE DEF T
<1>5. t = [s EXCEPT !.result = T, !.applied = TRUE, !.filters = << >>]
  BY DEF ApplyFilters, T
<1> HIDE DEF t
<1>6. << >> \in Seq(DqAsked)
  OBVIOUS
<1>7. /\ t \in DqQueries /\ t.there = s.there /\ t.applied = TRUE /\ t.result = T
      /\ t.start = s.start /\ t.cached = s.cached /\ t.filters = << >> /\ t.all = s.all
  BY <1>1, <1>2, <1>3, <1>5, <1>6 DEF DqQueries
<1>8. Staged(t, sackPool)
  <2> DEFINE a == s.all
             e == s.filters
             Calm == Plain(a) /\ Settled(s.start, a)
  <2>1. PICK d \in Seq(DqAsked) : a = d \o e /\ (Calm => Leads(sackPool, s.start, d, s.result))
    BY DEF QueryWhole, Staged
  <2>2. a = d \o e /\ e \in Seq(DqAsked) /\ a \in Seq(DqAsked)
    BY <1>1, <1>2, <2>1 DEF DqQueries
  <2>3. NamesIn(a, InPool)
    BY <1>1 DEF QueryIn
  <2>4. Calm => Plain(a) /\ Settled(s.start, a)
    OBVIOUS
  <2> HIDE DEF a, e, Calm
  <2>5. /\ \A i \in 1 .. Len(e) : Len(d) + i \in 1 .. Len(a) /\ a[Len(d) + i] = e[i]
        /\ DOMAIN a = 1 .. Len(a) /\ DOMAIN e = 1 .. Len(e) /\ Len(d) \in Nat /\ Len(e) \in Nat
        /\ Len(a) = Len(d) + Len(e)
    BY <2>2
  <2>6. NamesIn(e, InPool) /\ (Plain(a) => Plain(e))
    BY <2>3, <2>5 DEF NamesIn, Plain
  <2>7. ASSUME Calm PROVE s.result \subseteq s.start /\ Settled(s.result, e)
    <3>1. s.result \subseteq s.start
      BY <2>1, <2>7, LeadsDown
    <3>2. ASSUME NEW i \in DOMAIN e, e[i].key = "PKG", ~ s.result \subseteq e[i].made,
                 NEW j \in i + 1 .. Len(e)
          PROVE  e[j].key = "PKG" \/ "NOT" \in e[j].cmp
      <4> DEFINE k == Len(d) + i
                 l == Len(d) + j
      <4>1. k \in DOMAIN a /\ a[k] = e[i] /\ l \in k + 1 .. Len(a) /\ a[l] = e[j]
        BY <2>5
      <4> HIDE DEF k, l
      <4>2. a[k].key = "PKG" /\ ~ s.start \subseteq a[k].made
        BY <3>1, <3>2, <4>1
      <4>3. a[l].key = "PKG" \/ "NOT" \in a[l].cmp
        BY <2>4, <2>7, <4>1, <4>2 DEF Settled
      <4> QED
        BY <4>1, <4>3
    <3> QED
      BY <3>1, <3>2 DEF Settled
  <2>8. ASSUME Calm PROVE Leads(sackPool, s.start, a, T)
    <3>1. Leads(sackPool, s.result, e, Filtered(own, s.result, e))
      BY <1>4, <2>2, <2>4, <2>6, <2>7, <2>8, FilteredLeads
    <3>2. Leads(sackPool, s.result, e, T)
      BY <3>1 DEF T, e
    <3> QED
      BY <2>1, <2>2, <2>8, <3>2, LeadsOn
  <2>9. a = a \o << >>
    BY <2>2
  <2>10. \E c \in Seq(DqAsked) :
            /\ a = c \o << >>
            /\ Plain(a) /\ Settled(s.start, a) => Leads(sackPool, s.start, c, T)
    BY <2>2, <2>8, <2>9 DEF Calm
  <2> QED
    BY <1>7, <2>10 DEF Staged, a
<1>9. QueryIn(t, InPool)
  BY <1>1, <1>3, <1>7 DEF QueryIn
<1> QED
  BY <1>0, <1>7, <1>8, <1>9 DEF QueryWhole, t

LEMMA AppliedWhole ==
    ASSUME DqInv, NEW s, QueryWhole(s, sackPool)
    PROVE  QueryWhole(Applied(s), sackPool) /\ Applied(s).applied
<1> DEFINE own == OwnMap(s)
<1>1. CASE s.applied
  BY <1>1 DEF Applied
<1>2. CASE ~ s.applied /\ s.there
  <2>1. Applied(s) = ApplyFilters(s, own)
    BY <1>2 DEF Applied, InitResult
  <2> HIDE DEF own
  <2> QED
    BY <1>2, <2>1, ApplyWhole DEF DqInv
<1>3. CASE ~ s.applied /\ ~ s.there
  <2>1. s.cached \in DqMaps /\ s.cached.set \subseteq InPool
    BY DEF QueryWhole, QueryIn, DqQueries, InPool
  <2>2. own = IF s.ignored = {} THEN RecomputeConsidered ELSE Recomputed(s.cached, s.ignored)
    BY <1>3 DEF OwnMap
  <2>3. Applied(s) = ApplyFilters(StartWith(s, own), own)
    BY <1>3 DEF Applied, InitResult
  <2> HIDE DEF own
  <2>4. own \in DqMaps /\ own.set \subseteq InPool
    BY <2>1, <2>2, ReconsideredIn, RecomputedIn DEF DqInv
  <2>5. QueryWhole(StartWith(s, own), sackPool) /\ StartWith(s, own).there
    BY <1>3, <2>4, StartedWhole DEF DqInv
  <2> QED
    BY <2>3, <2>5, ApplyWhole DEF DqInv
<1> QED
  BY <1>1, <1>2, <1>3

\* A result put in place of the one that is there.
LEMMA ReplacedWhole ==
    ASSUME DqPool, NEW s, QueryWhole(s, sackPool), s.applied, NEW S \in SUBSET InPool, NEW size \in Nat
    PROVE  QueryWhole([s EXCEPT !.result = S, !.start = S, !.size = size, !.all = << >>], sackPool)
<1> DEFINE t == [s EXCEPT !.result = S, !.start = S, !.size = size, !.all = << >>]
<1>0. InPool = ToSet(sackPool)
  BY DEF InPool
<1>1. s \in DqQueries /\ QueryIn(s, InPool) /\ s.there /\ s.filters = << >>
  BY <1>0 DEF QueryWhole
<1>2. S \in SUBSET DqPkgs /\ << >> \in Seq(DqAsked) /\ << >> = << >> \o << >> /\ Len(<< >>) = 0 /\ 1 .. 0 = {}
  BY PoolIsFinite
<1>3. /\ t \in DqQueries /\ t.there = s.there /\ t.applied = s.applied /\ t.result = S
      /\ t.start = S /\ t.cached = s.cached /\ t.filters = << >> /\ t.all = << >>
  BY <1>1, <1>2 DEF DqQueries
<1> HIDE DEF t
<1>4. Leads(sackPool, S, << >>, S)
  BY LeadsNowhere
<1>5. Staged(t, sackPool)
  BY <1>2, <1>3, <1>4 DEF Staged
<1>6. QueryIn(t, InPool)
  BY <1>1, <1>2, <1>3 DEF QueryIn, NamesIn
<1>7. QueryWhole(t, sackPool)
  BY <1>0, <1>1, <1>3, <1>5, <1>6 DEF QueryWhole
<1> QED
  BY <1>7 DEF t

\* A pool that grows keeps what a query holds.
LEMMA WholeStays ==
    ASSUME NEW s, NEW pool \in Seq(DqPkgs), NEW e \in Seq(DqPkgs), QueryWhole(s, pool)
    PROVE  QueryWhole(s, pool \o e)
<1> DEFINE more == pool \o e
<1>1. ToSet(pool) \subseteq ToSet(more)
  <2>1. DOMAIN pool \subseteq DOMAIN more /\ \A i \in DOMAIN pool : more[i] = pool[i]
    OBVIOUS
  <2> HIDE DEF more
  <2> QED
    BY <2>1 DEF ToSet
<1>2. QueryIn(s, ToSet(more))
  <2> HIDE DEF more
  <2> QED
    BY <1>1 DEF QueryWhole, QueryIn, NamesIn
<1>3. Staged(s, more)
  <2>1. PICK d \in Seq(DqAsked) :
           /\ s.all = d \o s.filters
           /\ ~ s.there => d = << >>
           /\ s.there /\ Plain(s.all) /\ Settled(s.start, s.all) => Leads(pool, s.start, d, s.result)
    BY DEF QueryWhole, Staged
  <2>2. s.start \in SUBSET ToSet(pool)
    BY DEF QueryWhole, QueryIn
  <2>3. Leads(pool, s.start, d, s.result) => Leads(more, s.start, d, s.result)
    BY <2>2, LeadsStays
  <2> HIDE DEF more
  <2> QED
    BY <2>1, <2>3 DEF Staged
<1> QED
  BY <1>2, <1>3 DEF QueryWhole

\* Sack steps leave the queries alone and only add to the pool.
LEMMA SackKeepsQueries ==
    ASSUME DqInv, SackNext, UNCHANGED query
    PROVE  DqInv'
<1>1. /\ sackPool \in Seq(DqPkgs) /\ consideredMap \in DqMaps /\ consideredMap.set \subseteq InPool
      /\ query = [q \in Queries |-> query[q]] /\ \A q \in Queries : QueryWhole(query[q], sackPool)
  BY DEF DqInv, DqPool
<1>2. DqPool
  BY DEF DqInv
<1>3. ASSUME NEW e \in Seq(DqPkgs), sackPool' = sackPool \o e,
             consideredMap' = consideredMap \/ (UNCHANGED sackPool /\ consideredMap' = RecomputeConsidered),
             \A q \in Queries : QueryWhole(query[q], sackPool')
      PROVE  DqInv'
  <2>1. sackPool' \in Seq(DqPkgs)
    BY <1>1, <1>3
  <2>2. InPool \subseteq InPool'
    <3>1. \A i \in DOMAIN sackPool : i \in DOMAIN sackPool' /\ sackPool'[i] = sackPool[i]
      BY <1>1, <1>3
    <3> QED
      BY <3>1 DEF InPool, ToSet
  <2>3. consideredMap' \in DqMaps /\ consideredMap'.set \subseteq InPool'
    <3>1. CASE consideredMap' = consideredMap
      BY <1>1, <2>2, <3>1
    <3>2. CASE consideredMap' = RecomputeConsidered
      BY <2>2, <3>2, ReconsideredIn
    <3> QED
      BY <1>3, <3>1, <3>2
  <2> QED
    BY <1>1, <1>3, <2>1, <2>3 DEF DqInv, DqPool
<1>4. ASSUME NEW e \in Seq(DqPkgs), sackPool' = sackPool \o e, consideredMap' = consideredMap
      PROVE  DqInv'
  <2>1. \A q \in Queries : QueryWhole(query[q], sackPool \o e)
    BY <1>1, <1>4, WholeStays
  <2> QED
    BY <1>3, <1>4, <2>1
<1>5. ASSUME UNCHANGED sackPool, consideredMap' = consideredMap \/ consideredMap' = RecomputeConsidered
      PROVE  DqInv'
  <2>1. << >> \in Seq(DqPkgs) /\ sackPool' = sackPool \o << >>
    BY <1>1, <1>5
  <2>2. \A q \in Queries : QueryWhole(query[q], sackPool')
    BY <1>1, <1>5
  <2> QED
    BY <1>3, <1>5, <2>1, <2>2
<1>6. ASSUME NEW r, LoadRepo(r) PROVE DqInv'
  <2>1. PackagesOf[r] \in Seq(DqPkgs)
    BY <1>6, DnfQueryAssumption DEF LoadRepo, DqPkgs
  <2> QED
    BY <1>4, <1>6, <2>1 DEF LoadRepo
<1>7. ASSUME NEW p \in DOMAIN PkgName, AddCmdlinePackage(p) PROVE DqInv'
  <2>1. <<p>> \in Seq(DqPkgs) /\ Append(sackPool, p) = sackPool \o <<p>>
    BY <1>1 DEF DqPkgs
  <2> QED
    BY <1>4, <1>7, <2>1 DEF AddCmdlinePackage
<1>8. ASSUME NEW k, NEW m, EditMap(k, m) PROVE DqInv'
  BY <1>5, <1>8 DEF EditMap
<1>9. ASSUME NEW R, NEW b, SetUseIncludes(R, b) PROVE DqInv'
  BY <1>5, <1>9 DEF SetUseIncludes
<1>10. ASSUME NEW R, ProcessExcludes(R) PROVE DqInv'
  <2>1. UNCHANGED sackPool /\ consideredMap' = RecomputeConsidered
    BY <1>10 DEF ProcessExcludes
  <2> QED
    BY <1>5, <2>1
<1>11. ASSUME NEW r, NEW b, RepoEnabled(r, b) PROVE DqInv'
  <2>1. \E m : EditMap("repo_excludes", m)
    BY <1>11 DEF RepoEnabled
  <2> QED
    BY <1>8, <2>1
<1>12. ASSUME NEW k, NEW S, AddToMap(k, S) \/ RemoveFromMap(k, S) PROVE DqInv'
  <2>1. \E m : EditMap(k, m)
    BY <1>12 DEF AddToMap, RemoveFromMap
  <2> QED
    BY <1>8, <2>1
<1>13. ASSUME NEW k, NEW m, SetMap(k, m) PROVE DqInv'
  BY <1>8, <1>13 DEF SetMap
<1> QED
  BY <1>6, <1>7, <1>9, <1>10, <1>11, <1>12, <1>13 DEF SackNext

\* The queries that one call changes, with the pool as it is.
LEMMA QueriesChange ==
    ASSUME DqInv, UNCHANGED sackPool,
           consideredMap' = consideredMap \/ consideredMap' = RecomputeConsidered,
           NEW q \in Queries, NEW r \in Queries, NEW s, NEW t,
           QueryWhole(s, sackPool), QueryWhole(t, sackPool),
           query' = [query EXCEPT ![q] = s, ![r] = t]
    PROVE  DqInv'
<1>1. InPool' = InPool
  BY DEF InPool
<1>2. consideredMap' \in DqMaps /\ consideredMap'.set \subseteq InPool
  BY ReconsideredIn DEF DqInv
<1>3. query = [x \in Queries |-> query[x]] /\ \A x \in Queries : QueryWhole(query[x], sackPool)
  BY DEF DqInv
<1>4. query' = [x \in Queries |-> query'[x]]
  BY <1>3
<1>5. \A x \in Queries : query'[x] = t \/ query'[x] = s \/ query'[x] = query[x]
  BY <1>3
<1>6. \A x \in Queries : QueryWhole(query'[x], sackPool')
  BY <1>3, <1>5
<1>7. DqPool'
  BY DEF DqInv, DqPool
<1> QED
  BY <1>1, <1>2, <1>4, <1>6, <1>7 DEF DqInv

LEMMA QueryChanges ==
    ASSUME DqInv, UNCHANGED sackPool,
           consideredMap' = consideredMap \/ consideredMap' = RecomputeConsidered,
           NEW q \in Queries, NEW s, QueryWhole(s, sackPool), query' = [query EXCEPT ![q] = s]
    PROVE  DqInv'
<1>1. query = [x \in Queries |-> query[x]]
  BY DEF DqInv
<1>2. [query EXCEPT ![q] = s] = [query EXCEPT ![q] = s, ![q] = s]
  BY <1>1
<1> QED
  BY <1>2, QueriesChange

LEMMA AddedWhole ==
    ASSUME NEW s, NEW pool, QueryWhole(s, pool), NEW g \in DqAsked,
           g.key = "OBSOLETES_BY_PRIORITY" => g.arg \subseteq ToSet(pool)
    PROVE  QueryWhole([s EXCEPT !.filters = Append(@, g), !.all = Append(@, g), !.applied = FALSE], pool)
<1> DEFINE P == ToSet(pool)
           t == [s EXCEPT !.filters = Append(@, g), !.all = Append(@, g), !.applied = FALSE]
<1>1. s \in DqQueries /\ QueryIn(s, P) /\ Staged(s, pool) /\ (g.key = "OBSOLETES_BY_PRIORITY" => g.arg \subseteq P)
  BY DEF QueryWhole
<1> HIDE DEF P
<1> DEFINE a == s.all
           e == s.filters
           a2 == Append(a, g)
           e2 == Append(e, g)
<1>2. a \in Seq(DqAsked) /\ e \in Seq(DqAsked)
  BY <1>1 DEF DqQueries
<1>3. t = [s EXCEPT !.filters = e2, !.all = a2, !.applied = FALSE]
  BY <1>1 DEF DqQueries
<1> HIDE DEF a, e
<1>4. /\ a2 \in Seq(DqAsked) /\ e2 \in Seq(DqAsked) /\ Len(a2) = Len(a) + 1 /\ Len(a) \in Nat
      /\ (\A i \in 1 .. Len(a) : a2[i] = a[i]) /\ a2[Len(a) + 1] = g
      /\ \A d \in Seq(DqAsked) : a = d \o e => a2 = d \o e2
  <2>1. /\ a2 \in Seq(DqAsked) /\ e2 \in Seq(DqAsked) /\ Len(a2) = Len(a) + 1 /\ Len(a) \in Nat
        /\ (\A i \in 1 .. Len(a) : a2[i] = a[i]) /\ a2[Len(a) + 1] = g
    BY <1>2
  <2>2. ASSUME NEW d \in Seq(DqAsked), a = d \o e PROVE a2 = d \o e2
    <3>1. a2 = Append(d \o e, g)
      BY <2>2
    <3>2. Append(d \o e, g) = d \o Append(e, g)
      BY <1>2
    <3> QED
      BY <3>1, <3>2
  <2> QED
    BY <2>1, <2>2
<1> HIDE DEF t, a2, e2
<1>5. /\ t \in DqQueries /\ t.there = s.there /\ t.applied = FALSE /\ t.result = s.result
      /\ t.start = s.start /\ t.cached = s.cached /\ t.filters = e2 /\ t.all = a2
  BY <1>1, <1>3, <1>4 DEF DqQueries
<1>6. NamesIn(a2, P)
  <2>1. NamesIn(a, P)
    BY <1>1 DEF QueryIn, a
  <2>2. ASSUME NEW i \in 1 .. Len(a2), a2[i].key = "OBSOLETES_BY_PRIORITY" PROVE a2[i].arg \subseteq P
    <3>1. i \in 1 .. Len(a) \/ i = Len(a) + 1
      BY <1>4
    <3>2. CASE i \in 1 .. Len(a)
      BY <1>4, <2>1, <2>2, <3>2 DEF NamesIn
    <3>3. CASE i = Len(a) + 1
      BY <1>1, <1>4, <2>2, <3>3
    <3> QED
      BY <3>1, <3>2, <3>3
  <2> QED
    BY <2>2 DEF NamesIn
<1>7. (Plain(a2) => Plain(a)) /\ (Settled(s.start, a2) => Settled(s.start, a))
  <2>1. \A i \in 1 .. Len(a) : i \in 1 .. Len(a2)
    BY <1>4
  <2>2. DOMAIN a = 1 .. Len(a) /\ DOMAIN a2 = 1 .. Len(a2)
    BY <1>2, <1>4
  <2>3. \A i \in 1 .. Len(a) : \A j \in i + 1 .. Len(a) : j \in 1 .. Len(a) /\ j \in i + 1 .. Len(a2)
    BY <1>4
  <2> QED
    BY <1>4, <2>1, <2>2, <2>3 DEF Plain, Settled
<1>8. Staged(t, pool)
  <2>1. PICK d \in Seq(DqAsked) :
           /\ a = d \o e /\ (~ s.there => d = << >>)
           /\ s.there /\ Plain(a) /\ Settled(s.start, a) => Leads(pool, s.start, d, s.result)
    BY <1>1 DEF Staged, a, e
  <2>2. a2 = d \o e2
    BY <1>4, <2>1
  <2> QED
    BY <1>5, <1>7, <2>1, <2>2 DEF Staged
<1>9. QueryIn(t, P)
  BY <1>1, <1>5, <1>6 DEF QueryIn
<1>10. QueryWhole(t, pool)
  BY <1>5, <1>8, <1>9 DEF QueryWhole, P
<1> QED
  BY <1>10 DEF t, a, e, a2, e2

LEMMA QueryCallsKeep ==
    ASSUME DqInv, QueryNext
    PROVE  DqInv'
<1>1. /\ DqPool /\ query = [x \in Queries |-> query[x]]
      /\ \A x \in Queries : QueryWhole(query[x], sackPool)
  BY DEF DqInv
<1>2. \A x \in Queries : QueryWhole(Applied(query[x]), sackPool) /\ Applied(query[x]).applied
  BY <1>1, AppliedWhole
<1>3. \A x \in Queries : Applied(query[x]).result \subseteq InPool
  BY <1>2 DEF QueryWhole, QueryIn, InPool
<1>4. ASSUME UNCHANGED sackVars PROVE UNCHANGED <<sackPool, consideredMap>>
  BY <1>4 DEF sackVars
<1>5. ASSUME NEW Q, Reconsider(Q)
      PROVE  UNCHANGED sackPool /\ (consideredMap' = consideredMap \/ consideredMap' = RecomputeConsidered)
  BY <1>5 DEF Reconsider
<1>6. ASSUME NEW q \in Queries, NEW ignored \in ExcludeFlags, CreateQuery(q, ignored) PROVE DqInv'
  <2>1. QueryWhole(NewQuery(ignored), sackPool)
    BY NewQueryWhole
  <2>2. query' = [query EXCEPT ![q] = NewQuery(ignored)] /\ UNCHANGED sackVars
    BY <1>6 DEF CreateQuery
  <2> QED
    BY <1>4, <2>1, <2>2, QueryChanges
<1>7. ASSUME NEW q \in Queries, NEW r \in Queries, CopyQuery(q, r) PROVE DqInv'
  <2> DEFINE s == [query[r] EXCEPT !.cached = NoMap]
  <2>1. NoMap \in DqMaps /\ NoMap.set \subseteq ToSet(sackPool)
    BY DEF NoMap, DqMaps
  <2>2. QueryWhole(s, sackPool)
    BY <1>1, <2>1, OtherCache
  <2>3. query' = [query EXCEPT ![q] = s] /\ UNCHANGED sackVars
    BY <1>7 DEF CopyQuery
  <2> HIDE DEF s
  <2> QED
    BY <1>4, <2>2, <2>3, QueryChanges
<1>8. ASSUME NEW q \in Queries, NEW f \in Filters, NEW made, AddFilter(q, f, made) PROVE DqInv'
  <2> DEFINE g == Stored(f, made)
             s == [query[q] EXCEPT !.filters = Append(@, g), !.all = Append(@, g), !.applied = FALSE]
  <2>0. ValidFilter(f) /\ made \subseteq InPool /\ (f.type = "pkg" => f.arg \subseteq InPool) /\ UNCHANGED sackVars
    <3>1. /\ ValidFilter(f) /\ UNCHANGED sackVars
          /\ IF f.type = "pkg" THEN made \in PastPools /\ f.arg \subseteq made ELSE made = {}
      BY <1>8 DEF AddFilter
    <3>2. made \in PastPools => made \subseteq InPool
      <4>1. ASSUME NEW n \in 0 .. Len(sackPool) PROVE ToSet(SubSeq(sackPool, 1, n)) \subseteq InPool
        <5>1. sackPool \in Seq(DqPkgs)
          BY <1>1 DEF DqPool
        <5>2. /\ \A i \in DOMAIN SubSeq(sackPool, 1, n) : i \in 1 .. n
              /\ \A i \in 1 .. n : SubSeq(sackPool, 1, n)[i] = sackPool[i] /\ i \in DOMAIN sackPool
          BY <5>1
        <5> QED
          BY <5>2 DEF InPool, ToSet
      <4> QED
        BY <4>1 DEF PastPools
    <3> QED
      BY <3>1, <3>2
  <2>1. ValidFilter(f) /\ (f.type = "pkg" => f.arg \subseteq ToSet(sackPool)) /\ UNCHANGED sackVars
        /\ made \in SUBSET DqPkgs
    BY <1>1, <2>0, PoolIsFinite DEF InPool
  <2>2. g \in DqAsked /\ (g.key = "OBSOLETES_BY_PRIORITY" => g.arg \subseteq ToSet(sackPool))
    BY <2>1, StoredIs DEF DqAsked
  <2>3. query' = [query EXCEPT ![q].filters = Append(@, Stored(f, made)),
                               ![q].all = Append(@, Stored(f, made)), ![q].applied = FALSE]
    BY <1>8 DEF AddFilter
  <2> HIDE DEF g
  <2>4. QueryWhole(s, sackPool)
    BY <1>1, <2>2, AddedWhole
  <2>5. query' = [query EXCEPT ![q] = s]
    BY <1>1, <2>3 DEF g
  <2> HIDE DEF s
  <2> QED
    BY <1>4, <2>1, <2>4, <2>5, QueryChanges
<1>9. ASSUME NEW q \in Queries, Run(q) PROVE DqInv'
  <2>1. query' = [query EXCEPT ![q] = Applied(query[q])] /\ Reconsider({q})
    BY <1>1, <1>9 DEF Run
  <2> QED
    BY <1>2, <1>5, <2>1, QueryChanges
<1>10. ASSUME NEW q \in Queries, ClearQuery(q) PROVE DqInv'
  <2> DEFINE u == NewQuery(query[q].ignored)
             s == [u EXCEPT !.cached = query[q].cached]
  <2>1. /\ query[q].ignored \in ExcludeFlags \cup {{}}
        /\ query[q].cached \in DqMaps /\ query[q].cached.set \subseteq ToSet(sackPool)
    BY <1>1 DEF QueryWhole, QueryIn, DqQueries
  <2>2. QueryWhole(u, sackPool)
    BY <2>1, NewQueryWhole
  <2>3. query' = [query EXCEPT ![q] = s] /\ UNCHANGED sackVars
    BY <1>1, <1>10 DEF ClearQuery
  <2> HIDE DEF u
  <2>4. QueryWhole(s, sackPool)
    BY <2>1, <2>2, OtherCache
  <2> HIDE DEF s
  <2> QED
    BY <1>4, <2>3, <2>4, QueryChanges
<1>11. ASSUME NEW q \in Queries, NEW r \in Queries, NEW op \in {"union", "intersection", "difference"},
              Combine(q, r, op)
       PROVE  DqInv'
  <2> DEFINE a == Applied(query[q])
             b == Applied(query[r])
             C(S, size) == [a EXCEPT !.result = S, !.start = S, !.size = size, !.all = << >>]
  <2> DEFINE S == CASE op = "union" -> a.result \cup b.result
                   [] op = "intersection" -> a.result \cap (b.result \cup Beyond(b.size))
                   [] op = "difference" -> a.result \ b.result
             size == IF op = "union" /\ a.size < b.size THEN b.size ELSE a.size
  <2>1. query' = [query EXCEPT ![q] = C(S, size), ![r] = b]
    BY <1>11 DEF Combine
  <2>2. a.result \subseteq InPool /\ b.result \subseteq InPool
        /\ QueryWhole(a, sackPool) /\ a.applied /\ QueryWhole(b, sackPool)
    BY <1>2, <1>3
  <2>6. a.size \in Nat /\ b.size \in Nat
    BY <2>2 DEF QueryWhole, DqQueries
  <2> HIDE DEF a, b
  <2>3. S \in SUBSET InPool /\ size \in Nat
    BY <2>2, <2>6
  <2> HIDE DEF S, size
  <2>4. QueryWhole(C(S, size), sackPool)
    BY <1>1, <2>2, <2>3, ReplacedWhole
  <2>5. Reconsider({q, r})
    BY <1>11 DEF Combine
  <2> HIDE DEF C
  <2> QED
    BY <1>5, <2>1, <2>2, <2>4, <2>5, QueriesChange
<1>12. ASSUME NEW q \in Queries, NEW S, S \subseteq ResultOf(q), Replace(q, S) PROVE DqInv'
  <2> DEFINE a == Applied(query[q])
             s == [a EXCEPT !.result = S, !.start = S, !.size = a.size, !.all = << >>]
  <2>4. a \in DqQueries
    BY <1>2 DEF QueryWhole
  <2>1. query' = [query EXCEPT ![q] = s] /\ Reconsider({q})
    <3>1. query' = [query EXCEPT ![q] = [a EXCEPT !.result = S, !.start = S, !.all = << >>]]
      BY <1>1, <1>12 DEF Replace
    <3> HIDE DEF a
    <3>2. s = [a EXCEPT !.result = S, !.start = S, !.all = << >>]
      BY <2>4 DEF DqQueries
    <3>3. Reconsider({q})
      BY <1>12 DEF Replace
    <3> HIDE DEF s
    <3> QED
      BY <3>1, <3>2, <3>3
  <2>2. QueryWhole(a, sackPool) /\ a.applied /\ S \in SUBSET InPool
    BY <1>2, <1>3, <1>12 DEF ResultOf
  <2> HIDE DEF a
  <2>5. a.size \in Nat
    BY <2>4 DEF DqQueries
  <2>3. QueryWhole(s, sackPool)
    BY <1>1, <2>2, <2>5, ReplacedWhole
  <2> HIDE DEF s
  <2> QED
    BY <1>5, <2>1, <2>3, QueryChanges
<1>13. ASSUME NEW q \in Queries, FilterDuplicated(q) PROVE DqInv'
  BY <1>12, <1>13 DEF FilterDuplicated, Duplicated
<1>14. ASSUME NEW q \in Queries, FilterExtras(q) PROVE DqInv'
  BY <1>12, <1>14 DEF FilterExtras, Extras
<1>15. ASSUME NEW q \in Queries, NEW limit, FilterRecent(q, limit) PROVE DqInv'
  BY <1>12, <1>15 DEF FilterRecent
<1> QED
  BY <1>6, <1>7, <1>8, <1>9, <1>10, <1>11, <1>13, <1>14, <1>15 DEF QueryNext

LEMMA DqStep == DqInv /\ [SackQueryNext]_<<sackVars, query>> => DqInv'
<1> SUFFICES ASSUME DqInv, [SackQueryNext]_<<sackVars, query>> PROVE DqInv'
  OBVIOUS
<1>1. CASE UNCHANGED <<sackVars, query>>
  BY <1>1 DEF sackVars, DqInv, DqPool, InPool
<1> QED
  BY <1>1, SackKeepsQueries, QueryCallsKeep DEF SackQueryNext

LEMMA DqInvIsExact == DqInv => QueryIsExact
<1> SUFFICES ASSUME DqInv PROVE QueryIsExact
  OBVIOUS
<1>1. DqPool /\ \A q \in Queries : QueryWhole(query[q], sackPool)
  BY DEF DqInv
<1>2. ASSUME NEW q \in Queries, query[q].applied, Settled(query[q].start, query[q].all),
             \A i \in DOMAIN query[q].all : query[q].all[i].key \notin LooksAround
      PROVE  query[q].result = Filtered(NoMap, query[q].start, query[q].all)
  <2> DEFINE s == query[q]
             a == s.all
  <2>1. s \in DqQueries /\ QueryIn(s, InPool) /\ Staged(s, sackPool) /\ s.there /\ s.filters = << >>
    BY <1>1, <1>2 DEF QueryWhole, InPool
  <2>2. a \in Seq(DqAsked) /\ s.start \in SUBSET InPool /\ NamesIn(a, InPool)
    BY <2>1 DEF DqQueries, QueryIn
  <2>3. Plain(a) /\ Settled(s.start, a)
    <3>1. DOMAIN a = 1 .. Len(a)
      BY <2>2
    <3> QED
      BY <1>2, <3>1 DEF Plain
  <2>4. PICK d \in Seq(DqAsked) : a = d \o << >> /\ Leads(sackPool, s.start, d, s.result)
    BY <2>1, <2>3 DEF Staged
  <2>5. a = d
    BY <2>4
  <2> HIDE DEF a, s
  <2>6. Leads(sackPool, s.start, a, Filtered(NoMap, s.start, a))
    BY <1>1, <2>2, <2>3, FilteredLeads
  <2>7. s.result = Filtered(NoMap, s.start, a)
    BY <2>2, <2>4, <2>5, <2>6, LeadsToOne
  <2> QED
    BY <2>7 DEF s, a
<1>3. StagingIsInvisible
  BY <1>2 DEF StagingIsInvisible
<1>4. \A q \in Queries : query[q].result \in SUBSET InPool
  BY <1>1 DEF QueryWhole, QueryIn, InPool
<1>5. LatestIsNewest
  <2> SUFFICES ASSUME NEW q \in Queries, NEW perArch \in BOOLEAN, NEW n \in 1 .. 2
               PROVE  LET S == query[q].result IN
                      /\ FilterLatest(S, perArch, n) \subseteq Newest(S, perArch, n)
                      /\ SpeltAlike(S, perArch) => FilterLatest(S, perArch, n) = Newest(S, perArch, n)
                      /\ FilterLatest(S, perArch, 0 - n) = S \ FilterLatest(S, perArch, n)
    BY DEF LatestIsNewest
  <2> DEFINE S == query[q].result
  <2>1. S \in SUBSET InPool
    BY <1>4
  <2> HIDE DEF S
  <2>2. /\ FilterLatest(S, perArch, n) \subseteq Newest(S, perArch, n)
        /\ SpeltAlike(S, perArch) => FilterLatest(S, perArch, n) = Newest(S, perArch, n)
        /\ FilterLatest(S, perArch, 0 - n) = S \ FilterLatest(S, perArch, n)
    BY <1>1, <2>1, NewestAndRest
  <2> QED
    BY <2>2 DEF S
<1> QED
  BY <1>3, <1>5 DEF QueryIsExact

\* It does not matter when a query of dnf-4 is run, sets made before packages
\* were loaded included, and its filters on the newest versions keep what they
\* mean: for any packages, repositories and queries, however the sack is filled
\* and edited meanwhile (Query::Impl::apply, filterPkg, filterLatest).
THEOREM QueriesOfDnf4StayExact == SackQuerySpec => []QueryIsExact
<1>1. SackInit /\ QueryInit => DqInv
  BY DqInvInit
<1> QED
  BY <1>1, DqStep, DqInvIsExact, PTL DEF SackQuerySpec
=============================================================================
