----------------------------- MODULE Dnf4Proofs -----------------------------
(***************************************************************************)
(* Proofs about what dnf-4 processes share: the lock directory (DnfLock),  *)
(* the system and its history (DnfTransaction) and a repository's          *)
(* directory (DnfRepo), for any number of processes, packages, goals and   *)
(* timestamps, with crashes between any two steps; and about the states of *)
(* one task and the locks taken through them (DnfState), nested to any     *)
(* depth.                                                                  *)
(***************************************************************************)
EXTENDS DnfTransaction, DnfRepo, DnfState, WellFoundedInduction, FiniteSetTheorems, TLAPS

-----------------------------------------------------------------------------
(* The lock.                                                               *)

\* dnf_lock_release leaves a well-formed file and a well-formed list of items,
\* whatever it finds.
LEMMA ReleaseKeepsTypes ==
    ASSUME NEW file \in [LockTypes -> Procs \cup {NoProc}],
           NEW items \in SUBSET LockItem, NEW th, NEW id
    PROVE  /\ Release(file, items, th, id).file \in [LockTypes -> Procs \cup {NoProc}]
           /\ Release(file, items, th, id).items \in SUBSET LockItem
<1> DEFINE mine == {i \in items : i.id = id /\ i.owner = th}
           chosen == CHOOSE x \in mine : TRUE
           n == (chosen.refcount + RefModulus - 1) % RefModulus
           less == (items \ {chosen}) \cup {[chosen EXCEPT !.refcount = n]}
<1>1. CASE mine = {}
  BY <1>1 DEF Release
<1>2. CASE mine # {}
  <2>1. chosen \in mine /\ chosen \in LockItem
    BY <1>2
  <2>2. n \in 0 .. RefModulus - 1
    BY <2>1, DnfLockAssumption DEF LockItem
  <2>3. [chosen EXCEPT !.refcount = n] \in LockItem
    BY <2>1, <2>2 DEF LockItem
  <2>4. less \in SUBSET LockItem
    BY <2>3
  <2>5. [file EXCEPT ![chosen.type] = NoProc] \in [LockTypes -> Procs \cup {NoProc}]
    BY <2>1 DEF LockItem
  <2>6. Release(file, items, th, id) =
          CASE n # 0 -> [file |-> file, items |-> less, ok |-> TRUE]
            [] n = 0 /\ chosen.mode = "process" /\ file[chosen.type] = NoProc ->
                 [file |-> file, items |-> less, ok |-> FALSE]
            [] OTHER -> [file |-> IF chosen.mode = "process"
                                  THEN [file EXCEPT ![chosen.type] = NoProc] ELSE file,
                         items |-> items \ {chosen}, ok |-> TRUE]
    BY <1>2 DEF Release
  <2> DEFINE r == Release(file, items, th, id)
             freed == IF chosen.mode = "process"
                      THEN [file EXCEPT ![chosen.type] = NoProc] ELSE file
  <2>7. freed \in [LockTypes -> Procs \cup {NoProc}] /\ items \ {chosen} \in SUBSET LockItem
    BY <2>5
  <2>8. \/ r = [file |-> file, items |-> less, ok |-> TRUE]
        \/ r = [file |-> file, items |-> less, ok |-> FALSE]
        \/ r = [file |-> freed, items |-> items \ {chosen}, ok |-> TRUE]
    BY <2>6, Zenon
  <2> HIDE DEF mine, chosen, n, less, freed, r
  <2>9. r.file \in {file, freed} /\ r.items \in {less, items \ {chosen}}
    BY <2>8
  <2> QED
    BY <2>4, <2>7, <2>9 DEF r
<1> QED
  BY <1>1, <1>2

\* dnf_lock_create_item and the counting of an item that is already there
\* keep the types.
LEMMA CreateItemKeepsTypes ==
    ASSUME LockTypeOK, NEW p \in Procs, NEW th \in Threads, NEW ty \in LockTypes,
           NEW mode \in LockModes, CreateItem(p, th, ty, mode)
    PROVE  LockTypeOK'
<1>1. [id |-> lockNextId[p], type |-> ty, mode |-> mode, owner |-> th, refcount |-> 1] \in LockItem
  BY DnfLockAssumption DEF LockItem, LockTypeOK
<1>2. lockItems' \in [Procs -> SUBSET LockItem]
  BY <1>1 DEF CreateItem, LockTypeOK
<1> QED
  BY <1>2 DEF CreateItem, LockTypeOK

LEMMA TakeAgainKeepsTypes ==
    ASSUME LockTypeOK, NEW p \in Procs, NEW th, NEW ty, NEW mode, TakeAgain(p, th, ty, mode)
    PROVE  LockTypeOK'
<1>1. PICK i \in TakenItem(lockItems[p], ty, mode) :
        /\ lockItems' = [lockItems EXCEPT ![p] = (@ \ {i}) \cup
               {[i EXCEPT !.refcount = (@ + 1) % RefModulus]}]
        /\ UNCHANGED <<lockFile, lockNextId, lockAlive>>
  BY DEF TakeAgain
<1>2. i \in LockItem
  BY DEF TakenItem, ItemsByTypeMode, LockTypeOK
<1>3. (i.refcount + 1) % RefModulus \in 0 .. RefModulus - 1
  BY <1>2, DnfLockAssumption DEF LockItem
<1>4. [i EXCEPT !.refcount = (@ + 1) % RefModulus] \in LockItem
  BY <1>2, <1>3 DEF LockItem
<1> QED
  BY <1>1, <1>4 DEF LockTypeOK

\* The id a take gives its caller is a number.
LEMMA TakenIdIsNumber ==
    ASSUME LockTypeOK, NEW p \in Procs, NEW ty, NEW mode
    PROVE  TakenId(p, ty, mode) \in Nat
<1>1. \A i \in TakenItem(lockItems[p], ty, mode) : i \in LockItem
  BY DEF TakenItem, ItemsByTypeMode, LockTypeOK
<1>2. CASE TakenItem(lockItems[p], ty, mode) = {}
  BY <1>2 DEF TakenId, LockTypeOK
<1>3. CASE TakenItem(lockItems[p], ty, mode) # {}
  <2>1. (CHOOSE i \in TakenItem(lockItems[p], ty, mode) : TRUE) \in LockItem
    BY <1>1, <1>3
  <2> QED
    BY <2>1, <1>3 DEF TakenId, LockItem
<1> QED
  BY <1>2, <1>3

LEMMA LockCrashKeepsTypes ==
    ASSUME LockTypeOK, NEW p \in Procs, LockCrash(p)
    PROVE  LockTypeOK'
BY DEF LockCrash, LockTypeOK

-----------------------------------------------------------------------------
(* The history.                                                            *)

AllItems == UNION {HistoryItems(g) : g \in Goals}
ItemStates == {"UNKNOWN", "DONE"}
ItemMaps == UNION {[S -> ItemStates] : S \in SUBSET AllItems}
HistRows == [state : ItemStates, items : ItemMaps]

\* The packages librpm handles for a goal.
Elements(g) == Installs(g) \cup g.remove \cup Replaced(g)

TxRecords ==
    [pc : Stages, goal : Goals \cup {NoGoal}, test : BOOLEAN, ids : SUBSET Nat, runs : Nat,
     open : BOOLEAN, row : Nat, items : SUBSET AllItems, todo : SUBSET TxPkgs,
     writing : BOOLEAN, ret : BOOLEAN]

TxTypes ==
    /\ tx \in [Procs -> TxRecords]
    /\ files \in SUBSET TxPkgs
    /\ rpmdb \in SUBSET TxPkgs
    /\ hist \in Seq(HistRows)
    /\ performed \in SUBSET ((1 .. Len(hist)) \X TxPkgs)

WithGoal == {"solved", "downloaded", "checked", "locked", "trusted", "filled", "begun",
             "running", "ran", "closed"}
WithRow == {"begun", "running", "ran"}

\* What the place of a process in dnf_transaction_commit says about its
\* objects t and about its row of the history.
PlacedAs(t) ==
    /\ t.row \in 0 .. Len(hist)
    /\ t.row > 0 => t.open
    /\ t.pc \in WithGoal => t.goal \in Goals
    /\ t.pc \in WithRow \cup {"filled"} => t.open
    /\ t.pc = "filled" => t.items = HistoryItems(t.goal)
    /\ t.pc \in WithRow => t.row > 0 /\ DOMAIN hist[t.row].items = HistoryItems(t.goal)
    /\ t.pc = "running" => t.todo \subseteq Elements(t.goal)

AllPlaced == \A p \in Procs : PlacedAs(tx[p])

TxInv == LockTypeOK /\ TxTypes /\ AllPlaced /\ HistoryIsTrue

\* No package of the remove list shares its name with another one that the
\* goal pushes out.  dnf_transaction_commit compares names where it means
\* packages, so it depends on this.
NamesToldApart(g) == \A q \in Replaced(g) \ g.remove : SameName(g.remove, q) = {}

\* Every package librpm will handle gets an item.
LEMMA ElementsAreRecorded ==
    ASSUME NEW g \in Goals, NamesToldApart(g), NEW q \in Elements(g)
    PROVE  \E i \in HistoryItems(g) : i[1] = q
<1>1. CASE q \in Installs(g)
  <2>1. <<q, InstallAction(g.install[q])>> \in HistoryItems(g)
    BY <1>1 DEF HistoryItems
  <2> QED
    BY <2>1
<1>2. CASE q \in g.remove
  <2>1. <<q, RemoveAction(g, q)>> \in HistoryItems(g)
    BY <1>2 DEF HistoryItems
  <2> QED
    BY <2>1
<1>3. CASE q \in Replaced(g) \ g.remove
  <2>1. PICK x \in Updates(g) : q \in g.replaces[x] /\ NameOf[x] = NameOf[q]
    BY <1>3, DnfTransactionAssumption
  <2>2. SameName(g.remove, q) = {}
    BY <1>3 DEF NamesToldApart
  <2>3. PICK a : HelperItems(g, x, q) = {<<q, a>>}
    BY <2>1, <2>2 DEF HelperItems
  <2>4. <<q, a>> \in UNION {HelperItems(g, x, z) : z \in g.replaces[x]}
    BY <2>1, <2>3
  <2>5. <<q, a>> \in HistoryItems(g)
    BY <2>1, <2>4 DEF HistoryItems
  <2> QED
    BY <2>5
<1> QED
  BY <1>1, <1>2, <1>3 DEF Elements

LEMMA ElementsArePackages ==
    ASSUME NEW g \in Goals
    PROVE  Elements(g) \subseteq TxPkgs
BY DnfTransactionAssumption DEF Elements, Replaced

LEMMA TxInit_TxInv == LockInit /\ TxInit => TxInv
<1> SUFFICES ASSUME LockInit, TxInit PROVE TxInv
  OBVIOUS
<1>1. LockTypeOK
  BY DEF LockInit, LockTypeOK
<1>2. IdleTx \in TxRecords
  BY DEF IdleTx, TxRecords, Stages, Live
<1>3. TxTypes
  BY <1>2, DnfTransactionAssumption DEF TxInit, TxTypes
<1>4. AllPlaced
  BY DEF TxInit, AllPlaced, PlacedAs, IdleTx, WithGoal, WithRow
<1>5. HistoryIsTrue
  BY DEF TxInit, HistoryIsTrue
<1> QED
  BY <1>1, <1>3, <1>4, <1>5 DEF TxInv

\* A step of one process that leaves the history alone keeps the invariant
\* when it keeps the types and the process is placed.
LEMMA OwnStep ==
    ASSUME TxInv, NEW p \in Procs, LockTypeOK', NEW t \in TxRecords,
           tx' = [tx EXCEPT ![p] = t], PlacedAs(t),
           files' \in SUBSET TxPkgs, UNCHANGED <<rpmdb, hist, performed>>
    PROVE  TxInv'
<1>1. TxTypes'
  BY DEF TxInv, TxTypes
<1>2. ASSUME NEW o \in Procs PROVE PlacedAs(tx[o])'
  <2>1. tx'[o] = t \/ tx'[o] = tx[o]
    BY DEF TxInv, TxTypes
  <2>2. PlacedAs(tx'[o])
    BY <2>1 DEF TxInv, AllPlaced
  <2> QED
    BY <2>2 DEF PlacedAs
<1>3. AllPlaced'
  BY <1>2 DEF AllPlaced
<1>4. HistoryIsTrue'
  BY DEF TxInv, HistoryIsTrue
<1> QED
  BY <1>1, <1>3, <1>4 DEF TxInv

\* The commit goes on, or goes to the label out.
LEMMA GotoStep ==
    ASSUME TxInv, NEW p \in Procs, UNCHANGED <<lockVars, rpmdb, hist, performed>>,
           files' \in SUBSET TxPkgs,
           NEW s \in {"idle", "downloaded", "trusted", "ran"}, Goto(p, s),
           s = "ran" => tx[p].pc = "running",
           s # "idle" => tx[p].pc \in WithGoal
    PROVE  TxInv'
<1> DEFINE t == [tx[p] EXCEPT !.pc = s]
<1>1. tx[p] \in TxRecords /\ PlacedAs(tx[p])
  BY DEF TxInv, TxTypes, AllPlaced
<1>2. t \in TxRecords /\ tx' = [tx EXCEPT ![p] = t]
  BY <1>1 DEF TxRecords, Stages, Live, Goto, TxInv, TxTypes
<1>3. PlacedAs(t)
  BY <1>1 DEF PlacedAs, TxRecords, WithGoal, WithRow
<1>4. LockTypeOK'
  BY DEF TxInv, LockTypeOK, lockVars
<1> QED
  BY <1>2, <1>3, <1>4, OwnStep

LEMMA ReturnStep ==
    ASSUME TxInv, NEW p \in Procs, UNCHANGED <<lockVars, rpmdb, hist, performed>>,
           files' \in SUBSET TxPkgs, NEW ok \in BOOLEAN, Return(p, ok)
    PROVE  TxInv'
<1> DEFINE t == [tx[p] EXCEPT !.pc = "out", !.ret = ok]
<1>1. tx[p] \in TxRecords /\ PlacedAs(tx[p])
  BY DEF TxInv, TxTypes, AllPlaced
<1>2. t \in TxRecords
  BY <1>1 DEF TxRecords, Stages, Live
<1>3. tx' = [tx EXCEPT ![p] = t]
  BY DEF Return
<1>4. PlacedAs(t)
  BY <1>1 DEF PlacedAs, TxRecords, WithGoal, WithRow
<1>5. LockTypeOK'
  BY DEF TxInv, LockTypeOK, lockVars
<1> QED
  BY <1>2, <1>3, <1>4, <1>5, OwnStep

\* The process dies, killed or by an exception.
LEMMA AbortStep ==
    ASSUME TxInv, NEW p \in Procs, Abort(p), UNCHANGED OnDisk
    PROVE  TxInv'
<1> DEFINE t == [IdleTx EXCEPT !.pc = "aborted"]
<1>1. LockTypeOK'
  BY LockCrashKeepsTypes DEF TxInv, Abort
<1>2. t \in TxRecords
  BY DEF IdleTx, TxRecords, Stages, Live
<1>3. tx' = [tx EXCEPT ![p] = t]
  BY DEF Abort
<1>4. PlacedAs(t)
  BY DEF PlacedAs, IdleTx, WithGoal, WithRow, TxInv, TxTypes
<1> QED
  BY <1>1, <1>2, <1>3, <1>4, OwnStep DEF OnDisk, TxInv, TxTypes

LEMMA DepsolveStep ==
    ASSUME TxInv, NEW p \in Procs, NEW g \in Goals, Depsolve(p, g)
    PROVE  TxInv'
<1> DEFINE t == [tx[p] EXCEPT !.pc = "solved", !.goal = g, !.ids = {}, !.runs = @ + 1, !.ret = FALSE]
<1>1. tx[p] \in TxRecords /\ PlacedAs(tx[p])
  BY DEF TxInv, TxTypes, AllPlaced
<1>2. tx[p].runs + 1 \in Nat
  BY <1>1 DEF TxRecords
<1>3. t \in TxRecords
  BY <1>1, <1>2 DEF TxRecords, Stages, Live
<1>4. tx' = [tx EXCEPT ![p] = t]
  BY DEF Depsolve
<1>5. PlacedAs(t)
  BY <1>1 DEF PlacedAs, TxRecords, WithGoal, WithRow
<1>6. LockTypeOK'
  BY ReleaseKeepsTypes DEF Depsolve, TxInv, LockTypeOK
<1> QED
  BY <1>3, <1>4, <1>5, <1>6, OwnStep DEF Depsolve, OnDisk, TxInv, TxTypes

\* dnf_state_take_lock: the file, the item, or one more count of it.
LEMMA TakeLockStep ==
    ASSUME TxInv, NEW p \in Procs,
           \/ \E test \in TestRuns : CommitCheckLock(p, test) \/ CommitTakeAgain(p, test)
           \/ CommitTakeLock(p)
    PROVE  TxInv'
<1>1. tx[p] \in TxRecords /\ PlacedAs(tx[p])
  BY DEF TxInv, TxTypes, AllPlaced
<1>2. ASSUME NEW test \in TestRuns, CommitCheckLock(p, test) PROVE TxInv'
  <2> DEFINE t == [tx[p] EXCEPT !.pc = "checked", !.test = test]
  <2>1. CASE Return(p, FALSE)
    BY <1>2, <2>1, ReturnStep DEF CommitCheckLock, OnDisk, TxInv, TxTypes
  <2>2. CASE tx' = [tx EXCEPT ![p].pc = "checked", ![p].test = test]
    <3>1. t \in TxRecords
      BY <1>1, DnfTransactionAssumption DEF TxRecords, Stages, Live
    <3>2. tx' = [tx EXCEPT ![p] = t]
      BY <2>2
    <3>3. PlacedAs(t)
      BY <1>1, <1>2 DEF CommitCheckLock, PlacedAs, TxRecords, WithGoal, WithRow
    <3>4. LockTypeOK'
      BY <1>2 DEF CommitCheckLock, TxInv, LockTypeOK, lockVars
    <3> QED
      BY <1>2, <3>1, <3>2, <3>3, <3>4, OwnStep DEF CommitCheckLock, OnDisk, TxInv, TxTypes
  <2> QED
    BY <1>2, <2>1, <2>2 DEF CommitCheckLock
<1>3. TakenId(p, "rpmdb", "process") \in Nat
  BY TakenIdIsNumber DEF TxInv
<1>4. ASSUME NEW test \in TestRuns, CommitTakeAgain(p, test) PROVE TxInv'
  <2> DEFINE t == [tx[p] EXCEPT !.pc = "locked", !.test = test,
                                !.ids = {TakenId(p, "rpmdb", "process")}]
  <2>1. t \in TxRecords
    BY <1>1, <1>3, DnfTransactionAssumption DEF TxRecords, Stages, Live
  <2>2. tx' = [tx EXCEPT ![p] = t]
    BY <1>4 DEF CommitTakeAgain
  <2>3. PlacedAs(t)
    BY <1>1, <1>4 DEF CommitTakeAgain, PlacedAs, TxRecords, WithGoal, WithRow
  <2>4. LockTypeOK'
    BY <1>4, TakeAgainKeepsTypes DEF CommitTakeAgain, TxInv
  <2> QED
    BY <1>4, <2>1, <2>2, <2>3, <2>4, OwnStep DEF CommitTakeAgain, OnDisk, TxInv, TxTypes
<1>5. CASE CommitTakeLock(p)
  <2> DEFINE t == [tx[p] EXCEPT !.pc = "locked", !.ids = {TakenId(p, "rpmdb", "process")}]
  <2>1. t \in TxRecords
    BY <1>1, <1>3 DEF TxRecords, Stages, Live
  <2>2. tx' = [tx EXCEPT ![p] = t]
    BY <1>5 DEF CommitTakeLock
  <2>3. PlacedAs(t)
    BY <1>1, <1>5 DEF CommitTakeLock, PlacedAs, TxRecords, WithGoal, WithRow
  <2>4. LockTypeOK'
    BY <1>5, CreateItemKeepsTypes, DnfTransactionAssumption DEF CommitTakeLock, TxInv, LockModes
  <2> QED
    BY <1>5, <2>1, <2>2, <2>3, <2>4, OwnStep DEF CommitTakeLock, OnDisk, TxInv, TxTypes
<1> QED
  BY <1>2, <1>4, <1>5

LEMMA FillStep ==
    ASSUME TxInv, NEW p \in Procs, CommitFill(p)
    PROVE  TxInv'
<1> DEFINE full == [tx[p] EXCEPT !.pc = "filled", !.open = TRUE, !.row = 0,
                                 !.items = HistoryItems(tx[p].goal), !.writing = FALSE]
           failed == [tx[p] EXCEPT !.pc = "out", !.ret = FALSE, !.open = TRUE, !.row = 0]
<1>1. tx[p] \in TxRecords /\ PlacedAs(tx[p])
  BY DEF TxInv, TxTypes, AllPlaced
<1>2. tx[p].goal \in Goals /\ HistoryItems(tx[p].goal) \in SUBSET AllItems
  BY <1>1 DEF CommitFill, PlacedAs, WithGoal, AllItems
<1>3. full \in TxRecords /\ failed \in TxRecords
  BY <1>1, <1>2 DEF TxRecords, Stages, Live
<1>4. PlacedAs(full) /\ PlacedAs(failed)
  BY <1>1, <1>2 DEF PlacedAs, TxRecords, WithGoal, WithRow, TxInv, TxTypes
<1>5. LockTypeOK'
  BY DEF CommitFill, TxInv, LockTypeOK, lockVars
<1>6. files' \in SUBSET TxPkgs /\ UNCHANGED <<rpmdb, hist, performed>>
  BY DEF CommitFill, OnDisk, TxInv, TxTypes
<1>7. tx' = [tx EXCEPT ![p] = full] \/ tx' = [tx EXCEPT ![p] = failed]
  BY DEF CommitFill
<1> QED
  BY <1>3, <1>4, <1>5, <1>6, <1>7, OwnStep

LEMMA RpmStartStep ==
    ASSUME TxInv, NEW p \in Procs, RpmStart(p)
    PROVE  TxInv'
<1> DEFINE t == [tx[p] EXCEPT !.pc = "running", !.todo = Elements(tx[p].goal)]
<1>1. tx[p] \in TxRecords /\ PlacedAs(tx[p])
  BY DEF TxInv, TxTypes, AllPlaced
<1>2. Elements(tx[p].goal) \in SUBSET TxPkgs
  BY <1>1, ElementsArePackages DEF RpmStart, PlacedAs, WithGoal
<1>3. t \in TxRecords
  BY <1>1, <1>2 DEF TxRecords, Stages, Live
<1>4. tx' = [tx EXCEPT ![p] = t]
  BY DEF RpmStart, Elements
<1>5. PlacedAs(t)
  BY <1>1 DEF RpmStart, PlacedAs, TxRecords, WithGoal, WithRow
<1>6. LockTypeOK'
  BY DEF RpmStart, TxInv, LockTypeOK, lockVars
<1> QED
  BY <1>3, <1>4, <1>5, <1>6, OwnStep DEF RpmStart, OnDisk, TxInv, TxTypes

LEMMA OutStep ==
    ASSUME TxInv, NEW p \in Procs, CommitOut(p)
    PROVE  TxInv'
<1>1. tx[p] \in TxRecords /\ PlacedAs(tx[p])
  BY DEF TxInv, TxTypes, AllPlaced
<1>2. PICK kept \in {{}, tx[p].ids} :
        tx' = [tx EXCEPT ![p] = [tx[p] EXCEPT !.pc = "idle", !.goal = NoGoal, !.todo = {}, !.ids = kept]]
  BY DEF CommitOut
<1> DEFINE t == [tx[p] EXCEPT !.pc = "idle", !.goal = NoGoal, !.todo = {}, !.ids = kept]
<1>3. kept \in SUBSET Nat
  BY <1>1 DEF TxRecords
<1>4. t \in TxRecords
  BY <1>1, <1>3 DEF TxRecords, Stages, Live
<1>5. PlacedAs(t)
  BY <1>1 DEF PlacedAs, TxRecords, WithGoal, WithRow
<1>6. LockTypeOK'
  BY ReleaseKeepsTypes DEF CommitOut, TxInv, LockTypeOK
<1>7. files' \in SUBSET TxPkgs /\ UNCHANGED <<rpmdb, hist, performed>>
  BY DEF CommitOut, OnDisk, TxInv, TxTypes
<1> QED
  BY <1>2, <1>4, <1>5, <1>6, <1>7, OwnStep

\* Swdb::beginTransaction appends a row: the other rows, and what processes
\* say about them, stay.
LEMMA BeginStep ==
    ASSUME TxInv, NEW p \in Procs, CommitBegin(p)
    PROVE  TxInv'
<1> DEFINE row == [state |-> "UNKNOWN", items |-> [i \in tx[p].items |-> "UNKNOWN"]]
           t == [tx[p] EXCEPT !.pc = "begun", !.row = Len(hist) + 1]
<1>1. tx[p] \in TxRecords /\ PlacedAs(tx[p])
  BY DEF TxInv, TxTypes, AllPlaced
<1>2. row \in HistRows
  <2>1. [i \in tx[p].items |-> "UNKNOWN"] \in [tx[p].items -> ItemStates]
    BY DEF ItemStates
  <2>2. tx[p].items \in SUBSET AllItems
    BY <1>1 DEF TxRecords
  <2>3. [i \in tx[p].items |-> "UNKNOWN"] \in ItemMaps
    BY <2>1, <2>2 DEF ItemMaps
  <2> QED
    BY <2>3 DEF HistRows, ItemStates
<1> HIDE DEF row
<1>3. hist \in Seq(HistRows) /\ hist' = Append(hist, row)
  BY DEF CommitBegin, row, TxInv, TxTypes
<1>4. /\ hist' \in Seq(HistRows) /\ Len(hist') = Len(hist) + 1 /\ Len(hist) \in Nat
      /\ \A r \in 1 .. Len(hist) : hist'[r] = hist[r]
      /\ hist'[Len(hist) + 1] = row
  BY <1>2, <1>3
<1>5. t \in TxRecords
  <2>1. Len(hist) + 1 \in Nat
    BY <1>4
  <2> QED
    BY <1>1, <2>1 DEF TxRecords, Stages, Live
<1>6. tx' = [tx EXCEPT ![p] = t]
  BY DEF CommitBegin
<1>7. TxTypes'
  <2>1. performed' \in SUBSET ((1 .. Len(hist')) \X TxPkgs)
    BY <1>4 DEF CommitBegin, TxInv, TxTypes
  <2>2. tx' \in [Procs -> TxRecords]
    BY <1>5, <1>6 DEF TxInv, TxTypes
  <2> QED
    BY <1>4, <2>1, <2>2 DEF CommitBegin, TxInv, TxTypes
<1>8. ASSUME NEW o \in Procs PROVE PlacedAs(tx[o])'
  <2>1. CASE o = p
    <3>1. tx'[o] = t
      BY <1>6, <2>1 DEF TxInv, TxTypes
    <3>2. t.pc = "begun" /\ t.row = Len(hist) + 1 /\ t.open /\ t.goal \in Goals
          /\ tx[p].items = HistoryItems(t.goal)
      BY <1>1 DEF CommitBegin, PlacedAs, TxRecords, WithGoal, WithRow
    <3>3. DOMAIN row.items = tx[p].items
      BY DEF row
    <3> QED
      BY <1>4, <3>1, <3>2, <3>3 DEF PlacedAs, WithGoal, WithRow
  <2>2. CASE o # p
    <3>1. tx'[o] = tx[o] /\ PlacedAs(tx[o]) /\ tx[o] \in TxRecords
      BY <1>6, <2>2 DEF TxInv, TxTypes, AllPlaced
    <3> QED
      BY <1>4, <3>1 DEF PlacedAs, TxRecords
  <2> QED
    BY <2>1, <2>2
<1>9. HistoryIsTrue'
  <2> SUFFICES ASSUME NEW r \in DOMAIN hist'
               PROVE  /\ \A i \in DOMAIN hist'[r].items :
                            hist'[r].items[i] = "DONE" => <<r, i[1]>> \in performed'
                      /\ hist'[r].state = "DONE" =>
                            \A i \in DOMAIN hist'[r].items : hist'[r].items[i] = "DONE"
    BY DEF HistoryIsTrue
  <2>1. CASE r = Len(hist) + 1
    BY <1>4, <2>1 DEF row
  <2>2. CASE r \in 1 .. Len(hist)
    <3>1. r \in DOMAIN hist /\ hist'[r] = hist[r] /\ performed' = performed
      BY <1>3, <1>4, <2>2 DEF CommitBegin
    <3> QED
      BY <3>1 DEF TxInv, HistoryIsTrue
  <2> QED
    BY <1>4, <2>1, <2>2
<1>10. LockTypeOK'
  BY DEF CommitBegin, TxInv, LockTypeOK, lockVars
<1> QED
  BY <1>7, <1>8, <1>9, <1>10 DEF TxInv, AllPlaced

\* librpm's callbacks mark the item of the package they are about, in the row
\* of the transaction that runs.
LEMMA ElementStep ==
    ASSUME TxInv, NEW p \in Procs, NEW q \in TxPkgs, RpmElement(p, q)
    PROVE  TxInv'
<1> DEFINE n == tx[p].row
           old == hist[n].items
           new == [i \in DOMAIN old |-> IF i[1] = q THEN "DONE" ELSE old[i]]
           t == [tx[p] EXCEPT !.todo = @ \ {q}, !.writing = TRUE]
<1>1. tx[p] \in TxRecords /\ PlacedAs(tx[p]) /\ hist \in Seq(HistRows)
  BY DEF TxInv, TxTypes, AllPlaced
<1>2. n \in 1 .. Len(hist)
  BY <1>1 DEF RpmElement, PlacedAs, WithRow
<1>3. hist[n] \in HistRows /\ old \in ItemMaps
  <2>1. hist[n] \in HistRows
    BY <1>1, <1>2
  <2> QED
    BY <2>1 DEF HistRows
<1>4. new \in ItemMaps
  <2>1. PICK S \in SUBSET AllItems : old \in [S -> ItemStates]
    BY <1>3 DEF ItemMaps
  <2>2. new \in [S -> ItemStates]
    BY <2>1 DEF ItemStates
  <2> QED
    BY <2>2 DEF ItemMaps
<1>5. hist' = [hist EXCEPT ![n] = [hist[n] EXCEPT !.items = new]]
  BY DEF RpmElement
<1> HIDE DEF new
<1>6. [hist[n] EXCEPT !.items = new] \in HistRows
  BY <1>3, <1>4 DEF HistRows
<1>7. /\ hist' \in Seq(HistRows) /\ Len(hist') = Len(hist) /\ DOMAIN hist' = 1 .. Len(hist)
      /\ \A r \in 1 .. Len(hist) : r # n => hist'[r] = hist[r]
      /\ hist'[n].items = new /\ hist'[n].state = hist[n].state
  BY <1>1, <1>2, <1>3, <1>5, <1>6 DEF HistRows
<1>8. DOMAIN new = DOMAIN old
  BY DEF new
<1>9. performed' = performed \cup {<<n, q>>}
  BY DEF RpmElement
<1>10. TxTypes'
  <2>1. t \in TxRecords
    BY <1>1 DEF TxRecords
  <2>2. tx' = [tx EXCEPT ![p] = t]
    BY DEF RpmElement
  <2>3. tx' \in [Procs -> TxRecords]
    BY <2>1, <2>2 DEF TxInv, TxTypes
  <2>4. performed' \in SUBSET ((1 .. Len(hist')) \X TxPkgs)
    BY <1>2, <1>7, <1>9 DEF TxInv, TxTypes
  <2> QED
    BY <1>7, <2>3, <2>4 DEF RpmElement, TxInv, TxTypes
<1>11. ASSUME NEW o \in Procs PROVE PlacedAs(tx[o])'
  <2>1. PlacedAs(tx[o]) /\ tx[o] \in TxRecords
    BY DEF TxInv, TxTypes, AllPlaced
  <2>2. /\ tx'[o].pc = tx[o].pc /\ tx'[o].row = tx[o].row /\ tx'[o].open = tx[o].open
        /\ tx'[o].goal = tx[o].goal /\ tx'[o].items = tx[o].items
        /\ tx'[o].todo \subseteq tx[o].todo
    BY <2>1 DEF RpmElement, TxRecords, TxInv, TxTypes
  <2>3. \A r \in 1 .. Len(hist) : DOMAIN hist'[r].items = DOMAIN hist[r].items
    BY <1>7, <1>8
  <2> QED
    BY <1>7, <2>1, <2>2, <2>3 DEF PlacedAs, TxRecords
<1>12. HistoryIsTrue'
  <2> SUFFICES ASSUME NEW r \in DOMAIN hist'
               PROVE  /\ \A i \in DOMAIN hist'[r].items :
                            hist'[r].items[i] = "DONE" => <<r, i[1]>> \in performed'
                      /\ hist'[r].state = "DONE" =>
                            \A i \in DOMAIN hist'[r].items : hist'[r].items[i] = "DONE"
    BY DEF HistoryIsTrue
  <2>1. /\ \A i \in DOMAIN hist[r].items :
              hist[r].items[i] = "DONE" => <<r, i[1]>> \in performed
        /\ hist[r].state = "DONE" =>
              \A i \in DOMAIN hist[r].items : hist[r].items[i] = "DONE"
    BY <1>1, <1>7 DEF TxInv, HistoryIsTrue
  <2>2. CASE r = n
    BY <1>7, <1>9, <2>1, <2>2 DEF new
  <2>3. CASE r # n
    BY <1>7, <1>9, <2>1, <2>3
  <2> QED
    BY <2>2, <2>3
<1>13. LockTypeOK'
  BY DEF RpmElement, TxInv, LockTypeOK, lockVars
<1> QED
  BY <1>10, <1>11, <1>12, <1>13 DEF TxInv, AllPlaced

\* Swdb::endTransaction marks the row done once every item is.
LEMMA CloseStep ==
    ASSUME TxInv, NEW p \in Procs, CommitClose(p)
    PROVE  TxInv'
<1> DEFINE n == tx[p].row
           whole == \A i \in DOMAIN hist[n].items : hist[n].items[i] = "DONE"
           t == [tx[p] EXCEPT !.pc = "closed", !.open = FALSE, !.row = 0]
<1>1. tx[p] \in TxRecords /\ PlacedAs(tx[p]) /\ hist \in Seq(HistRows)
  BY DEF TxInv, TxTypes, AllPlaced
<1>2. CASE ~ whole
  BY <1>2, AbortStep DEF CommitClose, OnDisk
<1>3. CASE whole
  <2>1. n \in 1 .. Len(hist) /\ hist[n] \in HistRows
    BY <1>1 DEF CommitClose, PlacedAs, WithRow
  <2>2. hist' = [hist EXCEPT ![n] = [hist[n] EXCEPT !.state = "DONE"]]
    BY <1>3 DEF CommitClose
  <2>3. [hist[n] EXCEPT !.state = "DONE"] \in HistRows
    BY <2>1 DEF HistRows, ItemStates
  <2>4. /\ hist' \in Seq(HistRows) /\ Len(hist') = Len(hist) /\ DOMAIN hist' = 1 .. Len(hist)
        /\ \A r \in 1 .. Len(hist) : r # n => hist'[r] = hist[r]
        /\ \A r \in 1 .. Len(hist) : hist'[r].items = hist[r].items
    BY <1>1, <2>1, <2>2, <2>3 DEF HistRows
  <2>5. t \in TxRecords
    BY <1>1 DEF TxRecords, Stages, Live
  <2>6. tx' = [tx EXCEPT ![p] = t]
    BY <1>3 DEF CommitClose
  <2>7. performed' = performed /\ files' = files /\ rpmdb' = rpmdb
    BY DEF CommitClose
  <2>8. TxTypes'
    <3>1. tx' \in [Procs -> TxRecords]
      BY <2>5, <2>6 DEF TxInv, TxTypes
    <3> QED
      BY <2>4, <2>7, <3>1 DEF TxInv, TxTypes
  <2>9. ASSUME NEW o \in Procs PROVE PlacedAs(tx[o])'
    <3>1. tx'[o] = t \/ tx'[o] = tx[o]
      BY <2>6 DEF TxInv, TxTypes
    <3>2. PlacedAs(t)
      BY <1>1 DEF CommitClose, PlacedAs, TxRecords, WithGoal, WithRow
    <3>3. PlacedAs(tx'[o]) /\ tx'[o] \in TxRecords
      BY <2>5, <3>1, <3>2 DEF TxInv, TxTypes, AllPlaced
    <3> QED
      BY <2>4, <3>3 DEF PlacedAs, TxRecords
  <2>10. HistoryIsTrue'
    BY <1>1, <1>3, <2>4, <2>7 DEF TxInv, HistoryIsTrue
  <2>11. LockTypeOK'
    BY <1>3 DEF CommitClose, TxInv, LockTypeOK, lockVars
  <2> QED
    BY <2>8, <2>9, <2>10, <2>11 DEF TxInv, AllPlaced
<1> QED
  BY <1>2, <1>3

LEMMA TxStepKeepsInv ==
    ASSUME TxInv, NEW p \in Procs, TxStep(p)
    PROVE  TxInv'
<1>1. files \in SUBSET TxPkgs /\ tx[p] \in TxRecords /\ PlacedAs(tx[p])
  BY DEF TxInv, TxTypes, AllPlaced
<1>2. CASE Download(p)
  <2>1. files' \in SUBSET TxPkgs
    BY <1>1, <1>2, DnfTransactionAssumption DEF Download, ToDownload, PlacedAs, WithGoal
  <2> QED
    BY <1>2, <2>1, GotoStep DEF Download, WithGoal
<1>3. CASE CommitCheckTrust(p)
  BY <1>1, <1>3, GotoStep, ReturnStep DEF CommitCheckTrust, OnDisk, WithGoal
<1>4. CASE CommitTest(p) \/ CommitRefused(p)
  BY <1>1, <1>4, ReturnStep DEF CommitTest, CommitRefused, OnDisk
<1>5. CASE RpmEnd(p)
  BY <1>1, <1>5, GotoStep, ReturnStep DEF RpmEnd, OnDisk, WithGoal
<1>6. CASE CommitCleanup(p)
  <2>1. files' \in SUBSET TxPkgs /\ UNCHANGED <<lockVars, rpmdb, hist, performed>>
    BY <1>1, <1>6 DEF CommitCleanup
  <2>2. Return(p, TRUE) \/ Return(p, FALSE)
    BY <1>6 DEF CommitCleanup
  <2> QED
    BY <2>1, <2>2, ReturnStep
<1>7. CASE CommitInitThrows(p) \/ TxCrash(p)
  BY <1>7, AbortStep DEF CommitInitThrows, TxCrash
<1> QED
  BY <1>2, <1>3, <1>4, <1>5, <1>6, <1>7, DepsolveStep, TakeLockStep, FillStep, RpmStartStep,
     OutStep, BeginStep, ElementStep, CloseStep DEF TxStep

LEMMA TxNextKeepsInv == TxInv /\ [TxNext]_<<lockVars, txVars>> => TxInv'
<1> SUFFICES ASSUME TxInv, [TxNext]_<<lockVars, txVars>> PROVE TxInv'
  OBVIOUS
<1>1. CASE TxNext
  BY <1>1, TxStepKeepsInv DEF TxNext
<1>2. CASE UNCHANGED <<lockVars, txVars>>
  BY <1>2 DEF lockVars, txVars, TxInv, LockTypeOK, TxTypes, AllPlaced, PlacedAs, HistoryIsTrue
<1> QED
  BY <1>1, <1>2

\* The types of a run of dnf_context_run, for any processes, packages and
\* goals: among them that a process in a commit always has a row the history
\* knows and that what librpm did belongs to a row.
THEOREM TxTypeCorrect == TxSpec => [](LockTypeOK /\ TxTypeOK)
<1>1. TxInv => LockTypeOK /\ TxTypeOK
  BY DEF TxInv, TxTypes, TxRecords, AllPlaced, PlacedAs, TxTypeOK
<1> QED
  BY <1>1, TxInit_TxInv, TxNextKeepsInv, PTL DEF TxSpec

\* The history never claims more than librpm did, in any interleaving of the
\* commits of any number of processes, crashes included.
THEOREM HistoryStaysTrue == TxSpec => []HistoryIsTrue
<1>1. TxInv => HistoryIsTrue
  BY DEF TxInv
<1> QED
  BY <1>1, TxInit_TxInv, TxNextKeepsInv, PTL DEF TxSpec

\* A row keeps its items, and there is an item for whatever librpm does next.
LEMMA StepKeepsWriteAhead ==
    ASSUME \A g \in Goals : NamesToldApart(g), TxInv, WriteAhead, [TxNext]_<<lockVars, txVars>>
    PROVE  WriteAhead'
<1>1. hist \in Seq(HistRows) /\ performed \in SUBSET ((1 .. Len(hist)) \X TxPkgs)
  BY DEF TxInv, TxTypes
<1>2. CASE UNCHANGED <<hist, performed>>
  BY <1>2 DEF WriteAhead
<1>3. ASSUME NEW p \in Procs, CommitBegin(p) PROVE WriteAhead'
  <2>1. performed' = performed /\ \A r \in 1 .. Len(hist) : hist'[r] = hist[r]
    BY <1>1, <1>3 DEF CommitBegin
  <2>2. \A e \in performed : e[1] \in 1 .. Len(hist)
    BY <1>1
  <2> QED
    BY <2>1, <2>2 DEF WriteAhead
<1>4. ASSUME NEW p \in Procs, CommitClose(p) PROVE WriteAhead'
  <2>1. performed' = performed /\ \A r \in 1 .. Len(hist) : hist'[r].items = hist[r].items
    <3>1. CASE UNCHANGED hist
      BY <1>4, <3>1 DEF CommitClose
    <3>2. CASE hist' = [hist EXCEPT ![tx[p].row].state = "DONE"]
      <4>1. \A r \in 1 .. Len(hist) : hist[r] \in HistRows
        BY <1>1
      <4> QED
        BY <1>1, <1>4, <3>2, <4>1 DEF CommitClose, HistRows
    <3> QED
      BY <1>4, <3>1, <3>2 DEF CommitClose
  <2>2. \A e \in performed : e[1] \in 1 .. Len(hist)
    BY <1>1
  <2> QED
    BY <2>1, <2>2 DEF WriteAhead
<1>5. ASSUME NEW p \in Procs, NEW q \in TxPkgs, RpmElement(p, q) PROVE WriteAhead'
  <2> DEFINE n == tx[p].row
  <2>1. tx[p] \in TxRecords /\ PlacedAs(tx[p]) /\ tx[p].pc = "running" /\ q \in tx[p].todo
    BY <1>5 DEF RpmElement, TxInv, TxTypes, AllPlaced
  <2>2. /\ n \in 1 .. Len(hist) /\ tx[p].goal \in Goals /\ q \in Elements(tx[p].goal)
        /\ DOMAIN hist[n].items = HistoryItems(tx[p].goal)
    BY <2>1 DEF PlacedAs, WithGoal, WithRow
  <2>3. \E i \in DOMAIN hist[n].items : i[1] = q
    BY <2>2, ElementsAreRecorded
  <2>4. \A r \in 1 .. Len(hist) : DOMAIN hist'[r].items = DOMAIN hist[r].items
    <3>1. \A r \in 1 .. Len(hist) : hist[r] \in HistRows
      BY <1>1
    <3> QED
      BY <1>1, <1>5, <3>1 DEF RpmElement, HistRows
  <2>5. performed' = performed \cup {<<n, q>>}
    BY <1>5 DEF RpmElement
  <2>6. \A e \in performed : e[1] \in 1 .. Len(hist)
    BY <1>1
  <2> QED
    BY <2>2, <2>3, <2>4, <2>5, <2>6 DEF WriteAhead
<1>6. ASSUME NEW p \in Procs, TxStep(p),
             ~ CommitBegin(p), ~ CommitClose(p), ~ (\E q \in TxPkgs : RpmElement(p, q))
      PROVE  UNCHANGED <<hist, performed>>
  BY <1>6 DEF TxStep, Depsolve, Download, CommitCheckLock, CommitTakeAgain, CommitTakeLock,
     CommitCheckTrust, CommitInitThrows, CommitFill, CommitTest, CommitRefused, RpmStart,
     RpmEnd, CommitCleanup, CommitOut, TxCrash, OnDisk
<1> QED
  BY <1>2, <1>3, <1>4, <1>5, <1>6 DEF TxNext, txVars

\* Whatever librpm did to the system is named by a row of the history written
\* before, for any number of processes and packages and wherever they die,
\* provided no goal removes one package and pushes out another of the same
\* name (as when one architecture goes and the other is updated).
THEOREM HistoryIsWrittenAhead ==
    ASSUME \A g \in Goals : NamesToldApart(g)
    PROVE  TxSpec => []WriteAhead
<1>1. LockInit /\ TxInit => TxInv /\ WriteAhead
  BY TxInit_TxInv DEF TxInit, WriteAhead
<1>2. (TxInv /\ WriteAhead) /\ [TxNext]_<<lockVars, txVars>> => (TxInv /\ WriteAhead)'
  BY TxNextKeepsInv, StepKeepsWriteAhead
<1> QED
  BY <1>1, <1>2, PTL DEF TxSpec

-----------------------------------------------------------------------------
(* The repository directory.                                               *)

StampsOrNone == {0} \cup Stamps

RpRecords ==
    [pc : RepoStages, flags : UpdateFlags \cup {{}}, generated : StampsOrNone,
     md : StampsOrNone, err : BOOLEAN, enabled : BOOLEAN, stampNew : StampsOrNone,
     ids : SUBSET Nat, ret : BOOLEAN, updates : Nat, seen : StampsOrNone]

RepoTypes ==
    /\ repoKind \in Kinds
    /\ location \in Trees
    /\ locationTmp \in Trees
    /\ rp \in [Procs -> RpRecords]

UpdateStages == {"checked", "locked", "prepared", "downloaded", "switch", "moved",
                 "cleaned", "installed", "out"}

\* What the place of process p in dnf_repo_update says about its object o and
\* about the directories, loc and tmp.
RpPlaced(p, o, loc, tmp) ==
    /\ o.pc \in UpdateStages => p \in Updaters
    /\ o.pc \in {"downloaded", "switch", "moved", "cleaned"} => tmp.md \in {0, o.stampNew}
    /\ o.pc = "installed" => loc.md \in {0, o.stampNew}
    /\ o.pc \in {"switch", "moved", "cleaned", "installed"} =>
          "FORCE" \in o.flags \/ o.stampNew >= o.generated
    /\ o.generated >= o.seen \/ (o.pc = "out" /\ o.ret /\ "FORCE" \in o.flags)

\* Metadata is in a directory that exists.
TreeWhole == location.md # 0 => location.there

RepoInv ==
    /\ LockTypeOK
    /\ RepoTypes
    /\ TreeWhole
    /\ \A p \in Procs : RpPlaced(p, rp[p], location, locationTmp)

\* One process updates; any number of them check, read and clean.
OneUpdater == \A p, q \in Updaters : p = q

LEMMA StampsAreNumbers == StampsOrNone \subseteq Nat
BY DnfRepoAssumption DEF StampsOrNone

LEMMA RepoInit_RepoInv == LockInit /\ RepoInit => RepoInv
<1> SUFFICES ASSUME LockInit, RepoInit PROVE RepoInv
  OBVIOUS
<1>1. LockTypeOK
  BY DEF LockInit, LockTypeOK
<1>2. NewRepo \in RpRecords
  BY DEF NewRepo, RpRecords, RepoStages, StampsOrNone
<1>3. NoTree \in Trees
  BY DEF NoTree, Trees
<1>4. location \in Trees /\ TreeWhole
  <2>1. CASE location = NoTree
    BY <1>3, <2>1 DEF TreeWhole, NoTree
  <2>2. ASSUME NEW s \in Stamps, NEW b \in BOOLEAN,
               location = [md |-> s, old |-> FALSE, pkgs |-> b, there |-> TRUE]
        PROVE  location \in Trees /\ TreeWhole
    BY <2>2 DEF TreeWhole, Trees
  <2> QED
    BY <2>1, <2>2 DEF RepoInit
<1>5. \A p \in Procs : RpPlaced(p, rp[p], location, locationTmp)
  BY DEF RepoInit, RpPlaced, NewRepo, UpdateStages
<1> QED
  BY <1>1, <1>2, <1>3, <1>4, <1>5 DEF RepoInit, RepoInv, RepoTypes

\* A step of one process.  Whoever is not the updater can only take metadata
\* away, so the updater stays placed.
LEMMA RepoOwnStep ==
    ASSUME OneUpdater, RepoInv, NEW p \in Procs, LockTypeOK',
           NEW o \in RpRecords, rp' = [rp EXCEPT ![p] = o],
           UNCHANGED repoKind, location' \in Trees, locationTmp' \in Trees, TreeWhole',
           RpPlaced(p, o, location', locationTmp'),
           p \in Updaters \/ (/\ location'.md \in {0, location.md}
                             /\ locationTmp'.md \in {0, locationTmp.md})
    PROVE  RepoInv'
<1>1. RepoTypes'
  BY DEF RepoInv, RepoTypes
<1>2. ASSUME NEW q \in Procs PROVE RpPlaced(q, rp[q], location, locationTmp)'
  <2>1. CASE q = p
    <3>1. rp'[p] = o
      BY DEF RepoInv, RepoTypes
    <3> QED
      BY <2>1, <3>1 DEF RpPlaced
  <2>2. CASE q # p
    <3>1. rp'[q] = rp[q] /\ RpPlaced(q, rp[q], location, locationTmp)
      BY <2>2 DEF RepoInv, RepoTypes
    <3>2. CASE q \in Updaters
      BY <2>2, <3>1, <3>2 DEF OneUpdater, RpPlaced
    <3>3. CASE q \notin Updaters
      BY <3>1, <3>3 DEF RpPlaced, UpdateStages
    <3> QED
      BY <3>2, <3>3
  <2> QED
    BY <2>1, <2>2
<1> QED
  BY <1>1, <1>2 DEF RepoInv

\* The update goes on, or goes to the label out, and the disk may change.
LEMMA RGotoStep ==
    ASSUME OneUpdater, RepoInv, NEW p \in Updaters, UNCHANGED <<lockVars, repoKind>>,
           location' \in Trees, locationTmp' \in Trees, TreeWhole',
           NEW s \in RepoStages, RGoto(p, s), RpPlaced(p, [rp[p] EXCEPT !.pc = s], location', locationTmp')
    PROVE  RepoInv'
<1> DEFINE o == [rp[p] EXCEPT !.pc = s]
<1>1. p \in Procs /\ rp[p] \in RpRecords
  BY DnfRepoAssumption DEF RepoInv, RepoTypes
<1>2. o \in RpRecords
  BY <1>1 DEF RpRecords
<1>3. rp' = [rp EXCEPT ![p] = o]
  BY DEF RGoto
<1>4. LockTypeOK'
  BY DEF RepoInv, LockTypeOK, lockVars
<1> QED
  BY <1>1, <1>2, <1>3, <1>4, RepoOwnStep

LEMMA RReturnStep ==
    ASSUME OneUpdater, RepoInv, NEW p \in Updaters, UNCHANGED <<lockVars, repoKind>>,
           location' \in Trees, locationTmp' \in Trees, TreeWhole',
           NEW ok \in BOOLEAN, RReturn(p, ok), rp[p].pc # "out"
    PROVE  RepoInv'
<1> DEFINE o == [rp[p] EXCEPT !.pc = "out", !.ret = ok]
<1>1. p \in Procs /\ rp[p] \in RpRecords
  BY DnfRepoAssumption DEF RepoInv, RepoTypes
<1>2. o \in RpRecords
  BY <1>1 DEF RpRecords, RepoStages
<1>3. rp' = [rp EXCEPT ![p] = o]
  BY DEF RReturn
<1>4. RpPlaced(p, rp[p], location, locationTmp)
  BY <1>1 DEF RepoInv
<1>5. RpPlaced(p, o, location', locationTmp')
  BY <1>1, <1>4 DEF RpPlaced, RpRecords
<1>6. LockTypeOK'
  BY DEF RepoInv, LockTypeOK, lockVars
<1> QED
  BY <1>1, <1>2, <1>3, <1>5, <1>6, RepoOwnStep

\* dnf_repo_check: the timestamp is taken over together with what was seen.
LEMMA CheckStep ==
    ASSUME OneUpdater, RepoInv, NEW p \in Procs, RepoCheck(p)
    PROVE  RepoInv'
<1> DEFINE c == Checked(rp[p], TRUE)
           o == NoteSeen(c)
<1>1. rp[p] \in RpRecords /\ RpPlaced(p, rp[p], location, locationTmp) /\ location \in Trees
      /\ TreeWhole
  BY DEF RepoInv, RepoTypes
<1>2. location.md \in StampsOrNone
  BY <1>1 DEF Trees, StampsOrNone
<1>3. /\ c \in RpRecords /\ c.pc = "idle" /\ c.seen = rp[p].seen
      /\ c.generated = IF location.md # 0 THEN location.md ELSE rp[p].generated
  BY <1>1, <1>2, DnfRepoAssumption DEF RepoCheck, Checked, RpRecords, TreeWhole
<1> HIDE DEF c
<1>4. o \in RpRecords
  BY <1>2, <1>3 DEF RpRecords, NoteSeen
<1>5. rp' = [rp EXCEPT ![p] = o]
  BY DEF RepoCheck, c
<1>6. o.pc = "idle" /\ o.generated >= o.seen
  BY <1>1, <1>2, <1>3, StampsAreNumbers DEF RepoCheck, RpRecords, RpPlaced, NoteSeen
<1>7. RpPlaced(p, o, location', locationTmp')
  BY <1>6 DEF RpPlaced, UpdateStages
<1>8. LockTypeOK'
  BY DEF RepoCheck, RepoInv, LockTypeOK, lockVars
<1> HIDE DEF o
<1> QED
  BY <1>1, <1>4, <1>5, <1>7, <1>8, RepoOwnStep DEF RepoCheck, Disk, RepoInv, RepoTypes, TreeWhole

\* The steps around the lock: the disk stays, the object goes to a stage that
\* promises nothing about it.
LEMMA LockStageStep ==
    ASSUME OneUpdater, RepoInv, NEW p \in Procs, LockTypeOK', UNCHANGED Disk,
           NEW o \in RpRecords, rp' = [rp EXCEPT ![p] = o],
           o.pc \notin {"downloaded", "switch", "moved", "cleaned", "installed"},
           o.pc \in UpdateStages => p \in Updaters,
           o.generated = rp[p].generated, o.seen = rp[p].seen,
           rp[p].pc # "out"
    PROVE  RepoInv'
<1>1. RpPlaced(p, rp[p], location, locationTmp)
  BY DEF RepoInv
<1>2. RpPlaced(p, o, location', locationTmp')
  BY <1>1 DEF RpPlaced
<1> QED
  BY <1>2, RepoOwnStep DEF Disk, RepoInv, RepoTypes, TreeWhole

LEMMA ReleasedKeepsTypes ==
    ASSUME LockTypeOK, NEW p \in Procs, ReleaseMetadataLock(p)
    PROVE  LockTypeOK'
BY ReleaseKeepsTypes DEF ReleaseMetadataLock, Released, LockTypeOK

LEMMA LockSteps ==
    ASSUME OneUpdater, RepoInv, NEW p \in Procs,
           \/ UpdateNotRemote(p)
           \/ \E flags \in UpdateFlags : UpdateStart(p, flags) \/ UpdateTakeAgain(p, flags)
           \/ UpdateTakeLock(p)
           \/ UpdateForgetState(p)
           \/ CleanCheckLock(p)
           \/ CleanTakeLock(p)
    PROVE  RepoInv'
<1>1. LockTypeOK /\ rp[p] \in RpRecords /\ RpPlaced(p, rp[p], location, locationTmp)
  BY DEF RepoInv, RepoTypes
<1>2. rp[p].updates + 1 \in Nat /\ TakenId(p, "metadata", "process") \in Nat
  BY <1>1, TakenIdIsNumber DEF RpRecords
<1>3. CASE UpdateNotRemote(p)
  <2> DEFINE o == [rp[p] EXCEPT !.ret = repoKind = "LOCAL" /\ ~ rp[p].err]
  <2>1. o \in RpRecords
    BY <1>1 DEF RpRecords
  <2>2. rp' = [rp EXCEPT ![p] = o] /\ LockTypeOK'
    BY <1>1, <1>3 DEF UpdateNotRemote, lockVars, LockTypeOK
  <2>3. /\ o.pc = "idle" /\ rp[p].pc = "idle"
        /\ o.generated = rp[p].generated /\ o.seen = rp[p].seen
    BY <1>1, <1>3 DEF UpdateNotRemote, RpRecords
  <2> QED
    BY <1>3, <2>1, <2>2, <2>3, LockStageStep DEF UpdateNotRemote, UpdateStages
<1>4. ASSUME NEW flags \in UpdateFlags, UpdateStart(p, flags) PROVE RepoInv'
  <2> DEFINE s == IF FileFree("metadata") THEN "checked" ELSE "out"
             o == [rp[p] EXCEPT !.pc = s, !.ret = FALSE, !.flags = flags, !.updates = @ + 1]
  <2>1. o \in RpRecords
    BY <1>1, <1>2 DEF RpRecords, RepoStages
  <2>2. rp' = [rp EXCEPT ![p] = o] /\ LockTypeOK'
    BY <1>1, <1>4 DEF UpdateStart, lockVars, LockTypeOK
  <2>3. /\ o.pc \in {"checked", "out"} /\ rp[p].pc = "idle" /\ p \in Updaters
        /\ o.generated = rp[p].generated /\ o.seen = rp[p].seen
    BY <1>1, <1>4 DEF UpdateStart, RpRecords
  <2>4. UNCHANGED Disk
    BY <1>4 DEF UpdateStart
  <2> HIDE DEF o
  <2> QED
    BY <2>1, <2>2, <2>3, <2>4, LockStageStep
<1>5. ASSUME NEW flags \in UpdateFlags, UpdateTakeAgain(p, flags) PROVE RepoInv'
  <2> DEFINE o == [rp[p] EXCEPT !.pc = "locked", !.ids = {TakenId(p, "metadata", "process")},
                                !.ret = FALSE, !.flags = flags, !.updates = @ + 1]
  <2>1. o \in RpRecords
    BY <1>1, <1>2 DEF RpRecords, RepoStages
  <2>2. rp' = [rp EXCEPT ![p] = o] /\ LockTypeOK'
    BY <1>1, <1>5, TakeAgainKeepsTypes DEF UpdateTakeAgain
  <2>3. /\ o.pc = "locked" /\ rp[p].pc = "idle" /\ p \in Updaters
        /\ o.generated = rp[p].generated /\ o.seen = rp[p].seen
    BY <1>1, <1>5 DEF UpdateTakeAgain, RpRecords
  <2> QED
    BY <1>5, <2>1, <2>2, <2>3, LockStageStep DEF UpdateTakeAgain
<1>6. ASSUME NEW from \in {"checked", "cleanChecked"}, NEW to \in {"locked", "cleanLocked"},
             rp[p].pc = from, from = "checked" <=> to = "locked",
             CreateItem(p, RepoThread, "metadata", "process"),
             rp' = [rp EXCEPT ![p].pc = to, ![p].ids = {TakenId(p, "metadata", "process")}],
             UNCHANGED Disk
      PROVE  RepoInv'
  <2> DEFINE o == [rp[p] EXCEPT !.pc = to, !.ids = {TakenId(p, "metadata", "process")}]
  <2>1. o \in RpRecords
    BY <1>1, <1>2 DEF RpRecords, RepoStages
  <2>2. rp' = [rp EXCEPT ![p] = o]
    BY <1>6
  <2>3. LockTypeOK'
    BY <1>1, <1>6, CreateItemKeepsTypes, DnfRepoAssumption DEF LockModes
  <2>4. /\ o.pc = to /\ rp[p].pc # "out"
        /\ o.generated = rp[p].generated /\ o.seen = rp[p].seen
    BY <1>1, <1>6 DEF RpRecords
  <2>5. o.pc \in UpdateStages => p \in Updaters
    BY <1>1, <1>6, <2>4 DEF RpPlaced, UpdateStages
  <2>6. o.pc \notin {"downloaded", "switch", "moved", "cleaned", "installed"}
    BY <2>4
  <2> HIDE DEF o
  <2> QED
    BY <1>6, <2>1, <2>2, <2>3, <2>4, <2>5, <2>6, LockStageStep
<1>7. CASE UpdateForgetState(p)
  <2> DEFINE o == [rp[p] EXCEPT !.ids = {}]
  <2>1. o \in RpRecords
    BY <1>1 DEF RpRecords
  <2>2. rp' = [rp EXCEPT ![p] = o] /\ LockTypeOK'
    BY <1>1, <1>7, ReleasedKeepsTypes DEF UpdateForgetState
  <2>3. /\ o.pc = "idle" /\ rp[p].pc = "idle"
        /\ o.generated = rp[p].generated /\ o.seen = rp[p].seen
    BY <1>1, <1>7 DEF UpdateForgetState, RpRecords
  <2> QED
    BY <1>7, <2>1, <2>2, <2>3, LockStageStep DEF UpdateForgetState, UpdateStages
<1>8. CASE CleanCheckLock(p)
  <2> DEFINE o == [rp[p] EXCEPT !.pc = "cleanChecked", !.updates = @ + 1]
  <2>1. o \in RpRecords
    BY <1>1, <1>2 DEF RpRecords, RepoStages
  <2>2. rp' = [rp EXCEPT ![p] = o] /\ LockTypeOK'
    BY <1>1, <1>8 DEF CleanCheckLock, lockVars, LockTypeOK
  <2>3. /\ o.pc = "cleanChecked" /\ rp[p].pc = "idle"
        /\ o.generated = rp[p].generated /\ o.seen = rp[p].seen
    BY <1>1, <1>8 DEF CleanCheckLock, RpRecords
  <2> QED
    BY <1>8, <2>1, <2>2, <2>3, LockStageStep DEF CleanCheckLock, UpdateStages
<1> QED
  BY <1>3, <1>4, <1>5, <1>6, <1>7, <1>8 DEF UpdateTakeLock, CleanTakeLock

\* The packages and the downloaded metadata move about: one step of the
\* updater inside the update.
LEMMA UpdateSteps ==
    ASSUME OneUpdater, RepoInv, NEW p \in Procs,
           \/ UpdatePrepare(p) \/ UpdateDownload(p) \/ UpdateDecide(p)
           \/ UpdateMovePackages(p) \/ UpdateClean(p) \/ UpdateMove(p)
    PROVE  RepoInv'
<1>1. /\ rp[p] \in RpRecords /\ RpPlaced(p, rp[p], location, locationTmp)
      /\ location \in Trees /\ locationTmp \in Trees /\ TreeWhole
  BY DEF RepoInv, RepoTypes
<1>2. p \in Updaters /\ rp[p].pc \notin {"out", "idle"}
  BY <1>1 DEF UpdatePrepare, UpdateDownload, UpdateDecide, UpdateMovePackages, UpdateClean,
     UpdateMove, RpPlaced, UpdateStages
<1>3. NoTree \in Trees /\ EmptyTree \in Trees /\ NoTree.md = 0 /\ EmptyTree.md = 0
  BY DEF NoTree, EmptyTree, Trees
<1>4. CASE UpdatePrepare(p)
  <2>1. RpPlaced(p, [rp[p] EXCEPT !.pc = "prepared"], location', locationTmp')
    BY <1>1, <1>2, <1>4 DEF UpdatePrepare, RpPlaced, RpRecords
  <2>2. UNCHANGED <<lockVars, repoKind>> /\ location' \in Trees /\ locationTmp' \in Trees /\ TreeWhole'
    BY <1>1, <1>3, <1>4 DEF UpdatePrepare, TreeWhole
  <2>3. CASE RGoto(p, "prepared")
    BY <1>2, <2>1, <2>2, <2>3, RGotoStep DEF RepoStages
  <2>4. CASE RReturn(p, FALSE)
    BY <1>2, <2>2, <2>4, RReturnStep
  <2> QED
    BY <1>4, <2>3, <2>4 DEF UpdatePrepare, ImportPublicKeys
<1>5. CASE UpdateDownload(p)
  <2>1. UNCHANGED <<lockVars, repoKind>> /\ location' \in Trees /\ TreeWhole'
    BY <1>1, <1>5 DEF UpdateDownload, TreeWhole
  <2>2. CASE RReturn(p, FALSE) /\ UNCHANGED locationTmp
    BY <1>1, <1>2, <2>1, <2>2, RReturnStep
  <2>3. ASSUME NEW s \in Stamps, locationTmp' = [locationTmp EXCEPT !.md = s],
               rp' = [rp EXCEPT ![p].pc = "downloaded", ![p].stampNew = s]
        PROVE  RepoInv'
    <3> DEFINE o == [rp[p] EXCEPT !.pc = "downloaded", !.stampNew = s]
    <3>1. o \in RpRecords
      BY <1>1 DEF RpRecords, RepoStages, StampsOrNone
    <3>2. rp' = [rp EXCEPT ![p] = o]
      BY <2>3
    <3>3. locationTmp' \in Trees /\ locationTmp'.md = s
      BY <1>1, <2>3 DEF Trees
    <3>4. RpPlaced(p, o, location', locationTmp')
      BY <1>1, <1>2, <3>3 DEF RpPlaced, RpRecords
    <3>5. LockTypeOK'
      BY <2>1 DEF RepoInv, LockTypeOK, lockVars
    <3> HIDE DEF o
    <3> QED
      BY <1>2, <2>1, <3>1, <3>2, <3>3, <3>4, <3>5, RepoOwnStep
  <2> QED
    BY <1>5, <2>2, <2>3 DEF UpdateDownload
<1>6. CASE UpdateDecide(p)
  <2>1. /\ UNCHANGED <<lockVars, repoKind>> /\ location' \in Trees /\ TreeWhole'
        /\ locationTmp' \in Trees
    BY <1>1, <1>3, <1>6 DEF UpdateDecide, TreeWhole
  <2>2. CASE \E ok \in BOOLEAN : RReturn(p, ok)
    BY <1>2, <2>1, <2>2, RReturnStep
  <2>3. CASE ~ Older(p) /\ RGoto(p, "switch") /\ UNCHANGED locationTmp
    <3>1. "FORCE" \in rp[p].flags \/ rp[p].stampNew >= rp[p].generated
      <4>1. rp[p].stampNew \in Nat /\ rp[p].generated \in Nat
        BY <1>1, StampsAreNumbers DEF RpRecords
      <4> QED
        BY <2>3, <4>1 DEF Older
    <3>2. RpPlaced(p, [rp[p] EXCEPT !.pc = "switch"], location', locationTmp')
      BY <1>1, <1>2, <1>6, <2>3, <3>1 DEF UpdateDecide, RpPlaced, RpRecords
    <3> QED
      BY <1>2, <2>1, <2>3, <3>2, RGotoStep DEF RepoStages
  <2>4. CASE rp' = [rp EXCEPT ![p].pc = "idle", ![p].ret = FALSE] /\ UNCHANGED locationTmp
    <3> DEFINE o == [rp[p] EXCEPT !.pc = "idle", !.ret = FALSE]
    <3>1. o \in RpRecords
      BY <1>1 DEF RpRecords, RepoStages
    <3>2. rp' = [rp EXCEPT ![p] = o]
      BY <2>4
    <3>3. RpPlaced(p, o, location', locationTmp')
      BY <1>1, <1>2 DEF RpPlaced, RpRecords, UpdateStages
    <3>4. LockTypeOK'
      BY <2>1 DEF RepoInv, LockTypeOK, lockVars
    <3> HIDE DEF o
    <3> QED
      BY <1>2, <2>1, <3>1, <3>2, <3>3, <3>4, RepoOwnStep
  <2>5. locationTmp.there \in BOOLEAN
    BY <1>1 DEF Trees
  <2> QED
    BY <1>6, <2>2, <2>3, <2>4, <2>5 DEF UpdateDecide
<1>7. CASE UpdateMovePackages(p)
  <2>1. /\ location' \in Trees /\ locationTmp' \in Trees
        /\ location'.md = location.md /\ location'.there = location.there
        /\ locationTmp'.md = locationTmp.md
    BY <1>1, <1>7 DEF UpdateMovePackages, Trees
  <2>2. UNCHANGED <<lockVars, repoKind>> /\ TreeWhole'
    BY <1>1, <1>7, <2>1 DEF UpdateMovePackages, TreeWhole
  <2>3. CASE RReturn(p, FALSE)
    BY <1>2, <2>1, <2>2, <2>3, RReturnStep
  <2>4. CASE RGoto(p, "moved")
    <3>1. RpPlaced(p, [rp[p] EXCEPT !.pc = "moved"], location', locationTmp')
      BY <1>1, <1>2, <1>7, <2>1 DEF UpdateMovePackages, RpPlaced, RpRecords
    <3> QED
      BY <1>2, <2>1, <2>2, <2>4, <3>1, RGotoStep DEF RepoStages
  <2> QED
    BY <1>7, <2>3, <2>4 DEF UpdateMovePackages
<1>8. CASE UpdateClean(p)
  <2> PICK r \in RemoveRecursive(location) :
          location' = r.tree /\ IF r.ok THEN RGoto(p, "cleaned") ELSE RReturn(p, FALSE)
    BY <1>8 DEF UpdateClean
  <2>1. /\ location' \in Trees /\ location'.md = 0 /\ UNCHANGED <<lockVars, repoKind, locationTmp>>
    BY <1>1, <1>3, <1>8 DEF UpdateClean, RemoveRecursive, Trees
  <2>2. TreeWhole'
    BY <2>1 DEF TreeWhole
  <2>3. CASE RReturn(p, FALSE)
    BY <1>1, <1>2, <2>1, <2>2, <2>3, RReturnStep
  <2>4. CASE RGoto(p, "cleaned")
    <3>1. RpPlaced(p, [rp[p] EXCEPT !.pc = "cleaned"], location', locationTmp')
      BY <1>1, <1>2, <1>8, <2>1 DEF UpdateClean, RpPlaced, RpRecords
    <3> QED
      BY <1>1, <1>2, <2>1, <2>2, <2>4, <3>1, RGotoStep DEF RepoStages
  <2> QED
    BY <2>3, <2>4
<1>9. CASE UpdateMove(p)
  <2>1. /\ location' \in Trees /\ locationTmp' \in Trees /\ UNCHANGED <<lockVars, repoKind>>
    BY <1>1, <1>3, <1>9 DEF UpdateMove
  <2>2. TreeWhole'
    BY <1>1, <1>9 DEF UpdateMove, TreeWhole, CanMove
  <2>3. CASE RReturn(p, FALSE)
    BY <1>2, <2>1, <2>2, <2>3, RReturnStep
  <2>4. CASE location' = locationTmp /\ RGoto(p, "installed")
    <3>1. RpPlaced(p, [rp[p] EXCEPT !.pc = "installed"], location', locationTmp')
      BY <1>1, <1>2, <1>9, <2>4 DEF UpdateMove, RpPlaced, RpRecords
    <3> QED
      BY <1>2, <2>1, <2>2, <2>4, <3>1, RGotoStep DEF RepoStages
  <2> QED
    BY <1>9, <2>3, <2>4 DEF UpdateMove
<1> QED
  BY <1>4, <1>5, <1>6, <1>7, <1>8, <1>9

\* dnf_repo_check at the end of the update reads what is in place: what the
\* update brought, or nothing when a cleaner was faster.
LEMMA UpdateCheckStep ==
    ASSUME OneUpdater, RepoInv, NEW p \in Procs, UpdateCheck(p)
    PROVE  RepoInv'
<1> DEFINE c == Checked(rp[p], FALSE)
           o == [c EXCEPT !.pc = "out", !.ret = ~ c.err]
<1>1. /\ rp[p] \in RpRecords /\ RpPlaced(p, rp[p], location, locationTmp)
      /\ location \in Trees /\ TreeWhole /\ rp[p].pc = "installed"
  BY DEF RepoInv, RepoTypes, UpdateCheck
<1>2. location.md \in StampsOrNone /\ p \in Updaters
  BY <1>1 DEF Trees, StampsOrNone, RpPlaced, UpdateStages
<1>3. /\ c \in RpRecords /\ c.seen = rp[p].seen /\ c.flags = rp[p].flags
      /\ \/ location.md # 0 /\ ~ c.err /\ c.generated = location.md
         \/ location.md = 0 /\ c.err /\ c.generated = rp[p].generated
  BY <1>1, <1>2, DnfRepoAssumption DEF Checked, RpRecords, TreeWhole
<1> HIDE DEF c
<1>4. /\ o \in RpRecords /\ o.pc = "out" /\ o.ret = ~ c.err
      /\ o.seen = c.seen /\ o.flags = c.flags /\ o.generated = c.generated
  BY <1>3 DEF RpRecords, RepoStages
<1>5. rp' = [rp EXCEPT ![p] = o]
  BY DEF UpdateCheck, c
<1>6. /\ rp[p].generated \in Nat /\ rp[p].seen \in Nat /\ rp[p].stampNew \in Nat
      /\ rp[p].generated >= rp[p].seen
      /\ "FORCE" \in rp[p].flags \/ rp[p].stampNew >= rp[p].generated
      /\ location.md \in {0, rp[p].stampNew}
  BY <1>1, StampsAreNumbers DEF RpPlaced, RpRecords
<1> HIDE DEF o
<1>7. o.generated >= o.seen \/ (o.ret /\ "FORCE" \in o.flags)
  <2>1. CASE c.err
    BY <1>3, <1>4, <1>6, <2>1
  <2>2. CASE ~ c.err
    <3>1. c.generated = rp[p].stampNew
      BY <1>3, <1>6, <2>2
    <3>2. CASE "FORCE" \in rp[p].flags
      BY <1>3, <1>4, <2>2, <3>2
    <3>3. CASE rp[p].stampNew >= rp[p].generated
      <4>1. rp[p].stampNew >= rp[p].seen
        BY <1>6, <3>3
      <4> QED
        BY <1>3, <1>4, <3>1, <4>1
    <3> QED
      BY <1>6, <3>2, <3>3
  <2> QED
    BY <2>1, <2>2
<1>8. RpPlaced(p, o, location', locationTmp')
  BY <1>2, <1>4, <1>7 DEF RpPlaced
<1>9. LockTypeOK'
  BY DEF UpdateCheck, RepoInv, LockTypeOK, lockVars
<1> QED
  BY <1>2, <1>4, <1>5, <1>8, <1>9, RepoOwnStep DEF UpdateCheck, Disk, RepoInv, RepoTypes, TreeWhole

\* The label out: what is in the object is what was seen, when the update
\* succeeded.
LEMMA UpdateOutStep ==
    ASSUME OneUpdater, RepoInv, NEW p \in Procs, UpdateOut(p)
    PROVE  RepoInv'
<1> DEFINE i == IF Released(p).ok THEN {} ELSE rp[p].ids
           n == IF rp[p].ret THEN rp[p].generated ELSE rp[p].seen
           o == [rp[p] EXCEPT !.pc = "idle", !.ids = i, !.seen = n]
<1>1. /\ rp[p] \in RpRecords /\ RpPlaced(p, rp[p], location, locationTmp)
      /\ location \in Trees /\ locationTmp \in Trees /\ TreeWhole /\ rp[p].pc = "out"
  BY DEF RepoInv, RepoTypes, UpdateOut
<1>2. p \in Updaters
  BY <1>1 DEF RpPlaced, UpdateStages
<1>3. i \in SUBSET Nat /\ n \in StampsOrNone
  BY <1>1 DEF RpRecords
<1>4. rp' = [rp EXCEPT ![p] = o]
  BY DEF UpdateOut
<1>5. rp[p].generated >= n
  <2>1. rp[p].generated \in Nat /\ rp[p].seen \in Nat
    BY <1>1, StampsAreNumbers DEF RpRecords
  <2> QED
    BY <1>1, <2>1 DEF RpPlaced
<1> HIDE DEF i, n
<1>6. o \in RpRecords /\ o.pc = "idle" /\ o.generated = rp[p].generated /\ o.seen = n
  BY <1>1, <1>3 DEF RpRecords, RepoStages
<1> HIDE DEF o
<1>7. RpPlaced(p, o, location', locationTmp')
  BY <1>5, <1>6 DEF RpPlaced, UpdateStages
<1>8. NoTree \in Trees
  BY DEF NoTree, Trees
<1>9. location' \in Trees /\ locationTmp' \in Trees /\ TreeWhole' /\ UNCHANGED repoKind
  BY <1>1, <1>8 DEF UpdateOut, TreeWhole
<1>10. LockTypeOK'
  BY ReleasedKeepsTypes DEF UpdateOut, RepoInv
<1> QED
  BY <1>2, <1>4, <1>6, <1>7, <1>9, <1>10, RepoOwnStep

\* The cleaners, lock or no lock, only take metadata away.
LEMMA CleanStep ==
    ASSUME OneUpdater, RepoInv, NEW p \in Procs,
           CleanAll(p) \/ \E what \in {"packages", "metadata"} : CleanFiles(p, what)
    PROVE  RepoInv'
<1>1. /\ rp[p] \in RpRecords /\ RpPlaced(p, rp[p], location, locationTmp)
      /\ location \in Trees /\ locationTmp \in Trees /\ TreeWhole /\ LockTypeOK
  BY DEF RepoInv, RepoTypes
<1>2. NoTree \in Trees /\ NoTree.md = 0
  BY DEF NoTree, Trees
<1>3. CASE CleanAll(p)
  <2> DEFINE o == [rp[p] EXCEPT !.updates = @ + 1]
  <2>1. rp[p].updates + 1 \in Nat
    BY <1>1 DEF RpRecords
  <2>2. o \in RpRecords /\ o.pc = "idle" /\ o.generated = rp[p].generated /\ o.seen = rp[p].seen
    BY <1>1, <1>3, <2>1 DEF CleanAll, RpRecords
  <2>3. rp' = [rp EXCEPT ![p] = o]
    BY <1>3 DEF CleanAll
  <2> HIDE DEF o
  <2>4. RpPlaced(p, o, location', locationTmp')
    BY <1>1, <1>3, <2>2 DEF CleanAll, RpPlaced, UpdateStages
  <2>5. /\ location' \in Trees /\ locationTmp' \in Trees
        /\ location'.md \in {0, location.md} /\ locationTmp'.md = 0
    BY <1>1, <1>2, <1>3 DEF CleanAll
  <2>6. TreeWhole' /\ UNCHANGED repoKind /\ LockTypeOK'
    BY <1>1, <1>2, <1>3 DEF CleanAll, TreeWhole, LockTypeOK, lockVars
  <2> QED
    BY <2>2, <2>3, <2>4, <2>5, <2>6, RepoOwnStep
<1>4. ASSUME NEW what \in {"packages", "metadata"}, CleanFiles(p, what) PROVE RepoInv'
  <2> DEFINE o == [rp[p] EXCEPT !.pc = "idle", !.ids = {}]
  <2>1. /\ o \in RpRecords /\ o.pc = "idle" /\ rp[p].pc = "cleanLocked"
        /\ o.generated = rp[p].generated /\ o.seen = rp[p].seen
    BY <1>1, <1>4 DEF CleanFiles, RpRecords, RepoStages
  <2>2. rp' = [rp EXCEPT ![p] = o]
    BY <1>4 DEF CleanFiles
  <2> HIDE DEF o
  <2>3. RpPlaced(p, o, location', locationTmp')
    BY <1>1, <2>1 DEF RpPlaced, UpdateStages
  <2>4. /\ location' \in Trees /\ location'.md \in {0, location.md}
        /\ location'.there = location.there
    BY <1>1, <1>4 DEF CleanFiles, DeleteFilesMatching, Trees
  <2>5. TreeWhole' /\ UNCHANGED <<repoKind, locationTmp>>
    BY <1>1, <1>4, <2>4 DEF CleanFiles, TreeWhole
  <2>6. LockTypeOK'
    BY <1>1, <1>4, ReleasedKeepsTypes DEF CleanFiles
  <2> QED
    BY <1>1, <2>1, <2>2, <2>3, <2>4, <2>5, <2>6, RepoOwnStep
<1> QED
  BY <1>3, <1>4

LEMMA RepoCrashStep ==
    ASSUME OneUpdater, RepoInv, NEW p \in Procs, RepoCrash(p)
    PROVE  RepoInv'
<1> DEFINE o == [NewRepo EXCEPT !.pc = "dead"]
<1>1. o \in RpRecords /\ o.pc = "dead" /\ o.generated = 0 /\ o.seen = 0
  BY DEF NewRepo, RpRecords, RepoStages, StampsOrNone
<1>2. rp' = [rp EXCEPT ![p] = o]
  BY DEF RepoCrash
<1> HIDE DEF o
<1>3. RpPlaced(p, o, location', locationTmp')
  BY <1>1 DEF RpPlaced, UpdateStages
<1>4. LockTypeOK'
  BY LockCrashKeepsTypes DEF RepoCrash, RepoInv
<1> QED
  BY <1>1, <1>2, <1>3, <1>4, RepoOwnStep DEF RepoCrash, Disk, RepoInv, RepoTypes, TreeWhole

LEMMA RepoNextKeepsInv ==
    ASSUME OneUpdater
    PROVE  RepoInv /\ [RepoNext]_<<lockVars, repoVars>> => RepoInv'
<1> SUFFICES ASSUME RepoInv, [RepoNext]_<<lockVars, repoVars>> PROVE RepoInv'
  OBVIOUS
<1>1. ASSUME NEW p \in Procs, RepoStep(p) PROVE RepoInv'
  BY <1>1, CheckStep, LockSteps, UpdateSteps, UpdateCheckStep, UpdateOutStep, CleanStep,
     RepoCrashStep DEF RepoStep
<1>2. ASSUME location' \in Trees, location'.md \in {0, location.md}, TreeWhole',
             UNCHANGED <<lockVars, repoKind, locationTmp, rp>>
      PROVE  RepoInv'
  <2>1. LockTypeOK' /\ RepoTypes'
    BY <1>2 DEF RepoInv, LockTypeOK, RepoTypes, lockVars
  <2>2. ASSUME NEW q \in Procs PROVE RpPlaced(q, rp[q], location, locationTmp)'
    <3>1. RpPlaced(q, rp[q], location, locationTmp)
      BY DEF RepoInv
    <3> QED
      BY <1>2, <3>1 DEF RpPlaced
  <2> QED
    BY <1>2, <2>1, <2>2 DEF RepoInv
<1>3. location \in Trees /\ TreeWhole /\ NoTree \in Trees /\ NoTree.md = 0
  BY DEF RepoInv, RepoTypes, NoTree, Trees
<1>4. CASE RepoGrowsOld
  BY <1>2, <1>3, <1>4 DEF RepoGrowsOld, Trees, TreeWhole
<1>5. CASE RepoVanishes
  BY <1>2, <1>3, <1>5 DEF RepoVanishes, TreeWhole
<1>6. CASE UNCHANGED <<lockVars, repoVars>>
  BY <1>2, <1>3, <1>6 DEF repoVars, TreeWhole
<1> QED
  BY <1>1, <1>4, <1>5, <1>6 DEF RepoNext

\* The types of the repository object and of its directories, for any
\* processes and timestamps.
THEOREM RepoTypeCorrect ==
    ASSUME OneUpdater
    PROVE  RepoSpec => [](LockTypeOK /\ RepoTypeOK)
<1>1. RepoInv => LockTypeOK /\ RepoTypeOK
  BY DEF RepoInv, RepoTypes, RpRecords, StampsOrNone, RepoTypeOK
<1> QED
  BY <1>1, RepoInit_RepoInv, RepoNextKeepsInv, PTL DEF RepoSpec

\* dnf_repo_update never installs older metadata than this process has seen
\* unless forced, whatever stale mirrors serve, for any number of processes
\* that clean or die at any point, provided only one of them updates.
THEOREM UpdateNeverRollsBack ==
    ASSUME OneUpdater
    PROVE  RepoSpec => []NoRollback
<1>1. RepoInv => NoRollback
  BY DEF RepoInv, RpPlaced, NoRollback
<1> QED
  BY <1>1, RepoInit_RepoInv, RepoNextKeepsInv, PTL DEF RepoSpec

-----------------------------------------------------------------------------
(* The states of a task.                                                   *)

LEMMA LeastOf ==
    ASSUME NEW T \in SUBSET Nat, T # {}
    PROVE  \E x \in T : \A y \in T : x <= y
<1> DEFINE R == OpToRel(<, Nat)
<1>1. \A a, b \in Nat : a < b => <<a, b>> \in R
  BY DEF OpToRel
<1>2. IsWellFoundedOn(R, Nat)
  BY NatLessThanWellFounded
<1> HIDE DEF R
<1>3. PICK x \in T : \A y \in T : ~ (<<y, x>> \in R)
  BY <1>2, WFMin
<1>4. \A y \in T : ~ (y < x)
  BY <1>1, <1>3
<1> QED
  BY <1>3, <1>4

\* A set of numbers that holds 0 and with each number the next one.
LEMMA CountUpTo ==
    ASSUME NEW N \in Nat, NEW G, 0 \in G, \A n \in 1 .. N : n - 1 \in G => n \in G
    PROVE  N \in G
<1> DEFINE T == {n \in 0 .. N : n \notin G}
<1>1. SUFFICES ASSUME T # {} PROVE FALSE
  OBVIOUS
<1>2. T \in SUBSET Nat
  OBVIOUS
<1>3. PICK n \in T : \A m \in T : n <= m
  <2> HIDE DEF T
  <2> QED
    BY <1>1, <1>2, LeastOf
<1>4. n \in 1 .. N /\ n - 1 \in 0 .. N /\ ~ (n <= n - 1)
  BY <1>3
<1> QED
  BY <1>3, <1>4

ActionNames == Actions \cup {Unknown}

StRecord ==
    [live : BOOLEAN, steps : Nat, current : Nat, data : Seq(Nat), pct : Nat,
     cancel : BOOLEAN, cancelChild : BOOLEAN,
     action : ActionNames, last : ActionNames, childAction : ActionNames, ids : Seq(Nat)]

Chains == [1 .. Depth -> StRecord]
LockFiles == [LockTypes -> Procs \cup {NoProc}]

\* The places where a state remembers a lock, and the id that is there.
Places(c) == {x \in (1 .. Depth) \X (1 .. MaxTakes) : x[2] <= Len(c[x[1]].ids)}
IdAt(c, x) == c[x[1]].ids[x[2]]
PlacesOf(c, H, id) == {x \in H : IdAt(c, x) = id}

\* The items, with ids below B, count the places in H, each of which belongs to
\* one of them.
Balanced(file, items, c, H, B) ==
    /\ \A i \in items : i.owner = StateThread /\ i.refcount = Cardinality(PlacesOf(c, H, i.id))
    /\ \A i \in items : i.id < B
    /\ \A i \in items : i.mode = "process" => file[i.type] # NoProc
    /\ \A i, j \in items : i.id = j.id \/ (i.type = j.type /\ i.mode = j.mode) => i = j
    /\ \A x \in H : \E i \in items : i.id = IdAt(c, x)

LEMMA PlacesAreFinite ==
    ASSUME NEW c, NEW H, H \subseteq Places(c)
    PROVE  /\ IsFiniteSet(H) /\ Cardinality(H) \in Nat /\ Cardinality(H) < RefModulus
           /\ \A id : IsFiniteSet(PlacesOf(c, H, id)) /\ Cardinality(PlacesOf(c, H, id)) \in Nat
<1> DEFINE A == (1 .. Depth) \X (1 .. MaxTakes)
<1>1. IsFiniteSet(1 .. Depth) /\ Cardinality(1 .. Depth) = Depth
  BY DnfStateAssumption, FS_Interval
<1>2. IsFiniteSet(1 .. MaxTakes) /\ Cardinality(1 .. MaxTakes) = MaxTakes
  BY DnfStateAssumption, FS_Interval
<1>3. IsFiniteSet(A) /\ Cardinality(A) = Depth * MaxTakes
  BY <1>1, <1>2, FS_Product
<1>4. H \subseteq A
  BY DEF Places
<1> HIDE DEF A
<1>5. IsFiniteSet(H) /\ Cardinality(H) <= Cardinality(A)
  BY <1>3, <1>4, FS_Subset
<1>6. Cardinality(H) \in Nat /\ Cardinality(A) \in Nat
  BY <1>3, <1>5, FS_CardinalityType
<1>7. ASSUME NEW id PROVE IsFiniteSet(PlacesOf(c, H, id)) /\ Cardinality(PlacesOf(c, H, id)) \in Nat
  <2>1. PlacesOf(c, H, id) \subseteq H
    BY DEF PlacesOf
  <2> QED
    BY <1>5, <2>1, FS_Subset, FS_CardinalityType
<1>8. Cardinality(H) < RefModulus
  BY <1>3, <1>5, <1>6, DnfStateAssumption, DnfLockAssumption
<1> QED
  BY <1>5, <1>6, <1>7, <1>8

\* dnf_lock_release of what a state remembers: it succeeds, and what is left is
\* balanced with one place less.
LEMMA ReleaseOne ==
    ASSUME NEW file \in LockFiles, NEW items \in SUBSET LockItem, NEW c, NEW H, NEW B,
           H \subseteq Places(c), Balanced(file, items, c, H, B), NEW x \in H, NEW r,
           r = Release(file, items, StateThread, IdAt(c, x))
    PROVE  /\ r.ok = TRUE /\ r.file \in LockFiles /\ r.items \in SUBSET LockItem
           /\ Balanced(r.file, r.items, c, H \ {x}, B)
<1> DEFINE id == IdAt(c, x)
           mine == {i \in items : i.id = id /\ i.owner = StateThread}
           K == H \ {x}
<1>1. PICK i \in items : i.id = id
  BY DEF Balanced
<1>2. i.owner = StateThread /\ \A j \in items : j.id = id => j = i
  BY <1>1 DEF Balanced
<1>3. mine = {i}
  BY <1>1, <1>2
<1>4. (CHOOSE y \in mine : TRUE) = i
  BY <1>3
<1>5. /\ IsFiniteSet(PlacesOf(c, H, id)) /\ Cardinality(PlacesOf(c, H, id)) \in Nat
      /\ x \in PlacesOf(c, H, id)
      /\ PlacesOf(c, K, id) = PlacesOf(c, H, id) \ {x}
      /\ \A d : d # id => PlacesOf(c, K, d) = PlacesOf(c, H, d)
  BY PlacesAreFinite DEF PlacesOf
<1>6. /\ IsFiniteSet(PlacesOf(c, K, id)) /\ Cardinality(PlacesOf(c, K, id)) \in Nat
      /\ Cardinality(PlacesOf(c, K, id)) = Cardinality(PlacesOf(c, H, id)) - 1
  <2> DEFINE A == PlacesOf(c, H, id)
  <2>1. IsFiniteSet(A) /\ x \in A /\ PlacesOf(c, K, id) = A \ {x} /\ Cardinality(A) \in Nat
    BY <1>5
  <2> HIDE DEF A, K
  <2>2. IsFiniteSet(A \ {x}) /\ Cardinality(A \ {x}) = Cardinality(A) - 1
    BY <2>1, FS_RemoveElement
  <2>3. Cardinality(A \ {x}) \in Nat
    BY <2>2, FS_CardinalityType
  <2> QED
    BY <2>1, <2>2, <2>3 DEF A
<1> DEFINE n == (i.refcount + RefModulus - 1) % RefModulus
           j == [i EXCEPT !.refcount = n]
           less == (items \ {i}) \cup {j}
<1>7. i \in LockItem /\ i.refcount = Cardinality(PlacesOf(c, H, id))
  BY <1>1 DEF Balanced
<1>8. i.refcount \in 1 .. RefModulus - 1 /\ i.refcount - 1 = Cardinality(PlacesOf(c, K, id))
  BY <1>5, <1>6, <1>7 DEF LockItem
<1>9. n = i.refcount - 1
  <2>1. \A a \in Nat, M \in Nat : a >= 1 /\ a < M => (a + M - 1) % M = a - 1
    OBVIOUS
  <2> QED
    BY <1>8, <2>1, DnfLockAssumption
<1> HIDE DEF n
<1>10. n \in 0 .. RefModulus - 1 /\ n = Cardinality(PlacesOf(c, K, id))
  BY <1>8, <1>9, DnfLockAssumption
<1>11. j \in LockItem /\ j.id = id /\ j.type = i.type /\ j.mode = i.mode /\ j.owner = StateThread /\ j.refcount = n
  BY <1>1, <1>2, <1>7, <1>10 DEF LockItem
<1>12. r = CASE n # 0 -> [file |-> file, items |-> less, ok |-> TRUE]
             [] n = 0 /\ i.mode = "process" /\ file[i.type] = NoProc ->
                  [file |-> file, items |-> less, ok |-> FALSE]
             [] OTHER -> [file |-> IF i.mode = "process"
                                   THEN [file EXCEPT ![i.type] = NoProc] ELSE file,
                          items |-> items \ {i}, ok |-> TRUE]
  BY <1>3, <1>4 DEF Release, n
<1> HIDE DEF j, K
<1>13. \A d \in items : d # i => d.id # id /\ d.refcount = Cardinality(PlacesOf(c, K, d.id)) /\ d.owner = StateThread
  BY <1>1, <1>2, <1>5 DEF Balanced
<1>14. K \subseteq H
  BY DEF K
<1>15. CASE n # 0
  <2>1. r = [file |-> file, items |-> less, ok |-> TRUE]
    BY <1>12, <1>15
  <2>2. \A d \in less : d.owner = StateThread /\ d.refcount = Cardinality(PlacesOf(c, K, d.id))
    BY <1>10, <1>11, <1>13
  <2>3. \A d \in less : d.mode = "process" => file[d.type] # NoProc
    BY <1>11 DEF Balanced
  <2>4. \A d, e \in less : d.id = e.id \/ (d.type = e.type /\ d.mode = e.mode) => d = e
    BY <1>1, <1>11 DEF Balanced
  <2>5. \A y \in K : \E d \in less : d.id = IdAt(c, y)
    BY <1>1, <1>11, <1>14 DEF Balanced
  <2>a. \A d \in less : d.id < B
    BY <1>1, <1>11 DEF Balanced
  <2>6. Balanced(file, less, c, K, B)
    BY <2>2, <2>3, <2>4, <2>5, <2>a DEF Balanced
  <2> QED
    BY <1>11, <2>1, <2>6 DEF K
<1>16. CASE n = 0
  <2> DEFINE rest == items \ {i}
             f == IF i.mode = "process" THEN [file EXCEPT ![i.type] = NoProc] ELSE file
  <2>1. ~ (i.mode = "process" /\ file[i.type] = NoProc)
    BY <1>1 DEF Balanced
  <2>2. r = [file |-> f, items |-> rest, ok |-> TRUE]
    BY <1>12, <1>16, <2>1
  <2>3. f \in LockFiles
    BY DEF LockFiles
  <2>4. \A d \in rest : d.owner = StateThread /\ d.refcount = Cardinality(PlacesOf(c, K, d.id))
    BY <1>13
  <2>5. ASSUME NEW d \in rest, d.mode = "process" PROVE f[d.type] # NoProc
    <3>1. file[d.type] # NoProc /\ ~ (d.type = i.type /\ d.mode = i.mode)
      BY <1>1, <2>5 DEF Balanced
    <3>2. d.type \in LockTypes
      BY DEF LockItem
    <3> QED
      BY <2>5, <3>1, <3>2 DEF LockFiles
  <2>6. \A d, e \in rest : d.id = e.id \/ (d.type = e.type /\ d.mode = e.mode) => d = e
    BY DEF Balanced
  <2>7. PlacesOf(c, K, id) = {}
    BY <1>6, <1>10, <1>16, FS_EmptySet
  <2>8. ASSUME NEW y \in K PROVE \E d \in rest : d.id = IdAt(c, y)
    <3>1. IdAt(c, y) # id
      BY <2>7 DEF PlacesOf
    <3>2. PICK d \in items : d.id = IdAt(c, y)
      BY <1>14 DEF Balanced
    <3> QED
      BY <1>1, <3>1, <3>2
  <2>a. \A d \in rest : d.id < B
    BY DEF Balanced
  <2> HIDE DEF f, rest
  <2>9. Balanced(f, rest, c, K, B)
    BY <2>4, <2>5, <2>6, <2>8, <2>a DEF Balanced
  <2>10. rest \in SUBSET LockItem
    BY DEF rest
  <2> QED
    BY <2>2, <2>3, <2>9, <2>10 DEF K
<1> QED
  BY <1>15, <1>16

\* The places of level l after the first k of them were released.
Rest(c, l, k) == {x \in Places(c) : ~ (x[1] = l /\ x[2] <= k)}

Releases(base, ids, r, N) ==
    r = [k \in 0 .. N |-> IF k = 0 THEN base ELSE ReleaseNext(r[k - 1], ids[k])]

LEMMA ReleasesExist ==
    ASSUME NEW base, NEW ids, NEW N \in Nat
    PROVE  \E r : Releases(base, ids, r, N)
<1> DEFINE Some(n) == \E r : Releases(base, ids, r, n)
           G == {n \in 0 .. N : Some(n)}
<1>1. 0 \in G
  <2>1. Releases(base, ids, [n \in 0 .. 0 |-> base], 0)
    BY DEF Releases
  <2>2. Some(0)
    BY <2>1
  <2> HIDE DEF Some
  <2> QED
    BY <2>2
<1>2. ASSUME NEW n \in 1 .. N, n - 1 \in G PROVE n \in G
  <2>1. PICK f : Releases(base, ids, f, n - 1)
    BY <1>2
  <2>2. n \in Nat /\ n # 0 /\ n - 1 \in 0 .. n - 1 /\ 0 \in 0 .. n - 1
    OBVIOUS
  <2>3. f[0] = base /\ \A m \in 1 .. n - 1 : f[m] = ReleaseNext(f[m - 1], ids[m])
    BY <2>1, <2>2 DEF Releases
  <2> DEFINE last == ReleaseNext(f[n - 1], ids[n])
             g == [m \in 0 .. n |-> IF m = n THEN last ELSE f[m]]
  <2> HIDE DEF last
  <2>4. g[n] = last /\ \A m \in 0 .. n - 1 : g[m] = f[m]
    BY <2>2
  <2>a. g = [m \in 0 .. n |-> g[m]]
    OBVIOUS
  <2> HIDE DEF g
  <2>5. g[0] = base
    BY <2>2, <2>3, <2>4
  <2>6. ASSUME NEW m \in 1 .. n PROVE g[m] = ReleaseNext(g[m - 1], ids[m])
    <3>1. m - 1 \in 0 .. n - 1 /\ (m = n \/ m \in 1 .. n - 1)
      BY <2>2
    <3>2. g[m - 1] = f[m - 1]
      BY <2>4, <3>1
    <3>3. CASE m = n
      BY <2>4, <3>2, <3>3 DEF last
    <3>4. CASE m \in 1 .. n - 1
      <4>1. m \in 0 .. n - 1
        BY <3>4
      <4> QED
        BY <2>3, <2>4, <3>2, <3>4, <4>1
    <3> QED
      BY <3>1, <3>3, <3>4
  <2>7. \A m \in 0 .. n : g[m] = IF m = 0 THEN base ELSE ReleaseNext(g[m - 1], ids[m])
    BY <2>2, <2>5, <2>6
  <2>8. Some(n)
    BY <2>a, <2>7 DEF Releases
  <2> HIDE DEF Some
  <2> QED
    BY <2>8
<1>3. N \in G
  <2> HIDE DEF G
  <2> QED
    BY <1>1, <1>2, CountUpTo
<1> QED
  BY <1>3

\* The ids of a state are all given back.
LEMMA IdsReleased ==
    ASSUME NEW v, NEW B, NEW c \in Chains, v.chain = c, v.file \in LockFiles, v.items \in SUBSET LockItem,
           Balanced(v.file, v.items, c, Places(c), B), NEW l \in 1 .. Depth, Len(c[l].ids) <= MaxTakes
    PROVE  LET r == ReleaseIds(v, c[l].ids)
           IN /\ r.ok = TRUE /\ r.file \in LockFiles /\ r.items \in SUBSET LockItem
              /\ Balanced(r.file, r.items, c, Rest(c, l, Len(c[l].ids)), B)
<1> DEFINE ids == c[l].ids
           N == Len(ids)
<1>1. ids \in Seq(Nat) /\ N \in Nat /\ N <= MaxTakes /\ MaxTakes \in Nat
  BY DnfStateAssumption DEF Chains, StRecord
<1> HIDE DEF ids
<1>2. PICK r : /\ r[0] = [file |-> v.file, items |-> v.items, ok |-> TRUE]
               /\ \A k \in 1 .. N : r[k] = ReleaseNext(r[k - 1], ids[k])
               /\ ReleaseIds(v, ids) = r[N]
  <2> DEFINE base == [file |-> v.file, items |-> v.items, ok |-> TRUE]
             r == CHOOSE f : Releases(base, ids, f, N)
  <2>1. ReleaseIds(v, ids) = r[N]
    BY DEF ReleaseIds, Releases
  <2> HIDE DEF base, N
  <2>2. Releases(base, ids, r, N)
    BY <1>1, ReleasesExist
  <2> HIDE DEF r
  <2>3. r[0] = base /\ \A k \in 1 .. N : r[k] = ReleaseNext(r[k - 1], ids[k])
    BY <1>1, <2>2 DEF Releases
  <2> QED
    BY <2>1, <2>3 DEF base
<1> DEFINE Good(k) == /\ r[k].ok = TRUE /\ r[k].file \in LockFiles /\ r[k].items \in SUBSET LockItem
                      /\ Balanced(r[k].file, r[k].items, c, Rest(c, l, k), B)
           G == {k \in 0 .. N : Good(k)}
<1>3. Good(0)
  <2>1. Rest(c, l, 0) = Places(c)
    BY DnfStateAssumption DEF Rest, Places
  <2> QED
    BY <1>2, <2>1
<1>4. ASSUME NEW k \in 1 .. N, Good(k - 1) PROVE Good(k)
  <2> DEFINE x == <<l, k>>
             H == Rest(c, l, k - 1)
             a == r[k - 1]
  <2>1. x \in (1 .. Depth) \X (1 .. MaxTakes) /\ x[1] = l /\ x[2] = k /\ k <= Len(c[l].ids)
    BY <1>1 DEF ids
  <2>2. x \in H /\ IdAt(c, x) = ids[k]
    BY <1>1, <2>1 DEF Rest, Places, IdAt, ids
  <2>3. H \ {x} = Rest(c, l, k) /\ H \subseteq Places(c)
    <3>1. ASSUME NEW y \in Places(c)
          PROVE  ~ (y[1] = l /\ y[2] <= k - 1) /\ y # x <=> ~ (y[1] = l /\ y[2] <= k)
      <4>1. y = <<y[1], y[2]>> /\ y[2] \in Nat
        BY DEF Places
      <4>2. y = x <=> y[1] = l /\ y[2] = k
        BY <4>1
      <4> QED
        BY <4>1, <4>2
    <3> QED
      BY <3>1 DEF Rest
  <2>4. r[k] = Release(a.file, a.items, StateThread, ids[k])
    BY <1>2, <1>4 DEF ReleaseNext
  <2>5. a.file \in LockFiles /\ a.items \in SUBSET LockItem /\ Balanced(a.file, a.items, c, H, B)
    BY <1>4
  <2> HIDE DEF x, H, a
  <2>6. r[k] = Release(a.file, a.items, StateThread, IdAt(c, x))
    BY <2>2, <2>4
  <2>7. /\ r[k].ok = TRUE /\ r[k].file \in LockFiles /\ r[k].items \in SUBSET LockItem
        /\ Balanced(r[k].file, r[k].items, c, H \ {x}, B)
    <3> DEFINE q == r[k]
    <3>1. q = Release(a.file, a.items, StateThread, IdAt(c, x))
      BY <2>6
    <3> HIDE DEF q
    <3>2. /\ q.ok = TRUE /\ q.file \in LockFiles /\ q.items \in SUBSET LockItem
          /\ Balanced(q.file, q.items, c, H \ {x}, B)
      BY ONLY <2>2, <2>3, <2>5, <3>1, ReleaseOne
    <3> QED
      BY <3>2 DEF q
  <2> QED
    BY <2>3, <2>7
<1> HIDE DEF Good
<1>5. 0 \in G
  BY <1>1, <1>3
<1>6. ASSUME NEW k \in 1 .. N, k - 1 \in G PROVE k \in G
  <2>1. Good(k)
    BY <1>4, <1>6
  <2> QED
    BY <1>1, <2>1
<1>7. N \in G
  <2> HIDE DEF G
  <2> QED
    BY <1>1, <1>5, <1>6, CountUpTo
<1>8. Good(N)
  BY <1>7
<1> QED
  BY <1>2, <1>8 DEF Good, ids

Views == [chain : Chains, file : LockFiles, items : SUBSET LockItem]

\* Every count belongs to a place of the chain.
Holds(v, B) ==
    /\ v \in Views
    /\ \A l \in 1 .. Depth : Len(v.chain[l].ids) <= MaxTakes
    /\ Balanced(v.file, v.items, v.chain, Places(v.chain), B)

\* Two chains with the same ids in the same places.
LEMMA BalanceByIds ==
    ASSUME NEW c, NEW d, NEW file, NEW items, NEW H, NEW B, Balanced(file, items, c, H, B),
           \A x \in H : IdAt(d, x) = IdAt(c, x)
    PROVE  Balanced(file, items, d, H, B)
<1>1. \A id : PlacesOf(d, H, id) = PlacesOf(c, H, id)
  BY DEF PlacesOf
<1> QED
  BY <1>1 DEF Balanced

\* dnf_state_release_locks of one state.
LEMMA LevelReleased ==
    ASSUME NEW v, NEW B, Holds(v, B), NEW l \in 1 .. Depth
    PROVE  /\ Holds(ReleaseLevel(v, l), B)
           /\ ReleaseLevel(v, l).chain = [v.chain EXCEPT ![l].ids = << >>]
<1> DEFINE c == v.chain
           r == ReleaseIds(v, c[l].ids)
           d == [c EXCEPT ![l].ids = << >>]
           w == [chain |-> d, file |-> r.file, items |-> r.items]
<1>1. /\ c \in Chains /\ v.file \in LockFiles /\ v.items \in SUBSET LockItem
      /\ \A m \in 1 .. Depth : Len(c[m].ids) <= MaxTakes
      /\ Balanced(v.file, v.items, c, Places(c), B)
  BY DEF Holds, Views
<1> HIDE DEF c
<1>2. /\ r.ok = TRUE /\ r.file \in LockFiles /\ r.items \in SUBSET LockItem
      /\ Balanced(r.file, r.items, c, Rest(c, l, Len(c[l].ids)), B)
  <2>1. v.chain = c
    BY DEF c
  <2> QED
    BY <1>1, <2>1, IdsReleased
<1>3. ReleaseLevel(v, l) = w
  BY <1>2 DEF ReleaseLevel, c
<1> HIDE DEF r
<1>4. << >> \in Seq(Nat) /\ Len(<< >>) = 0
  OBVIOUS
<1>5. d \in Chains /\ d[l].ids = << >> /\ \A m \in 1 .. Depth : m # l => d[m] = c[m]
  BY <1>1, <1>4 DEF Chains, StRecord
<1> HIDE DEF d
<1>6. Places(d) = Rest(c, l, Len(c[l].ids)) /\ \A x \in Places(d) : IdAt(d, x) = IdAt(c, x)
  <2>1. ASSUME NEW x \in (1 .. Depth) \X (1 .. MaxTakes)
        PROVE  /\ x \in Places(d) <=> x \in Rest(c, l, Len(c[l].ids))
               /\ x \in Places(d) => IdAt(d, x) = IdAt(c, x)
    <3>1. x[1] \in 1 .. Depth /\ x[2] \in 1 .. MaxTakes
      OBVIOUS
    <3>2. CASE x[1] = l
      BY <1>4, <1>5, <3>1, <3>2 DEF Places, Rest, IdAt
    <3>3. CASE x[1] # l
      BY <1>5, <3>1, <3>3 DEF Places, Rest, IdAt
    <3> QED
      BY <3>2, <3>3
  <2>2. Places(d) \subseteq (1 .. Depth) \X (1 .. MaxTakes)
    BY DEF Places
  <2>3. Rest(c, l, Len(c[l].ids)) \subseteq (1 .. Depth) \X (1 .. MaxTakes)
    BY DEF Places, Rest
  <2> QED
    BY <2>1, <2>2, <2>3
<1>7. Balanced(r.file, r.items, d, Places(d), B)
  BY <1>2, <1>6, BalanceByIds
<1>8. \A m \in 1 .. Depth : Len(d[m].ids) <= MaxTakes
  BY <1>1, <1>4, <1>5, DnfStateAssumption
<1>9. Holds(w, B)
  BY <1>2, <1>5, <1>7, <1>8 DEF Holds, Views
<1> QED
  BY <1>3, <1>9 DEF c, d

Levels(v, r, N) ==
    r = [k \in 0 .. N |-> IF k = 0 THEN v ELSE ReleaseLevel(r[k - 1], Depth + 1 - k)]

LEMMA LevelsExist ==
    ASSUME NEW v, NEW N \in Nat
    PROVE  \E r : Levels(v, r, N)
<1> DEFINE Some(n) == \E r : Levels(v, r, n)
           G == {n \in 0 .. N : Some(n)}
<1>1. 0 \in G
  <2>1. Levels(v, [n \in 0 .. 0 |-> v], 0)
    BY DEF Levels
  <2>2. Some(0)
    BY <2>1
  <2> HIDE DEF Some
  <2> QED
    BY <2>2
<1>2. ASSUME NEW n \in 1 .. N, n - 1 \in G PROVE n \in G
  <2>1. PICK f : Levels(v, f, n - 1)
    BY <1>2
  <2>2. n \in Nat /\ n # 0 /\ n - 1 \in 0 .. n - 1 /\ 0 \in 0 .. n - 1
    OBVIOUS
  <2>3. f[0] = v /\ \A m \in 1 .. n - 1 : f[m] = ReleaseLevel(f[m - 1], Depth + 1 - m)
    BY <2>1, <2>2 DEF Levels
  <2> DEFINE last == ReleaseLevel(f[n - 1], Depth + 1 - n)
             g == [m \in 0 .. n |-> IF m = n THEN last ELSE f[m]]
  <2> HIDE DEF last
  <2>4. g[n] = last /\ \A m \in 0 .. n - 1 : g[m] = f[m]
    BY <2>2
  <2>5. g = [m \in 0 .. n |-> g[m]]
    OBVIOUS
  <2> HIDE DEF g
  <2>6. g[0] = v
    BY <2>2, <2>3, <2>4
  <2>7. ASSUME NEW m \in 1 .. n PROVE g[m] = ReleaseLevel(g[m - 1], Depth + 1 - m)
    <3>1. m - 1 \in 0 .. n - 1 /\ (m = n \/ m \in 1 .. n - 1)
      BY <2>2
    <3>2. g[m - 1] = f[m - 1]
      BY <2>4, <3>1
    <3>3. CASE m = n
      BY <2>4, <3>2, <3>3 DEF last
    <3>4. CASE m \in 1 .. n - 1
      <4>1. m \in 0 .. n - 1
        BY <3>4
      <4> QED
        BY <2>3, <2>4, <3>2, <3>4, <4>1
    <3> QED
      BY <3>1, <3>3, <3>4
  <2>8. \A m \in 0 .. n : g[m] = IF m = 0 THEN v ELSE ReleaseLevel(g[m - 1], Depth + 1 - m)
    BY <2>2, <2>6, <2>7
  <2>9. Some(n)
    BY <2>5, <2>8 DEF Levels
  <2> HIDE DEF Some
  <2> QED
    BY <2>9
<1>3. N \in G
  <2> HIDE DEF G
  <2> QED
    BY <1>1, <1>2, CountUpTo
<1> QED
  BY <1>3

\* The chain without the ids of the levels from l on.
Emptied(c, l) == [m \in 1 .. Depth |-> IF m >= l THEN [c[m] EXCEPT !.ids = << >>] ELSE c[m]]

\* dnf_state_release_locks.
LEMMA LocksReleased ==
    ASSUME NEW v, NEW B, Holds(v, B), NEW l \in 1 .. Depth
    PROVE  /\ Holds(ReleaseLocks(v, l), B)
           /\ ReleaseLocks(v, l).chain = Emptied(v.chain, l)
<1> DEFINE N == Depth + 1 - l
           c == v.chain
<1>1. N \in Nat /\ Depth \in Nat /\ l = Depth + 1 - N /\ c \in Chains
  BY DnfStateAssumption DEF Holds, Views
<1>2. PICK r : /\ r[0] = v /\ \A k \in 1 .. N : r[k] = ReleaseLevel(r[k - 1], Depth + 1 - k)
               /\ ReleaseLocks(v, l) = r[N]
  <2> DEFINE r == CHOOSE f : Levels(v, f, N)
  <2>1. ReleaseLocks(v, l) = r[N]
    BY DEF ReleaseLocks, Levels
  <2> HIDE DEF N
  <2>2. Levels(v, r, N)
    BY <1>1, LevelsExist
  <2> HIDE DEF r
  <2>3. r[0] = v /\ \A k \in 1 .. N : r[k] = ReleaseLevel(r[k - 1], Depth + 1 - k)
    BY <1>1, <2>2 DEF Levels
  <2> QED
    BY <2>1, <2>3
<1> HIDE DEF N, c
<1> DEFINE Good(k) == Holds(r[k], B) /\ r[k].chain = Emptied(c, Depth + 1 - k)
           G == {k \in 0 .. N : Good(k)}
<1>3. Good(0)
  <2>1. Emptied(c, Depth + 1) = c
    BY <1>1 DEF Emptied, Chains
  <2>2. Depth + 1 - 0 = Depth + 1
    BY <1>1
  <2> QED
    BY <1>2, <2>1, <2>2 DEF c
<1>4. ASSUME NEW k \in 1 .. N, Good(k - 1) PROVE Good(k)
  <2> DEFINE m == Depth + 1 - k
  <2>1. m \in 1 .. Depth /\ Depth + 1 - (k - 1) = m + 1
    BY <1>1
  <2>2. Holds(r[k - 1], B) /\ r[k - 1].chain = Emptied(c, m + 1)
    BY <1>4, <2>1
  <2>3. r[k] = ReleaseLevel(r[k - 1], m)
    BY <1>2
  <2> HIDE DEF m
  <2>4. Holds(r[k], B) /\ r[k].chain = [Emptied(c, m + 1) EXCEPT ![m].ids = << >>]
    BY <2>1, <2>2, <2>3, LevelReleased
  <2>5. [Emptied(c, m + 1) EXCEPT ![m].ids = << >>] = Emptied(c, m)
    <3> DEFINE e == Emptied(c, m + 1)
               a == [e EXCEPT ![m].ids = << >>]
               b == Emptied(c, m)
    <3>1. /\ e = [n \in 1 .. Depth |-> e[n]] /\ e[m] = c[m] /\ b[m] = [c[m] EXCEPT !.ids = << >>]
          /\ \A n \in 1 .. Depth : n # m => e[n] = b[n]
      BY <1>1, <2>1 DEF Emptied
    <3>2. b = [n \in 1 .. Depth |-> b[n]]
      BY DEF Emptied
    <3> HIDE DEF e, b
    <3>3. a = [n \in 1 .. Depth |-> a[n]] /\ \A n \in 1 .. Depth : a[n] = b[n]
      BY <2>1, <3>1
    <3> QED
      BY <3>2, <3>3 DEF e, b
  <2> QED
    BY <2>4, <2>5 DEF m
<1> HIDE DEF Good
<1>5. 0 \in G
  BY <1>1, <1>3
<1>6. ASSUME NEW k \in 1 .. N, k - 1 \in G PROVE k \in G
  <2>1. Good(k)
    BY <1>4, <1>6
  <2> QED
    BY <1>1, <2>1
<1>7. N \in G
  <2> HIDE DEF G
  <2> QED
    BY <1>1, <1>5, <1>6, CountUpTo
<1>8. Good(N)
  BY <1>7
<1> QED
  BY <1>1, <1>2, <1>8 DEF Good, c

-----------------------------------------------------------------------------
(* Percentages.                                                            *)

LEMMA RoundedDown ==
    ASSUME NEW a \in Nat, NEW n \in Nat \ {0}
    PROVE  a \div n \in Nat /\ n * (a \div n) <= a /\ a < n * (a \div n) + n
OBVIOUS

LEMMA ProductOrder ==
    ASSUME NEW n \in Nat \ {0}, NEW x \in Nat, NEW y \in Nat
    PROVE  /\ n * x \in Nat /\ n * y \in Nat
           /\ n * x < n * y + n => x <= y
OBVIOUS

\* Rounding down keeps the order.
LEMMA RoundedOrder ==
    ASSUME NEW a \in Nat, NEW b \in Nat, a <= b, NEW n \in Nat \ {0}
    PROVE  a \div n <= b \div n
<1> DEFINE x == a \div n
           y == b \div n
<1>1. x \in Nat /\ n * x <= a /\ y \in Nat /\ b < n * y + n
  BY RoundedDown
<1> HIDE DEF x, y
<1>2. n * x \in Nat /\ n * y \in Nat
  BY <1>1, ProductOrder
<1>3. n * x < n * y + n
  BY <1>1, <1>2
<1>4. x <= y
  BY <1>1, <1>3, ProductOrder
<1> QED
  BY <1>4 DEF x, y

\* A whole number of steps divides evenly.
LEMMA RoundedWhole ==
    ASSUME NEW k \in Nat, NEW n \in Nat \ {0}
    PROVE  (k * n) \div n = k
<1> DEFINE y == (k * n) \div n
<1>1. k * n \in Nat /\ k * n = n * k
  BY ProductOrder
<1>2. y \in Nat /\ n * y <= n * k /\ n * k < n * y + n
  BY <1>1, RoundedDown
<1> HIDE DEF y
<1>3. n * y \in Nat /\ n * k \in Nat /\ n * y < n * k + n
  BY <1>2, ProductOrder
<1>4. y <= k /\ k <= y
  BY <1>2, <1>3, ProductOrder
<1> QED
  BY <1>2, <1>4 DEF y

\* The shares are cumulated and end at 100; what is counted is in range.
Stepped(s) ==
    /\ s.current <= s.steps /\ s.pct <= 100
    /\ s.data # << >> =>
          /\ Len(s.data) = s.steps /\ s.data[s.steps] = 100
          /\ \A k \in 1 .. s.steps : s.data[k] <= 100
          /\ \A k \in 1 .. s.steps - 1 : s.data[k] <= s.data[k + 1]

\* p is not below the steps done nor above the step at work.
InWindow(s, p) ==
    s.steps > 0 =>
        /\ StepStart(s, s.current) <= p
        /\ s.current < s.steps => p <= StepStart(s, s.current + 1)

Windows(c) == \A l \in 1 .. Depth : Stepped(c[l]) /\ InWindow(c[l], c[l].pct)

\* The beginnings of the steps go up from 0 to 100.
LEMMA StepsGoUp ==
    ASSUME NEW s \in StRecord, Stepped(s), s.steps > 0
    PROVE  /\ StepStart(s, 0) = 0 /\ StepStart(s, s.steps) = 100
           /\ \A k \in 0 .. s.steps : StepStart(s, k) \in 0 .. 100
           /\ \A k \in 0 .. s.steps - 1 : StepStart(s, k) <= StepStart(s, k + 1)
<1> DEFINE n == s.steps
<1>1. n \in Nat \ {0} /\ s.data \in Seq(Nat)
  BY DEF StRecord
<1>2. StepStart(s, 0) = 0
  BY DEF StepStart
<1>3. CASE s.data # << >>
  <2>1. \A k \in 1 .. n : StepStart(s, k) = s.data[k]
    BY <1>3 DEF StepStart
  <2>2. \A k \in 1 .. n : s.data[k] \in Nat
    BY <1>1, <1>3 DEF Stepped
  <2>3. s.data[n] = 100 /\ \A k \in 1 .. n : s.data[k] <= 100
    BY <1>3 DEF Stepped
  <2>4. \A k \in 1 .. n - 1 : s.data[k] <= s.data[k + 1]
    BY <1>3 DEF Stepped
  <2> HIDE DEF n
  <2>5. ASSUME NEW k \in 0 .. n PROVE StepStart(s, k) \in 0 .. 100
    <3>1. CASE k = 0
      BY <1>2, <3>1
    <3>2. CASE k \in 1 .. n
      BY <2>1, <2>2, <2>3, <3>2
    <3> QED
      BY <1>1, <3>1, <3>2
  <2>6. StepStart(s, n) = 100
    BY <1>1, <2>1, <2>3
  <2>7. ASSUME NEW k \in 0 .. n - 1 PROVE StepStart(s, k) <= StepStart(s, k + 1)
    <3>1. k + 1 \in 0 .. n /\ k + 1 \in 1 .. n
      BY <1>1
    <3>2. CASE k = 0
      BY <1>2, <2>5, <3>1, <3>2
    <3>3. CASE k # 0
      <4>1. k \in 1 .. n - 1 /\ k \in 1 .. n
        BY <1>1, <3>3
      <4> QED
        BY <2>1, <2>4, <3>1, <4>1
    <3> QED
      BY <3>2, <3>3
  <2> QED
    BY <1>2, <2>5, <2>6, <2>7 DEF n
<1>4. CASE s.data = << >>
  <2>1. \A k \in 1 .. n : StepStart(s, k) = (100 * k) \div n
    BY <1>4 DEF StepStart, DiscreteToPercent
  <2> HIDE DEF n
  <2>2. (100 * n) \div n = 100
    BY <1>1, RoundedWhole
  <2>3. ASSUME NEW k \in 1 .. n PROVE StepStart(s, k) \in 0 .. 100
    <3>1. 100 * k \in Nat /\ 100 * n \in Nat /\ 100 * k <= 100 * n
      BY <1>1
    <3>2. (100 * k) \div n <= (100 * n) \div n /\ (100 * k) \div n \in Nat
      BY <1>1, <3>1, RoundedOrder, RoundedDown
    <3> QED
      BY <2>1, <2>2, <3>2
  <2>4. ASSUME NEW k \in 0 .. n PROVE StepStart(s, k) \in 0 .. 100
    <3>1. CASE k = 0
      BY <1>2, <3>1
    <3>2. CASE k \in 1 .. n
      BY <2>3, <3>2
    <3> QED
      BY <1>1, <3>1, <3>2
  <2>5. StepStart(s, n) = 100
    BY <1>1, <2>1, <2>2
  <2>6. ASSUME NEW k \in 0 .. n - 1 PROVE StepStart(s, k) <= StepStart(s, k + 1)
    <3>1. k + 1 \in 0 .. n /\ k + 1 \in 1 .. n
      BY <1>1
    <3>2. CASE k = 0
      BY <1>2, <2>4, <3>1, <3>2
    <3>3. CASE k # 0
      <4>1. k \in 1 .. n /\ 100 * k \in Nat /\ 100 * (k + 1) \in Nat /\ 100 * k <= 100 * (k + 1)
        BY <1>1, <3>3
      <4>2. (100 * k) \div n <= (100 * (k + 1)) \div n
        BY <1>1, <4>1, RoundedOrder
      <4> QED
        BY <2>1, <3>1, <4>1, <4>2
    <3> QED
      BY <3>2, <3>3
  <2> QED
    BY <1>2, <2>4, <2>5, <2>6 DEF n
<1> QED
  BY <1>3, <1>4

\* A value between two others, weighted by a percentage.
LEMMA Weighted ==
    ASSUME NEW p \in 0 .. 100, NEW a \in Nat, NEW b \in Nat, a <= b
    PROVE  /\ ((100 - p) * a + p * b) \div 100 \in Nat
           /\ a <= ((100 - p) * a + p * b) \div 100
           /\ ((100 - p) * a + p * b) \div 100 <= b
<1> DEFINE w == (100 - p) * a + p * b
<1>1. p * a \in Nat /\ p * b \in Nat /\ p * a <= p * b
  OBVIOUS
<1>2. (100 - p) * a \in Nat /\ (100 - p) * b \in Nat /\ (100 - p) * a <= (100 - p) * b
  OBVIOUS
<1>3. (100 - p) * a = 100 * a - p * a /\ (100 - p) * b = 100 * b - p * b
  OBVIOUS
<1>4. w \in Nat /\ 100 * a <= w /\ w <= 100 * b
  BY <1>1, <1>2, <1>3
<1> HIDE DEF w
<1>5. w \div 100 \in Nat /\ a <= w \div 100 /\ w \div 100 <= b
  BY <1>4
<1> QED
  BY <1>5 DEF w

\* dnf_state_child_percentage_changed_cb: what a child reports is scaled into
\* the step its parent is in, or ignored.
LEMMA ChildScaled ==
    ASSUME NEW s \in StRecord, Stepped(s), InWindow(s, s.pct), NEW p \in 0 .. 100
    PROVE  LET q == ParentPercent(s, p)
           IN q \in Nat /\ (q > 100 \/ q <= s.pct \/ InWindow(s, q))
<1> DEFINE n == s.steps
           i == s.current
           q == ParentPercent(s, p)
<1>1. n \in Nat /\ i \in Nat /\ i <= n /\ s.pct \in Nat /\ s.data \in Seq(Nat)
  BY DEF StRecord, Stepped
<1>2. CASE n = 0
  <2>1. q = 101
    BY <1>2 DEF ParentPercent
  <2> QED
    BY <2>1
<1>3. CASE n = 1
  <2>1. q = p
    BY <1>3 DEF ParentPercent
  <2>2. StepStart(s, 0) = 0 /\ StepStart(s, 1) = 100
    BY <1>3, StepsGoUp
  <2>3. CASE i = 0
    <3>1. InWindow(s, p)
      BY <1>3, <2>2, <2>3 DEF InWindow
    <3> QED
      BY <2>1, <3>1
  <2>4. CASE i = 1
    <3>1. 100 <= s.pct
      BY <1>3, <2>2, <2>4 DEF InWindow
    <3> QED
      BY <1>1, <2>1, <3>1
  <2> QED
    BY <1>1, <1>3, <2>3, <2>4
<1>4. CASE n > 1 /\ i >= n
  <2>1. q = 101
    BY <1>1, <1>4 DEF ParentPercent
  <2> QED
    BY <2>1
<1>5. CASE n > 1 /\ i < n
  <2> DEFINE a == StepStart(s, i)
             b == StepStart(s, i + 1)
  <2>1. a \in 0 .. 100 /\ b \in 0 .. 100 /\ a <= b
    <3>1. i \in 0 .. n - 1 /\ i \in 0 .. n /\ i + 1 \in 0 .. n /\ n > 0
      BY <1>1, <1>5
    <3> QED
      BY <3>1, StepsGoUp
  <2>2. SUFFICES q \in Nat /\ a <= q /\ q <= b
    BY <1>1, <1>5 DEF InWindow
  <2>3. CASE s.data # << >> /\ i = 0
    <3>1. q = (p * s.data[1]) \div 100
      BY <1>1, <1>5, <2>3 DEF ParentPercent
    <3>2. a = 0 /\ b = s.data[1]
      BY <1>1, <2>3 DEF StepStart
    <3>3. (100 - p) * 0 + p * b = p * b
      BY <2>1
    <3>4. ((100 - p) * 0 + p * b) \div 100 \in Nat /\ ((100 - p) * 0 + p * b) \div 100 <= b
      <4> HIDE DEF a, b
      <4> QED
        BY <2>1, Weighted
    <3> QED
      BY <3>1, <3>2, <3>3, <3>4
  <2>4. CASE s.data # << >> /\ i # 0
    <3>1. q = ((100 - p) * s.data[i] + p * s.data[i + 1]) \div 100
      BY <1>1, <1>5, <2>4 DEF ParentPercent
    <3>2. a = s.data[i] /\ b = s.data[i + 1]
      BY <1>1, <2>4 DEF StepStart
    <3> HIDE DEF a, b
    <3>3. q = ((100 - p) * a + p * b) \div 100
      BY <3>1, <3>2
    <3> QED
      BY <2>1, <3>3, Weighted
  <2>5. CASE s.data = << >>
    <3>1. q = (100 * i + p) \div n
      BY <1>1, <1>5, <2>5 DEF ParentPercent
    <3>2. b = (100 * (i + 1)) \div n
      BY <1>1, <2>5 DEF StepStart, DiscreteToPercent
    <3>3. a = (100 * i) \div n
      <4>1. CASE i = 0
        <5>1. 100 * i = 0 * n /\ a = 0
          BY <1>1, <4>1 DEF StepStart
        <5>2. (0 * n) \div n = 0
          <6> HIDE DEF n
          <6> QED
            BY <1>1, <1>5, RoundedWhole
        <5> QED
          BY <5>1, <5>2
      <4>2. CASE i # 0
        BY <1>1, <2>5, <4>2 DEF StepStart, DiscreteToPercent
      <4> QED
        BY <4>1, <4>2
    <3> HIDE DEF a, b, n, i, q
    <3>4. /\ 100 * i \in Nat /\ 100 * i + p \in Nat /\ 100 * (i + 1) \in Nat
          /\ 100 * i <= 100 * i + p /\ 100 * i + p <= 100 * (i + 1)
      BY <1>1
    <3>5. n \in Nat \ {0}
      BY <1>1, <1>5
    <3>6. (100 * i) \div n <= (100 * i + p) \div n
      BY <3>4, <3>5, RoundedOrder
    <3>7. (100 * i + p) \div n <= (100 * (i + 1)) \div n
      BY <3>4, <3>5, RoundedOrder
    <3>8. (100 * i + p) \div n \in Nat
      BY <3>4, <3>5, RoundedDown
    <3> QED
      BY <3>1, <3>2, <3>3, <3>6, <3>7, <3>8
  <2> QED
    BY <2>3, <2>4, <2>5
<1> QED
  BY <1>1, <1>2, <1>3, <1>4, <1>5

-----------------------------------------------------------------------------
(* What a signal changes in the states above.                              *)

\* The same steps, and the same ids.
SameSteps(c, d) ==
    \A m \in 1 .. Depth : /\ d[m].steps = c[m].steps /\ d[m].current = c[m].current
                          /\ d[m].data = c[m].data /\ d[m].pct = c[m].pct
SameIds(c, d) == \A m \in 1 .. Depth : d[m].ids = c[m].ids

LEMMA WindowByFields ==
    ASSUME NEW s, NEW t, t.steps = s.steps, t.current = s.current, t.data = s.data
    PROVE  /\ \A p : InWindow(t, p) <=> InWindow(s, p)
           /\ t.pct <= 100 /\ Stepped(s) => Stepped(t)
<1>1. \A k : StepStart(t, k) = StepStart(s, k)
  BY DEF StepStart
<1>2. \A p : InWindow(t, p) <=> InWindow(s, p)
  BY <1>1 DEF InWindow
<1>3. t.pct <= 100 /\ Stepped(s) => Stepped(t)
  BY DEF Stepped
<1> QED
  BY <1>2, <1>3

LEMMA SameStepsWindows ==
    ASSUME NEW c, NEW d, Windows(c), SameSteps(c, d)
    PROVE  Windows(d)
<1> SUFFICES ASSUME NEW m \in 1 .. Depth PROVE Stepped(d[m]) /\ InWindow(d[m], d[m].pct)
  BY DEF Windows
<1> DEFINE s == c[m]
           t == d[m]
<1>1. /\ t.steps = s.steps /\ t.current = s.current /\ t.data = s.data /\ t.pct = s.pct
      /\ Stepped(s) /\ InWindow(s, s.pct)
  BY DEF Windows, SameSteps
<1> HIDE DEF s, t
<1>2. t.pct <= 100
  BY <1>1 DEF Stepped
<1>3. Stepped(t) /\ InWindow(t, t.pct)
  BY <1>1, <1>2, WindowByFields
<1> QED
  BY <1>3 DEF t

LEMMA SameIdsHolds ==
    ASSUME NEW v, NEW B, Holds(v, B), NEW d \in Chains, SameIds(v.chain, d)
    PROVE  /\ Holds([v EXCEPT !.chain = d], B)
           /\ [v EXCEPT !.chain = d].chain = d
<1> DEFINE c == v.chain
           w == [v EXCEPT !.chain = d]
<1>1. w \in Views /\ w.chain = d /\ w.file = v.file /\ w.items = v.items
  BY DEF Holds, Views
<1>2. Places(d) = Places(c) /\ \A x \in Places(d) : IdAt(d, x) = IdAt(c, x)
  BY DEF Places, IdAt, SameIds
<1>3. Balanced(v.file, v.items, d, Places(d), B)
  <2>1. Balanced(v.file, v.items, c, Places(c), B)
    BY DEF Holds
  <2> QED
    BY <1>2, <2>1, BalanceByIds
<1>4. \A m \in 1 .. Depth : Len(d[m].ids) <= MaxTakes
  BY DEF Holds, SameIds
<1> HIDE DEF w
<1>5. Holds(w, B)
  BY <1>1, <1>3, <1>4 DEF Holds
<1> QED
  BY <1>1, <1>5 DEF w

Tells(c, l, r, N) ==
    r = [k \in 0 .. N |-> IF k = 0 THEN c ELSE TellParent(r[k - 1], l - k)]

LEMMA TellsExist ==
    ASSUME NEW c, NEW l, NEW N \in Nat
    PROVE  \E r : Tells(c, l, r, N)
<1> DEFINE Some(n) == \E r : Tells(c, l, r, n)
           G == {n \in 0 .. N : Some(n)}
<1>1. 0 \in G
  <2>1. Tells(c, l, [n \in 0 .. 0 |-> c], 0)
    BY DEF Tells
  <2>2. Some(0)
    BY <2>1
  <2> HIDE DEF Some
  <2> QED
    BY <2>2
<1>2. ASSUME NEW n \in 1 .. N, n - 1 \in G PROVE n \in G
  <2>1. PICK f : Tells(c, l, f, n - 1)
    BY <1>2
  <2>2. n \in Nat /\ n # 0 /\ n - 1 \in 0 .. n - 1 /\ 0 \in 0 .. n - 1
    OBVIOUS
  <2>3. f[0] = c /\ \A m \in 1 .. n - 1 : f[m] = TellParent(f[m - 1], l - m)
    BY <2>1, <2>2 DEF Tells
  <2> DEFINE last == TellParent(f[n - 1], l - n)
             g == [m \in 0 .. n |-> IF m = n THEN last ELSE f[m]]
  <2> HIDE DEF last
  <2>4. g[n] = last /\ \A m \in 0 .. n - 1 : g[m] = f[m]
    BY <2>2
  <2>5. g = [m \in 0 .. n |-> g[m]]
    OBVIOUS
  <2> HIDE DEF g
  <2>6. g[0] = c
    BY <2>2, <2>3, <2>4
  <2>7. ASSUME NEW m \in 1 .. n PROVE g[m] = TellParent(g[m - 1], l - m)
    <3>1. m - 1 \in 0 .. n - 1 /\ (m = n \/ m \in 1 .. n - 1)
      BY <2>2
    <3>2. g[m - 1] = f[m - 1]
      BY <2>4, <3>1
    <3>3. CASE m = n
      BY <2>4, <3>2, <3>3 DEF last
    <3>4. CASE m \in 1 .. n - 1
      <4>1. m \in 0 .. n - 1
        BY <3>4
      <4> QED
        BY <2>3, <2>4, <3>2, <3>4, <4>1
    <3> QED
      BY <3>1, <3>3, <3>4
  <2>8. \A m \in 0 .. n : g[m] = IF m = 0 THEN c ELSE TellParent(g[m - 1], l - m)
    BY <2>2, <2>6, <2>7
  <2>9. Some(n)
    BY <2>5, <2>8 DEF Tells
  <2> HIDE DEF Some
  <2> QED
    BY <2>9
<1>3. N \in G
  <2> HIDE DEF G
  <2> QED
    BY <1>1, <1>2, CountUpTo
<1> QED
  BY <1>3


LEMMA ChildFlagSet ==
    ASSUME NEW c \in Chains, NEW l \in 1 .. Depth, NEW b \in BOOLEAN
    PROVE  LET d == [c EXCEPT ![l].cancelChild = b] IN d \in Chains /\ SameSteps(c, d) /\ SameIds(c, d)
<1> DEFINE d == [c EXCEPT ![l].cancelChild = b]
<1>1. d \in Chains
  BY DEF Chains, StRecord
<1>2. SameSteps(c, d) /\ SameIds(c, d)
  BY DEF SameSteps, SameIds, Chains, StRecord
<1> QED
  BY <1>1, <1>2

\* dnf_state_child_allow_cancel_changed_cb touches allow_cancel_child only.
LEMMA ParentsTold ==
    ASSUME NEW c \in Chains, NEW l \in 1 .. Depth
    PROVE  LET d == TellParents(c, l) IN d \in Chains /\ SameSteps(c, d) /\ SameIds(c, d)
<1> DEFINE N == l - 1
<1>1. N \in Nat /\ Depth \in Nat /\ l = N + 1
  BY DnfStateAssumption
<1>2. PICK r : /\ r[0] = c /\ \A k \in 1 .. N : r[k] = TellParent(r[k - 1], l - k)
               /\ TellParents(c, l) = r[N]
  <2> DEFINE r == CHOOSE f : Tells(c, l, f, N)
  <2>1. TellParents(c, l) = r[N]
    BY DEF TellParents, Tells
  <2> HIDE DEF N
  <2>2. Tells(c, l, r, N)
    BY <1>1, TellsExist
  <2> HIDE DEF r
  <2>3. r[0] = c /\ \A k \in 1 .. N : r[k] = TellParent(r[k - 1], l - k)
    BY <1>1, <2>2 DEF Tells
  <2> QED
    BY <2>1, <2>3
<1> HIDE DEF N
<1> DEFINE Good(k) == r[k] \in Chains /\ SameSteps(c, r[k]) /\ SameIds(c, r[k])
           G == {k \in 0 .. N : Good(k)}
<1>3. Good(0)
  BY <1>2 DEF SameSteps, SameIds
<1>4. ASSUME NEW k \in 1 .. N, Good(k - 1) PROVE Good(k)
  <2> DEFINE m == l - k
             a == r[k - 1]
             b == a[m + 1].cancel /\ a[m + 1].cancelChild
  <2>1. m \in 1 .. Depth /\ a \in Chains /\ SameSteps(c, a) /\ SameIds(c, a)
    BY <1>1, <1>4
  <2>2. r[k] = [a EXCEPT ![m].cancelChild = b]
    BY <1>2 DEF TellParent
  <2>3. b \in BOOLEAN
    OBVIOUS
  <2> DEFINE q == [a EXCEPT ![m].cancelChild = b]
  <2> HIDE DEF m, a, b
  <2>4. q \in Chains /\ SameSteps(a, q) /\ SameIds(a, q)
    BY <2>1, <2>3, ChildFlagSet
  <2>5. r[k] = q
    BY <2>2
  <2> HIDE DEF q
  <2>6. SameSteps(c, q) /\ SameIds(c, q)
    BY <2>1, <2>4 DEF SameSteps, SameIds
  <2> QED
    BY <2>4, <2>5, <2>6
<1> HIDE DEF Good
<1>5. 0 \in G
  BY <1>1, <1>3
<1>6. ASSUME NEW k \in 1 .. N, k - 1 \in G PROVE k \in G
  <2>1. Good(k)
    BY <1>4, <1>6
  <2> QED
    BY <1>1, <2>1
<1>7. N \in G
  <2> HIDE DEF G
  <2> QED
    BY <1>1, <1>5, <1>6, CountUpTo
<1>8. Good(N)
  BY <1>7
<1> QED
  BY <1>2, <1>8 DEF Good

LEMMA CancelAllowed ==
    ASSUME NEW c \in Chains, NEW l \in 1 .. Depth, NEW b \in BOOLEAN
    PROVE  LET d == AllowCancel(c, l, b) IN d \in Chains /\ SameSteps(c, d) /\ SameIds(c, d)
<1> DEFINE e == [c EXCEPT ![l].cancel = b]
<1>1. CASE c[l].cancel = b
  BY <1>1 DEF AllowCancel, SameSteps, SameIds
<1>2. CASE c[l].cancel # b
  <2>1. e \in Chains
    BY DEF Chains, StRecord
  <2>2. SameSteps(c, e) /\ SameIds(c, e)
    BY DEF SameSteps, SameIds, Chains, StRecord
  <2>3. AllowCancel(c, l, b) = TellParents(e, l)
    BY <1>2 DEF AllowCancel
  <2> HIDE DEF e
  <2>4. TellParents(e, l) \in Chains /\ SameSteps(e, TellParents(e, l)) /\ SameIds(e, TellParents(e, l))
    BY <2>1, ParentsTold
  <2> QED
    BY <2>2, <2>3, <2>4 DEF SameSteps, SameIds
<1> QED
  BY <1>1, <1>2

LEMMA ActionEmitted ==
    ASSUME NEW c \in Chains, NEW l \in 1 .. Depth, NEW a \in ActionNames
    PROVE  LET d == EmitAction(c, l, a) IN d \in Chains /\ SameSteps(c, d) /\ SameIds(c, d)
<1> DEFINE d == EmitAction(c, l, a)
<1>1. ASSUME NEW m \in 1 .. Depth
      PROVE  /\ [c[m] EXCEPT !.action = a] \in StRecord /\ d[m] \in StRecord
             /\ d[m].steps = c[m].steps /\ d[m].current = c[m].current /\ d[m].data = c[m].data
             /\ d[m].pct = c[m].pct /\ d[m].ids = c[m].ids
  BY DEF EmitAction, Chains, StRecord
<1>2. d = [m \in 1 .. Depth |-> d[m]]
  BY DEF EmitAction
<1> HIDE DEF d
<1>3. d \in Chains
  BY <1>1, <1>2 DEF Chains
<1> QED
  BY <1>1, <1>3 DEF SameSteps, SameIds, d

LEMMA ActionStopped ==
    ASSUME NEW c \in Chains, NEW l \in 1 .. Depth
    PROVE  LET d == ActionStop(c, l) IN d \in Chains /\ SameSteps(c, d) /\ SameIds(c, d)
<1> DEFINE e == [c EXCEPT ![l].last = Unknown]
<1>1. CASE c[l].action = Unknown
  BY <1>1 DEF ActionStop, SameSteps, SameIds
<1>2. CASE c[l].action # Unknown
  <2>1. e \in Chains /\ c[l].last \in ActionNames
    BY DEF Chains, StRecord, ActionNames
  <2>2. SameSteps(c, e) /\ SameIds(c, e)
    BY DEF SameSteps, SameIds, Chains, StRecord
  <2> DEFINE a == c[l].last
             d == EmitAction(e, l, a)
  <2>3. ActionStop(c, l) = d
    BY <1>2 DEF ActionStop
  <2> HIDE DEF e, a
  <2>4. d \in Chains /\ SameSteps(e, d) /\ SameIds(e, d)
    BY <2>1, ActionEmitted DEF a
  <2> HIDE DEF d
  <2> QED
    BY <2>2, <2>3, <2>4 DEF SameSteps, SameIds
<1> QED
  BY <1>1, <1>2

-----------------------------------------------------------------------------
(* A percentage on its way up the chain.                                   *)

AllOk(v, B) == Holds(v, B) /\ Windows(v.chain)

\* Level l is told p; what it then has is in its window.
Pending(v, B, l, p) ==
    /\ Holds(v, B) /\ p \in Nat
    /\ \A m \in 1 .. Depth : Stepped(v.chain[m]) /\ (m # l => InWindow(v.chain[m], v.chain[m].pct))
    /\ p > 100 \/ p <= v.chain[l].pct => InWindow(v.chain[l], v.chain[l].pct)
    /\ p <= 100 /\ v.chain[l].pct < p => InWindow(v.chain[l], p)

LEMMA EmptiedKeeps ==
    ASSUME NEW c \in Chains, NEW l \in 1 .. Depth
    PROVE  /\ Emptied(c, l) \in Chains /\ SameSteps(c, Emptied(c, l)) /\ Emptied(c, l)[l].ids = << >>
           /\ \A m \in 1 .. Depth : Emptied(c, l)[m].live = c[m].live
<1> DEFINE d == Emptied(c, l)
<1>1. << >> \in Seq(Nat)
  OBVIOUS
<1>2. ASSUME NEW m \in 1 .. Depth
      PROVE  /\ [c[m] EXCEPT !.ids = << >>] \in StRecord /\ d[m] \in StRecord
             /\ d[m].steps = c[m].steps /\ d[m].current = c[m].current /\ d[m].data = c[m].data
             /\ d[m].pct = c[m].pct /\ d[m].live = c[m].live
  BY <1>1 DEF Emptied, Chains, StRecord
<1>3. d = [m \in 1 .. Depth |-> d[m]]
  BY DEF Emptied
<1>4. d[l].ids = << >>
  BY DnfStateAssumption DEF Emptied, Chains, StRecord
<1> HIDE DEF d
<1>5. d \in Chains
  BY <1>2, <1>3 DEF Chains
<1> QED
  BY <1>2, <1>4, <1>5 DEF SameSteps, d

LEMMA PercentSet ==
    ASSUME NEW w, NEW B, Holds(w, B), NEW l \in 1 .. Depth, NEW p \in 0 .. 100,
           \A m \in 1 .. Depth : /\ Stepped(w.chain[m])
                                 /\ m # l => InWindow(w.chain[m], w.chain[m].pct),
           InWindow(w.chain[l], p)
    PROVE  AllOk([w EXCEPT !.chain[l].pct = p], B)
<1> DEFINE c == w.chain
           d == [c EXCEPT ![l].pct = p]
           x == [w EXCEPT !.chain = d]
<1>1. [w EXCEPT !.chain[l].pct = p] = x
  BY DEF Holds, Views, Chains
<1>2. c \in Chains /\ p \in Nat
  BY DEF Holds, Views
<1>3. d \in Chains
  <2> HIDE DEF c
  <2> QED
    BY <1>2 DEF Chains, StRecord
<1>4. /\ \A m \in 1 .. Depth : m # l => d[m] = c[m]
      /\ d[l].steps = c[l].steps /\ d[l].current = c[l].current /\ d[l].data = c[l].data
      /\ d[l].pct = p /\ d[l].ids = c[l].ids
  <2> HIDE DEF c
  <2> QED
    BY <1>2 DEF Chains, StRecord
<1>5. SameIds(c, d)
  <2> HIDE DEF c, d
  <2> QED
    BY <1>4 DEF SameIds
<1>6. /\ \A m \in 1 .. Depth : Stepped(c[m]) /\ (m # l => InWindow(c[m], c[m].pct))
      /\ InWindow(c[l], p)
  OBVIOUS
<1>7. Holds(x, B) /\ x.chain = d
  <2> HIDE DEF d
  <2> QED
    BY <1>3, <1>5, SameIdsHolds
<1> HIDE DEF c, d, x
<1>8. Windows(d)
  <2>1. ASSUME NEW m \in 1 .. Depth, m # l PROVE Stepped(d[m]) /\ InWindow(d[m], d[m].pct)
    BY <1>4, <1>6, <2>1
  <2> DEFINE s == c[l]
             t == d[l]
  <2>2. /\ t.steps = s.steps /\ t.current = s.current /\ t.data = s.data /\ t.pct = p
        /\ Stepped(s) /\ InWindow(s, p)
    BY <1>4, <1>6
  <2> HIDE DEF s, t
  <2>3. t.pct <= 100
    BY <2>2
  <2>4. Stepped(t) /\ InWindow(t, t.pct)
    BY <2>2, <2>3, WindowByFields
  <2> QED
    BY <2>1, <2>4 DEF Windows, t
<1> QED
  BY <1>1, <1>7, <1>8 DEF AllOk

\* At 100 % a state allows cancelling, ends its action and gives its locks back.
Completed(v, l) == [v EXCEPT !.chain = ActionStop(AllowCancel(v.chain, l, TRUE), l)]

LEMMA CompletedReleases ==
    ASSUME NEW v, NEW B, Holds(v, B), NEW l \in 1 .. Depth
    PROVE  LET w == ReleaseLocks(Completed(v, l), l)
           IN Holds(w, B) /\ SameSteps(v.chain, w.chain) /\ w.chain[l].ids = << >>
<1> DEFINE c == v.chain
           a == AllowCancel(c, l, TRUE)
           d == ActionStop(a, l)
           u == Completed(v, l)
           w == ReleaseLocks(u, l)
<1>1. c \in Chains
  BY DEF Holds, Views
<1>2. a \in Chains /\ SameSteps(c, a) /\ SameIds(c, a)
  <2> HIDE DEF c
  <2> QED
    BY <1>1, CancelAllowed
<1>3. d \in Chains /\ SameSteps(a, d) /\ SameIds(a, d)
  <2> HIDE DEF a
  <2> QED
    BY <1>2, ActionStopped
<1>4. u = [v EXCEPT !.chain = d]
  BY DEF Completed
<1> HIDE DEF a, d, u
<1>5. SameSteps(c, d) /\ SameIds(c, d)
  BY <1>2, <1>3 DEF SameSteps, SameIds
<1>6. Holds(u, B) /\ u.chain = d
  BY <1>3, <1>4, <1>5, SameIdsHolds
<1>7. Holds(w, B) /\ w.chain = Emptied(d, l)
  BY <1>6, LocksReleased
<1>8. SameSteps(d, Emptied(d, l)) /\ Emptied(d, l)[l].ids = << >>
  BY <1>3, EmptiedKeeps
<1> HIDE DEF c, w
<1>9. SameSteps(c, w.chain) /\ w.chain[l].ids = << >>
  BY <1>5, <1>7, <1>8 DEF SameSteps
<1> QED
  BY <1>7, <1>9 DEF c, u, w

LEMMA LastActionKept ==
    ASSUME NEW x, NEW B, AllOk(x, B), NEW l \in 1 .. Depth, NEW a \in ActionNames
    PROVE  /\ AllOk([x EXCEPT !.chain[l].last = a], B)
           /\ SameSteps(x.chain, [x EXCEPT !.chain[l].last = a].chain)
<1> DEFINE c == x.chain
           d == [c EXCEPT ![l].last = a]
           y == [x EXCEPT !.chain = d]
<1>1. [x EXCEPT !.chain[l].last = a] = y
  BY DEF AllOk, Holds, Views, Chains
<1>2. c \in Chains
  BY DEF AllOk, Holds, Views
<1>3. Holds(x, B) /\ Windows(c)
  BY DEF AllOk
<1>4. d \in Chains /\ SameSteps(c, d) /\ SameIds(c, d)
  <2> HIDE DEF c
  <2>1. d \in Chains
    BY <1>2 DEF Chains, StRecord
  <2>2. SameSteps(c, d) /\ SameIds(c, d)
    BY <1>2 DEF Chains, StRecord, SameSteps, SameIds
  <2> QED
    BY <2>1, <2>2
<1> HIDE DEF d
<1>5. Holds(y, B) /\ y.chain = d
  BY <1>3, <1>4, SameIdsHolds
<1>6. Windows(d)
  BY <1>3, <1>4, SameStepsWindows
<1> QED
  BY <1>1, <1>4, <1>5, <1>6 DEF AllOk

\* dnf_state_set_percentage of one level, and what it tells its parent.
LEMMA LevelReported ==
    ASSUME NEW v, NEW B, NEW l \in 1 .. Depth, NEW p, Pending(v, B, l, p), NEW r,
           r = PercentLevel([v |-> v, p |-> p], l)
    PROVE  /\ r = [v |-> r.v, p |-> r.p] /\ AllOk(r.v, B)
           /\ l > 1 => Pending(r.v, B, l - 1, r.p)
<1> DEFINE s == v.chain[l]
           w == IF p = 100 THEN ReleaseLocks(Completed(v, l), l) ELSE v
           x == [w EXCEPT !.chain[l].pct = p]
<1>1. /\ Holds(v, B) /\ p \in Nat /\ v.chain \in Chains
      /\ \A m \in 1 .. Depth : Stepped(v.chain[m]) /\ (m # l => InWindow(v.chain[m], v.chain[m].pct))
      /\ p > 100 \/ p <= s.pct => InWindow(s, s.pct)
      /\ p <= 100 /\ s.pct < p => InWindow(s, p)
  BY DEF Pending, Holds, Views
<1>2. s.pct \in Nat
  BY <1>1 DEF Chains, StRecord
<1>3. ASSUME NEW y, NEW q, AllOk(y, B), q \in Nat, NEW m \in 1 .. Depth,
             q > 100 \/ q <= y.chain[m].pct \/ InWindow(y.chain[m], q)
      PROVE  Pending(y, B, m, q)
  <2>1. \A k \in 1 .. Depth : Stepped(y.chain[k]) /\ InWindow(y.chain[k], y.chain[k].pct)
    BY <1>3 DEF AllOk, Windows
  <2>2. y.chain[m].pct \in Nat
    BY <1>3 DEF AllOk, Holds, Views, Chains, StRecord
  <2> QED
    BY <1>3, <2>1, <2>2 DEF Pending, AllOk
<1>4. l > 1 => l - 1 \in 1 .. Depth
  BY DnfStateAssumption
<1>5. CASE p = s.pct \/ p > 100 \/ p < s.pct
  <2>1. r = [v |-> v, p |-> 101]
    BY <1>5 DEF PercentLevel
  <2>2. AllOk(v, B)
    <3>1. InWindow(s, s.pct)
      BY <1>1, <1>2, <1>5
    <3> QED
      BY <1>1, <3>1 DEF AllOk, Windows
  <2>3. ASSUME l > 1 PROVE Pending(v, B, l - 1, 101)
    <3> DEFINE m == l - 1
               q == 101
    <3>1. m \in 1 .. Depth /\ q \in Nat /\ q > 100
      BY <1>4, <2>3
    <3> HIDE DEF m, q
    <3>2. Pending(v, B, m, q)
      BY <1>3, <2>2, <3>1
    <3> QED
      BY <3>2 DEF m, q
  <2> QED
    BY <2>1, <2>2, <2>3
<1>6. CASE ~ (p = s.pct \/ p > 100 \/ p < s.pct)
  <2>1. p \in 0 .. 100 /\ InWindow(s, p)
    BY <1>1, <1>2, <1>6
  <2>2. Holds(w, B) /\ SameSteps(v.chain, w.chain) /\ (p = 100 => w.chain[l].ids = << >>)
    <3>1. CASE p = 100
      BY <1>1, <3>1, CompletedReleases
    <3>2. CASE p # 100
      BY <1>1, <3>2 DEF SameSteps
    <3> QED
      BY <3>1, <3>2
  <2>3. r = IF l = 1 THEN [v |-> x, p |-> 101]
            ELSE [v |-> IF RestoresAction(x.chain[l - 1], p)
                        THEN [x EXCEPT !.chain[l - 1].last = x.chain[l - 1].childAction] ELSE x,
                  p |-> ParentPercent(x.chain[l - 1], p)]
    <3>1. ~ (p = 100 /\ w.chain[l].ids # << >>)
      BY <2>2
    <3> QED
      BY <1>6, <3>1 DEF PercentLevel, Completed
  <2> HIDE DEF w
  <2>4. /\ \A m \in 1 .. Depth : /\ Stepped(w.chain[m])
                                 /\ m # l => InWindow(w.chain[m], w.chain[m].pct)
        /\ InWindow(w.chain[l], p)
    <3>1. ASSUME NEW m \in 1 .. Depth
          PROVE  /\ Stepped(w.chain[m])
                 /\ \A q : InWindow(w.chain[m], q) <=> InWindow(v.chain[m], q)
                 /\ w.chain[m].pct = v.chain[m].pct
      <4> DEFINE a == v.chain[m]
                 b == w.chain[m]
      <4>1. /\ b.steps = a.steps /\ b.current = a.current /\ b.data = a.data /\ b.pct = a.pct
            /\ Stepped(a)
        BY <1>1, <2>2 DEF SameSteps
      <4> HIDE DEF a, b
      <4>2. b.pct <= 100
        BY <4>1 DEF Stepped
      <4>3. Stepped(b) /\ \A q : InWindow(b, q) <=> InWindow(a, q)
        BY <4>1, <4>2, WindowByFields
      <4> QED
        BY <4>1, <4>3 DEF a, b
    <3> QED
      BY <1>1, <2>1, <3>1
  <2>5. AllOk(x, B)
    BY <2>1, <2>2, <2>4, PercentSet
  <2> HIDE DEF x
  <2>6. CASE l = 1
    BY <2>3, <2>5, <2>6
  <2>7. CASE l # 1
    <3> DEFINE k == l - 1
               t == x.chain[k]
               q == ParentPercent(t, p)
               y == IF RestoresAction(t, p) THEN [x EXCEPT !.chain[k].last = t.childAction] ELSE x
    <3>1. r = [v |-> y, p |-> q]
      BY <2>3, <2>7
    <3>2. k \in 1 .. Depth
      BY <1>4, <2>7
    <3> HIDE DEF k
    <3>3. t \in StRecord /\ Stepped(t) /\ InWindow(t, t.pct) /\ t.childAction \in ActionNames
      BY <2>5, <3>2 DEF AllOk, Windows, Holds, Views, Chains, StRecord
    <3>4. q \in Nat /\ (q > 100 \/ q <= t.pct \/ InWindow(t, q))
      <4> HIDE DEF t
      <4> QED
        BY <2>1, <3>3, ChildScaled
    <3>5. AllOk(y, B) /\ SameSteps(x.chain, y.chain)
      <4>1. CASE RestoresAction(t, p)
        <5> DEFINE a == t.childAction
        <5> HIDE DEF a
        <5>1. y = [x EXCEPT !.chain[k].last = a]
          BY <4>1 DEF a
        <5>2. a \in ActionNames
          BY <3>3 DEF a
        <5> QED
          BY <2>5, <3>2, <5>1, <5>2, LastActionKept
      <4>2. CASE ~ RestoresAction(t, p)
        BY <2>5, <4>2 DEF SameSteps
      <4> QED
        BY <4>1, <4>2
    <3> HIDE DEF q, y
    <3>6. q > 100 \/ q <= y.chain[k].pct \/ InWindow(y.chain[k], q)
      <4> DEFINE b == y.chain[k]
      <4>1. b.steps = t.steps /\ b.current = t.current /\ b.data = t.data /\ b.pct = t.pct
        BY <3>2, <3>5 DEF SameSteps
      <4> HIDE DEF b, t
      <4>2. InWindow(b, q) <=> InWindow(t, q)
        BY <4>1, WindowByFields
      <4> QED
        BY <3>4, <4>1, <4>2 DEF b
    <3>7. Pending(y, B, k, q)
      BY <1>3, <3>2, <3>4, <3>5, <3>6
    <3> QED
      BY <3>1, <3>5, <3>7 DEF k
  <2> QED
    BY <2>6, <2>7
<1> QED
  BY <1>5, <1>6

Reports(b, l, r, N) ==
    r = [k \in 0 .. N |-> IF k = 0 THEN b ELSE PercentLevel(r[k - 1], l + 1 - k)]

LEMMA ReportsExist ==
    ASSUME NEW b, NEW l, NEW N \in Nat
    PROVE  \E r : Reports(b, l, r, N)
<1> DEFINE Some(n) == \E r : Reports(b, l, r, n)
           G == {n \in 0 .. N : Some(n)}
<1>1. 0 \in G
  <2>1. Reports(b, l, [n \in 0 .. 0 |-> b], 0)
    BY DEF Reports
  <2>2. Some(0)
    BY <2>1
  <2> HIDE DEF Some
  <2> QED
    BY <2>2
<1>2. ASSUME NEW n \in 1 .. N, n - 1 \in G PROVE n \in G
  <2>1. PICK f : Reports(b, l, f, n - 1)
    BY <1>2
  <2>2. n \in Nat /\ n # 0 /\ n - 1 \in 0 .. n - 1 /\ 0 \in 0 .. n - 1
    OBVIOUS
  <2>3. f[0] = b /\ \A m \in 1 .. n - 1 : f[m] = PercentLevel(f[m - 1], l + 1 - m)
    BY <2>1, <2>2 DEF Reports
  <2> DEFINE last == PercentLevel(f[n - 1], l + 1 - n)
             g == [m \in 0 .. n |-> IF m = n THEN last ELSE f[m]]
  <2> HIDE DEF last
  <2>4. g[n] = last /\ \A m \in 0 .. n - 1 : g[m] = f[m]
    BY <2>2
  <2>5. g = [m \in 0 .. n |-> g[m]]
    OBVIOUS
  <2> HIDE DEF g
  <2>6. g[0] = b
    BY <2>2, <2>3, <2>4
  <2>7. ASSUME NEW m \in 1 .. n PROVE g[m] = PercentLevel(g[m - 1], l + 1 - m)
    <3>1. m - 1 \in 0 .. n - 1 /\ (m = n \/ m \in 1 .. n - 1)
      BY <2>2
    <3>2. g[m - 1] = f[m - 1]
      BY <2>4, <3>1
    <3>3. CASE m = n
      BY <2>4, <3>2, <3>3 DEF last
    <3>4. CASE m \in 1 .. n - 1
      <4>1. m \in 0 .. n - 1
        BY <3>4
      <4> QED
        BY <2>3, <2>4, <3>2, <3>4, <4>1
    <3> QED
      BY <3>1, <3>3, <3>4
  <2>8. \A m \in 0 .. n : g[m] = IF m = 0 THEN b ELSE PercentLevel(g[m - 1], l + 1 - m)
    BY <2>2, <2>6, <2>7
  <2>9. Some(n)
    BY <2>5, <2>8 DEF Reports
  <2> HIDE DEF Some
  <2> QED
    BY <2>9
<1>3. N \in G
  <2> HIDE DEF G
  <2> QED
    BY <1>1, <1>2, CountUpTo
<1> QED
  BY <1>3

\* dnf_state_set_percentage with the chain of signals it sets off.
LEMMA PercentageSet ==
    ASSUME NEW v, NEW B, NEW l \in 1 .. Depth, NEW p, Pending(v, B, l, p)
    PROVE  AllOk(SetPercentage(v, l, p), B)
<1> DEFINE b == [v |-> v, p |-> p]
<1>1. l \in Nat /\ l # 0 /\ Depth \in Nat
  BY DnfStateAssumption
<1>2. PICK r : /\ r[0] = b /\ \A k \in 1 .. l : r[k] = PercentLevel(r[k - 1], l + 1 - k)
               /\ SetPercentage(v, l, p) = r[l].v
  <2> DEFINE r == CHOOSE f : Reports(b, l, f, l)
  <2>1. SetPercentage(v, l, p) = r[l].v
    BY DEF SetPercentage, Reports
  <2> HIDE DEF b
  <2>2. Reports(b, l, r, l)
    BY <1>1, ReportsExist
  <2> HIDE DEF r
  <2>3. r[0] = b /\ \A k \in 1 .. l : r[k] = PercentLevel(r[k - 1], l + 1 - k)
    BY <1>1, <2>2 DEF Reports
  <2> QED
    BY <2>1, <2>3
<1> DEFINE Good(k) == /\ r[k] = [v |-> r[k].v, p |-> r[k].p]
                      /\ k < l => Pending(r[k].v, B, l - k, r[k].p)
                      /\ k = l => AllOk(r[k].v, B)
           G == {k \in 0 .. l : Good(k)}
<1>3. Good(0)
  <2>1. l - 0 = l /\ 0 < l
    BY <1>1
  <2> QED
    BY <1>2, <2>1
<1>4. ASSUME NEW k \in 1 .. l, Good(k - 1) PROVE Good(k)
  <2> DEFINE m == l + 1 - k
             a == r[k - 1]
             q == r[k]
             u == a.v
             z == a.p
  <2>1. m \in 1 .. Depth /\ k - 1 < l /\ l - (k - 1) = m /\ m - 1 = l - k /\ (k < l <=> m > 1)
    BY <1>1
  <2>2. a = [v |-> u, p |-> z] /\ Pending(u, B, m, z)
    BY <1>4, <2>1
  <2>3. q = PercentLevel(a, m)
    BY <1>2
  <2> HIDE DEF m, a, q, u, z
  <2>4. q = PercentLevel([v |-> u, p |-> z], m)
    BY <2>2, <2>3
  <2>5. q = [v |-> q.v, p |-> q.p] /\ AllOk(q.v, B) /\ (m > 1 => Pending(q.v, B, m - 1, q.p))
    BY <2>1, <2>2, <2>4, LevelReported
  <2> QED
    BY <2>1, <2>5 DEF q
<1> HIDE DEF Good
<1>5. 0 \in G
  BY <1>1, <1>3
<1>6. ASSUME NEW k \in 1 .. l, k - 1 \in G PROVE k \in G
  <2>1. Good(k)
    BY <1>4, <1>6
  <2> QED
    BY <1>1, <2>1
<1>7. l \in G
  <2> HIDE DEF G
  <2> QED
    BY <1>1, <1>5, <1>6, CountUpTo
<1>8. Good(l)
  BY <1>7
<1> QED
  BY <1>2, <1>8 DEF Good
-----------------------------------------------------------------------------
(* Children that go, and states that start again.                          *)

LEMMA FreshState ==
    ASSUME NEW a \in ActionNames
    PROVE  /\ NewState(a) \in StRecord /\ NewState(a).ids = << >>
           /\ Stepped(NewState(a)) /\ InWindow(NewState(a), NewState(a).pct)
           /\ NoState \in StRecord /\ NoState.ids = << >>
           /\ Stepped(NoState) /\ InWindow(NoState, NoState.pct)
<1>1. << >> \in Seq(Nat) /\ Unknown \in ActionNames
  BY DEF ActionNames
<1>2. /\ NewState(a) \in StRecord /\ NewState(a).ids = << >> /\ NewState(a).data = << >>
      /\ NewState(a).steps = 0 /\ NewState(a).current = 0 /\ NewState(a).pct = 0
  BY <1>1 DEF NewState, StRecord
<1>3. /\ NoState \in StRecord /\ NoState.ids = << >> /\ NoState.data = << >>
      /\ NoState.steps = 0 /\ NoState.current = 0 /\ NoState.pct = 0
  BY <1>1 DEF NoState, NewState, StRecord
<1> QED
  BY <1>2, <1>3 DEF Stepped, InWindow

\* The child is unreferenced.
LEMMA ChildDropped ==
    ASSUME NEW v, NEW B, AllOk(v, B), NEW l \in 1 .. Depth
    PROVE  /\ AllOk(DropChild(v, l), B)
           /\ \A m \in 1 .. l : DropChild(v, l).chain[m] = v.chain[m]
           /\ \A m \in 1 .. Depth : m > l => DropChild(v, l).chain[m] = NoState
<1> DEFINE r == IF l < Depth THEN ReleaseLocks(v, l + 1) ELSE v
           c == v.chain
           e == r.chain
           d == [m \in 1 .. Depth |-> IF m > l THEN NoState ELSE e[m]]
           w == [r EXCEPT !.chain = d]
<1>1. DropChild(v, l) = w
  BY DEF DropChild
<1>2. /\ Holds(v, B) /\ Windows(c) /\ c \in Chains
  BY DEF AllOk, Holds, Views
<1>3. /\ Holds(r, B) /\ e \in Chains
      /\ \A m \in 1 .. Depth : m > l => e[m].ids = << >>
      /\ \A m \in 1 .. l : e[m] = c[m]
  <2>1. CASE l < Depth
    <3>1. l + 1 \in 1 .. Depth
      BY <2>1, DnfStateAssumption
    <3>2. Holds(r, B) /\ e = Emptied(c, l + 1)
      BY <1>2, <2>1, <3>1, LocksReleased
    <3>3. e \in Chains
      BY <3>2 DEF Holds, Views
    <3>4. \A m \in 1 .. Depth : m > l => e[m].ids = << >>
      <4> SUFFICES ASSUME NEW m \in 1 .. Depth, m > l PROVE e[m].ids = << >>
        OBVIOUS
      <4>1. m >= l + 1
        BY DnfStateAssumption
      <4>2. c[m] \in StRecord
        BY <1>2 DEF Chains
      <4>3. e[m] = [c[m] EXCEPT !.ids = << >>]
        BY <3>2, <4>1 DEF Emptied
      <4>4. [c[m] EXCEPT !.ids = << >>].ids = << >>
        BY <4>2 DEF StRecord
      <4> QED
        BY <4>3, <4>4
    <3>5. \A m \in 1 .. l : e[m] = c[m]
      BY <2>1, <3>2, DnfStateAssumption DEF Emptied
    <3> QED
      BY <3>2, <3>3, <3>4, <3>5
  <2>2. CASE ~ (l < Depth)
    <3>1. r = v /\ \A m \in 1 .. Depth : ~ (m > l)
      BY <2>2, DnfStateAssumption
    <3> QED
      BY <1>2, <3>1
  <2> QED
    BY <2>1, <2>2
<1> HIDE DEF r
<1>4. /\ d \in Chains /\ SameIds(e, d)
      /\ \A m \in 1 .. Depth : m > l => d[m] = NoState
      /\ \A m \in 1 .. l : d[m] = c[m]
  <2>1. NoState \in StRecord /\ NoState.ids = << >>
    BY FreshState DEF ActionNames
  <2>2. \A m \in 1 .. l : m \in 1 .. Depth /\ ~ (m > l)
    BY DnfStateAssumption
  <2>3. d \in Chains
    BY <1>3, <2>1 DEF Chains
  <2>4. SameIds(e, d)
    BY <1>3, <2>1 DEF SameIds
  <2> QED
    BY <1>3, <2>2, <2>3, <2>4
<1> HIDE DEF d
<1>5. Holds(w, B) /\ w.chain = d
  BY <1>3, <1>4, SameIdsHolds
<1>6. Windows(d)
  <2>1. Stepped(NoState) /\ InWindow(NoState, NoState.pct)
    BY FreshState DEF ActionNames
  <2> SUFFICES ASSUME NEW m \in 1 .. Depth PROVE Stepped(d[m]) /\ InWindow(d[m], d[m].pct)
    BY DEF Windows
  <2>2. CASE m > l
    BY <1>4, <2>1, <2>2
  <2>3. CASE ~ (m > l)
    BY <1>2, <1>4, <2>3 DEF Windows
  <2> QED
    BY <2>2, <2>3
<1> QED
  BY <1>1, <1>4, <1>5, <1>6 DEF AllOk

\* dnf_state_reset.
LEMMA StateIsReset ==
    ASSUME NEW v, NEW B, AllOk(v, B), NEW l \in 1 .. Depth
    PROVE  AllOk(Reset(v, l), B)
<1> DEFINE u == DropChild(v, l)
           r == ReleaseLocks(u, l)
           e == r.chain
           d == [e EXCEPT ![l] = [@ EXCEPT !.steps = 0, !.current = 0, !.pct = 0, !.data = << >>]]
           w == [r EXCEPT !.chain = d]
<1>1. AllOk(u, B)
  BY ChildDropped
<1>2. Holds(u, B) /\ Windows(u.chain) /\ u.chain \in Chains
  BY <1>1 DEF AllOk, Holds, Views
<1>3. Reset(v, l) = [r EXCEPT !.chain[l] = [@ EXCEPT !.steps = 0, !.current = 0, !.pct = 0, !.data = << >>]]
  BY DEF Reset
<1> HIDE DEF u
<1>4. Holds(r, B) /\ e = Emptied(u.chain, l)
  BY <1>2, LocksReleased
<1>5. e \in Chains /\ SameSteps(u.chain, e)
  BY <1>2, <1>4, EmptiedKeeps
<1>6. Windows(e)
  BY <1>2, <1>5, SameStepsWindows
<1> HIDE DEF r
<1>7. Reset(v, l) = w
  BY <1>3, <1>4, <1>5 DEF Holds, Views
<1>8. << >> \in Seq(Nat) /\ 0 \in Nat
  OBVIOUS
<1>9. e[l] \in StRecord
  BY <1>5 DEF Chains
<1>10. /\ d \in Chains /\ SameIds(e, d)
       /\ \A m \in 1 .. Depth : m # l => d[m] = e[m]
       /\ d[l].steps = 0 /\ d[l].current = 0 /\ d[l].pct = 0 /\ d[l].data = << >>
  <2> DEFINE s == [e[l] EXCEPT !.steps = 0, !.current = 0, !.pct = 0, !.data = << >>]
  <2>1. /\ s \in StRecord /\ s.ids = e[l].ids
        /\ s.steps = 0 /\ s.current = 0 /\ s.pct = 0 /\ s.data = << >>
    BY <1>8, <1>9 DEF StRecord
  <2>2. d = [e EXCEPT ![l] = s]
    OBVIOUS
  <2> HIDE DEF s, d
  <2>3. d \in Chains /\ d[l] = s /\ \A m \in 1 .. Depth : m # l => d[m] = e[m]
    BY <1>5, <2>1, <2>2 DEF Chains
  <2> QED
    BY <2>1, <2>3 DEF SameIds
<1> HIDE DEF d
<1>11. Holds(w, B) /\ w.chain = d
  BY <1>4, <1>10, SameIdsHolds
<1>12. Windows(d)
  <2> SUFFICES ASSUME NEW m \in 1 .. Depth PROVE Stepped(d[m]) /\ InWindow(d[m], d[m].pct)
    BY DEF Windows
  <2>1. CASE m = l
    BY <1>10, <2>1 DEF Stepped, InWindow
  <2>2. CASE m # l
    BY <1>6, <1>10, <2>2 DEF Windows
  <2> QED
    BY <2>1, <2>2
<1> QED
  BY <1>7, <1>11, <1>12 DEF AllOk
-----------------------------------------------------------------------------
(* A lock that is taken.                                                   *)

WithId(c, l, id) == [c EXCEPT ![l].ids = Append(@, id)]

\* One more id is remembered: one more place, which is the id's.
LEMMA PlaceAdded ==
    ASSUME NEW c \in Chains, NEW l \in 1 .. Depth, NEW id \in Nat,
           \A m \in 1 .. Depth : Len(c[m].ids) < MaxTakes,
           NEW d, d = WithId(c, l, id), NEW y, y = <<l, Len(c[l].ids) + 1>>
    PROVE  /\ d \in Chains /\ SameSteps(c, d)
           /\ \A m \in 1 .. Depth : Len(d[m].ids) <= MaxTakes
           /\ y \notin Places(c) /\ Places(d) = Places(c) \cup {y}
           /\ IdAt(d, y) = id /\ \A x \in Places(c) : IdAt(d, x) = IdAt(c, x)
<1> DEFINE q == c[l].ids
           s == [c[l] EXCEPT !.ids = Append(q, id)]
<1>1. c[l] \in StRecord /\ q \in Seq(Nat) /\ Len(q) \in Nat /\ Len(q) < MaxTakes
  BY DEF Chains, StRecord
<1>2. /\ Append(q, id) \in Seq(Nat) /\ Len(Append(q, id)) = Len(q) + 1
      /\ Append(q, id)[Len(q) + 1] = id
      /\ \A k \in 1 .. Len(q) : Append(q, id)[k] = q[k]
  BY <1>1
<1>3. /\ s \in StRecord /\ s.ids = Append(q, id) /\ s.steps = c[l].steps
      /\ s.current = c[l].current /\ s.data = c[l].data /\ s.pct = c[l].pct
  BY <1>1, <1>2 DEF StRecord
<1>4. d = [c EXCEPT ![l] = s]
  BY DEF WithId
<1> HIDE DEF s, q
<1>5. d \in Chains /\ d[l] = s /\ \A m \in 1 .. Depth : m # l => d[m] = c[m]
  BY <1>3, <1>4 DEF Chains
<1>6. \A m \in 1 .. Depth : Len(c[m].ids) \in Nat
  BY DEF Chains, StRecord
<1>7. \A m \in 1 .. Depth : Len(d[m].ids) <= MaxTakes
  <2> SUFFICES ASSUME NEW m \in 1 .. Depth PROVE Len(d[m].ids) <= MaxTakes
    OBVIOUS
  <2>1. CASE m = l
    BY <1>1, <1>2, <1>3, <1>5, <2>1, DnfStateAssumption
  <2>2. CASE m # l
    BY <1>5, <1>6, <2>2, DnfStateAssumption
  <2> QED
    BY <2>1, <2>2
<1>8. SameSteps(c, d)
  BY <1>3, <1>5 DEF SameSteps
<1>9. y[1] = l /\ y[2] = Len(q) + 1 /\ y \in (1 .. Depth) \X (1 .. MaxTakes)
  BY <1>1, DnfStateAssumption DEF q
<1>10. y \notin Places(c)
  BY <1>1, <1>9 DEF Places, q
<1>11. ASSUME NEW x \in (1 .. Depth) \X (1 .. MaxTakes)
       PROVE  x \in Places(d) <=> (x \in Places(c) \/ x = y)
  <2>1. x = <<x[1], x[2]>> /\ x[1] \in 1 .. Depth /\ x[2] \in Nat
    OBVIOUS
  <2>2. CASE x[1] = l
    <3>1. x = y <=> x[2] = Len(q) + 1
      BY <1>9, <2>1, <2>2 DEF q
    <3>2. x[2] <= Len(q) + 1 <=> (x[2] <= Len(q) \/ x[2] = Len(q) + 1)
      BY <1>1, <2>1
    <3>3. x \in Places(d) <=> x[2] <= Len(q) + 1
      BY <1>2, <1>3, <1>5, <2>2 DEF Places
    <3>4. x \in Places(c) <=> x[2] <= Len(q)
      BY <2>2 DEF Places, q
    <3> QED
      BY <3>1, <3>2, <3>3, <3>4
  <2>3. CASE x[1] # l
    BY <1>5, <1>9, <2>1, <2>3 DEF Places
  <2> QED
    BY <2>2, <2>3
<1>12. Places(d) = Places(c) \cup {y}
  BY <1>9, <1>11 DEF Places
<1>13. IdAt(d, y) = id
  BY <1>2, <1>3, <1>5, <1>9 DEF IdAt
<1>14. ASSUME NEW x \in Places(c) PROVE IdAt(d, x) = IdAt(c, x)
  <2>1. x[1] \in 1 .. Depth /\ x[2] \in 1 .. MaxTakes /\ x[2] <= Len(c[x[1]].ids)
    BY DEF Places
  <2>2. CASE x[1] = l
    <3>1. x[2] \in 1 .. Len(q)
      BY <1>1, <2>1, <2>2 DEF q
    <3> QED
      BY <1>2, <1>3, <1>5, <2>2, <3>1 DEF IdAt, q
  <2>3. CASE x[1] # l
    BY <1>5, <2>1, <2>3 DEF IdAt
  <2> QED
    BY <2>2, <2>3
<1> QED
  BY <1>5, <1>7, <1>8, <1>10, <1>12, <1>13, <1>14

\* The places of each id then.
LEMMA PlacesAdded ==
    ASSUME NEW c \in Chains, NEW l \in 1 .. Depth, NEW id \in Nat,
           \A m \in 1 .. Depth : Len(c[m].ids) < MaxTakes,
           NEW d, d = WithId(c, l, id)
    PROVE  LET n == Cardinality(PlacesOf(c, Places(c), id))
           IN /\ n \in Nat /\ n + 1 < RefModulus
              /\ Cardinality(PlacesOf(d, Places(d), id)) = n + 1
              /\ \A k : k # id => PlacesOf(d, Places(d), k) = PlacesOf(c, Places(c), k)
<1> DEFINE y == <<l, Len(c[l].ids) + 1>>
           A == PlacesOf(c, Places(c), id)
           D == PlacesOf(d, Places(d), id)
<1>1. /\ y \notin Places(c) /\ Places(d) = Places(c) \cup {y}
      /\ IdAt(d, y) = id /\ \A x \in Places(c) : IdAt(d, x) = IdAt(c, x)
  <2> HIDE DEF y
  <2>1. y = <<l, Len(c[l].ids) + 1>>
    BY DEF y
  <2> QED
    BY <2>1, PlaceAdded
<1> HIDE DEF y
<1>2. D = A \cup {y} /\ y \notin A
  BY <1>1 DEF PlacesOf
<1>3. \A k : k # id => PlacesOf(d, Places(d), k) = PlacesOf(c, Places(c), k)
  BY <1>1 DEF PlacesOf
<1>4. /\ IsFiniteSet(A) /\ Cardinality(A) \in Nat
      /\ IsFiniteSet(D) /\ Cardinality(D) \in Nat
      /\ IsFiniteSet(Places(d)) /\ Cardinality(Places(d)) \in Nat /\ Cardinality(Places(d)) < RefModulus
  <2>1. Places(c) \subseteq Places(c) /\ Places(d) \subseteq Places(d)
    OBVIOUS
  <2> QED
    BY <2>1, PlacesAreFinite
<1>5. D \subseteq Places(d)
  BY DEF PlacesOf
<1> HIDE DEF A, D
<1>6. Cardinality(D) = Cardinality(A) + 1
  BY <1>2, <1>4, FS_AddElement
<1>7. Cardinality(D) <= Cardinality(Places(d))
  BY <1>4, <1>5, FS_Subset
<1>8. Cardinality(A) + 1 < RefModulus
  BY <1>4, <1>6, <1>7, DnfLockAssumption
<1> QED
  BY <1>3, <1>4, <1>6, <1>8 DEF A, D

\* A new item for a lock nobody here holds.
LEMMA ItemCreated ==
    ASSUME NEW v, NEW B \in Nat, Holds(v, B), NEW l \in 1 .. Depth, NEW ty \in LockTypes, NEW mode \in LockModes,
           \A m \in 1 .. Depth : Len(v.chain[m].ids) < MaxTakes,
           ItemsByTypeMode(v.items, ty, mode) = {},
           NEW f, f = IF mode = "process" THEN [v.file EXCEPT ![ty] = StateProc] ELSE v.file,
           NEW j, j = [id |-> B, type |-> ty, mode |-> mode, owner |-> StateThread, refcount |-> 1]
    PROVE  Holds([chain |-> WithId(v.chain, l, B), file |-> f, items |-> v.items \cup {j}], B + 1)
<1> DEFINE c == v.chain
           d == WithId(c, l, B)
           H == Places(c)
           K == Places(d)
           I == v.items \cup {j}
           w == [chain |-> d, file |-> f, items |-> I]
<1>1. c \in Chains /\ v.file \in LockFiles /\ v.items \in SUBSET LockItem /\ Balanced(v.file, v.items, c, H, B)
  BY DEF Holds, Views
<1>2. /\ d \in Chains /\ \A m \in 1 .. Depth : Len(d[m].ids) <= MaxTakes
      /\ <<l, Len(c[l].ids) + 1>> \notin H /\ K = H \cup {<<l, Len(c[l].ids) + 1>>}
      /\ IdAt(d, <<l, Len(c[l].ids) + 1>>) = B /\ \A x \in H : IdAt(d, x) = IdAt(c, x)
  <2> HIDE DEF c
  <2>1. \A m \in 1 .. Depth : Len(c[m].ids) < MaxTakes
    BY DEF c
  <2> QED
    BY <1>1, <2>1, PlaceAdded
<1>3. /\ Cardinality(PlacesOf(d, K, B)) = Cardinality(PlacesOf(c, H, B)) + 1
      /\ \A k : k # B => PlacesOf(d, K, k) = PlacesOf(c, H, k)
  <2> HIDE DEF c
  <2>1. \A m \in 1 .. Depth : Len(c[m].ids) < MaxTakes
    BY DEF c
  <2> QED
    BY <1>1, <2>1, PlacesAdded
<1> HIDE DEF d, c
<1>4. PlacesOf(c, H, B) = {}
  <2> SUFFICES ASSUME NEW x \in H, IdAt(c, x) = B PROVE FALSE
    BY DEF PlacesOf
  <2>1. PICK i \in v.items : i.id = IdAt(c, x)
    BY <1>1 DEF Balanced
  <2>2. i.id < B
    BY <1>1, <2>1 DEF Balanced
  <2> QED
    BY <2>1, <2>2
<1>5. Cardinality(PlacesOf(d, K, B)) = 1
  BY <1>3, <1>4, FS_EmptySet
<1>6. j \in LockItem /\ j.id = B /\ j.type = ty /\ j.mode = mode /\ j.owner = StateThread /\ j.refcount = 1
  BY DnfLockAssumption, DnfStateAssumption DEF LockItem
<1>7. f \in LockFiles
  BY <1>1, DnfStateAssumption DEF LockFiles
<1>8. \A i \in v.items : i.id \in Nat /\ i.id < B /\ i.id # B
  BY <1>1 DEF Balanced, LockItem
<1>9. \A i \in I : i.owner = StateThread /\ i.refcount = Cardinality(PlacesOf(d, K, i.id))
  BY <1>1, <1>3, <1>5, <1>6, <1>8 DEF Balanced
<1>10. \A i \in I : i.id < B + 1
  BY <1>6, <1>8
<1>11. \A i \in I : i.mode = "process" => f[i.type] # NoProc
  <2>1. StateProc # NoProc
    BY DnfStateAssumption, DnfLockAssumption
  <2>2. \A i \in v.items : i.type \in LockTypes /\ (i.mode = "process" => v.file[i.type] # NoProc)
    BY <1>1 DEF Balanced, LockItem
  <2>3. \A t \in LockTypes : v.file[t] # NoProc => f[t] # NoProc
    BY <1>1, <2>1 DEF LockFiles
  <2>4. mode = "process" => f[ty] # NoProc
    BY <1>1, <2>1 DEF LockFiles
  <2> QED
    BY <1>6, <2>2, <2>3, <2>4
<1>12. \A i, k \in I : i.id = k.id \/ (i.type = k.type /\ i.mode = k.mode) => i = k
  <2>1. \A i \in v.items : ~ (i.type = ty /\ i.mode = mode)
    BY DEF ItemsByTypeMode
  <2> QED
    BY <1>1, <1>6, <1>8, <2>1 DEF Balanced
<1>13. \A x \in K : \E i \in I : i.id = IdAt(d, x)
  BY <1>1, <1>2, <1>6 DEF Balanced
<1>14. Balanced(f, I, d, K, B + 1)
  <2> HIDE DEF I, K
  <2> QED
    BY <1>9, <1>10, <1>11, <1>12, <1>13 DEF Balanced
<1>15. I \in SUBSET LockItem
  BY <1>1, <1>6
<1> HIDE DEF I
<1>16. w \in Views /\ w.chain = d /\ w.file = f /\ w.items = I
  BY <1>2, <1>7, <1>15 DEF Views
<1>17. Holds(w, B + 1)
  <2> HIDE DEF w
  <2> QED
    BY <1>2, <1>14, <1>16 DEF Holds
<1> QED
  BY <1>17 DEF d, c, I

\* A lock this thread holds already is counted once more.
LEMMA ItemCounted ==
    ASSUME NEW v, NEW B, Holds(v, B), NEW l \in 1 .. Depth, NEW i \in v.items,
           \A m \in 1 .. Depth : Len(v.chain[m].ids) < MaxTakes,
           NEW j, j = [i EXCEPT !.refcount = (@ + 1) % RefModulus]
    PROVE  Holds([chain |-> WithId(v.chain, l, i.id), file |-> v.file, items |-> (v.items \ {i}) \cup {j}], B)
<1> DEFINE c == v.chain
           id == i.id
           d == WithId(c, l, id)
           H == Places(c)
           K == Places(d)
           I == (v.items \ {i}) \cup {j}
           w == [chain |-> d, file |-> v.file, items |-> I]
<1>1. c \in Chains /\ v.file \in LockFiles /\ v.items \in SUBSET LockItem /\ Balanced(v.file, v.items, c, H, B)
  BY DEF Holds, Views
<1>0. i \in LockItem /\ id \in Nat
  BY <1>1 DEF LockItem
<1> HIDE DEF id
<1>2. /\ d \in Chains /\ \A m \in 1 .. Depth : Len(d[m].ids) <= MaxTakes
      /\ <<l, Len(c[l].ids) + 1>> \notin H /\ K = H \cup {<<l, Len(c[l].ids) + 1>>}
      /\ IdAt(d, <<l, Len(c[l].ids) + 1>>) = id /\ \A x \in H : IdAt(d, x) = IdAt(c, x)
  <2> HIDE DEF c
  <2>1. \A m \in 1 .. Depth : Len(c[m].ids) < MaxTakes
    BY DEF c
  <2> QED
    BY <1>0, <1>1, <2>1, PlaceAdded
<1>3. /\ Cardinality(PlacesOf(c, H, id)) \in Nat /\ Cardinality(PlacesOf(c, H, id)) + 1 < RefModulus
      /\ Cardinality(PlacesOf(d, K, id)) = Cardinality(PlacesOf(c, H, id)) + 1
      /\ \A k : k # id => PlacesOf(d, K, k) = PlacesOf(c, H, k)
  <2> HIDE DEF c
  <2>1. \A m \in 1 .. Depth : Len(c[m].ids) < MaxTakes
    BY DEF c
  <2> QED
    BY <1>0, <1>1, <2>1, PlacesAdded
<1> HIDE DEF d, c
<1>4. i.refcount = Cardinality(PlacesOf(c, H, id)) /\ i.owner = StateThread
  BY <1>1 DEF Balanced, id
<1>5. (i.refcount + 1) % RefModulus = i.refcount + 1
  <2>1. \A a, M \in Nat : a < M => a % M = a
    OBVIOUS
  <2>2. i.refcount + 1 \in Nat /\ RefModulus \in Nat /\ i.refcount + 1 < RefModulus
    BY <1>3, <1>4, DnfLockAssumption
  <2> QED
    BY <2>1, <2>2
<1>6. /\ j \in LockItem /\ j.id = id /\ j.type = i.type /\ j.mode = i.mode /\ j.owner = StateThread
      /\ j.refcount = Cardinality(PlacesOf(d, K, id))
  <2>1. i.refcount + 1 \in 0 .. RefModulus - 1 /\ i.refcount + 1 = Cardinality(PlacesOf(d, K, id))
    BY <1>3, <1>4, DnfLockAssumption
  <2>2. j = [i EXCEPT !.refcount = i.refcount + 1]
    BY <1>5
  <2> QED
    BY <1>0, <1>4, <2>1, <2>2 DEF LockItem, id
<1>8. \A k \in v.items : k # i => k.id # id
  BY <1>1 DEF Balanced, id
<1>9. \A k \in I : k.owner = StateThread /\ k.refcount = Cardinality(PlacesOf(d, K, k.id))
  BY <1>1, <1>3, <1>6, <1>8 DEF Balanced
<1>10. \A k \in I : k.id < B
  BY <1>1, <1>6 DEF Balanced, id
<1>11. \A k \in I : k.mode = "process" => v.file[k.type] # NoProc
  <2>1. \A k \in v.items : k.mode = "process" => v.file[k.type] # NoProc
    BY <1>1 DEF Balanced
  <2>2. j.mode = "process" => v.file[j.type] # NoProc
    BY <1>6, <2>1
  <2> QED
    BY <2>1, <2>2
<1>12. \A k, m \in I : k.id = m.id \/ (k.type = m.type /\ k.mode = m.mode) => k = m
  <2>1. \A k, m \in v.items : k.id = m.id \/ (k.type = m.type /\ k.mode = m.mode) => k = m
    BY <1>1 DEF Balanced
  <2>2. \A k \in v.items : k # i => ~ (k.id = j.id \/ (k.type = j.type /\ k.mode = j.mode))
    BY <1>6, <1>8, <2>1
  <2> QED
    BY <2>1, <2>2
<1>13. \A x \in K : \E k \in I : k.id = IdAt(d, x)
  <2> SUFFICES ASSUME NEW x \in K PROVE \E k \in I : k.id = IdAt(d, x)
    OBVIOUS
  <2>1. CASE IdAt(d, x) = id
    BY <1>6, <2>1
  <2>2. CASE IdAt(d, x) # id
    <3>1. x \in H /\ IdAt(d, x) = IdAt(c, x)
      BY <1>2, <2>2
    <3>2. PICK k \in v.items : k.id = IdAt(c, x)
      BY <1>1, <3>1 DEF Balanced
    <3>3. k # i
      BY <2>2, <3>1, <3>2 DEF id
    <3> QED
      BY <3>1, <3>2, <3>3
  <2> QED
    BY <2>1, <2>2
<1>14. Balanced(v.file, I, d, K, B)
  <2> HIDE DEF I, K
  <2> QED
    BY <1>9, <1>10, <1>11, <1>12, <1>13 DEF Balanced
<1>15. I \in SUBSET LockItem
  BY <1>1, <1>6
<1> HIDE DEF I
<1>16. w \in Views /\ w.chain = d /\ w.file = v.file /\ w.items = I
  BY <1>1, <1>2, <1>15 DEF Views
<1>17. Holds(w, B)
  <2> HIDE DEF w
  <2> QED
    BY <1>2, <1>14, <1>16 DEF Holds
<1> QED
  BY <1>17 DEF d, c, I, id

-----------------------------------------------------------------------------
(* The invariant, and one step per operation.                              *)

StInv ==
    /\ lockItems \in [Procs -> SUBSET LockItem] /\ lockNextId \in [Procs -> Nat]
    /\ AllOk(View, lockNextId[StateProc])

LEMMA BecomesKeeps ==
    ASSUME StInv, NEW v, AllOk(v, lockNextId[StateProc]), Becomes(v)
    PROVE  StInv'
<1>1. v \in Views
  BY DEF AllOk, Holds
<1>2. StateProc \in Procs /\ v.items \in SUBSET LockItem
  BY <1>1, DnfStateAssumption DEF Views
<1>3. lockItems' \in [Procs -> SUBSET LockItem] /\ lockItems'[StateProc] = v.items
  BY <1>2 DEF StInv, Becomes
<1>4. View' = v
  BY <1>1, <1>3 DEF View, Becomes, Views
<1>5. lockNextId' = lockNextId
  BY DEF Becomes
<1> QED
  BY <1>3, <1>4, <1>5 DEF StInv

LEMMA OnlyChainKeeps ==
    ASSUME StInv, NEW c \in Chains, SameIds(chain, c), Windows(c), OnlyChain(c)
    PROVE  StInv'
<1> DEFINE w == [View EXCEPT !.chain = c]
           B == lockNextId[StateProc]
<1>1. Holds(View, B) /\ View.chain = chain
  BY DEF StInv, AllOk, View
<1>2. Holds(w, B) /\ w.chain = c
  <2> HIDE DEF B
  <2>1. SameIds(View.chain, c)
    BY <1>1
  <2> QED
    BY <1>1, <2>1, SameIdsHolds
<1>3. AllOk(w, B)
  BY <1>2 DEF AllOk
<1>4. Becomes(w)
  BY DEF OnlyChain
<1> HIDE DEF w
<1> QED
  BY <1>3, <1>4, BecomesKeeps

LEMMA StepOfChain ==
    ASSUME StInv
    PROVE  /\ View.chain = chain /\ chain \in Chains /\ Windows(chain)
           /\ AllOk(View, lockNextId[StateProc]) /\ Holds(View, lockNextId[StateProc])
           /\ View.items = lockItems[StateProc] /\ View.file = lockFile
           /\ lockNextId[StateProc] \in Nat /\ StateProc \in Procs
<1>1. View.chain = chain /\ View.items = lockItems[StateProc] /\ View.file = lockFile
  BY DEF View
<1>2. AllOk(View, lockNextId[StateProc]) /\ Holds(View, lockNextId[StateProc]) /\ Windows(chain)
  BY <1>1 DEF StInv, AllOk
<1>3. chain \in Chains
  BY <1>1, <1>2 DEF Holds, Views
<1> QED
  BY <1>1, <1>2, <1>3, DnfStateAssumption DEF StInv

\* dnf_state_take_lock.
LEMMA TakeLockKeeps ==
    ASSUME StInv, NEW l \in 1 .. Depth, NEW ty \in LockTypes, NEW mode \in LockModes,
           StateTakeLock(l, ty, mode)
    PROVE  StInv'
<1> DEFINE B == lockNextId[StateProc]
           items == lockItems[StateProc]
           id == TakenId(StateProc, ty, mode)
<1>1. /\ View.chain = chain /\ View.items = items /\ View.file = lockFile
      /\ chain \in Chains /\ Windows(chain) /\ Holds(View, B) /\ B \in Nat /\ StateProc \in Procs
      /\ lockItems \in [Procs -> SUBSET LockItem] /\ lockNextId \in [Procs -> Nat]
  BY StepOfChain DEF StInv
<1>2. /\ \A m \in 1 .. Depth : Len(View.chain[m].ids) < MaxTakes
      /\ chain' = WithId(chain, l, id)
  BY <1>1 DEF StateTakeLock, WithId
<1>3. SUFFICES ASSUME NEW w, NEW C \in Nat, Holds(w, C), w.chain = WithId(chain, l, id),
                      chain' = w.chain, lockFile' = w.file,
                      lockItems' = [lockItems EXCEPT ![StateProc] = w.items],
                      lockNextId' = [lockNextId EXCEPT ![StateProc] = C], id \in Nat
               PROVE  StInv'
  <2>1. CASE TakenItem(items, ty, mode) = {} /\ CreateItem(StateProc, StateThread, ty, mode)
    <3> DEFINE j == [id |-> B, type |-> ty, mode |-> mode, owner |-> StateThread, refcount |-> 1]
               f == IF mode = "process" THEN [lockFile EXCEPT ![ty] = StateProc] ELSE lockFile
               w == [chain |-> WithId(chain, l, B), file |-> f, items |-> items \cup {j}]
    <3>1. ItemsByTypeMode(items, ty, mode) = {}
      BY <2>1 DEF TakenItem
    <3>2. id = B
      BY <2>1 DEF TakenId
    <3>3. /\ lockItems' = [lockItems EXCEPT ![StateProc] = items \cup {j}]
          /\ lockNextId' = [lockNextId EXCEPT ![StateProc] = B + 1]
          /\ lockFile' = f
      BY <2>1 DEF CreateItem
    <3> HIDE DEF B, items
    <3>4. Holds([chain |-> WithId(View.chain, l, B), file |-> f, items |-> View.items \cup {j}], B + 1)
      <4>1. /\ ItemsByTypeMode(View.items, ty, mode) = {}
            /\ f = IF mode = "process" THEN [View.file EXCEPT ![ty] = StateProc] ELSE View.file
        BY <1>1, <3>1
      <4> HIDE DEF f, j
      <4>2. j = [id |-> B, type |-> ty, mode |-> mode, owner |-> StateThread, refcount |-> 1]
        BY DEF j
      <4> QED
        BY <1>1, <1>2, <4>1, <4>2, ItemCreated
    <3> HIDE DEF f, j
    <3>5. w.chain = WithId(chain, l, id) /\ w.file = f /\ w.items = items \cup {j} /\ Holds(w, B + 1)
      BY <1>1, <3>2, <3>4
    <3> HIDE DEF w
    <3> QED
      <4>1. B + 1 \in Nat /\ id \in Nat
        BY <1>1, <3>2
      <4>2. /\ chain' = w.chain /\ lockFile' = w.file
            /\ lockItems' = [lockItems EXCEPT ![StateProc] = w.items]
        BY <1>2, <3>3, <3>5
      <4>3. lockNextId' = [lockNextId EXCEPT ![StateProc] = B + 1]
        BY <3>3
      <4> HIDE DEF id
      <4> DEFINE C == B + 1
      <4>4. C \in Nat /\ Holds(w, C) /\ lockNextId' = [lockNextId EXCEPT ![StateProc] = C]
        BY <3>5, <4>1, <4>3
      <4> HIDE DEF C
      <4> QED
        BY <1>3, <3>5, <4>1, <4>2, <4>4
  <2>2. CASE TakeAgain(StateProc, StateThread, ty, mode)
    <3>1. PICK i \in TakenItem(items, ty, mode) :
              /\ lockItems' = [lockItems EXCEPT ![StateProc] = (items \ {i}) \cup
                     {[i EXCEPT !.refcount = (@ + 1) % RefModulus]}]
              /\ lockFile' = lockFile /\ lockNextId' = lockNextId
      BY <2>2 DEF TakeAgain
    <3> DEFINE j == [i EXCEPT !.refcount = (@ + 1) % RefModulus]
               I == (items \ {i}) \cup {j}
               w == [chain |-> WithId(chain, l, i.id), file |-> lockFile, items |-> I]
    <3>2. i \in items /\ i.id \in Nat
      BY <1>1, <3>1 DEF TakenItem, ItemsByTypeMode, LockItem
    <3>3. \A k \in TakenItem(items, ty, mode) : k = i
      <4>1. \A a, k \in items : (a.type = k.type /\ a.mode = k.mode) => a = k
        BY <1>1 DEF Holds, Balanced
      <4> QED
        BY <3>1, <4>1 DEF TakenItem, ItemsByTypeMode
    <3>4. id = i.id
      <4>1. TakenItem(items, ty, mode) = {i}
        BY <3>1, <3>3
      <4>2. id = (CHOOSE k \in TakenItem(items, ty, mode) : TRUE).id
        BY <4>1 DEF TakenId
      <4> QED
        BY <4>1, <4>2
    <3> HIDE DEF items, B
    <3>5. Holds([chain |-> WithId(View.chain, l, i.id), file |-> View.file, items |-> (View.items \ {i}) \cup {j}], B)
      <4>1. i \in View.items
        BY <1>1, <3>2
      <4> HIDE DEF j
      <4>2. j = [i EXCEPT !.refcount = (@ + 1) % RefModulus]
        BY DEF j
      <4> QED
        BY <1>1, <1>2, <4>1, <4>2, ItemCounted
    <3>6. lockItems' = [lockItems EXCEPT ![StateProc] = I]
      BY <3>1
    <3> HIDE DEF j
    <3>7. w.chain = WithId(chain, l, id) /\ w.file = lockFile /\ w.items = I /\ Holds(w, B)
      BY <1>1, <3>4, <3>5
    <3>8. lockNextId' = [lockNextId EXCEPT ![StateProc] = B]
      BY <1>1, <3>1 DEF B
    <3> HIDE DEF w
    <3> QED
      BY <1>1, <1>2, <1>3, <3>1, <3>2, <3>4, <3>6, <3>7, <3>8
  <2> QED
    BY <2>1, <2>2 DEF StateTakeLock
<1> HIDE DEF id
<1>4. w \in Views
  BY <1>3 DEF Holds
<1>5. lockItems' \in [Procs -> SUBSET LockItem] /\ lockItems'[StateProc] = w.items
  BY <1>1, <1>3, <1>4 DEF Views
<1>6. View' = w
  BY <1>3, <1>4, <1>5 DEF View, Views
<1>7. lockNextId' \in [Procs -> Nat] /\ lockNextId'[StateProc] = C
  BY <1>1, <1>3
<1>8. Windows(w.chain)
  <2>1. \A m \in 1 .. Depth : Len(chain[m].ids) < MaxTakes
    BY <1>1, <1>2
  <2>2. /\ SameSteps(chain, w.chain)
        /\ <<l, Len(chain[l].ids) + 1>> \notin Places(chain)
    BY <1>1, <1>3, <2>1, PlaceAdded
  <2> QED
    BY <1>1, <2>2, SameStepsWindows
<1> QED
  BY <1>3, <1>5, <1>6, <1>7, <1>8 DEF StInv, AllOk

LEMMA ReleaseLocksKeeps ==
    ASSUME StInv, NEW l \in 1 .. Depth, StateReleaseLocks(l)
    PROVE  StInv'
<1> DEFINE B == lockNextId[StateProc]
           w == ReleaseLocks(View, l)
<1>1. View.chain = chain /\ chain \in Chains /\ Windows(chain) /\ Holds(View, B)
  BY StepOfChain
<1> HIDE DEF B
<1>2. Holds(w, B) /\ w.chain = Emptied(chain, l)
  BY <1>1, LocksReleased
<1>3. SameSteps(chain, w.chain)
  BY <1>1, <1>2, EmptiedKeeps
<1>4. Windows(w.chain)
  BY <1>1, <1>3, SameStepsWindows
<1>5. AllOk(w, B) /\ Becomes(w)
  BY <1>2, <1>4 DEF AllOk, StateReleaseLocks
<1> HIDE DEF w
<1> QED
  BY <1>5, BecomesKeeps DEF B

LEMMA GetChildKeeps ==
    ASSUME StInv, NEW l \in 1 .. Depth, StateGetChild(l)
    PROVE  StInv'
<1> DEFINE B == lockNextId[StateProc]
           v == DropChild(View, l)
           c == v.chain
           a == chain[l].action
           d == [c EXCEPT ![l].childAction = a, ![l + 1] = NewState(a)]
           w == [v EXCEPT !.chain = d]
<1>1. View.chain = chain /\ chain \in Chains /\ AllOk(View, B)
  BY StepOfChain
<1>2. l < Depth /\ l + 1 \in 1 .. Depth /\ l + 1 > l /\ l + 1 # l
  BY DnfStateAssumption DEF StateGetChild
<1>3. Becomes([v EXCEPT !.chain[l].childAction = chain[l].action, !.chain[l + 1] = NewState(chain[l].action)])
  BY DEF StateGetChild
<1>4. a \in ActionNames
  BY <1>1 DEF Chains, StRecord
<1> HIDE DEF B
<1>5. AllOk(v, B) /\ c[l + 1] = NoState
  BY <1>1, <1>2, ChildDropped
<1> HIDE DEF v, a
<1>6. Holds(v, B) /\ Windows(c) /\ c \in Chains /\ v \in Views
  BY <1>5 DEF AllOk, Holds, Views
<1>7. Becomes(w)
  BY <1>3, <1>6 DEF Views, a
<1>8. /\ NewState(a) \in StRecord /\ NewState(a).ids = << >> /\ NoState.ids = << >>
      /\ Stepped(NewState(a)) /\ InWindow(NewState(a), NewState(a).pct)
  BY <1>4, FreshState
<1> DEFINE s == [c[l] EXCEPT !.childAction = a]
<1>9. /\ s \in StRecord /\ s.ids = c[l].ids /\ s.steps = c[l].steps /\ s.current = c[l].current
      /\ s.data = c[l].data /\ s.pct = c[l].pct
  BY <1>4, <1>6 DEF Chains, StRecord
<1>10. d \in Chains /\ d[l] = s /\ d[l + 1] = NewState(a) /\ \A m \in 1 .. Depth : m # l /\ m # l + 1 => d[m] = c[m]
  BY <1>2, <1>6, <1>8, <1>9 DEF Chains
<1> HIDE DEF d, s
<1>11. SameIds(c, d)
  BY <1>5, <1>8, <1>9, <1>10 DEF SameIds
<1>12. Holds(w, B) /\ w.chain = d
  BY <1>6, <1>10, <1>11, SameIdsHolds
<1>13. Windows(d)
  <2> SUFFICES ASSUME NEW m \in 1 .. Depth PROVE Stepped(d[m]) /\ InWindow(d[m], d[m].pct)
    BY DEF Windows
  <2>1. CASE m = l
    <3>1. Stepped(c[l]) /\ InWindow(c[l], c[l].pct) /\ c[l].pct <= 100
      BY <1>6 DEF Windows, Stepped
    <3>2. Stepped(s) /\ InWindow(s, s.pct)
      BY <1>9, <3>1, WindowByFields
    <3> QED
      BY <1>10, <2>1, <3>2
  <2>2. CASE m = l + 1
    BY <1>8, <1>10, <2>2
  <2>3. CASE m # l /\ m # l + 1
    BY <1>6, <1>10, <2>3 DEF Windows
  <2> QED
    BY <2>1, <2>2, <2>3
<1>14. AllOk(w, B)
  BY <1>12, <1>13 DEF AllOk
<1> HIDE DEF w
<1> QED
  BY <1>7, <1>14, BecomesKeeps DEF B

\* What cumulated shares are like.
Rising(data, n) ==
    data # << >> =>
        /\ Len(data) = n /\ n > 0 /\ data[n] = 100
        /\ \A k \in 1 .. n : data[k] <= 100
        /\ \A k \in 1 .. n - 1 : data[k] <= data[k + 1]

WithSteps(c, l, n, data) == [c EXCEPT ![l].steps = n, ![l].data = data]

\* A state that has reported nothing gets its steps.
LEMMA StepsGiven ==
    ASSUME StInv, NEW l \in 1 .. Depth, NEW n \in Nat, NEW data \in Seq(Nat),
           chain[l].steps = 0, chain[l].pct = 0,
           NEW c, c = WithSteps(chain, l, n, data), OnlyChain(c),
           Rising(data, n)
    PROVE  StInv'
<1>1. chain \in Chains /\ Windows(chain)
  BY StepOfChain
<1> DEFINE s == [chain[l] EXCEPT !.steps = n, !.data = data]
<1>2. chain[l] \in StRecord /\ Stepped(chain[l])
  BY <1>1 DEF Chains, Windows
<1>3. chain[l].current = 0
  BY <1>2 DEF Stepped, StRecord
<1>4. /\ s \in StRecord /\ s.ids = chain[l].ids /\ s.steps = n /\ s.data = data
      /\ s.current = 0 /\ s.pct = 0
  BY <1>2, <1>3 DEF StRecord
<1>5. c = [chain EXCEPT ![l] = s]
  BY <1>1, <1>2 DEF Chains, StRecord, WithSteps
<1> HIDE DEF s
<1>6. c \in Chains /\ c[l] = s /\ \A m \in 1 .. Depth : m # l => c[m] = chain[m]
  BY <1>1, <1>4, <1>5 DEF Chains
<1>7. SameIds(chain, c)
  BY <1>4, <1>6 DEF SameIds
<1>8. Stepped(s)
  <2>1. s.current <= s.steps /\ s.pct <= 100
    BY <1>4
  <2>2. ASSUME data # << >>
        PROVE  /\ Len(data) = n /\ data[n] = 100
               /\ \A k \in 1 .. n : data[k] <= 100
               /\ \A k \in 1 .. n - 1 : data[k] <= data[k + 1]
    BY <2>2 DEF Rising
  <2>3. s.data # << >> =>
            /\ Len(s.data) = s.steps /\ s.data[s.steps] = 100
            /\ \A k \in 1 .. s.steps : s.data[k] <= 100
            /\ \A k \in 1 .. s.steps - 1 : s.data[k] <= s.data[k + 1]
    BY ONLY <1>4, <2>2
  <2> QED
    BY <2>1, <2>3 DEF Stepped
<1>9. InWindow(s, s.pct)
  <2> SUFFICES ASSUME s.steps > 0 PROVE StepStart(s, 0) <= 0 /\ 0 <= StepStart(s, 1)
    BY <1>4 DEF InWindow
  <2>1. StepStart(s, 0) = 0 /\ \A k \in 0 .. s.steps : StepStart(s, k) \in 0 .. 100
    BY <1>4, <1>8, StepsGoUp
  <2>2. 1 \in 0 .. s.steps
    BY <1>4
  <2> DEFINE a == StepStart(s, 0)
             b == StepStart(s, 1)
  <2>3. a = 0 /\ b \in 0 .. 100
    BY <2>1, <2>2
  <2> HIDE DEF a, b
  <2>4. a <= 0 /\ 0 <= b
    BY <2>3
  <2> QED
    BY <2>4 DEF a, b
<1>10. Windows(c)
  BY <1>1, <1>6, <1>8, <1>9 DEF Windows
<1> QED
  BY <1>6, <1>7, <1>10, OnlyChainKeeps

LEMMA SetNumberStepsKeeps ==
    ASSUME StInv, NEW l \in 1 .. Depth, NEW n \in StepCounts, StateSetNumberSteps(l, n)
    PROVE  StInv'
<1> DEFINE c == WithSteps(chain, l, n, << >>)
<1>1. n \in Nat /\ << >> \in Seq(Nat) /\ chain[l].steps = 0 /\ chain[l].pct = 0
  BY DnfStateAssumption DEF StateSetNumberSteps
<1>2. chain \in Chains /\ chain[l] \in StRecord /\ Stepped(chain[l])
  BY StepOfChain DEF Windows, Chains
<1>3. chain[l].data = << >>
  BY <1>1, <1>2 DEF Stepped, StRecord
<1>4. c = [chain EXCEPT ![l].steps = n]
  <2>1. [chain[l] EXCEPT !.steps = n, !.data = << >>] = [chain[l] EXCEPT !.steps = n]
    BY <1>2, <1>3 DEF StRecord
  <2> QED
    BY <1>2, <2>1 DEF Chains, WithSteps
<1>5. OnlyChain(c)
  BY <1>4 DEF StateSetNumberSteps
<1> HIDE DEF c
<1>6. c = WithSteps(chain, l, n, << >>)
  BY DEF c
<1> DEFINE data == << >>
<1> HIDE DEF data
<1>7. data \in Seq(Nat) /\ Rising(data, n) /\ c = WithSteps(chain, l, n, data)
  BY <1>6 DEF data, Rising
<1> QED
  BY <1>1, <1>5, <1>7, StepsGiven

\* The shares added up.
Sums(shares, f, N) ==
    f = [k \in 0 .. N |-> IF k = 0 THEN 0 ELSE f[k - 1] + shares[k]]

LEMMA SumsExist ==
    ASSUME NEW shares, NEW N \in Nat
    PROVE  \E f : Sums(shares, f, N)
<1> DEFINE Some(n) == \E f : Sums(shares, f, n)
           G == {n \in 0 .. N : Some(n)}
<1>1. 0 \in G
  <2> DEFINE f == [k \in 0 .. 0 |-> 0]
  <2>1. Sums(shares, f, 0)
    BY DEF Sums
  <2> QED
    BY <2>1
<1>2. ASSUME NEW n \in 1 .. N, n - 1 \in G PROVE n \in G
  <2>1. PICK f : Sums(shares, f, n - 1)
    BY <1>2
  <2> DEFINE last == f[n - 1] + shares[n]
  <2> HIDE DEF last
  <2> DEFINE g == [m \in 0 .. n |-> IF m = n THEN last ELSE f[m]]
  <2>2. g[n] = last /\ \A m \in 0 .. n - 1 : g[m] = f[m]
    OBVIOUS
  <2>3. g = [m \in 0 .. n |-> g[m]]
    OBVIOUS
  <2> HIDE DEF g
  <2>4. ASSUME NEW m \in 0 .. n PROVE g[m] = IF m = 0 THEN 0 ELSE g[m - 1] + shares[m]
    <3>1. CASE m = n
      BY <2>2, <3>1 DEF last
    <3>2. CASE m # n
      <4>1. m \in 0 .. n - 1 /\ (m # 0 => m - 1 \in 0 .. n - 1)
        BY <3>2
      <4>2. f[m] = IF m = 0 THEN 0 ELSE f[m - 1] + shares[m]
        BY <2>1, <4>1 DEF Sums
      <4> QED
        BY <2>2, <4>1, <4>2
    <3> QED
      BY <3>1, <3>2
  <2>5. Sums(shares, g, n)
    BY <2>3, <2>4 DEF Sums
  <2> QED
    BY <2>5
<1> HIDE DEF G
<1>3. N \in G
  BY <1>1, <1>2, CountUpTo
<1> QED
  BY <1>3 DEF G

LEMMA SharesCumulated ==
    ASSUME NEW shares \in Seq(Nat)
    PROVE  LET f == Cumulated(shares)
           IN /\ f[0] = 0 /\ \A k \in 0 .. Len(shares) : f[k] \in Nat
              /\ \A k \in 1 .. Len(shares) : f[k - 1] <= f[k]
<1> DEFINE N == Len(shares)
           f == Cumulated(shares)
<1>1. N \in Nat
  OBVIOUS
<1>2. f = CHOOSE g : Sums(shares, g, N)
  BY DEF Cumulated, Sums
<1>3. Sums(shares, f, N)
  <2> HIDE DEF N
  <2>1. \E g : Sums(shares, g, N)
    BY <1>1, SumsExist
  <2> QED
    BY <1>2, <2>1
<1> HIDE DEF f
<1>4. f[0] = 0 /\ \A k \in 1 .. N : f[k] = f[k - 1] + shares[k]
  BY <1>1, <1>3 DEF Sums
<1>5. \A k \in 1 .. N : shares[k] \in Nat
  OBVIOUS
<1> HIDE DEF N
<1>6. ASSUME NEW k \in 0 .. N PROVE f[k] \in Nat
  <2> DEFINE G == {m \in 0 .. k : f[m] \in Nat}
  <2>1. 0 \in G
    BY <1>4
  <2>2. \A m \in 1 .. k : m - 1 \in G => m \in G
    BY <1>1, <1>4, <1>5
  <2> HIDE DEF G
  <2>3. k \in Nat
    BY <1>1
  <2>4. k \in G
    BY <2>1, <2>2, <2>3, CountUpTo
  <2> QED
    BY <2>4 DEF G
<1>7. ASSUME NEW k \in 1 .. N PROVE f[k - 1] <= f[k]
  <2>1. f[k - 1] \in Nat /\ shares[k] \in Nat /\ f[k] = f[k - 1] + shares[k]
    BY <1>1, <1>4, <1>5, <1>6
  <2> QED
    BY <2>1
<1> QED
  BY <1>4, <1>6, <1>7 DEF f, N

LEMMA SetStepsKeeps ==
    ASSUME StInv, NEW l \in 1 .. Depth, NEW shares \in StepShares, StateSetSteps(l, shares)
    PROVE  StInv'
<1> DEFINE n == Len(shares)
           f == Cumulated(shares)
           data == [k \in 1 .. n |-> f[k]]
           c == WithSteps(chain, l, n, data)
<1>1. shares \in Seq(Nat) /\ n \in Nat
  BY DnfStateAssumption
<1>2. chain[l].steps = 0 /\ chain[l].pct = 0 /\ f[n] = 100 /\ OnlyChain(c)
  BY DEF StateSetSteps, WithSteps
<1>3. /\ f[0] = 0 /\ \A k \in 0 .. n : f[k] \in Nat
      /\ \A k \in 1 .. n : f[k - 1] <= f[k]
  BY <1>1, SharesCumulated
<1> HIDE DEF f, n
<1>4. n > 0
  BY <1>1, <1>2, <1>3
<1>5. data \in Seq(Nat) /\ Len(data) = n /\ \A k \in 1 .. n : data[k] = f[k]
  BY <1>1, <1>3
<1>6. ASSUME NEW k \in 1 .. n PROVE f[k] <= 100
  <2> DEFINE H == {j \in 0 .. n - k : f[n - j] <= 100}
  <2>1. n - k \in Nat /\ n - (n - k) = k
    BY <1>1
  <2>2. 0 \in H
    BY <1>1, <1>2, <2>1
  <2>3. \A j \in 1 .. n - k : j - 1 \in H => j \in H
    <3> SUFFICES ASSUME NEW j \in 1 .. n - k, j - 1 \in H PROVE j \in H
      OBVIOUS
    <3>1. n - j \in 0 .. n /\ n - j + 1 \in 1 .. n /\ n - (j - 1) = n - j + 1 /\ n - j + 1 - 1 = n - j
      BY <1>1
    <3>2. f[n - j] <= f[n - j + 1] /\ f[n - j + 1] <= 100 /\ f[n - j] \in Nat /\ f[n - j + 1] \in Nat
      BY <1>1, <1>3, <3>1
    <3>3. f[n - j] <= 100
      BY <3>2
    <3> QED
      BY <3>3
  <2> HIDE DEF H
  <2>4. n - k \in H
    BY <2>1, <2>2, <2>3, CountUpTo
  <2> QED
    BY <2>1, <2>4 DEF H
<1>7. \A k \in 1 .. n : data[k] <= 100
  BY <1>5, <1>6
<1>8. \A k \in 1 .. n - 1 : data[k] <= data[k + 1]
  <2> SUFFICES ASSUME NEW k \in 1 .. n - 1 PROVE data[k] <= data[k + 1]
    OBVIOUS
  <2>1. k \in 1 .. n /\ k + 1 \in 1 .. n /\ k + 1 - 1 = k
    BY <1>1
  <2> QED
    BY <1>3, <1>5, <2>1
<1>9. data[n] = 100
  BY <1>1, <1>2, <1>4, <1>5
<1> HIDE DEF data, c
<1>10. c = WithSteps(chain, l, n, data)
  BY DEF c
<1>11. Rising(data, n)
  BY <1>4, <1>5, <1>7, <1>8, <1>9 DEF Rising
<1>12. data \in Seq(Nat)
  BY <1>5
<1> QED
  BY <1>1, <1>2, <1>10, <1>11, <1>12, StepsGiven

\* A percentage of a task without steps, which has no window to keep to.
LEMMA SetPercentageKeeps ==
    ASSUME StInv, NEW l \in 1 .. Depth, NEW p \in LeafPercents, StateSetPercentage(l, p)
    PROVE  StInv'
<1> DEFINE B == lockNextId[StateProc]
           w == SetPercentage(View, l, p)
<1>1. View.chain = chain /\ Windows(chain) /\ Holds(View, B)
  BY StepOfChain
<1>2. chain[l].steps = 0 /\ Becomes(w) /\ p \in Nat
  BY DnfStateAssumption DEF StateSetPercentage
<1> HIDE DEF B
<1>3. \A q : InWindow(chain[l], q)
  BY <1>2 DEF InWindow
<1>4. Pending(View, B, l, p)
  BY <1>1, <1>2, <1>3 DEF Pending, Windows
<1>5. AllOk(w, B)
  BY <1>4, PercentageSet
<1> HIDE DEF w
<1> QED
  BY <1>2, <1>5, BecomesKeeps DEF B

\* A state moves on to step n and is told where that step begins.
LEMMA StepTaken ==
    ASSUME NEW v, NEW B, AllOk(v, B), NEW l \in 1 .. Depth, NEW n \in Nat, NEW p,
           v.chain[l].current < n, n <= v.chain[l].steps,
           p = StepStart(v.chain[l], n),
           NEW w, w = [v EXCEPT !.chain[l].current = n]
    PROVE  AllOk(SetPercentage(w, l, p), B)
<1> DEFINE c == v.chain
           s == [c[l] EXCEPT !.current = n]
           d == [c EXCEPT ![l] = s]
<1>1. v \in Views /\ c \in Chains /\ Windows(c) /\ Holds(v, B)
  BY DEF AllOk, Holds, Views
<1>2. c[l] \in StRecord /\ Stepped(c[l]) /\ InWindow(c[l], c[l].pct)
  BY <1>1 DEF Chains, Windows
<1>3. /\ s \in StRecord /\ s.ids = c[l].ids /\ s.steps = c[l].steps /\ s.data = c[l].data
      /\ s.current = n /\ s.pct = c[l].pct
  BY <1>2 DEF StRecord
<1>4. w = [v EXCEPT !.chain = d]
  BY <1>1 DEF Views
<1> HIDE DEF s
<1>5. d \in Chains /\ d[l] = s /\ \A m \in 1 .. Depth : m # l => d[m] = c[m]
  BY <1>1, <1>3 DEF Chains
<1> HIDE DEF d
<1>6. SameIds(c, d)
  BY <1>3, <1>5 DEF SameIds
<1>7. Holds(w, B) /\ w.chain = d
  <2>1. Holds([v EXCEPT !.chain = d], B) /\ [v EXCEPT !.chain = d].chain = d
    BY <1>1, <1>5, <1>6, SameIdsHolds
  <2> QED
    BY <1>4, <2>1
<1>8. c[l].steps \in Nat /\ c[l].current \in Nat /\ c[l].pct \in Nat /\ c[l].steps > 0 /\ s.steps > 0
  BY <1>2, <1>3 DEF StRecord
<1>9. Stepped(s)
  BY <1>2, <1>3 DEF Stepped
<1>10. \A k : StepStart(s, k) = StepStart(c[l], k)
  BY <1>3 DEF StepStart
<1>11. /\ \A k \in 0 .. s.steps : StepStart(s, k) \in 0 .. 100
       /\ \A k \in 0 .. s.steps - 1 : StepStart(s, k) <= StepStart(s, k + 1)
  BY <1>3, <1>8, <1>9, StepsGoUp
<1>12. p = StepStart(s, n) /\ p \in 0 .. 100
  <2>1. n \in 0 .. s.steps
    BY <1>3, <1>8
  <2> QED
    BY <1>10, <1>11, <2>1
<1>13. InWindow(s, p)
  <2>1. p <= p
    BY <1>12
  <2>2. n < s.steps => n \in 0 .. s.steps - 1
    BY <1>3, <1>8
  <2> QED
    BY <1>3, <1>11, <1>12, <2>1, <2>2 DEF InWindow
<1>14. p > 100 \/ p <= s.pct => InWindow(s, s.pct)
  <2> SUFFICES ASSUME p <= s.pct, s.steps > 0
               PROVE  /\ StepStart(s, n) <= s.pct
                      /\ n < s.steps => s.pct <= StepStart(s, n + 1)
    BY <1>3, <1>12 DEF InWindow
  <2>1. StepStart(s, n) <= s.pct
    BY <1>12
  <2>2. ASSUME n < s.steps PROVE s.pct <= StepStart(s, n + 1)
    <3>0. c[l].current < c[l].steps
      BY <1>8
    <3>1. s.pct <= StepStart(s, c[l].current + 1)
      BY <1>2, <1>3, <1>8, <1>10, <3>0 DEF InWindow
    <3> DEFINE G == {j \in 0 .. n - c[l].current : j = 0 \/ s.pct <= StepStart(s, c[l].current + j)}
    <3>2. n - c[l].current \in Nat /\ n - c[l].current >= 1 /\ c[l].current + (n - c[l].current) = n
      BY <1>8
    <3>3. 0 \in G
      BY <3>2
    <3>4. ASSUME NEW j \in 1 .. n - c[l].current, j - 1 \in G PROVE j \in G
      <4>1. CASE j = 1
        BY <3>1, <4>1
      <4>2. CASE j # 1
        <5> DEFINE k == c[l].current + (j - 1)
        <5>1. k \in 0 .. s.steps - 1 /\ k + 1 = c[l].current + j /\ k \in 0 .. s.steps /\ k + 1 \in 0 .. s.steps
          BY <1>3, <1>8, <3>2
        <5>2. s.pct <= StepStart(s, k)
          BY <3>4, <4>2
        <5> HIDE DEF k
        <5>3. StepStart(s, k) <= StepStart(s, k + 1) /\ StepStart(s, k) \in 0 .. 100 /\ StepStart(s, k + 1) \in 0 .. 100
          BY <1>11, <5>1
        <5>4. s.pct \in Nat
          BY <1>3, <1>8
        <5>5. s.pct <= StepStart(s, k + 1)
          BY <5>2, <5>3, <5>4
        <5>6. s.pct <= StepStart(s, c[l].current + j)
          BY <5>1, <5>5
        <5> QED
          BY <5>6
      <4> QED
        BY <4>1, <4>2
    <3> DEFINE N == n - c[l].current
    <3>5. N \in Nat /\ 0 \in G /\ \A j \in 1 .. N : j - 1 \in G => j \in G
      BY <3>2, <3>3, <3>4
    <3>6. N \in G
      <4> HIDE DEF N, G
      <4> QED
        BY <3>5, CountUpTo
    <3>7. s.pct <= StepStart(s, n)
      BY <3>2, <3>6
    <3> HIDE DEF G, N
    <3>8. n \in 0 .. s.steps - 1 /\ n \in 0 .. s.steps /\ n + 1 \in 0 .. s.steps
      BY <1>3, <1>8, <2>2
    <3>9. StepStart(s, n) <= StepStart(s, n + 1) /\ StepStart(s, n) \in 0 .. 100 /\ StepStart(s, n + 1) \in 0 .. 100
      BY <1>11, <3>8
    <3>10. s.pct \in Nat
      BY <1>3, <1>8
    <3> QED
      BY <3>7, <3>9, <3>10
  <2> QED
    BY <2>1, <2>2
<1>15. Pending(w, B, l, p)
  <2>1. \A m \in 1 .. Depth : Stepped(d[m]) /\ (m # l => InWindow(d[m], d[m].pct))
    BY <1>1, <1>5, <1>9 DEF Windows
  <2>2. p \in Nat
    BY <1>12
  <2> QED
    BY <1>5, <1>7, <1>13, <1>14, <2>1, <2>2 DEF Pending
<1> QED
  BY <1>15, PercentageSet

\* dnf_state_done.
LEMMA DoneKeeps ==
    ASSUME StInv, NEW l \in 1 .. Depth, StateDone(l)
    PROVE  StInv'
<1> DEFINE B == lockNextId[StateProc]
           c == AllowCancel(chain, l, TRUE)
           n == chain[l].current + 1
           p == IF chain[l].data = << >> THEN DiscreteToPercent(n, chain[l].steps) ELSE chain[l].data[n]
           u == [View EXCEPT !.chain = c]
           w == [View EXCEPT !.chain = [c EXCEPT ![l].current = n]]
           v == SetPercentage(w, l, p)
           x == IF l < Depth /\ v.chain[l + 1].live THEN Reset(v, l + 1) ELSE v
<1>1. /\ View.chain = chain /\ chain \in Chains /\ Windows(chain) /\ Holds(View, B)
      /\ chain[l] \in StRecord
  BY StepOfChain DEF Chains
<1>2. chain[l].current < chain[l].steps /\ Becomes(x)
  BY DEF StateDone
<1>3. n \in Nat /\ n > 0 /\ chain[l].current < n /\ n <= chain[l].steps
  BY <1>1, <1>2 DEF StRecord
<1> HIDE DEF B
<1>4. c \in Chains /\ SameSteps(chain, c) /\ SameIds(chain, c)
  BY <1>1, CancelAllowed
<1> HIDE DEF c
<1>5. Holds(u, B) /\ u.chain = c
  BY <1>1, <1>4, SameIdsHolds
<1>6. AllOk(u, B)
  BY <1>1, <1>4, <1>5, SameStepsWindows DEF AllOk
<1>7. /\ c[l].current = chain[l].current /\ c[l].steps = chain[l].steps /\ c[l].data = chain[l].data
  BY <1>4 DEF SameSteps
<1>8. p = StepStart(c[l], n)
  <2> HIDE DEF n
  <2> QED
    BY <1>3, <1>7 DEF StepStart
<1>9. w = [u EXCEPT !.chain[l].current = n]
  BY <1>5 DEF View
<1> HIDE DEF n, p, u, w
<1>10. AllOk(v, B)
  BY <1>3, <1>5, <1>6, <1>7, <1>8, <1>9, StepTaken
<1> HIDE DEF v
<1>11. AllOk(x, B)
  <2>1. CASE l < Depth /\ v.chain[l + 1].live
    <3>1. l + 1 \in 1 .. Depth
      BY <2>1, DnfStateAssumption
    <3>2. AllOk(Reset(v, l + 1), B)
      BY <1>10, <3>1, StateIsReset
    <3> QED
      BY <2>1, <3>2
  <2>2. CASE ~ (l < Depth /\ v.chain[l + 1].live)
    BY <1>10, <2>2
  <2> QED
    BY <2>1, <2>2
<1> HIDE DEF x
<1> QED
  BY <1>2, <1>11, BecomesKeeps DEF B

\* dnf_state_finished.
LEMMA FinishedKeeps ==
    ASSUME StInv, NEW l \in 1 .. Depth, StateFinished(l)
    PROVE  StInv'
<1> DEFINE B == lockNextId[StateProc]
           n == chain[l].steps
           w == [View EXCEPT !.chain[l].current = n]
           x == SetPercentage(w, l, 100)
<1>1. /\ View.chain = chain /\ AllOk(View, B)
      /\ chain[l] \in StRecord /\ Stepped(chain[l])
  BY StepOfChain DEF Chains, Windows
<1>2. chain[l].current # n /\ Becomes(x)
  BY DEF StateFinished
<1>3. n \in Nat /\ chain[l].current \in Nat /\ chain[l].current < n /\ n <= chain[l].steps /\ n > 0
  BY <1>1, <1>2 DEF StRecord, Stepped
<1>4. StepStart(chain[l], n) = 100
  BY <1>1, <1>3, StepsGoUp
<1> DEFINE p == 100
<1>5. p = StepStart(View.chain[l], n) /\ View.chain[l].current < n /\ n <= View.chain[l].steps
  BY <1>1, <1>3, <1>4
<1> HIDE DEF B, n
<1>6. w = [View EXCEPT !.chain[l].current = n]
  OBVIOUS
<1>7. x = SetPercentage(w, l, p)
  OBVIOUS
<1> HIDE DEF w, p, x
<1>8. AllOk(x, B)
  BY <1>1, <1>3, <1>5, <1>6, <1>7, StepTaken
<1> QED
  BY <1>2, <1>8, BecomesKeeps DEF B

LEMMA ResetKeeps ==
    ASSUME StInv, NEW l \in 1 .. Depth, StateReset(l)
    PROVE  StInv'
<1>1. AllOk(View, lockNextId[StateProc])
  BY StepOfChain
<1>2. AllOk(Reset(View, l), lockNextId[StateProc])
  BY <1>1, StateIsReset
<1>3. Becomes(Reset(View, l))
  BY DEF StateReset
<1> QED
  BY <1>2, <1>3, BecomesKeeps

\* What is told about actions and cancelling touches neither steps nor ids.
LEMMA SignalsKeep ==
    ASSUME StInv, NEW l \in ActionLevels,
           \/ \E b \in BOOLEAN : StateSetAllowCancel(l, b)
           \/ \E a \in Actions : StateActionStart(l, a)
           \/ StateActionStop(l)
    PROVE  StInv'
<1>1. chain \in Chains /\ Windows(chain) /\ l \in 1 .. Depth
  BY StepOfChain, DnfStateAssumption
<1>2. SUFFICES ASSUME NEW d \in Chains, SameSteps(chain, d), SameIds(chain, d), OnlyChain(d)
               PROVE  StInv'
  <2>1. ASSUME NEW b \in BOOLEAN, StateSetAllowCancel(l, b) PROVE StInv'
    <3> DEFINE d == AllowCancel(chain, l, b)
    <3>1. d \in Chains /\ SameSteps(chain, d) /\ SameIds(chain, d)
      BY <1>1, CancelAllowed
    <3>2. OnlyChain(d)
      BY <2>1 DEF StateSetAllowCancel
    <3> HIDE DEF d
    <3> QED
      BY <1>2, <3>1, <3>2
  <2>2. ASSUME NEW a \in Actions, StateActionStart(l, a) PROVE StInv'
    <3> DEFINE s == [chain[l] EXCEPT !.last = chain[l].action]
               c == [chain EXCEPT ![l] = s]
               d == EmitAction(c, l, a)
    <3>1. OnlyChain(d)
      BY <2>2 DEF StateActionStart
    <3>2. chain[l] \in StRecord
      BY <1>1 DEF Chains
    <3>3. /\ s \in StRecord /\ s.ids = chain[l].ids /\ s.steps = chain[l].steps
          /\ s.current = chain[l].current /\ s.data = chain[l].data /\ s.pct = chain[l].pct
      BY <3>2 DEF StRecord
    <3> HIDE DEF s
    <3>4. c \in Chains /\ SameSteps(chain, c) /\ SameIds(chain, c)
      BY <1>1, <3>3 DEF Chains, SameSteps, SameIds
    <3>5. a \in ActionNames
      BY DEF ActionNames
    <3> HIDE DEF c
    <3>6. d \in Chains /\ SameSteps(c, d) /\ SameIds(c, d)
      BY <1>1, <3>4, <3>5, ActionEmitted
    <3> HIDE DEF d
    <3>7. SameSteps(chain, d) /\ SameIds(chain, d)
      BY <3>4, <3>6 DEF SameSteps, SameIds
    <3> QED
      BY <1>2, <3>1, <3>6, <3>7
  <2>3. ASSUME StateActionStop(l) PROVE StInv'
    <3> DEFINE d == ActionStop(chain, l)
    <3>1. d \in Chains /\ SameSteps(chain, d) /\ SameIds(chain, d)
      BY <1>1, ActionStopped
    <3>2. OnlyChain(d)
      BY <2>3 DEF StateActionStop
    <3> HIDE DEF d
    <3> QED
      BY <1>2, <3>1, <3>2
  <2> QED
    BY <2>1, <2>2, <2>3
<1>3. Windows(d)
  BY <1>1, <1>2, SameStepsWindows
<1> QED
  BY <1>2, <1>3, OnlyChainKeeps

LEMMA StInvInit ==
    ASSUME LockInit, StateInit
    PROVE  StInv
<1>1. StateProc \in Procs /\ Depth \in Nat
  BY DnfStateAssumption
<1>2. /\ lockItems \in [Procs -> SUBSET LockItem] /\ lockNextId \in [Procs -> Nat]
      /\ lockItems[StateProc] = {} /\ lockFile \in LockFiles
  BY <1>1 DEF LockInit, LockFiles
<1>3. \A l \in 1 .. Depth : /\ chain[l] \in StRecord /\ chain[l].ids = << >>
                            /\ Stepped(chain[l]) /\ InWindow(chain[l], chain[l].pct)
  <2>1. /\ NewState(Unknown) \in StRecord /\ NewState(Unknown).ids = << >>
        /\ Stepped(NewState(Unknown)) /\ InWindow(NewState(Unknown), NewState(Unknown).pct)
        /\ NoState \in StRecord /\ NoState.ids = << >>
        /\ Stepped(NoState) /\ InWindow(NoState, NoState.pct)
    BY FreshState DEF ActionNames
  <2> SUFFICES ASSUME NEW l \in 1 .. Depth
               PROVE  /\ chain[l] \in StRecord /\ chain[l].ids = << >>
                      /\ Stepped(chain[l]) /\ InWindow(chain[l], chain[l].pct)
    OBVIOUS
  <2>2. chain[l] = NewState(Unknown) \/ chain[l] = NoState
    BY DEF StateInit
  <2> QED
    BY <2>1, <2>2
<1>4. chain \in Chains /\ Windows(chain)
  <2>1. chain = [l \in 1 .. Depth |-> chain[l]]
    BY DEF StateInit
  <2> QED
    BY <1>3, <2>1 DEF Chains, Windows
<1>5. Places(chain) = {}
  <2> SUFFICES ASSUME NEW x \in (1 .. Depth) \X (1 .. MaxTakes), x[2] <= Len(chain[x[1]].ids) PROVE FALSE
    BY DEF Places
  <2>1. x[1] \in 1 .. Depth /\ x[2] \in 1 .. MaxTakes
    OBVIOUS
  <2>2. Len(chain[x[1]].ids) = 0
    BY <1>3, <2>1
  <2> QED
    BY <2>1, <2>2, DnfStateAssumption
<1>6. View.chain = chain /\ View.file = lockFile /\ View.items = {} /\ View \in Views
  BY <1>2, <1>4 DEF View, Views
<1>7. Balanced(lockFile, {}, chain, {}, lockNextId[StateProc])
  BY DEF Balanced
<1>8. \A l \in 1 .. Depth : Len(chain[l].ids) <= MaxTakes
  BY <1>3, DnfStateAssumption
<1> QED
  BY <1>2, <1>4, <1>5, <1>6, <1>7, <1>8 DEF StInv, AllOk, Holds

LEMMA StInvNext ==
    ASSUME StInv, [StateNext]_<<lockVars, stateVars>>
    PROVE  StInv'
<1>1. CASE UNCHANGED <<lockVars, stateVars>> \/ StateCancel
  <2>1. View' = View /\ lockItems' = lockItems /\ lockNextId' = lockNextId
    BY <1>1 DEF View, lockVars, stateVars, StateCancel
  <2> QED
    BY <2>1 DEF StInv
<1>2. ASSUME NEW l \in 1 .. Depth, NEW ty \in LockTypes, NEW mode \in LockModes, StateTakeLock(l, ty, mode)
      PROVE  StInv'
  BY <1>2, TakeLockKeeps
<1>3. ASSUME NEW l \in 1 .. Depth, StateReleaseLocks(l) PROVE StInv'
  BY <1>3, ReleaseLocksKeeps
<1>4. ASSUME NEW l \in 1 .. Depth, StateGetChild(l) PROVE StInv'
  BY <1>4, GetChildKeeps
<1>5. ASSUME NEW l \in 1 .. Depth, NEW n \in StepCounts, StateSetNumberSteps(l, n) PROVE StInv'
  BY <1>5, SetNumberStepsKeeps
<1>6. ASSUME NEW l \in 1 .. Depth, NEW s \in StepShares, StateSetSteps(l, s) PROVE StInv'
  BY <1>6, SetStepsKeeps
<1>7. ASSUME NEW l \in 1 .. Depth, NEW p \in LeafPercents, StateSetPercentage(l, p) PROVE StInv'
  BY <1>7, SetPercentageKeeps
<1>8. ASSUME NEW l \in 1 .. Depth, StateDone(l) PROVE StInv'
  BY <1>8, DoneKeeps
<1>9. ASSUME NEW l \in 1 .. Depth, StateFinished(l) PROVE StInv'
  BY <1>9, FinishedKeeps
<1>10. ASSUME NEW l \in 1 .. Depth, StateReset(l) PROVE StInv'
  BY <1>10, ResetKeeps
<1>11. ASSUME NEW l \in ActionLevels,
              \/ \E b \in BOOLEAN : StateSetAllowCancel(l, b)
              \/ \E a \in Actions : StateActionStart(l, a)
              \/ StateActionStop(l)
       PROVE  StInv'
  BY <1>11, SignalsKeep
<1> QED
  BY <1>1, <1>2, <1>3, <1>4, <1>5, <1>6, <1>7, <1>8, <1>9, <1>10, <1>11 DEF StateNext

LEMMA StInvAlways == StateSpec => []StInv
<1>1. LockInit /\ StateInit => StInv
  BY StInvInit
<1>2. StInv /\ [StateNext]_<<lockVars, stateVars>> => StInv'
  BY StInvNext
<1> QED
  BY <1>1, <1>2, PTL DEF StateSpec

\* Every count of a lock belongs to exactly one place where a living state
\* remembers it, however states are nested, replaced, completed, reset or
\* dropped: no lock stays taken with nobody left to release it, and none is
\* released twice (dnf_state_take_lock, dnf_state_release_locks,
\* dnf_state_reset, dnf_state_get_child).
THEOREM LocksStayBalanced == StateSpec => []RefcountBalanced
<1>1. StInv => RefcountBalanced
  <2> SUFFICES ASSUME StInv PROVE RefcountBalanced
    OBVIOUS
  <2> DEFINE items == lockItems[StateProc]
             B == lockNextId[StateProc]
  <2>1. /\ chain \in Chains /\ Balanced(lockFile, items, chain, Places(chain), B)
        /\ \A l \in 1 .. Depth : Len(chain[l].ids) <= MaxTakes
    BY StepOfChain DEF Holds
  <2>2. \A id : Occurrences(id) = Cardinality(PlacesOf(chain, Places(chain), id))
    <3> SUFFICES ASSUME NEW id PROVE Occurrences(id) = Cardinality(PlacesOf(chain, Places(chain), id))
      OBVIOUS
    <3>1. {x \in (1 .. Depth) \X (1 .. MaxTakes) :
               x[2] <= Len(chain[x[1]].ids) /\ chain[x[1]].ids[x[2]] = id}
          = PlacesOf(chain, Places(chain), id)
      BY DEF PlacesOf, Places, IdAt
    <3> QED
      BY <3>1 DEF Occurrences
  <2>3. \A i \in items : i.refcount = Occurrences(i.id)
    BY <2>1, <2>2 DEF Balanced
  <2>4. ASSUME NEW l \in 1 .. Depth, NEW k \in DOMAIN chain[l].ids
        PROVE  \E i \in items : i.id = chain[l].ids[k]
    <3> DEFINE x == <<l, k>>
    <3>1. chain[l].ids \in Seq(Nat) /\ Len(chain[l].ids) <= MaxTakes
      BY <2>1 DEF Chains, StRecord
    <3>2. k \in 1 .. Len(chain[l].ids) /\ k \in 1 .. MaxTakes
      BY <3>1, DnfStateAssumption
    <3>3. x \in Places(chain) /\ IdAt(chain, x) = chain[l].ids[k]
      BY <3>2 DEF Places, IdAt
    <3> HIDE DEF x
    <3> QED
      BY <2>1, <3>3 DEF Balanced
  <2> QED
    BY <2>3, <2>4 DEF RefcountBalanced
<1> QED
  BY <1>1, StInvAlways, PTL

\* A state never reports less than the steps it has done nor more than the
\* step it is in, whatever percentages its children pass up and in whatever
\* order steps, children and resets come (dnf_state_set_percentage,
\* dnf_state_child_percentage_changed_cb, dnf_state_done).
THEOREM PercentStaysInStep == StateSpec => []StepWindow
<1>1. StInv => StepWindow
  BY StepOfChain DEF Windows, InWindow, StepWindow
<1> QED
  BY <1>1, StInvAlways, PTL

=============================================================================
