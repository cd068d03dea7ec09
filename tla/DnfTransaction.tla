--------------------------- MODULE DnfTransaction ---------------------------
(***************************************************************************)
(* Running a transaction with dnf-4: dnf_context_run, which depsolves,     *)
(* downloads and commits (dnf-context.cpp, dnf-transaction.cpp,            *)
(* dnf-rpmts.cpp), with the history database it writes (transaction/       *)
(* Swdb.cpp, private/Transaction.cpp) and the rpmdb lock.                  *)
(*                                                                         *)
(* Several processes share the package cache, the rpm database, the        *)
(* history and the lock directory.  Each keeps one DnfTransaction and one  *)
(* Swdb object for its whole life, so what one commit leaves behind meets  *)
(* the next.  A process may die between any two steps.                     *)
(*                                                                         *)
(* librpm is external: it runs the elements of one transaction at a time   *)
(* on the system, in any order that installs before it erases what is      *)
(* replaced, and calls back after each element.  An exception other than   *)
(* libdnf::Error is not caught by CATCH_TO_GERROR and ends the process.    *)
(***************************************************************************)
EXTENDS DnfLock, Sequences

CONSTANTS
    Goals,          \* solved goals: install (package -> action), remove,
                    \* replaces (what an installed package replaces)
    NameOf,         \* the name of each package
    VersionOf,      \* its version
    InitialDb,      \* the packages installed at first
    LocalPkgs,      \* packages of the command-line repository
    UnsignedPkgs,   \* packages whose signature does not verify
    GpgCheck,       \* the repositories have gpgcheck set
    OnlyTrusted,    \* DNF_TRANSACTION_FLAG_ONLY_TRUSTED
    TestRuns,       \* values of DNF_TRANSACTION_FLAG_TEST to try
    KeepCache,      \* dnf_context_get_keep_cache
    MaxRuns,        \* bound: calls of dnf_context_run, by process
    TxThread        \* the thread that runs them

TxPkgs == DOMAIN NameOf

Installs(g) == DOMAIN g.install

\* The packages an update or a downgrade pushes out (hy_goal_list_obsoleted_by_package).
IsUpdate(a) == a \in {"UPDATE", "DOWNGRADE"}
Updates(g) == {x \in Installs(g) : IsUpdate(g.install[x])}
Replaced(g) == UNION {g.replaces[q] : q \in Updates(g)}

\* What libsolv promises of a solved goal: a package that is pushed out and is
\* not in the remove list, which holds the obsoleted ones, gives way to one of
\* its own name.
ASSUME DnfTransactionAssumption ==
    /\ \A g \in Goals :
          /\ Installs(g) \subseteq TxPkgs /\ g.remove \subseteq TxPkgs
          /\ \A x \in Updates(g) : g.replaces[x] \subseteq TxPkgs
          /\ \A q \in Replaced(g) \ g.remove :
                \E x \in Updates(g) : q \in g.replaces[x] /\ NameOf[x] = NameOf[q]
    /\ InitialDb \subseteq TxPkgs
    /\ TestRuns \subseteq BOOLEAN
    /\ "rpmdb" \in LockTypes /\ TxThread \in Threads

VARIABLES
    tx,             \* tx[p]: where p is in dnf_context_run, and its objects
    files,          \* the packages present in the cache directory
    rpmdb,          \* the packages installed
    hist,           \* the rows of table trans with their trans_item rows
    performed       \* <<row, package>>: what librpm did for which row

txVars == <<tx, files, rpmdb, hist, performed>>

NoGoal == [install |-> << >>, remove |-> {}, replaces |-> << >>]

\* row = 0: no transactionInProgress; begun: it has a row in the database.
IdleTx == [pc |-> "idle", goal |-> NoGoal, test |-> FALSE, ids |-> {}, runs |-> 0,
           open |-> FALSE, row |-> 0, items |-> {}, todo |-> {}, writing |-> FALSE,
           ret |-> FALSE]

Live == {"idle", "solved", "downloaded"}
Stages == Live \cup {"checked", "locked", "trusted", "filled", "begun",
                     "running", "ran", "closed", "out", "aborted"}

TxTypeOK ==
    /\ \A p \in Procs :
          /\ tx[p].pc \in Stages
          /\ tx[p].row \in 0 .. Len(hist)
          /\ tx[p].row > 0 => tx[p].open
          /\ tx[p].todo \subseteq TxPkgs
    /\ files \subseteq TxPkgs
    /\ rpmdb \subseteq TxPkgs
    /\ performed \subseteq (1 .. Len(hist)) \X TxPkgs

TxInit ==
    /\ tx = [p \in Procs |-> IdleTx]
    /\ files = {}
    /\ rpmdb = InitialDb
    /\ hist = << >>
    /\ performed = {}

-----------------------------------------------------------------------------
\* dnf_package_check_filename: what is not in the cache must be downloaded.
ToDownload(g) == {q \in Installs(g) \ LocalPkgs : q \notin files}

SameName(S, q) == {x \in S : NameOf[x] = NameOf[q]}

\* The history action of an installed package.
InstallAction(a) ==
    CASE a = "UPDATE" -> "UPGRADE" [] OTHER -> a

\* The history action of a package of the remove list: dnf_package_evr_cmp is
\* used as a truth value.
RemoveAction(g, q) ==
    IF SameName(Installs(g), q) = {} THEN "REMOVE"
    ELSE IF \E x \in SameName(Installs(g), q) : VersionOf[x] # VersionOf[q]
         THEN "UPGRADED" ELSE "DOWNGRADED"

HelperItemsSlip(g, x, q) ==
    IF SameName(g.remove, q) # {} \/ SameName(Installs(g), q) # {} THEN {}
    ELSE {<<q, "OBSOLETED">>}

\* What the helper loop records for q, which package x replaces: nothing when
\* a package of its name is removed anyway, or is itself installed.
HelperItems(g, x, q) ==
    IF SameName(g.remove, q) # {} THEN {}
    ELSE IF NameOf[x] = NameOf[q]
         THEN {<<q, IF VersionOf[x] # VersionOf[q] THEN "UPGRADED" ELSE "DOWNGRADED">>}
         ELSE IF SameName(Installs(g), q) # {} THEN {}
              ELSE {<<q, "OBSOLETED">>}

\* The items dnf_transaction_commit adds to the history transaction.
HistoryItems(g) ==
    {<<q, InstallAction(g.install[q])>> : q \in Installs(g)}
    \cup {<<q, RemoveAction(g, q)>> : q \in g.remove}
    \cup UNION {UNION {HelperItems(g, x, q) : q \in g.replaces[x]} : x \in Updates(g)}

\* dnf_transaction_gpgcheck_package on every package to install.
Trusted(g) ==
    \A q \in Installs(g) :
        /\ q \in LocalPkgs \/ q \in files
        /\ q \in UnsignedPkgs => (q \in LocalPkgs \/ ~ GpgCheck) /\ ~ OnlyTrusted

\* dnf_rpmts_add_install_filename2 and dnf_rpmts_add_remove_pkg find their
\* file and their database entry.
Addable(g) ==
    /\ \A q \in Installs(g) \ LocalPkgs : q \in files
    /\ g.remove \subseteq rpmdb

-----------------------------------------------------------------------------
Goto(p, pc) == tx' = [tx EXCEPT ![p].pc = pc]

Return(p, ok) == tx' = [tx EXCEPT ![p].pc = "out", ![p].ret = ok]

OnDisk == <<files, rpmdb, hist, performed>>

\* An exception leaves the library through C frames: std::terminate.
Abort(p) ==
    /\ tx' = [tx EXCEPT ![p] = [IdleTx EXCEPT !.pc = "aborted"]]
    /\ LockCrash(p)

\* dnf_context_run begins: the chain of states is reset, so the state of the
\* last commit is destroyed and releases whatever it still lists; the goal is
\* solved and the missing packages are listed (dnf_transaction_depsolve).
Depsolve(p, g) ==
    /\ tx[p].pc = "idle" /\ tx[p].runs < MaxRuns[p]
    /\ Installs(g) \cap rpmdb = {}
    /\ g.remove \cup Replaced(g) \subseteq rpmdb
    /\ LET r == IF tx[p].ids = {} THEN [file |-> lockFile, items |-> lockItems[p]]
                ELSE Release(lockFile, lockItems[p], TxThread, CHOOSE i \in tx[p].ids : TRUE)
       IN /\ lockFile' = r.file
          /\ lockItems' = [lockItems EXCEPT ![p] = r.items]
    /\ tx' = [tx EXCEPT ![p].pc = "solved", ![p].goal = g, ![p].ids = {},
                        ![p].runs = @ + 1, ![p].ret = FALSE]
    /\ UNCHANGED <<lockNextId, lockAlive, OnDisk>>

\* dnf_transaction_download: all that is missing arrives, or a part of it and
\* an error.
Download(p) ==
    /\ tx[p].pc = "solved"
    /\ \E got \in SUBSET ToDownload(tx[p].goal) :
          /\ files' = files \cup got
          /\ \/ got = ToDownload(tx[p].goal) /\ Goto(p, "downloaded")
             \/ Goto(p, "idle")
    /\ UNCHANGED <<lockVars, rpmdb, hist, performed>>

\* dnf_transaction_commit: dnf_state_take_lock looks at the lock file.
CommitCheckLock(p, test) ==
    /\ tx[p].pc = "downloaded"
    /\ NeedsFile(p, "rpmdb", "process")
    /\ \/ FileFree("rpmdb") /\ tx' = [tx EXCEPT ![p].pc = "checked", ![p].test = test]
       \/ ~ FileFree("rpmdb") /\ Return(p, FALSE)
    /\ UNCHANGED <<lockVars, OnDisk>>

\* ... and writes it, then takes the item.
CommitTakeLock(p) ==
    /\ tx[p].pc = "checked"
    /\ CreateItem(p, TxThread, "rpmdb", "process")
    /\ tx' = [tx EXCEPT ![p].pc = "locked", ![p].ids = {TakenId(p, "rpmdb", "process")}]
    /\ UNCHANGED OnDisk

\* ... or the process still has an item, and counts it again.
CommitTakeAgain(p, test) ==
    /\ tx[p].pc = "downloaded"
    /\ TakeAgain(p, TxThread, "rpmdb", "process")
    /\ tx' = [tx EXCEPT ![p].pc = "locked", ![p].test = test,
                        ![p].ids = {TakenId(p, "rpmdb", "process")}]
    /\ UNCHANGED OnDisk

\* dnf_transaction_import_keys (which may fail) and
\* dnf_transaction_check_untrusted.
CommitCheckTrust(p) ==
    /\ tx[p].pc = "locked"
    /\ \/ Trusted(tx[p].goal) /\ Goto(p, "trusted")
       \/ Return(p, FALSE)
    /\ UNCHANGED <<lockVars, OnDisk>>

\* Swdb::initTransaction throws std::logic_error when the object still has a
\* transaction in progress.
CommitInitThrows(p) ==
    /\ tx[p].pc = "trusted" /\ tx[p].open
    /\ Abort(p)
    /\ UNCHANGED OnDisk

\* Swdb::initTransaction, the rpm elements and the history items.
CommitFill(p) ==
    /\ tx[p].pc = "trusted" /\ ~ tx[p].open
    /\ \/ /\ Addable(tx[p].goal)
          /\ tx' = [tx EXCEPT ![p].pc = "filled", ![p].open = TRUE, ![p].row = 0,
                              ![p].items = HistoryItems(tx[p].goal), ![p].writing = FALSE]
       \/ tx' = [tx EXCEPT ![p].pc = "out", ![p].ret = FALSE, ![p].open = TRUE, ![p].row = 0]
    /\ UNCHANGED <<lockVars, OnDisk>>

\* The test transaction, with DNF_TRANSACTION_FLAG_TEST the end of the commit.
CommitTest(p) ==
    /\ tx[p].pc = "filled" /\ tx[p].test
    /\ \E ok \in BOOLEAN : Return(p, ok)
    /\ UNCHANGED <<lockVars, OnDisk>>

\* rpmtsCheck finds a problem, or a plugin refuses in its PRE_TRANSACTION hook:
\* the first sets an error, the second leaves ret at TRUE.
CommitRefused(p) ==
    /\ tx[p].pc = "filled" /\ ~ tx[p].test
    /\ \E ok \in BOOLEAN : Return(p, ok)
    /\ UNCHANGED <<lockVars, OnDisk>>

\* Swdb::beginTransaction writes the row and its items before librpm starts.
CommitBegin(p) ==
    /\ tx[p].pc = "filled" /\ ~ tx[p].test
    /\ hist' = Append(hist, [state |-> "UNKNOWN",
                             items |-> [i \in tx[p].items |-> "UNKNOWN"]])
    /\ tx' = [tx EXCEPT ![p].pc = "begun", ![p].row = Len(hist) + 1]
    /\ UNCHANGED <<lockVars, files, rpmdb, performed>>

\* rpmtsRun starts; librpm's own lock keeps other transactions out.
RpmStart(p) ==
    /\ tx[p].pc = "begun"
    /\ \A q \in Procs : tx[q].pc # "running"
    /\ tx' = [tx EXCEPT ![p].pc = "running",
                        ![p].todo = Installs(tx[p].goal) \cup tx[p].goal.remove
                                       \cup Replaced(tx[p].goal)]
    /\ UNCHANGED <<lockVars, OnDisk>>

RpmElementSlip(p, q) ==
    /\ tx[p].pc = "running" /\ q \in tx[p].todo
    /\ q \in Replaced(tx[p].goal) => Installs(tx[p].goal) \cap tx[p].todo = {}
    /\ rpmdb' = IF q \in Installs(tx[p].goal) THEN rpmdb \cup {q} ELSE rpmdb \ {q}
    /\ performed' = performed \cup {<<tx[p].row, q>>}
    /\ hist' = [hist EXCEPT ![tx[p].row].items =
                   [i \in DOMAIN @ |-> IF NameOf[i[1]] = NameOf[q] THEN "DONE" ELSE @[i]]]
    /\ tx' = [tx EXCEPT ![p].todo = @ \ {q}, ![p].writing = TRUE]
    /\ UNCHANGED <<lockVars, files>>

\* librpm processes one element; INST_STOP or UNINST_STOP then marks the item
\* of that package done (Swdb::setItemDone, which would follow a null pointer
\* had the package no item: WriteAhead says that it has one).
RpmElement(p, q) ==
    /\ tx[p].pc = "running" /\ q \in tx[p].todo
    /\ q \in Replaced(tx[p].goal) => Installs(tx[p].goal) \cap tx[p].todo = {}
    /\ rpmdb' = IF q \in Installs(tx[p].goal) THEN rpmdb \cup {q} ELSE rpmdb \ {q}
    /\ performed' = performed \cup {<<tx[p].row, q>>}
    /\ hist' = [hist EXCEPT ![tx[p].row].items =
                   [i \in DOMAIN @ |-> IF i[1] = q THEN "DONE" ELSE @[i]]]
    /\ tx' = [tx EXCEPT ![p].todo = @ \ {q}, ![p].writing = TRUE]
    /\ UNCHANGED <<lockVars, files>>

\* rpmtsRun returns: a negative code, problems, or success.
RpmEnd(p) ==
    /\ tx[p].pc = "running"
    /\ \/ tx[p].todo = {} /\ tx[p].writing /\ Goto(p, "ran")
       \/ Return(p, FALSE)
    /\ UNCHANGED <<lockVars, OnDisk>>

\* Swdb::endTransaction and closeTransaction.  finish() throws when an item
\* was never reported.
CommitClose(p) ==
    /\ tx[p].pc = "ran"
    /\ IF \A i \in DOMAIN hist[tx[p].row].items : hist[tx[p].row].items[i] = "DONE"
       THEN /\ hist' = [hist EXCEPT ![tx[p].row].state = "DONE"]
            /\ tx' = [tx EXCEPT ![p].pc = "closed", ![p].open = FALSE, ![p].row = 0]
            /\ UNCHANGED lockVars
       ELSE Abort(p) /\ UNCHANGED hist
    /\ UNCHANGED <<files, rpmdb, performed>>

\* The TRANSACTION hook, dnf_transaction_delete_packages unless the cache is
\* kept, and the invalidation.  Deleting stops at the first file that is
\* already gone.
CommitCleanup(p) ==
    LET mine == Installs(tx[p].goal) \ LocalPkgs IN
    /\ tx[p].pc = "closed"
    /\ \/ Return(p, TRUE) /\ UNCHANGED files
       \/ ~ KeepCache /\ mine \subseteq files /\ Return(p, TRUE) /\ files' = files \ mine
       \/ /\ ~ KeepCache /\ ~ (mine \subseteq files)
          /\ \E some \in SUBSET (mine \cap files) : files' = files \ some
          /\ Return(p, FALSE)
    /\ UNCHANGED <<lockVars, rpmdb, hist, performed>>

\* The label out: dnf_transaction_reset and dnf_state_release_locks, whose
\* failure keeps the ids.
CommitOut(p) ==
    /\ tx[p].pc = "out"
    /\ LET r == IF tx[p].ids = {}
                THEN [file |-> lockFile, items |-> lockItems[p], ok |-> TRUE]
                ELSE Release(lockFile, lockItems[p], TxThread, CHOOSE i \in tx[p].ids : TRUE)
       IN /\ lockFile' = r.file
          /\ lockItems' = [lockItems EXCEPT ![p] = r.items]
          /\ tx' = [tx EXCEPT ![p].pc = "idle", ![p].goal = NoGoal, ![p].todo = {},
                              ![p].ids = IF r.ok THEN {} ELSE @]
    /\ UNCHANGED <<lockNextId, lockAlive, OnDisk>>

\* The process is killed.
TxCrash(p) ==
    /\ tx[p].pc # "aborted"
    /\ Abort(p)
    /\ UNCHANGED OnDisk

TxStep(p) ==
    \/ \E g \in Goals : Depsolve(p, g)
    \/ Download(p)
    \/ \E test \in TestRuns : CommitCheckLock(p, test) \/ CommitTakeAgain(p, test)
    \/ CommitTakeLock(p)
    \/ CommitCheckTrust(p)
    \/ CommitInitThrows(p)
    \/ CommitFill(p)
    \/ CommitTest(p)
    \/ CommitRefused(p)
    \/ CommitBegin(p)
    \/ RpmStart(p)
    \/ \E q \in TxPkgs : RpmElement(p, q)
    \/ RpmEnd(p)
    \/ CommitClose(p)
    \/ CommitCleanup(p)
    \/ CommitOut(p)
    \/ TxCrash(p)

TxNext == \E p \in Procs : TxStep(p)

TxSpec == LockInit /\ TxInit /\ [][TxNext]_<<lockVars, txVars>>

-----------------------------------------------------------------------------
\* Whatever librpm did to the system is named by the history row that was
\* written before it started, so a crash at any point, of any of the
\* processes, leaves a record (Swdb::beginTransaction before rpmtsRun, and the
\* items dnf_transaction_commit collects against the elements librpm runs).
WriteAhead ==
    \A e \in performed : \E i \in DOMAIN hist[e[1]].items : i[1] = e[2]

\* The history never claims more than happened: an item is DONE only after
\* librpm handled its package in that very transaction, and a transaction is
\* DONE only with all its items (setItemDone, Transaction::finish).
HistoryIsTrue ==
    \A r \in DOMAIN hist :
        /\ \A i \in DOMAIN hist[r].items :
              hist[r].items[i] = "DONE" => <<r, i[1]>> \in performed
        /\ hist[r].state = "DONE" =>
              \A i \in DOMAIN hist[r].items : hist[r].items[i] = "DONE"

=============================================================================
