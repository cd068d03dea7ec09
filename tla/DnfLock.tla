------------------------------ MODULE DnfLock ------------------------------
(***************************************************************************)
(* The package-system lock of dnf-4 (dnf-4/libdnf/dnf-lock.cpp).           *)
(*                                                                         *)
(* Every process owns one DnfLock object (dnf_lock_new returns a           *)
(* singleton).  It keeps a list of items, one per (type, mode) taken, each *)
(* owned by a thread and counted.  A PROCESS lock is also announced to the *)
(* other processes by a file that holds the owner's pid; the file is       *)
(* looked at and written by two different system calls, so another process *)
(* may act between them.  Within a process the mutex makes dnf_lock_take   *)
(* and dnf_lock_release atomic.                                            *)
(*                                                                         *)
(* Abstractions: a pid is the process itself and is never reused; an item  *)
(* id is drawn from a counter that the modules using this one bound; the   *)
(* state-changed signal is left out, as nothing in the library listens.    *)
(***************************************************************************)
EXTENDS Naturals, FiniteSets

CONSTANTS
    Procs,          \* the processes that use the lock directory
    Threads,        \* the threads of each of them
    LockTypes,      \* DnfLockType: "rpmdb", "metadata", ...
    NoProc,         \* no pid: the lock file does not exist
    RefModulus      \* refcount is a guint: it wraps at this value

LockModes == {"thread", "process"}

ASSUME DnfLockAssumption ==
    /\ NoProc \notin Procs
    /\ RefModulus \in Nat \ {0, 1}

VARIABLES
    lockFile,       \* lockFile[ty]: the pid in dnf-<ty>.lock, or NoProc
    lockItems,      \* lockItems[p]: item_array of p's DnfLock
    lockNextId,     \* lockNextId[p]: the static id counter of dnf_lock_create_item
    lockAlive       \* the processes that /proc lists

lockVars == <<lockFile, lockItems, lockNextId, lockAlive>>

LockItem == [id : Nat, type : LockTypes, mode : LockModes,
             owner : Threads, refcount : 0 .. RefModulus - 1]

LockTypeOK ==
    /\ lockFile \in [LockTypes -> Procs \cup {NoProc}]
    /\ lockItems \in [Procs -> SUBSET LockItem]
    /\ lockNextId \in [Procs -> Nat]
    /\ lockAlive \subseteq Procs

LockInit ==
    /\ lockFile = [ty \in LockTypes |-> NoProc]
    /\ lockItems = [p \in Procs |-> {}]
    /\ lockNextId = [p \in Procs |-> 1]
    /\ lockAlive = Procs

-----------------------------------------------------------------------------
\* dnf_lock_get_item_by_type_mode: at most one item has a given type and mode.
ItemsByTypeMode(items, ty, mode) ==
    {i \in items : i.type = ty /\ i.mode = mode}

\* The item dnf_lock_take works on: a THREAD request accepts a PROCESS item.
TakenItem(items, ty, mode) ==
    IF ItemsByTypeMode(items, ty, mode) = {} /\ mode = "thread"
    THEN ItemsByTypeMode(items, ty, "process")
    ELSE ItemsByTypeMode(items, ty, mode)

\* dnf_lock_take must look at the lock file: a PROCESS lock not held here.
NeedsFile(p, ty, mode) ==
    mode = "process" /\ TakenItem(lockItems[p], ty, mode) = {}

\* The lock file lets p through: it is missing, or its process is gone.
\* (dnf_lock_get_pid; even p's own pid counts as a living owner.)
FileFree(ty) == lockFile[ty] \notin lockAlive

\* dnf_lock_create_item, after the file of a PROCESS lock has been written.
CreateItem(p, th, ty, mode) ==
    /\ lockItems' = [lockItems EXCEPT ![p] = @ \cup
           {[id |-> lockNextId[p], type |-> ty, mode |-> mode,
             owner |-> th, refcount |-> 1]}]
    /\ lockNextId' = [lockNextId EXCEPT ![p] = @ + 1]
    /\ lockFile' = IF mode = "process" THEN [lockFile EXCEPT ![ty] = p] ELSE lockFile
    /\ UNCHANGED lockAlive

\* The lock is already held by this thread: count once more.
TakeAgain(p, th, ty, mode) ==
    \E i \in TakenItem(lockItems[p], ty, mode) :
        /\ i.owner = th
        /\ lockItems' = [lockItems EXCEPT ![p] = (@ \ {i}) \cup
               {[i EXCEPT !.refcount = (@ + 1) % RefModulus]}]
        /\ UNCHANGED <<lockFile, lockNextId, lockAlive>>

\* The id the caller gets from a successful take.
TakenId(p, ty, mode) ==
    IF TakenItem(lockItems[p], ty, mode) = {}
    THEN lockNextId[p]
    ELSE (CHOOSE i \in TakenItem(lockItems[p], ty, mode) : TRUE).id

-----------------------------------------------------------------------------
\* dnf_lock_release as a function of the file and the items of process p.
\* The file is deleted whoever wrote it; when that fails the item stays with
\* refcount 0.  The decrement of a guint wraps.
Release(file, items, th, id) ==
    LET mine == {i \in items : i.id = id /\ i.owner = th} IN
    IF mine = {}
    THEN [file |-> file, items |-> items, ok |-> FALSE]
    ELSE LET i == CHOOSE x \in mine : TRUE
             n == (i.refcount + RefModulus - 1) % RefModulus
             less == (items \ {i}) \cup {[i EXCEPT !.refcount = n]}
         IN CASE n # 0 ->
                   [file |-> file, items |-> less, ok |-> TRUE]
              [] n = 0 /\ i.mode = "process" /\ file[i.type] = NoProc ->
                   [file |-> file, items |-> less, ok |-> FALSE]
              [] OTHER ->
                   [file |-> IF i.mode = "process"
                             THEN [file EXCEPT ![i.type] = NoProc] ELSE file,
                    items |-> items \ {i}, ok |-> TRUE]

\* p ends without releasing anything: its files stay, its pid disappears.
LockCrash(p) ==
    /\ lockAlive' = lockAlive \ {p}
    /\ lockItems' = [lockItems EXCEPT ![p] = {}]
    /\ UNCHANGED <<lockFile, lockNextId>>

=============================================================================
