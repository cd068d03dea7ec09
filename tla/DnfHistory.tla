----------------------------- MODULE DnfHistory -----------------------------
(***************************************************************************)
(* The history database of dnf-4 (dnf-4/libdnf/transaction/).              *)
(*                                                                         *)
(* A Swdb object collects the items of one transaction, writes them to the *)
(* database before rpm runs, marks each item as rpm reports it and closes  *)
(* the transaction with its outcome.  Afterwards the database is the only  *)
(* record of why a package is on the system (Swdb::resolve...Reason), of   *)
(* the groups that hold it (Swdb::getPackageCompsGroups) and of what a     *)
(* range of transactions did together (MergedTransaction).  A database     *)
(* that does not exist yet is made from the one of yum (Transformer).      *)
(*                                                                         *)
(* An item is a package, a group or an environment.  Packages have an      *)
(* identifier (name and architecture) and a version <<epoch, version,      *)
(* release>>; groups and environments have members.  The process may die   *)
(* at any point.                                                           *)
(***************************************************************************)
EXTENDS Integers, Sequences, SequencesExt, FiniteSets

CONSTANTS
    HistIds,        \* package identifiers (name.arch)
    HistName,       \* the name of each
    Evrs3,          \* versions: <<epoch, version, release>>
    GroupIds, EnvIds,  \* comps groups and environments
    MemberSets,     \* member lists that comps offers: sets of names or groups
    OldHistory,     \* yum's transactions, which installed what is there: see TransformItems
    OldGroups,      \* the groups of groups.json, with their members
    OldRpmdb,       \* what is installed at first
    OldReasons,     \* why (yumdb)
    NoEvr,          \* not installed
    MaxTrans,       \* bound: transactions in the database
    MaxItems        \* bound: changes of one transaction

\* TransactionItemReason in the order of its operator<.
ReasonOrder == <<"UNKNOWN", "CLEAN", "WEAK_DEPENDENCY", "DEPENDENCY", "GROUP", "USER">>
ReasonRank(r) == CHOOSE i \in DOMAIN ReasonOrder : ReasonOrder[i] = r

\* TransactionItemAction.
RpmActions == {"INSTALL", "DOWNGRADE", "DOWNGRADED", "OBSOLETE", "OBSOLETED", "UPGRADE", "UPGRADED",
               "REMOVE", "REINSTALL", "REINSTALLED", "REASON_CHANGE"}

\* A name tells whether it is one of a group or of an environment; nobody
\* installs a version that is none.
ASSUME HistoryAssumption ==
    /\ NoEvr \notin Evrs3
    /\ MaxTrans \in Nat /\ MaxItems \in Nat
    /\ OldRpmdb \in [HistIds -> Evrs3 \cup {NoEvr}]
    /\ OldReasons \in [HistIds -> {ReasonOrder[i] : i \in 1 .. 6}]
    /\ DOMAIN HistName = HistIds
    /\ GroupIds \cap EnvIds = {}
    /\ IsFiniteSet(GroupIds) /\ DOMAIN OldGroups \subseteq GroupIds
    /\ OldHistory \in Seq([done : BOOLEAN,
                           rows : Seq([id : HistIds, evr : Evrs3, action : RpmActions, done : BOOLEAN])])

Backward == {"REMOVE", "DOWNGRADED", "OBSOLETED", "UPGRADED", "REINSTALLED"}

VARIABLES
    hsRpmdb,          \* the installed version of each package
    wanted,         \* why it was last installed, by a transaction that completed
    compsNow,       \* the members of the groups and environments such transactions left
    dbFile,         \* the database file: none, closed or open
    since,          \* what was installed before its first transaction
    trans,          \* table trans with its items, by id
    inProgress,     \* transactionInProgress
    mergedIds       \* MergedTransaction::transactions of a caller

histVars == <<hsRpmdb, wanted, compsNow, dbFile, since, trans, inProgress, mergedIds>>

NoTransaction == [there |-> FALSE, id |-> 0, items |-> << >>, begun |-> FALSE]

Item(kind, id, evr, action, reason, members) ==
    [kind |-> kind, id |-> id, evr |-> evr, action |-> action, reason |-> reason,
     members |-> members, state |-> "UNKNOWN", by |-> << >>]
Rpm(id, evr, action, reason) == Item("RPM", id, evr, action, reason, {})
GroupItem(id, action, members) == Item("GROUP", id, NoEvr, action, "USER", members)
EnvItem(id, action, members) == Item("ENVIRONMENT", id, NoEvr, action, "USER", members)

NoComps == [c \in GroupIds \cup EnvIds |-> {}]

HistTypeOK ==
    /\ hsRpmdb \in [HistIds -> Evrs3 \cup {NoEvr}]
    /\ \A i \in DOMAIN trans : trans[i].state \in {"UNKNOWN", "DONE", "ERROR"}
    /\ inProgress.begun => inProgress.there /\ inProgress.id = Len(trans)
    /\ \A i \in DOMAIN mergedIds : mergedIds[i] \in DOMAIN trans

HistInit ==
    /\ hsRpmdb = OldRpmdb
    /\ wanted = OldReasons
    /\ compsNow = NoComps
    /\ dbFile = "none" /\ trans = << >> /\ since = OldRpmdb
    /\ inProgress = NoTransaction
    /\ mergedIds = << >>

-----------------------------------------------------------------------------
\* swdb_private::Transaction::addItem: the same item is not added twice, the
\* more significant reason wins.
SameItem(a, b) == <<a.kind, a.id, a.evr, a.action>> = <<b.kind, b.id, b.evr, b.action>>
AddItem(items, item) ==
    IF \E i \in DOMAIN items : SameItem(items[i], item)
    THEN LET i == CHOOSE k \in DOMAIN items :
                      SameItem(items[k], item) /\ \A j \in 1 .. k - 1 : ~ SameItem(items[j], item)
         IN [items EXCEPT ![i].reason =
                IF ReasonRank(item.reason) > ReasonRank(@) THEN item.reason ELSE @]
    ELSE Append(items, item)

\* Transformer::transformRPMItems over the rows of one old transaction,
\* [id, evr, action, done], in their order.  Obsoleting rows repeat the row
\* before them.  A package already obsoleted gets the new action.  What was
\* obsoleted or replaced points to the item of the row before.
TransformRow(acc, row) ==
    LET item == [Rpm(row.id, row.evr, row.action, OldReasons[row.id]) EXCEPT
                    !.state = IF row.done THEN "DONE" ELSE "ERROR"]
        past == {i \in acc.obsoleted : acc.items[i].id = row.id /\ acc.items[i].evr = row.evr}
        items == IF past = {} THEN AddItem(acc.items, item)
                 ELSE [i \in DOMAIN acc.items |-> IF i \in past
                         THEN [acc.items[i] EXCEPT !.action = row.action] ELSE acc.items[i]]
        at == CHOOSE i \in DOMAIN items :
                  IF past = {} THEN SameItem(items[i], item) ELSE i \in past
    IN IF row.action = "OBSOLETE" THEN acc
       ELSE [items |-> IF row.action \in {"OBSOLETED", "DOWNGRADED", "UPGRADED"} /\ acc.last # 0
                       THEN [items EXCEPT ![at].by = Append(@, acc.last)] ELSE items,
             obsoleted |-> acc.obsoleted \cup (IF row.action = "OBSOLETED" THEN {at} ELSE {}),
             last |-> at]

TransformItems(rows) ==
    LET acc[k \in 0 .. Len(rows)] ==
            IF k = 0 THEN [items |-> << >>, obsoleted |-> {}, last |-> 0]
            ELSE TransformRow(acc[k - 1], rows[k])
    IN acc[Len(rows)].items

\* Transformer::transformTrans for the first n old transactions.
TransformTrans(n) ==
    [i \in 1 .. n |-> [state |-> IF OldHistory[i].done THEN "DONE" ELSE "ERROR",
                       items |-> TransformItems(OldHistory[i].rows)]]

\* Transformer::processGroupPersistor: one more transaction with the groups.
TransformGroups ==
    <<[state |-> "DONE",
       items |-> SetToSeq({[GroupItem(g, "INSTALL", OldGroups[g]) EXCEPT !.state = "DONE"] :
                              g \in DOMAIN OldGroups})]>>

-----------------------------------------------------------------------------
\* Swdb::Swdb(path).  A failure while the old history is read is swallowed:
\* what was transformed until then is kept, the groups are not reached.
OpenNew ==
    /\ dbFile = "none"
    /\ dbFile' = "open"
    /\ \E n \in 0 .. Len(OldHistory) :
          LET known == {id \in HistIds : \E i \in 1 .. n : \E r \in ToSet(OldHistory[i].rows) : r.id = id}
          IN /\ trans' = IF n = Len(OldHistory) THEN TransformTrans(n) \o TransformGroups
                         ELSE TransformTrans(n)
             /\ wanted' = [id \in HistIds |-> IF id \in known THEN OldReasons[id] ELSE "UNKNOWN"]
             /\ compsNow' = IF n < Len(OldHistory) THEN NoComps
                            ELSE [c \in DOMAIN NoComps |-> IF c \in DOMAIN OldGroups THEN OldGroups[c] ELSE {}]
             /\ since' = [id \in HistIds |-> IF id \in known THEN NoEvr ELSE OldRpmdb[id]]
    /\ UNCHANGED <<hsRpmdb, inProgress, mergedIds>>

OpenExisting ==
    /\ dbFile = "closed"
    /\ dbFile' = "open"
    /\ UNCHANGED <<hsRpmdb, wanted, compsNow, since, trans, inProgress, mergedIds>>

\* Swdb::initTransaction; beginTransaction, endTransaction and the others
\* throw when there is none.
InitTransaction ==
    /\ dbFile = "open" /\ ~ inProgress.there /\ Len(trans) < MaxTrans
    /\ inProgress' = [NoTransaction EXCEPT !.there = TRUE]
    /\ UNCHANGED <<hsRpmdb, wanted, compsNow, dbFile, since, trans, mergedIds>>

\* swdb_private::Transaction::begin, TransactionItem::save: everything is
\* written before rpm starts.
BeginTransaction ==
    /\ inProgress.there /\ ~ inProgress.begun /\ inProgress.items # << >>
    /\ trans' = Append(trans, [state |-> "UNKNOWN", items |-> inProgress.items])
    /\ inProgress' = [inProgress EXCEPT !.begun = TRUE, !.id = Len(trans) + 1]
    /\ UNCHANGED <<hsRpmdb, wanted, compsNow, dbFile, since, mergedIds>>

\* What rpm does with an item.
RpmdbAfter(item) ==
    CASE item.kind = "RPM" /\ item.action \in {"INSTALL", "UPGRADE", "DOWNGRADE", "REINSTALL"} ->
            [hsRpmdb EXCEPT ![item.id] = item.evr]
      [] item.kind = "RPM" /\ item.action \in {"REMOVE", "OBSOLETED"} ->
            [hsRpmdb EXCEPT ![item.id] = NoEvr]
      [] OTHER -> hsRpmdb

\* rpm reports one element and Swdb::setItemDone writes its state; comps
\* items and the older half of a pair are marked by the caller.
SetItemDone(i) ==
    /\ inProgress.begun /\ i \in DOMAIN inProgress.items
    /\ trans[inProgress.id].state = "UNKNOWN"
    /\ inProgress.items[i].state = "UNKNOWN"
    /\ inProgress' = [inProgress EXCEPT !.items[i].state = "DONE"]
    /\ trans' = [trans EXCEPT ![inProgress.id].items[i].state = "DONE"]
    /\ hsRpmdb' = RpmdbAfter(inProgress.items[i])
    /\ UNCHANGED <<wanted, compsNow, dbFile, since, mergedIds>>

\* Swdb::endTransaction, swdb_private::Transaction::finish: an item whose
\* state was never set makes it throw, and the transaction stays UNKNOWN.
AllSet == \A i \in DOMAIN inProgress.items : inProgress.items[i].state # "UNKNOWN"
Outcome == IF \E i \in DOMAIN inProgress.items : inProgress.items[i].state = "ERROR"
           THEN "ERROR" ELSE "DONE"

EndTransaction ==
    /\ inProgress.begun /\ trans[inProgress.id].state = "UNKNOWN"
    /\ AllSet
    /\ trans' = [trans EXCEPT ![inProgress.id].state = Outcome]
    /\ wanted' = [id \in HistIds |->
          LET new == {i \in DOMAIN inProgress.items :
                        LET item == inProgress.items[i] IN
                        item.kind = "RPM" /\ item.id = id /\ item.action \in {"INSTALL", "REASON_CHANGE"}}
          IN IF Outcome = "ERROR" \/ new = {} THEN wanted[id]
             ELSE inProgress.items[CHOOSE i \in new : TRUE].reason]
    /\ compsNow' = [c \in DOMAIN compsNow |->
          LET new == {i \in DOMAIN inProgress.items :
                        inProgress.items[i].kind # "RPM" /\ inProgress.items[i].id = c}
          IN IF Outcome = "ERROR" \/ new = {} THEN compsNow[c]
             ELSE inProgress.items[CHOOSE i \in new : TRUE].members]
    /\ UNCHANGED <<hsRpmdb, dbFile, since, inProgress, mergedIds>>

\* The caller gives up: the items that did not run are marked ERROR.
FailItems ==
    /\ inProgress.begun /\ trans[inProgress.id].state = "UNKNOWN" /\ ~ AllSet
    /\ LET failed == [i \in DOMAIN inProgress.items |->
                        [inProgress.items[i] EXCEPT
                           !.state = IF @ = "UNKNOWN" THEN "ERROR" ELSE @]]
       IN /\ inProgress' = [inProgress EXCEPT !.items = failed]
          /\ trans' = [trans EXCEPT ![inProgress.id].items = failed]
    /\ UNCHANGED <<hsRpmdb, wanted, compsNow, dbFile, since, mergedIds>>

\* Swdb::closeTransaction.
CloseTransaction ==
    /\ inProgress.there /\ inProgress.begun
    /\ inProgress' = NoTransaction
    /\ UNCHANGED <<hsRpmdb, wanted, compsNow, dbFile, since, trans, mergedIds>>

\* The process ends or dies; the file stays.
HistCrash ==
    /\ dbFile = "open"
    /\ dbFile' = "closed" /\ inProgress' = NoTransaction /\ mergedIds' = << >>
    /\ UNCHANGED <<hsRpmdb, wanted, compsNow, since, trans>>

\* Swdb::resetDatabase.
ResetDatabase ==
    /\ dbFile = "open" /\ ~ inProgress.there /\ trans # << >>
    /\ trans' = << >> /\ mergedIds' = << >>
    /\ wanted' = [id \in HistIds |-> "UNKNOWN"] /\ since' = hsRpmdb
    /\ compsNow' = NoComps
    /\ UNCHANGED <<hsRpmdb, dbFile, inProgress>>

-----------------------------------------------------------------------------
\* The items of list for one identifier without the actions in skip.
Of(list, kind, id, skip) ==
    {i \in DOMAIN list : list[i].kind = kind /\ list[i].id = id /\ list[i].action \notin skip}

RowsSlip(kind, id, skip) ==
    UNION {{t} \X Of(trans[t].items, kind, id, skip) : t \in DOMAIN trans}

\* The rows of completed transactions for one identifier without the actions
\* in skip, newest transaction first; the first one decides.
Rows(kind, id, skip) ==
    UNION {{t} \X Of(trans[t].items, kind, id, skip) : t \in {u \in DOMAIN trans : trans[u].state = "DONE"}}

Latest(rows) == LET r == CHOOSE r \in rows : \A s \in rows : s[1] <= r[1]
                IN trans[r[1]].items[r[2]]

\* The actions that say nothing of what is there afterwards.
Skipped(kind) ==
    {"DOWNGRADED", "OBSOLETED", "UPGRADED"} \cup (IF kind = "RPM" THEN {"REINSTALLED"} ELSE {})

\* RPMItem::resolveTransactionItemReason with an architecture.
ResolveReason(id) ==
    LET rows == Rows("RPM", id, Skipped("RPM"))
    IN IF rows = {} \/ Latest(rows).action = "REMOVE" THEN "UNKNOWN" ELSE Latest(rows).reason

\* The same without one: the most significant over the architectures.
ResolveAnyArch(name) ==
    LET all == {ResolveReason(id) : id \in {i \in HistIds : HistName[i] = name}} \cup {"UNKNOWN"}
    IN CHOOSE r \in all : \A s \in all : ReasonRank(s) <= ReasonRank(r)

\* Swdb::resolveRPMTransactionItemReason(-2): the transaction being put
\* together comes first.
ReasonNow(id) ==
    LET own == {i \in DOMAIN inProgress.items :
                  inProgress.items[i].kind = "RPM" /\ inProgress.items[i].id = id}
    IN IF own # {} THEN inProgress.items[CHOOSE i \in own : \A j \in own : i <= j].reason
       ELSE ResolveReason(id)

\* Swdb::filterUserinstalled.
UserInstalled ==
    {id \in HistIds : /\ hsRpmdb[id] # NoEvr
                      /\ ResolveReason(id) \notin {"DEPENDENCY", "WEAK_DEPENDENCY"}}

\* CompsGroupItem::getTransactionItem and CompsEnvironmentItem::
\* getTransactionItem, as a set: what the last completed transaction left.
Kept(rows) == IF rows = {} \/ Latest(rows).action = "REMOVE" THEN {} ELSE {Latest(rows)}
LastGroup(g) == Kept(Rows("GROUP", g, Skipped("GROUP")))
LastEnvironment(e) == Kept(Rows("ENVIRONMENT", e, Skipped("ENVIRONMENT")))

\* Swdb::getPackageCompsGroups: any item of the group may have listed the
\* package; the last one must list something.
EverListed(kind, id, member) ==
    \E t \in DOMAIN trans : \E i \in DOMAIN trans[t].items :
        LET item == trans[t].items[i]
        IN item.kind = kind /\ item.id = id /\ member \in item.members

PackageCompsGroups(name) ==
    {g \in GroupIds : /\ EverListed("GROUP", g, name)
                      /\ \E item \in LastGroup(g) : item.members # {}}

\* Swdb::getCompsGroupEnvironments.
CompsGroupEnvironments(g) ==
    {e \in EnvIds : /\ EverListed("ENVIRONMENT", e, g)
                    /\ \E item \in LastEnvironment(e) : item.members # {}}

-----------------------------------------------------------------------------
\* A change of one package, as its items, that of the new package first, as
\* dnf_transaction_commit adds them.  Replacements inherit the reason.
Changes(id) ==
    LET old == hsRpmdb[id]
        Pair(evr, new, was) == <<Rpm(id, evr, new, ReasonNow(id)), Rpm(id, old, was, ReasonNow(id))>>
    IN IF old = NoEvr
       THEN {<<Rpm(id, evr, "INSTALL", r)>> : evr \in Evrs3, r \in {"USER", "DEPENDENCY"}}
       ELSE {<<Rpm(id, old, a, ReasonNow(id))>> : a \in {"REMOVE", "OBSOLETED"}}
              \cup {<<Rpm(id, old, "REASON_CHANGE", r)>> : r \in {"USER", "DEPENDENCY"}}
              \cup {Pair(old, "REINSTALL", "REINSTALLED")}
              \cup {Pair(evr, "UPGRADE", "UPGRADED") :
                            evr \in {e \in Evrs3 : ~ e[1] < old[1] /\ e # old /\ (e[1] > old[1] \/ e[2] > old[2])}}
              \cup {Pair(evr, "DOWNGRADE", "DOWNGRADED") :
                            evr \in {e \in Evrs3 : e[1] < old[1] \/ (e[1] = old[1] /\ e[2] < old[2])}}

CompsChanges(kind, id, kept) ==
    LET New(action, members) == IF kind = "GROUP" THEN GroupItem(id, action, members)
                                ELSE EnvItem(id, action, members)
    IN IF kept = {} THEN {<<New("INSTALL", M)>> : M \in MemberSets[kind]}
       ELSE {<<New("UPGRADE", M)>> : M \in MemberSets[kind]} \cup {<<New("REMOVE", {})>>}

\* Swdb::addItem for the items of one change; each package or group changes
\* once in a transaction.
AllAdded(items, new) ==
    LET r[k \in 0 .. Len(new)] == IF k = 0 THEN items ELSE AddItem(r[k - 1], new[k])
    IN r[Len(new)]

AddItems(new) ==
    /\ inProgress.there /\ ~ inProgress.begun
    /\ Len(inProgress.items) + Len(new) <= MaxItems
    /\ \A i \in DOMAIN inProgress.items :
          <<inProgress.items[i].kind, inProgress.items[i].id>> # <<new[1].kind, new[1].id>>
    /\ inProgress' = [inProgress EXCEPT !.items = AllAdded(@, new)]
    /\ UNCHANGED <<hsRpmdb, wanted, compsNow, dbFile, since, trans, mergedIds>>

-----------------------------------------------------------------------------
MergeTransSlip(t) ==
    /\ dbFile = "open" /\ ~ inProgress.there
    /\ t \in DOMAIN trans \ ToSet(mergedIds) /\ trans[t].state = "DONE"
    /\ mergedIds' = Append(mergedIds, t)
    /\ UNCHANGED <<hsRpmdb, wanted, compsNow, dbFile, since, trans, inProgress>>

\* MergedTransaction::merge keeps the transactions in the order of their ids.
MergeTrans(t) ==
    /\ dbFile = "open" /\ ~ inProgress.there
    /\ t \in DOMAIN trans \ ToSet(mergedIds) /\ trans[t].state = "DONE"
    /\ LET at == {i \in DOMAIN mergedIds : mergedIds[i] > t}
           k == IF at = {} THEN Len(mergedIds) + 1 ELSE CHOOSE i \in at : \A j \in at : i <= j
       IN mergedIds' = InsertAt(mergedIds, k, t)
    /\ UNCHANGED <<hsRpmdb, wanted, compsNow, dbFile, since, trans, inProgress>>

\* Transaction::getItems: packages, groups, environments.  Environments are
\* read without their action and reason, which keep their defaults.
OfKind(t, kind) == SelectSeq(trans[t].items, LAMBDA x : x.kind = kind)
LoadedRpms(t) == OfKind(t, "RPM")
LoadedGroups(t) == OfKind(t, "GROUP")
LoadedEnvironments(t) ==
    [i \in DOMAIN OfKind(t, "ENVIRONMENT") |->
        [OfKind(t, "ENVIRONMENT")[i] EXCEPT !.action = "INSTALL", !.reason = "UNKNOWN"]]
Loaded(t) == LoadedRpms(t) \o LoadedGroups(t) \o LoadedEnvironments(t)

\* RPMItem::operator<.  The second test looks at the own epoch instead of the
\* difference, so a smaller epoch of the other falls through to the versions.
RpmLess(a, b) == b[1] > a[1] \/ (a[1] >= 0 /\ b[2] > a[2])

Pair(first, second) == [first |-> first, second |-> second]
NoItem == [action |-> "none"]

\* MergedTransaction::resolveRPMDifference.
ResolveRpmDifference(prev, new) ==
    LET old == prev.first IN
    IF old.evr[1] = new.evr[1] /\ old.evr[2] = new.evr[2]
    THEN Pair([new EXCEPT !.action = "REINSTALL"], NoItem)
    ELSE IF RpmLess(old.evr, new.evr)
    THEN Pair([old EXCEPT !.action = "UPGRADED"], [new EXCEPT !.action = "UPGRADE"])
    ELSE Pair([old EXCEPT !.action = "DOWNGRADED"], [new EXCEPT !.action = "DOWNGRADE"])

\* MergedTransaction::resolveErase: the difference decides the action of the
\* new item only, the old one is dropped.
ResolveErase(prev, new) ==
    IF new.action # "INSTALL" THEN Pair(new, NoItem)
    ELSE IF new.kind # "RPM" THEN Pair([new EXCEPT !.action = "REINSTALL"], NoItem)
    ELSE LET d == ResolveRpmDifference(prev, new)
         IN Pair(IF d.second = NoItem THEN d.first ELSE d.second, NoItem)

\* MergedTransaction::resolveAltered.
ResolveAltered(prev, new) ==
    CASE new.action \in {"REMOVE", "OBSOLETED"} ->
            Pair([prev.first EXCEPT !.action = new.action], NoItem)
      [] new.action \in {"DOWNGRADED", "UPGRADED"} ->
            IF prev.second = NoItem /\ prev.first.action \in {"DOWNGRADE", "UPGRADE"}
            THEN Pair(new, prev.first) ELSE prev
      [] new.action \in {"DOWNGRADE", "UPGRADE"} ->
            IF prev.second = NoItem THEN Pair(prev.first, new)
            ELSE IF new.kind = "RPM" THEN ResolveRpmDifference(prev, new)
            ELSE Pair([prev.second EXCEPT !.action = "REINSTALL"], NoItem)
      [] OTHER -> prev

\* MergedTransaction::mergeItem.  map: identifier to pair, for those seen.
MergeItem(map, new) ==
    LET key == <<new.kind, new.id>>
        Set(p) == [k \in DOMAIN map \cup {key} |-> IF k = key THEN p ELSE map[k]]
    IN IF key \notin DOMAIN map THEN Set(Pair(new, NoItem))
       ELSE LET prev == map[key]
                was == prev.first.action
            IN CASE was = "INSTALL" /\ new.action \in Backward -> map
                 [] was = "INSTALL" /\ new.action \notin Backward -> Set(Pair([new EXCEPT !.action = "INSTALL"], NoItem))
                 [] was \in {"REMOVE", "OBSOLETED"} -> Set(ResolveErase(prev, new))
                 [] was \in {"REINSTALL", "REASON_CHANGE"} -> Set(Pair(new, NoItem))
                 [] was = "REINSTALLED" -> map
                 [] OTHER -> Set(ResolveAltered(prev, new))

\* MergedTransaction::getItems.
MergedItems ==
    FoldLeft(MergeItem, << >>, FlattenSeq([i \in DOMAIN mergedIds |-> Loaded(mergedIds[i])]))

-----------------------------------------------------------------------------
HistRpms == \E id \in HistIds : \E new \in Changes(id) : AddItems(new)
HistComps ==
    \/ \E g \in GroupIds : \E new \in CompsChanges("GROUP", g, LastGroup(g)) : AddItems(new)
    \/ \E e \in EnvIds : \E new \in CompsChanges("ENVIRONMENT", e, LastEnvironment(e)) : AddItems(new)

HistStep ==
    \/ OpenNew \/ OpenExisting \/ InitTransaction \/ BeginTransaction
    \/ \E i \in 1 .. MaxItems : SetItemDone(i)
    \/ EndTransaction \/ FailItems \/ CloseTransaction \/ HistCrash \/ ResetDatabase
    \/ \E t \in DOMAIN trans : MergeTrans(t)

HistNext == HistStep \/ HistRpms \/ HistComps

HistSpec == HistInit /\ [][HistNext]_histVars

-----------------------------------------------------------------------------
\* A transaction that did not complete may have changed the package.
Disturbed(id) ==
    \E t \in DOMAIN trans : /\ trans[t].state # "DONE"
                            /\ \E i \in DOMAIN trans[t].items :
                                  trans[t].items[i].id = id /\ trans[t].items[i].state = "DONE"

\* Through upgrades, downgrades, reinstalls, removals, crashes and failed
\* transactions the database keeps telling why a package is installed and
\* which groups hold it.  The reason resolved from the rows is the one given
\* by the last completed transaction that installed the package or changed
\* its reason, unless a transaction that never completed touched it; what a
\* user asked for is not taken for a dependency.  Every group that lists a
\* package is found, no removed one is
\* (RPMItem::resolveTransactionItemReason, Swdb::filterUserinstalled,
\* getPackageCompsGroups and getCompsGroupEnvironments).
HistoryRemembers ==
    dbFile = "open" =>
        /\ \A id \in HistIds : hsRpmdb[id] # NoEvr /\ ~ Disturbed(id) =>
              /\ ResolveReason(id) = wanted[id]
              /\ wanted[id] = "USER" => id \in UserInstalled /\ ResolveAnyArch(HistName[id]) = "USER"
        /\ \A g \in GroupIds :
              /\ \A p \in compsNow[g] : g \in PackageCompsGroups(p)
              /\ compsNow[g] = {} => \A p \in Range(HistName) : g \notin PackageCompsGroups(p)
        /\ \A e \in EnvIds : \A g \in GroupIds :
              IF g \in compsNow[e] THEN e \in CompsGroupEnvironments(g)
              ELSE compsNow[e] = {} => e \notin CompsGroupEnvironments(g)

\* Everything that happened is merged.
MergedAll ==
    /\ dbFile = "open" /\ ToSet(mergedIds) = DOMAIN trans /\ trans # << >>
    /\ \A t \in DOMAIN trans : trans[t].state = "DONE"

EndsAt(pair) ==
    LET last == IF pair.second = NoItem THEN pair.first ELSE pair.second
    IN IF last.action \in Backward THEN NoEvr ELSE last.evr

\* In whatever order transactions are merged, a net change is never lost or
\* misreported: for a package that is not where it was, the merged items end
\* at the version that is installed now, or in a removal when there is none.
\* Left aside are packages whose history begins with a reinstall
\* (MergedTransaction::mergeItem and the resolve functions).
MergeEndsAtRpmdb ==
    MergedAll => \A id \in {i \in HistIds : hsRpmdb[i] # since[i]} :
        LET map == MergedItems
            key == <<"RPM", id>>
        IN \/ key \in DOMAIN map /\ map[key].first.action = "REINSTALLED"
           \/ key \in DOMAIN map /\ EndsAt(map[key]) = hsRpmdb[id]

=============================================================================
