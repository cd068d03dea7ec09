--------------------------- MODULE RpmTransaction ---------------------------
(***************************************************************************)
(* rpm::Transaction (libdnf/rpm/transaction.cpp) between its user and rpm, *)
(* and the callbacks of microdnf (microdnf/context.cpp) that turn what rpm *)
(* reports into progress bars.  rpm itself is external: it keeps a list of *)
(* elements, runs them one after the other and tells the transaction what  *)
(* it does; which files can be opened and which elements fail is its       *)
(* choice.                                                                 *)
(***************************************************************************)
EXTENDS ProgressBars, TLC

CONSTANTS
    TsPkgs,         \* packages
    TsName,         \* name of a package
    TsVersion,      \* its version, a number
    TsInstalled,    \* packages installed at the start
    Amounts,        \* progress rpm reports of a total of TsTotal
    TsTotal,
    NoPkg           \* no package

ASSUME RpmTransactionAssumption ==
    /\ NoPkg \notin TsPkgs /\ TsInstalled \subseteq TsPkgs
    /\ IsFiniteSet(TsPkgs) /\ TsVersion \in [TsPkgs -> Int]

VARIABLES
    elements,       \* ts: what rpm will do, in order
    tsItems,          \* tsItems: packages to erase whose item was registered
    cb,             \* a callback object is registered
    scriptFd,       \* script_fd is open
    fdInCb,         \* fd_in_cb: package whose file is open, or NoPkg
    rpm,            \* where rpm is in rpmtsRun
    failed,         \* elements that failed in this run
    rpmdb,          \* installed packages
    mbar, active    \* RpmTransCB: multi_progress_bar, active_progress_bar (0: nullptr)

tsVars == <<elements, tsItems, cb, scriptFd, fdInCb, rpm, failed, rpmdb, mbar, active>>

\* "at": next element; "stage": what rpm reports on.
Rpm(stage, at) == [stage |-> stage, at |-> at]

TsInit ==
    /\ elements = <<>> /\ tsItems = {} /\ cb = FALSE /\ scriptFd = FALSE /\ fdInCb = NoPkg
    /\ rpm = Rpm("idle", 1) /\ failed = {} /\ rpmdb = TsInstalled
    /\ mbar = NewMultiBar /\ active = 0

-----------------------------------------------------------------------------
(* Elements.                                                               *)

SameName(p, q) == TsName[p] = TsName[q]

\* An element that an addition of package p takes the place of.
Supersedes(p, e) == e.op # "erase" /\ SameName(e.pkg, p)

\* rpmtsAddInstallElement, rpmtsAddReinstallElement: of several packages of
\* one name the newest stays, in the place of the first; an upgrade or a
\* reinstallation also erases the installed packages of the name, with no key.
AddedElement(list, op, p) ==
    LET new == [op |-> op, pkg |-> p]
        old == {e \in Range(list) : Supersedes(p, e)}
        renewed == [k \in DOMAIN list |-> IF list[k] \in old THEN new ELSE list[k]]
        replaced == IF op = "install" THEN {}
                    ELSE {q \in rpmdb : SameName(p, q)} \ ({p} \cup {e.pkg : e \in Range(list)})
    IN IF \E e \in old : TsVersion[e.pkg] >= TsVersion[p]
       THEN list
       ELSE (IF old = {} THEN Append(list, new) ELSE renewed)
            \o SetToSeq({[op |-> "erase", pkg |-> q] : q \in replaced})

\* read_pkg_header(): the file is there and rpm reads a header from it; a
\* missing key or a signature that is not trusted is accepted.
HeaderRead == {"OK", "NOTTRUSTED", "NOKEY"}

ReadPkgHeader(rc) == rc \in HeaderRead

\* install(), upgrade(), reinstall(): FALSE is an exception.
TsAdd(op, p, rc, accepted) ==
    /\ elements' = IF ReadPkgHeader(rc) /\ accepted THEN AddedElement(elements, op, p) ELSE elements
    /\ UNCHANGED <<tsItems, cb, scriptFd, fdInCb, rpm, failed, rpmdb, mbar, active>>

TsAddOkSlip(rc, accepted) == accepted
TsAddOk(rc, accepted) == ReadPkgHeader(rc) /\ accepted

\* erase(): the element is in rpm's list before the item is registered.
TsErase(p, accepted) ==
    LET found == p \in rpmdb
    IN /\ elements' = IF found /\ accepted THEN Append(elements, [op |-> "erase", pkg |-> p]) ELSE elements
       /\ tsItems' = IF found /\ accepted THEN tsItems \cup {p} ELSE tsItems
       /\ UNCHANGED <<cb, scriptFd, fdInCb, rpm, failed, rpmdb, mbar, active>>

TsEraseOk(p, accepted) == p \in rpmdb /\ accepted /\ p \notin tsItems

-----------------------------------------------------------------------------
(* Bars of RpmTransCB.                                                     *)

\* new_progress_bar(): the bar that was active has succeeded unless it
\* failed; the new one is started by hand and never finishes by itself.
FinishActive(multi) ==
    IF active # 0 /\ multi.bars[active].state # "ERROR"
    THEN OnBar(multi, active, SetState(multi.bars[active], "SUCCESS")) ELSE multi

NewProgressBar(total) ==
    /\ mbar' = AddBar(FinishActive(mbar), StartBar([NewBar(total) EXCEPT !.auto = FALSE]))
    /\ active' = Len(mbar.bars) + 1

\* install_progress() and the like: printed at most ten times a second.
BarProgress(amount) ==
    \E printed \in BOOLEAN :
        LET ticked == OnBar(mbar, active, SetTicks(mbar.bars[active], amount))
        IN mbar' = IF printed THEN PrintBars(ticked) ELSE ticked

\* unpack_error(), cpio_error().
BarError == mbar' = PrintBars(OnBar(mbar, active, SetState(mbar.bars[active], "ERROR")))

-----------------------------------------------------------------------------
(* rpmtsRun, seen through ts_callback().                                   *)

Element == elements[rpm.at]
HasElement == rpm.at <= Len(elements)
NextStage == Rpm("element", rpm.at + 1)
tsInputs == <<elements, tsItems, cb, scriptFd>>

\* run_transaction(): script output, callbacks, rpmtsRun.
TsRun ==
    /\ rpm.stage = "idle"
    /\ scriptFd' = TRUE /\ cb' = TRUE
    /\ rpm' = Rpm("verify", 1) /\ failed' = {}
    /\ mbar' = NewMultiBar /\ active' = 0
    /\ UNCHANGED <<elements, tsItems, fdInCb, rpmdb>>

\* verify_start/progress/stop, then transaction_start/progress/stop.  With
\* nothing to install there are no files to verify.
Stages == "verify" :> "verifying" @@ "prepare" :> "preparing"

StageStart ==
    /\ rpm.stage \in DOMAIN Stages
    /\ rpm' = Rpm(Stages[rpm.stage], 1)
    /\ NewProgressBar(TsTotal)
    /\ UNCHANGED <<tsInputs, fdInCb, failed, rpmdb>>

NoVerify ==
    /\ rpm.stage = "verify"
    /\ \A e \in Range(elements) : e.op = "erase"
    /\ rpm' = Rpm("prepare", 1)
    /\ UNCHANGED <<tsInputs, fdInCb, failed, rpmdb, mbar, active>>

StageProgress ==
    /\ rpm.stage \in {"verifying", "preparing"}
    /\ \E amount \in Amounts : BarProgress(amount)
    /\ UNCHANGED <<tsInputs, fdInCb, rpm, failed, rpmdb, active>>

\* A problem found while verifying or preparing ends the run.
StageStop ==
    /\ rpm.stage \in {"verifying", "preparing"}
    /\ mbar' = PrintBars(OnBar(mbar, active, SetTicks(mbar.bars[active], TsTotal)))
    /\ rpm' \in {IF rpm.stage = "verifying" THEN Rpm("prepare", 1) ELSE Rpm("element", 1), Rpm("problems", 1)}
    /\ UNCHANGED <<tsInputs, fdInCb, failed, rpmdb, active>>

\* INST_OPEN_FILE: a file that cannot be opened fails the element.
OpenFile ==
    /\ rpm.stage = "element" /\ HasElement /\ Element.op # "erase"
    /\ \/ fdInCb' = Element.pkg /\ rpm' = Rpm("opened", rpm.at) /\ UNCHANGED failed
       \/ fdInCb' = NoPkg /\ rpm' = NextStage /\ failed' = failed \cup {Element.pkg}
    /\ UNCHANGED <<tsInputs, rpmdb, mbar, active>>

\* install_start(), uninstall_start(): the item of an erased package is
\* looked up by its database id; a package erased for an upgrade has none.
ItemOf(e) == IF e.op = "erase" /\ e.pkg \notin tsItems THEN NoPkg ELSE e.pkg

Describe(e) ==
    CASE e.op = "erase" /\ ItemOf(e) = NoPkg -> "Cleanup"
      [] e.op = "erase" /\ ItemOf(e) # NoPkg -> "Erasing"
      [] e.op = "upgrade" -> "Upgrading"
      [] e.op = "reinstall" -> "Reinstalling"
      [] OTHER -> "Installing"

ElementStart ==
    /\ \/ rpm.stage = "opened"
       \/ rpm.stage = "element" /\ HasElement /\ Element.op = "erase"
    /\ rpm' = Rpm(Describe(Element), rpm.at)
    /\ NewProgressBar(TsTotal)
    /\ UNCHANGED <<tsInputs, fdInCb, failed, rpmdb>>

Working == rpm.stage \in {"Installing", "Upgrading", "Reinstalling", "Erasing", "Cleanup"}

ElementProgress ==
    /\ Working
    /\ \E amount \in Amounts : BarProgress(amount)
    /\ UNCHANGED <<tsInputs, fdInCb, rpm, failed, rpmdb, active>>

\* script_start(), script_stop() and script_error() add a message and print.
Scriptlet ==
    /\ Working
    /\ mbar' = PrintBars(mbar)
    /\ UNCHANGED <<tsInputs, fdInCb, rpm, failed, rpmdb, active>>

\* UNPACK_ERROR; the element is reported as stopped all the same.
UnpackError ==
    /\ rpm.stage \in {"Installing", "Upgrading", "Reinstalling"} /\ Element.pkg \notin failed
    /\ BarError
    /\ failed' = failed \cup {Element.pkg}
    /\ UNCHANGED <<tsInputs, fdInCb, rpm, rpmdb, active>>

\* install_stop() and CLOSE_FILE, or uninstall_stop().  A package is not
\* erased for an upgrade that failed.
ElementStop ==
    /\ Working
    /\ mbar' = PrintBars(mbar)
    /\ fdInCb' = NoPkg
    /\ rpm' = NextStage
    /\ rpmdb' = CASE Element.op = "erase" ->
                        IF \E p \in failed : SameName(p, Element.pkg) THEN rpmdb ELSE rpmdb \ {Element.pkg}
                  [] OTHER -> IF Element.pkg \in failed THEN rpmdb ELSE rpmdb \cup {Element.pkg}
    /\ UNCHANGED <<tsInputs, failed, active>>

\* rpmtsRun returns; the callbacks are unregistered and destroyed, which
\* finishes the active bar and prints.
TsRunEnd ==
    /\ \/ rpm.stage = "problems"
       \/ rpm.stage = "element" /\ ~ HasElement
    /\ rpm' = Rpm("ended", 1)
    /\ cb' = FALSE
    /\ mbar' = PrintBars(FinishActive(mbar))
    /\ UNCHANGED <<elements, tsItems, scriptFd, fdInCb, failed, rpmdb, active>>

\* ~Transaction().
TsDestroyed ==
    /\ elements' = <<>> /\ tsItems' = {} /\ scriptFd' = FALSE
    /\ rpm' = Rpm("idle", 1)
    /\ UNCHANGED <<cb, fdInCb, failed, rpmdb, mbar, active>>

RpmStep ==
    \/ StageStart \/ NoVerify \/ StageProgress \/ StageStop
    \/ OpenFile \/ ElementStart \/ ElementProgress \/ Scriptlet \/ UnpackError \/ ElementStop
    \/ TsRunEnd

-----------------------------------------------------------------------------
\* Types of the transaction (transaction.cpp:461-474) and of the bars.
TsTypeOK ==
    /\ \A e \in Range(elements) : e.op \in {"install", "upgrade", "reinstall", "erase"} /\ e.pkg \in TsPkgs
    /\ tsItems \subseteq TsPkgs /\ rpmdb \subseteq TsPkgs /\ failed \subseteq TsPkgs
    /\ cb \in BOOLEAN /\ scriptFd \in BOOLEAN /\ fdInCb \in TsPkgs \cup {NoPkg}
    /\ IsMultiBar(mbar) /\ active \in 0 .. Len(mbar.bars)

=============================================================================
