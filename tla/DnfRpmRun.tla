------------------------------ MODULE DnfRpmRun -----------------------------
(***************************************************************************)
(* The files of a dnf-4 transaction on their way to librpm: which packages *)
(* must be downloaded (dnf-package.cpp, dnf-repo.cpp), which keys are      *)
(* imported and which signatures accepted (dnf-keyring.cpp,                *)
(* dnf-transaction.cpp), what becomes an element of the rpm transaction    *)
(* (dnf-rpmts.cpp) and what dnf_transaction_ts_progress_cb makes of        *)
(* librpm's callbacks.                                                     *)
(*                                                                         *)
(* One DnfTransaction is used for several calls, in any order the API      *)
(* allows; its keyring and its list of downloads outlive a call.  Any file *)
(* may vanish, be damaged or be replaced by another rpm at any time, also  *)
(* between the check of its signature and librpm's reading of it.  librepo *)
(* and librpm are external.                                                *)
(***************************************************************************)
EXTENDS Integers, Sequences, FiniteSets, SequencesExt

CONSTANTS
    RrPkg,          \* package -> [name, repo, base, sum, key, modular, size]
    RrRepo,         \* repository -> [local, gpgcheck, hotfix]
    SystemKeys,     \* the files of /etc/pki/rpm-gpg
    RepoKeys,       \* the key files of the repositories, in their order
    ModuleIncludes, \* dnf_sack_get_module_includes
    RrGoals,        \* [install |-> <<...>>, remove |-> {...}, helper |-> {...}]
    Signatures,     \* what the signature of a file names: a key, or "unsigned"
                    \* or "garbled"
    MaxCommits,     \* bound: calls of dnf_transaction_commit
    MaxSpoils       \* bound: files that go wrong or are replaced

\* What f says of the elements of a list, added up one after the other.
Added(f, list) ==
    LET sum[n \in 0 .. Len(list)] == IF n = 0 THEN 0 ELSE sum[n - 1] + f[list[n]]
    IN sum[Len(list)]

\* dnf_package_array_get_download_size.
DownloadSize(S) == Added([p \in S |-> RrPkg[p].size], SetToSeq(S))

ASSUME DnfRpmRunAssumption ==
    /\ \A g \in RrGoals : /\ ToSet(g.install) \cup g.remove \cup g.helper \subseteq DOMAIN RrPkg
                          /\ g.remove \cap g.helper = {}
                          /\ \A p \in g.remove \cup g.helper : RrPkg[p].repo = "system"
    /\ DOMAIN RrRepo \cap {"system", "cmdline"} = {}
    /\ IsFiniteSet(DOMAIN RrPkg)
    /\ \A p \in DOMAIN RrPkg : RrPkg[p].size \in Nat /\ RrPkg[p].key \in Signatures

VARIABLES
    disk,           \* what is found under each package's file name
    goalNow,        \* the goal of the last depsolve
    toDownload,     \* priv->pkgs_to_download
    transfer,       \* PackageDownloadData and GlobalDownloadData of a download
    keyring,        \* priv->keyring
    trans,          \* the commit: where it is, flags, elements, step
    rpmNow,         \* librpm: what it still has to do and the element at work
    marked,         \* the packages whose history item was set DONE
    handled,        \* the packages librpm has finished with
    systemPkgs      \* the packages of the rpm database

rrVars == <<disk, goalNow, toDownload, transfer, keyring, trans, rpmNow, marked,
            handled, systemPkgs>>

NoTransfer == [on |-> FALSE, left |-> {}, now |-> << >>, global |-> 0]

Quiet == [todo |-> {}, element |-> "none", at |-> "rest"]

\* Two fields of a commit are history: changed, the files that changed after the
\* check of their signatures, and verified, those whose signature librpm found
\* good when it read them.
Idle4 == [pc |-> "idle", trusted |-> FALSE, test |-> FALSE, elements |-> {}, step |-> "IGNORE",
          fd |-> "none", changed |-> {}, verified |-> {}, commits |-> 0, spoils |-> 0]

\* A file is what the metadata describes (good), another rpm, another rpm whose
\* signature names a key that did not make it (forged), or nothing rpm reads.
Unusable == [is : {"absent", "unreadable", "damaged"}, sig : {"none"}]
Files == Unusable \cup [is : {"good", "other"}, sig : Signatures]
                  \cup [is : {"forged"}, sig : Signatures \ {"unsigned", "garbled"}]
Absent == [is |-> "absent", sig |-> "none"]
Described(p) == [is |-> "good", sig |-> RrPkg[p].key]

RrTypeOK ==
    /\ disk \in [DOMAIN RrPkg -> Files]
    /\ toDownload \subseteq DOMAIN RrPkg
    /\ transfer.global \in Nat
    /\ trans.step \in {"IGNORE", "STARTED", "PREPARING", "WRITING"}
    /\ trans.elements \cup trans.changed \cup trans.verified \subseteq DOMAIN RrPkg
    /\ marked \cup handled \cup systemPkgs \subseteq DOMAIN RrPkg

RrRepoOf(p) == RrPkg[p].repo
HasRepo(p) == RrRepoOf(p) \in DOMAIN RrRepo

\* dnf_package_is_local.
IsLocal(p) == RrRepo[RrRepoOf(p)].local /\ RrPkg[p].base # "remote"

\* Command-line and local packages have their files from the start.
RrInit ==
    /\ \E A \in SUBSET {p \in DOMAIN RrPkg : HasRepo(p) /\ ~ IsLocal(p)} :
          disk = [p \in DOMAIN RrPkg |-> IF p \in A THEN Absent ELSE Described(p)]
    /\ goalNow \in RrGoals
    /\ toDownload = {}
    /\ transfer = NoTransfer
    /\ keyring = {}
    /\ trans = Idle4
    /\ rpmNow = Quiet
    /\ marked = {} /\ handled = {}
    /\ systemPkgs = {p \in DOMAIN RrPkg : RrRepoOf(p) = "system"}

-----------------------------------------------------------------------------
(* The repository and the file of a package.                               *)

\* dnf_transaction_ensure_repo, for one package and for a list.
EnsureRepo(p) == RrRepoOf(p) \in {"cmdline", "system"} \/ HasRepo(p)

\* The name of the file is known: the location of a command-line package, or
\* a path in the local repository or in the cache.
HasFilename(p) == RrRepoOf(p) # "system" /\ (RrRepoOf(p) = "cmdline" \/ HasRepo(p))

\* dnf_package_check_filename: what cannot be repaired by a download is an
\* error.  A missing file is judged by dnf_package_is_local, one with another
\* checksum by dnf_repo_is_local.
CheckFilename(p) ==
    CASE disk[p].is = "absent" -> IF IsLocal(p) THEN "error" ELSE "download"
      [] disk[p].is = "unreadable" -> "error"
      [] disk[p].is \in {"damaged", "other", "forged"} ->
            IF RrRepo[RrRepoOf(p)].local THEN "error" ELSE "download"
      [] disk[p].is = "good" -> "valid"

Checked4(p) ==
    IF ~ EnsureRepo(p) THEN "error"
    ELSE IF RrRepoOf(p) = "cmdline" THEN "valid" ELSE CheckFilename(p)

\* dnf_transaction_depsolve lists the downloads until the first error.
RrDepsolve(g) ==
    LET s == g.install
        bad == {i \in DOMAIN s : Checked4(s[i]) = "error"}
        good == {i \in DOMAIN s : \A b \in bad : i < b}
    IN /\ trans.pc = "idle" /\ ~ transfer.on
       /\ goalNow' = g
       /\ toDownload' = {s[i] : i \in {j \in good : Checked4(s[j]) = "download"}}
       /\ UNCHANGED <<disk, transfer, keyring, trans, rpmNow, marked, handled, systemPkgs>>

-----------------------------------------------------------------------------
(* Downloading.                                                            *)

\* The checksum types librepo is told about; the others are not verified
\* while downloading (dnf_repo_checksum_hy_to_lr of dnf-repo.cpp).
ToLrChecksum(t) == IF t \in {"md5", "sha1", "sha256"} THEN t ELSE "unknown"

\* dnf_transaction_download and dnf_package_array_download: enough free space,
\* every package with its repository, then one repository after the other.
StartDownload ==
    /\ trans.pc = "idle" /\ ~ transfer.on /\ toDownload # {}
    /\ \A p \in toDownload : HasRepo(p)
    /\ transfer' = [on |-> TRUE, left |-> toDownload, now |-> << >>, global |-> 0]
    /\ UNCHANGED <<disk, goalNow, toDownload, keyring, trans, rpmNow, marked, handled, systemPkgs>>

Fetching == DOMAIN transfer.now \cap transfer.left
Batch(r) == {p \in transfer.left : RrRepoOf(p) = r}

\* dnf_repo_download_packages counts the bytes of its own packages.
StartRepository(r) ==
    /\ transfer.on /\ Fetching = {} /\ Batch(r) # {}
    /\ transfer' = [transfer EXCEPT !.now = [p \in Batch(r) |-> 0], !.global = 0]
    /\ UNCHANGED <<disk, goalNow, toDownload, keyring, trans, rpmNow, marked, handled, systemPkgs>>

ProgressSlip(p, n) ==
    /\ transfer.on /\ p \in Fetching
    /\ transfer' = [transfer EXCEPT !.now[p] = n, !.global = @ + (transfer.now[p] - n)]
    /\ UNCHANGED <<disk, goalNow, toDownload, keyring, trans, rpmNow, marked, handled, systemPkgs>>

\* package_download_update_state_cb: n bytes of p are there; after a failed
\* mirror the count starts again from a smaller number and the difference,
\* taken between doubles, is negative.  Below 2^53 bytes doubles are exact.
Progress(p, n) ==
    /\ transfer.on /\ p \in Fetching
    /\ transfer' = [transfer EXCEPT !.now[p] = n, !.global = @ + (n - transfer.now[p])]
    /\ UNCHANGED <<disk, goalNow, toDownload, keyring, trans, rpmNow, marked, handled, systemPkgs>>

\* package_download_end_cb: p has arrived.  If its checksum was not verified,
\* any file may have.
Arrive(p) ==
    /\ transfer.on /\ p \in Fetching /\ transfer.now[p] = RrPkg[p].size
    /\ \/ disk' = [disk EXCEPT ![p] = Described(p)] /\ UNCHANGED trans
       \/ /\ ToLrChecksum(RrPkg[p].sum) = "unknown" /\ trans.spoils < MaxSpoils
          /\ \E f \in Files : f.is \in {"damaged", "other", "forged"} /\ disk' = [disk EXCEPT ![p] = f]
          /\ trans' = [trans EXCEPT !.spoils = @ + 1]
    /\ transfer' = [transfer EXCEPT !.left = @ \ {p}]
    /\ UNCHANGED <<goalNow, toDownload, keyring, rpmNow, marked, handled, systemPkgs>>

\* All have arrived, or the first failure, a full disk or a cancelled state
\* ends the call.
EndDownload ==
    /\ transfer.on
    /\ transfer' = NoTransfer
    /\ UNCHANGED <<disk, goalNow, toDownload, keyring, trans, rpmNow, marked, handled, systemPkgs>>

-----------------------------------------------------------------------------
(* Keys and signatures.                                                    *)

\* dnf_keyring_add_public_key: a failing subkey is an error, but the key has
\* been added.
AddPublicKey(ring, f) ==
    CASE f.kind # "regular" -> [ring |-> ring, ok |-> TRUE]
      [] f.kind = "regular" /\ f.key = "bad" -> [ring |-> ring, ok |-> FALSE]
      [] f.kind = "regular" /\ f.key \in ring -> [ring |-> ring, ok |-> TRUE]
      [] OTHER -> [ring |-> ring \cup {f.key} \cup (IF f.subkeysOk THEN f.subkeys ELSE {}),
                   ok |-> f.subkeysOk]

\* dnf_keyring_add_public_keys only warns of a file that fails.
AddPublicKeys(ring) == FoldLeft(LAMBDA r, f : AddPublicKey(r, f).ring, ring, SystemKeys)

\* dnf_transaction_import_keys stops at the first failing file of a repository;
\* a missing file is passed over.
ImportKeys(ring) ==
    FoldLeft(LAMBDA r, f : IF ~ r.ok \/ f.kind = "missing" THEN r ELSE AddPublicKey(r.ring, f),
             [ring |-> AddPublicKeys(ring), ok |-> TRUE], RepoKeys)

\* dnf_keyring_check_untrusted_file reads the file without its signature and
\* looks up the key the signature names; it does not verify with that key.
CheckUntrustedFile(p, ring) ==
    CASE disk[p] \in Unusable \/ disk[p].sig = "garbled" -> "FILE_INVALID"
      [] disk[p] \notin Unusable /\ disk[p].sig = "unsigned" -> "GPG_SIGNATURE_INVALID"
      [] OTHER -> IF disk[p].sig \in ring THEN "OK" ELSE "GPG_SIGNATURE_INVALID"

GpgcheckPackageSlip(p, ring) ==
    /\ EnsureRepo(p) /\ HasFilename(p)
    /\ CheckUntrustedFile(p, ring) # "FILE_INVALID"
    /\ CheckUntrustedFile(p, ring) = "GPG_SIGNATURE_INVALID" => ~ trans.trusted

\* dnf_transaction_gpgcheck_package: what does not verify is always refused
\* from a repository with gpgcheck, and everywhere with ONLY_TRUSTED.
GpgcheckPackage(p, ring) ==
    /\ EnsureRepo(p) /\ HasFilename(p)
    /\ CheckUntrustedFile(p, ring) # "FILE_INVALID"
    /\ CheckUntrustedFile(p, ring) = "GPG_SIGNATURE_INVALID" =>
          /\ ~ (HasRepo(p) /\ RrRepo[RrRepoOf(p)].gpgcheck)
          /\ ~ trans.trusted

\* test_fail_safe: a modular package needs its module's metadata.
FailSafe(p) ==
    \/ RrRepoOf(p) \in {"system", "cmdline"} \/ ~ HasRepo(p)
    \/ RrRepo[RrRepoOf(p)].hotfix
    \/ ~ RrPkg[p].modular
    \/ p \in ModuleIncludes

\* rpmReadPackageFile verifies with the same keyring.
ReadPackageFile(p) ==
    CASE disk[p] \in Unusable \/ disk[p].sig = "garbled" -> "FAIL"
      [] disk[p] \notin Unusable /\ disk[p].sig = "unsigned" -> "NOTFOUND"
      [] OTHER -> IF disk[p].sig \notin keyring THEN "NOKEY"
                  ELSE IF disk[p].is = "forged" THEN "FAIL" ELSE "OK"

\* dnf_rpmts_add_install_filename2.
AddInstall(p) ==
    /\ EnsureRepo(p)
    /\ ReadPackageFile(p) = "OK" \/ (~ trans.trusted /\ ReadPackageFile(p) \in {"NOKEY", "NOTFOUND"})
    /\ FailSafe(p)

\* dnf_rpmts_add_remove_pkg: the package is found by its database id.
AddRemove(p) == p \in systemPkgs

-----------------------------------------------------------------------------
(* dnf_transaction_commit.                                                 *)

Begin4(trusted, test) ==
    /\ trans.pc = "idle" /\ ~ transfer.on /\ trans.commits < MaxCommits
    /\ trans' = [trans EXCEPT !.pc = "keys", !.trusted = trusted, !.test = test,
                              !.commits = @ + 1]
    /\ UNCHANGED <<disk, goalNow, toDownload, transfer, keyring, rpmNow, marked, handled, systemPkgs>>

\* The label out: dnf_transaction_reset empties the rpm transaction and the
\* list of downloads.
Out4 ==
    /\ trans' = [trans EXCEPT !.pc = "idle", !.elements = {}, !.changed = {}, !.verified = {}]
    /\ toDownload' = {}

\* dnf_transaction_import_keys, which fails also when the directory of the
\* system's keys cannot be opened, and dnf_transaction_check_untrusted.
NoKeyDirectory ==
    /\ trans.pc = "keys"
    /\ Out4
    /\ UNCHANGED <<disk, goalNow, transfer, keyring, rpmNow, marked, handled, systemPkgs>>

ImportAndCheck ==
    LET r == ImportKeys(keyring) IN
    /\ trans.pc = "keys"
    /\ keyring' = r.ring
    /\ IF r.ok /\ \A i \in DOMAIN goalNow.install : GpgcheckPackage(goalNow.install[i], r.ring)
       THEN trans' = [trans EXCEPT !.pc = "add"] /\ UNCHANGED toDownload
       ELSE Out4
    /\ UNCHANGED <<disk, goalNow, transfer, rpmNow, marked, handled, systemPkgs>>

\* The elements, one by one; what librpm erases for an update needs no
\* element of its own.
AddElements ==
    /\ trans.pc = "add"
    /\ IF /\ \A i \in DOMAIN goalNow.install : AddInstall(goalNow.install[i])
          /\ \A p \in goalNow.remove : AddRemove(p)
       THEN /\ trans' = [trans EXCEPT !.pc = "ready",
                 !.elements = ToSet(goalNow.install) \cup goalNow.remove,
                 !.verified = {p \in ToSet(goalNow.install) : ReadPackageFile(p) = "OK"}]
            /\ UNCHANGED toDownload
       ELSE Out4
    /\ UNCHANGED <<disk, goalNow, transfer, keyring, rpmNow, marked, handled, systemPkgs>>

\* rpmtsRun, for a test or in earnest, unless rpmtsCheck has found problems
\* (dnf_rpmts_look_for_problems).
RunTransaction ==
    /\ trans.pc = "ready"
    /\ \/ /\ trans' = [trans EXCEPT !.pc = "running",
                          !.step = IF trans.test THEN "IGNORE" ELSE "STARTED"]
          /\ rpmNow' = [todo |-> IF trans.test THEN {}
                                 ELSE trans.elements \cup (goalNow.helper \cap systemPkgs),
                        element |-> "none", at |-> "start"]
          /\ UNCHANGED toDownload
       \/ Out4 /\ UNCHANGED rpmNow
    /\ marked' = {} /\ handled' = {}
    /\ UNCHANGED <<disk, goalNow, transfer, keyring, systemPkgs>>

-----------------------------------------------------------------------------
(* dnf_transaction_ts_progress_cb.                                         *)

\* A callback touches neither the files nor the download; the progress callbacks
\* (TRANS_PROGRESS, INST_PROGRESS, UNINST_PROGRESS) only report to the state.
Called == UNCHANGED <<disk, goalNow, toDownload, transfer, keyring>>

\* TRANS_START.
CbTransStart ==
    /\ trans.pc = "running" /\ rpmNow.at = "start"
    /\ trans' = IF trans.step = "IGNORE" THEN trans ELSE [trans EXCEPT !.step = "PREPARING"]
    /\ rpmNow' = [rpmNow EXCEPT !.at = "rest"]
    /\ Called /\ UNCHANGED <<marked, handled, systemPkgs>>

ByHeader(S, p) == S \cap {p}
ByName(S, p) == {q \in S : RrPkg[q].name = RrPkg[p].name}

\* The first of the lookups that finds something.
FirstFound(s) ==
    IF \A i \in DOMAIN s : s[i] = {} THEN {}
    ELSE s[CHOOSE i \in DOMAIN s : s[i] # {} /\ \A j \in 1 .. i - 1 : s[j] = {}]

\* INST_OPEN_FILE and INST_START: the file is opened, the package found by its
\* file name, the writing phase has begun.
CbInstStart(p) ==
    /\ trans.pc = "running" /\ rpmNow.at = "rest" /\ p \in rpmNow.todo \cap ToSet(goalNow.install)
    /\ trans' = [trans EXCEPT !.step = "WRITING", !.fd = p]
    /\ rpmNow' = [rpmNow EXCEPT !.element = p, !.at = "started"]
    /\ Called /\ UNCHANGED <<marked, handled, systemPkgs>>

\* UNINST_START: also a package that is not found begins the writing phase.
\* librpm erases what is replaced after it has installed what replaces it.
CbUninstStart(p) ==
    /\ trans.pc = "running" /\ rpmNow.at = "rest" /\ p \in rpmNow.todo \ ToSet(goalNow.install)
    /\ rpmNow.todo \cap ToSet(goalNow.install) = {}
    /\ trans' = [trans EXCEPT !.step = "WRITING"]
    /\ rpmNow' = [rpmNow EXCEPT !.element = p, !.at = "started"]
    /\ Called /\ UNCHANGED <<marked, handled, systemPkgs>>

\* INST_STOP marks the package of the header, or of the file name;
\* INST_CLOSE_FILE closes the file.
CbInstStop(p) ==
    /\ rpmNow.at = "started" /\ rpmNow.element = p /\ p \in ToSet(goalNow.install)
    /\ marked' = marked \cup ByHeader(ToSet(goalNow.install), p)
    /\ trans' = [trans EXCEPT !.fd = "none"]
    /\ rpmNow' = [todo |-> rpmNow.todo \ {p}, element |-> "none", at |-> "rest"]
    /\ handled' = handled \cup {p}
    /\ systemPkgs' = systemPkgs \cup {p}
    /\ Called

\* UNINST_STOP: the header among the removed, then among the replaced, then
\* the name among both.
UninstStopped(p) ==
    FirstFound(<<ByHeader(goalNow.remove, p), ByHeader(goalNow.helper, p),
                 ByName(goalNow.remove, p), ByName(goalNow.helper, p)>>)

CbUninstStop(p) ==
    /\ rpmNow.at = "started" /\ rpmNow.element = p /\ p \notin ToSet(goalNow.install)
    /\ \/ \E q \in UninstStopped(p) : marked' = marked \cup {q}
       \/ UninstStopped(p) = {} /\ UNCHANGED marked
    /\ rpmNow' = [todo |-> rpmNow.todo \ {p}, element |-> "none", at |-> "rest"]
    /\ handled' = handled \cup {p}
    /\ systemPkgs' = systemPkgs \ {p}
    /\ Called /\ UNCHANGED trans

\* rpmtsRun has ended, well or not; a run that never reached the writing phase
\* is an error.  Downloaded files are deleted after a success unless the cache
\* is kept.
EndRun ==
    /\ trans.pc = "running" /\ rpmNow.at # "started"
    /\ \/ /\ rpmNow.todo = {} /\ trans.step = "WRITING"
          /\ \/ UNCHANGED disk
             \/ disk' = [p \in DOMAIN disk |->
                           IF p \in ToSet(goalNow.install) /\ HasRepo(p) /\ ~ IsLocal(p)
                           THEN Absent ELSE disk[p]]
       \/ UNCHANGED disk
    /\ Out4
    /\ rpmNow' = Quiet
    /\ UNCHANGED <<goalNow, transfer, keyring, marked, handled, systemPkgs>>

-----------------------------------------------------------------------------
\* A file of the goal vanishes, is damaged, or another one takes its place.
Spoil(p) ==
    /\ p \in ToSet(goalNow.install) /\ HasFilename(p) /\ trans.spoils < MaxSpoils
    /\ \E f \in Files : f.is # "good" /\ disk' = [disk EXCEPT ![p] = f]
    /\ trans' = [trans EXCEPT !.spoils = @ + 1,
                              !.changed = IF trans.pc = "add" THEN @ \cup {p} ELSE @]
    /\ UNCHANGED <<goalNow, toDownload, transfer, keyring, rpmNow, marked, handled, systemPkgs>>

RrNext ==
    \/ \E g \in RrGoals : RrDepsolve(g)
    \/ StartDownload
    \/ \E r \in DOMAIN RrRepo : StartRepository(r)
    \/ \E p \in toDownload : Arrive(p) \/ \E n \in 0 .. RrPkg[p].size : Progress(p, n)
    \/ EndDownload
    \/ \E trusted, test \in BOOLEAN : Begin4(trusted, test)
    \/ NoKeyDirectory
    \/ ImportAndCheck
    \/ AddElements
    \/ RunTransaction
    \/ CbTransStart
    \/ \E p \in DOMAIN RrPkg : \/ CbInstStart(p) \/ CbInstStop(p)
                               \/ CbUninstStart(p) \/ CbUninstStop(p)
    \/ EndRun
    \/ \E p \in DOMAIN RrPkg : Spoil(p)

RrSpec == RrInit /\ [][RrNext]_rrVars

-----------------------------------------------------------------------------
\* What becomes an element of the rpm transaction is verified twice:
\* dnf_transaction_gpgcheck_package only asks whether the key that is named is in
\* the keyring, dnf_rpmts_add_install_filename2 verifies but lets what has no key
\* pass unless ONLY_TRUSTED is set.  Together, and whatever keys failed to import
\* before: with ONLY_TRUSTED every installed element was read with a good
\* signature, whatever became of its file between the two calls; without it,
\* every element of a repository with gpgcheck whose file was still the one
\* checked.  A file that is replaced between the two calls is only kept out by
\* ONLY_TRUSTED.
ElementsAreVerified ==
    \A p \in trans.elements \cap ToSet(goalNow.install) :
        (trans.trusted \/ (HasRepo(p) /\ RrRepo[RrRepoOf(p)].gpgcheck /\ p \notin trans.changed))
            => p \in trans.verified

\* The history marks exactly the packages librpm has finished with, even when
\* packages of one name are removed and replaced in one transaction
\* (UNINST_STOP and INST_STOP, _swdb_transaction_item_progress).
MarkedIsHandled == marked = handled

\* The progress of a repository's download stays between nothing and the size to
\* be downloaded, also when a mirror fails and a transfer starts again, so the
\* double that package_download_update_state_cb turns into its counter is in
\* the counter's range.
ProgressInRange ==
    transfer.on => transfer.global \in 0 .. DownloadSize(DOMAIN transfer.now)

\* The callbacks of librepo and rpm, which come in an order of their own, leave
\* the books balanced (package_download_update_state_cb, dnf_transaction_ts_progress_cb).
CallbacksBalance == MarkedIsHandled /\ ProgressInRange
=============================================================================
