---------------------------- MODULE DnfRepoConf ----------------------------
(***************************************************************************)
(* Where the settings of a dnf-4 repository come from: the keyfile its     *)
(* .repo file or .treeinfo was read into (dnf-repo-loader.cpp), the        *)
(* dnf_repo_set_* calls of the program, and the moments at which           *)
(* dnf-repo.cpp copies the keyfile again into the HyRepo's configuration   *)
(* and librepo's handle: dnf_repo_setup, dnf_repo_check (which first       *)
(* replaces the HyRepo), dnf_repo_update and the package download.         *)
(*                                                                         *)
(* A key that is not in the keyfile has the value Unset.  An option is a   *)
(* value with its priority; set() ignores a lower priority than the one    *)
(* there.  Directories are named after what they were made from: the cache *)
(* directory, the file:// URL, the mount point.                            *)
(***************************************************************************)
EXTENDS Integers, Sequences, SequencesExt, FiniteSets

CONSTANTS
    RepoFileIds,    \* the groups of the .repo files, in the order they are read
    Mounts,         \* the mounts: [id, readonly, iso, treeinfo]
    KeyfileOf,      \* KeyfileOf[id]: the keys the files give it
    DataEdits,      \* key and value pairs for dnf_repo_set_data
    RuntimeSets,    \* option and value pairs for the dnf_repo_set_* calls
    RedhatRepo,     \* the ids from a file called redhat.repo
    TimeExprs,      \* what metadata_expire strings say: [num, unit]
    MaxUint,        \* G_MAXUINT
    ContextProxy,   \* dnf_context_get_http_proxy
    MaxConfEdits    \* bound: calls that change settings

Unset == "unset"
OptDefault == [skip_if_unavailable |-> "0", cost |-> "1000", module_hotfixes |-> "0",
               metadata_expire |-> "172800", metalink |-> Unset, mirrorlist |-> Unset,
               countme |-> "0", gpgcheck |-> "1", repo_gpgcheck |-> "0",
               excludepkgs |-> {}, includepkgs |-> ""]
OptNames == DOMAIN OptDefault
KeyNames == (OptNames \ {"excludepkgs"}) \cup
    {"excludepkgs", "exclude", "baseurl", "gpgkey", "enabled", "enabled_metadata", "proxy",
     "username", "password", "sslverify"}

ASSUME DnfRepoConfAssumption ==
    /\ KeyfileOf \in [DOMAIN KeyfileOf -> [KeyNames -> STRING]]
    /\ \A e \in DataEdits : e[1] \in KeyNames /\ e[2] \in STRING
    /\ \A e \in RuntimeSets : e[1] \in OptNames /\ e[2] \in STRING
    /\ ContextProxy \in STRING

VARIABLES
    keyfile,    \* keyfile[id]: the GKeyFile in memory
    onDisk4,    \* onDisk4[id]: what the .repo file says
    repos4,     \* repos4[id]: the DnfRepo
    repoList,   \* the loader's list, in order
    confEdits   \* how often settings were changed

rcVars == <<keyfile, onDisk4, repos4, repoList, confEdits>>

FreshConf == [o \in OptNames |-> [pri |-> "DEFAULT", val |-> OptDefault[o]]]
FreshHandle == [urls |-> Unset, mirrorlist |-> Unset, metalink |-> Unset, gpgcheck |-> "0",
                local |-> FALSE, proxy |-> Unset, userpwd |-> <<Unset, Unset>>, sslverify |-> "1"]

\* dnf_repo_new and dnf_repo_set_kind.
NewDnfRepo(kind) ==
    [kind |-> kind, enabled |-> {}, conf |-> FreshConf, handle |-> FreshHandle, keys |-> Unset,
     location |-> Unset, tmp |-> Unset, packages |-> Unset, keyring |-> Unset,
     ok |-> FALSE, checked |-> FALSE]

RcIds == DOMAIN KeyfileOf

RcTypeOK ==
    /\ \A id \in RcIds :
          /\ keyfile[id] \in [KeyNames -> STRING] /\ onDisk4[id] \in [KeyNames -> STRING]
          /\ repos4[id].kind \in {"REMOTE", "LOCAL", "MEDIA"}
          /\ repos4[id].enabled \in {{}, {"METADATA"}, {"PACKAGES", "METADATA"}}
          /\ \A o \in OptNames :
                repos4[id].conf[o].pri \in {"DEFAULT", "REPOCONFIG", "RUNTIME"}
    /\ ToSet(repoList) \subseteq RcIds

RcInit ==
    /\ keyfile = KeyfileOf
    /\ onDisk4 = KeyfileOf
    /\ repos4 = [id \in RcIds |-> NewDnfRepo("REMOTE")]
    /\ repoList = << >>
    /\ confEdits = 0

-----------------------------------------------------------------------------
Rank == [DEFAULT |-> 0, REPOCONFIG |-> 1, RUNTIME |-> 2]

\* Option::set (external: dnf-4's copy of libdnf's options, module Conf).
SetOpt(conf, o, pri, val) ==
    IF Rank[pri] >= Rank[conf[o].pri] THEN [conf EXCEPT ![o] = [pri |-> pri, val |-> val]] ELSE conf

SetAll(conf, pri, new) ==
    [o \in OptNames |-> IF o \in DOMAIN new THEN SetOpt(conf, o, pri, new[o])[o] ELSE conf[o]]

\* dnf_repo_get_boolean: a value that is no boolean is FALSE, with a warning.
GetBoolean(k, key) == IF k[key] \in {"1", "true", "yes"} THEN "1" ELSE "0"

\* dnf_repo_parse_time_from_str: ok and the seconds, of a string that says
\* num (nonum: no number at all) with a unit.
Multiplier == [s |-> 1, m |-> 60, h |-> 3600, d |-> 86400, none |-> 1]
ParseTime(expr) ==
    IF expr = "" THEN [ok |-> FALSE, sec |-> 0]
    ELSE IF expr \in {"-1", "never"} THEN [ok |-> TRUE, sec |-> MaxUint]
    ELSE LET e == TimeExprs[expr]
         IN IF \/ e.unit \notin DOMAIN Multiplier \/ e.nonum \/ e.num < 0
               \/ e.num * Multiplier[e.unit] > MaxUint
            THEN [ok |-> FALSE, sec |-> 0]
            ELSE [ok |-> TRUE, sec |-> e.num * Multiplier[e.unit]]

\* "mirrorlist" may really be a metalink; a "metalink" key wins over that.
MetalinkUrl(k) ==
    IF k.metalink # Unset THEN k.metalink
    ELSE IF k.mirrorlist = "a metalink" THEN k.mirrorlist ELSE Unset
MirrorlistUrl(k) == IF k.mirrorlist = "a metalink" THEN Unset ELSE k.mirrorlist

Present(k, keys) == {key \in keys : k[key] # Unset}

\* What dnf_repo_set_keyfile_data gives the HyRepo's options, and at which of
\* its steps: every option is set at most once.
KeyfileStep ==
    [skip_if_unavailable |-> 1, cost |-> 2, module_hotfixes |-> 3, metadata_expire |-> 4,
     metalink |-> 5, mirrorlist |-> 5, countme |-> 6, gpgcheck |-> 6, repo_gpgcheck |-> 6,
     excludepkgs |-> 7, includepkgs |-> 8]

KeyfileGives(k) ==
    Present(k, OptNames \ ({"metalink", "mirrorlist"} \cup {o \in {"cost"} : k.cost = "0"}))
        \cup {"module_hotfixes", "excludepkgs"}
        \cup {o \in {"metalink"} : MetalinkUrl(k) # Unset}
        \cup {o \in {"mirrorlist"} : MirrorlistUrl(k) # Unset}

\* excludepkgs is emptied; then the texts of both keys are appended to it.
KeyfileValue(k, o) ==
    CASE o \in {"cost", "includepkgs"} -> k[o]
      [] o = "metadata_expire" -> ToString(ParseTime(k.metadata_expire).sec)
      [] o = "metalink" -> MetalinkUrl(k)
      [] o = "mirrorlist" -> MirrorlistUrl(k)
      [] o = "excludepkgs" -> {k[key] : key \in Present(k, {"exclude", "excludepkgs"})}
      [] o = "module_hotfixes" -> IF k[o] \in {"1", "true"} THEN "1" ELSE "0"
      [] OTHER -> GetBoolean(k, o)

\* cost and metadata_expire have the priority of the program's own calls.
KeyfilePri(o) == IF o \in {"cost", "metadata_expire"} THEN "RUNTIME" ELSE "REPOCONFIG"

\* The options after the first n steps.
KeyfileConf(conf, k, n) ==
    [o \in OptNames |->
        IF KeyfileStep[o] <= n /\ o \in KeyfileGives(k)
        THEN SetOpt(conf, o, KeyfilePri(o), KeyfileValue(k, o))[o]
        ELSE conf[o]]

IsFileRepo(k) ==
    k.baseurl \in {"file", "testdata"} /\ MirrorlistUrl(k) = Unset /\ MetalinkUrl(k) = Unset

\* Kind and directories.  Nothing takes a repository back from LOCAL, and a
\* location once set stays unless the keyfile names another file:// URL.
Placed(r, k) ==
    LET kind == IF IsFileRepo(k) /\ k.baseurl = "file" THEN "LOCAL" ELSE r.kind
        loc == IF IsFileRepo(k) THEN k.baseurl ELSE r.location
        fromCache == loc = Unset
    IN [r EXCEPT !.kind = kind,
                 !.location = IF fromCache THEN "cache" ELSE loc,
                 !.keyring = IF IsFileRepo(k) THEN k.baseurl ELSE IF fromCache THEN "cache" ELSE @,
                 !.packages = IF fromCache \/ @ = Unset THEN "cache" ELSE @,
                 !.tmp = IF kind # "REMOTE" THEN @ ELSE IF fromCache THEN "cache" ELSE loc]

\* The handle's options that come from the keyfile: where to download from,
\* and after the test of the keys the rest.
UrlHandle(h, k) ==
    [h EXCEPT !.urls = k.baseurl, !.mirrorlist = MirrorlistUrl(k), !.metalink = MetalinkUrl(k),
              !.local = FALSE]
KeyfileHandle(h, k, gpgcheck) ==
    [UrlHandle(h, k) EXCEPT
              !.gpgcheck = gpgcheck,
              !.proxy = IF k.proxy = Unset THEN ContextProxy
                        ELSE IF k.proxy = "_none_" THEN Unset ELSE k.proxy,
              !.userpwd = <<k.username, k.password>>]

\* dnf_repo_set_keyfile_data.  It fails half-way on a bad metadata_expire and
\* when metadata is to be verified without a key.
SetKeyfileData(r, k) ==
    LET badTime == k.metadata_expire # Unset /\ ~ ParseTime(k.metadata_expire).ok
        conf == KeyfileConf(r.conf, k, 6)
        keys == IF k.gpgkey = "" THEN Unset ELSE k.gpgkey
        noKey == conf.repo_gpgcheck.val = "1" /\ keys = Unset
    IN IF badTime THEN [r EXCEPT !.handle.urls = k.baseurl, !.ok = FALSE,
                                 !.conf = KeyfileConf(r.conf, k, 3)]
       ELSE IF noKey THEN [Placed(r, k) EXCEPT !.conf = conf, !.keys = keys, !.ok = FALSE,
                                               !.handle = UrlHandle(@, k)]
       ELSE [Placed(r, k) EXCEPT !.conf = KeyfileConf(r.conf, k, 8), !.keys = keys, !.ok = TRUE,
                                 !.handle = KeyfileHandle(@, k, conf.repo_gpgcheck.val)]

\* dnf_repo_set_enabled: packages implies metadata.
Implied(E) == IF "PACKAGES" \in E THEN E \cup {"METADATA"} ELSE E

\* dnf_repo_setup: what to enable, the TLS options, then the keyfile's data.
SetupRepo(r, id, k) ==
    LET pkgs == k.enabled = Unset \/ GetBoolean(k, "enabled") = "1"
        meta == IF k.enabled_metadata # Unset THEN GetBoolean(k, "enabled_metadata") = "1"
                ELSE id \in RedhatRepo
        ssl == IF k.sslverify # Unset THEN GetBoolean(k, "sslverify") ELSE "1"
    IN SetKeyfileData([r EXCEPT !.enabled = Implied((IF pkgs THEN {"PACKAGES"} ELSE {})
                                                     \cup (IF meta THEN {"METADATA"} ELSE {})),
                                !.handle.sslverify = ssl], k)

-----------------------------------------------------------------------------
\* dnf_repo_loader_repo_parse_id.
ParsedRepo(id) == SetupRepo(NewDnfRepo("REMOTE"), id, onDisk4[id])

\* dnf_repo_loader_add_media: the calls it makes before dnf_repo_setup.
MediaRepo(id) ==
    LET preset == [o \in {"gpgcheck", "skip_if_unavailable", "cost"} |->
                      IF o = "cost" THEN "100" ELSE "1"]
        new == NewDnfRepo("MEDIA")
    IN SetupRepo([new EXCEPT !.conf = SetAll(@, "RUNTIME", preset), !.location = "mount",
                             !.packages = "mount", !.keyring = "mount"], id, onDisk4[id])

\* dnf_repo_loader_get_repos_removable and add_sack_from_mount_point: the
\* read-only iso9660 mounts with a .treeinfo.
MediaIds == [i \in DOMAIN SelectSeq(Mounts, LAMBDA m : m.readonly /\ m.iso /\ m.treeinfo) |->
                SelectSeq(Mounts, LAMBDA m : m.readonly /\ m.iso /\ m.treeinfo)[i].id]

CostOf(r) == TimeExprs[r.conf.cost.val].num

\* dnf_repo_loader_refresh: the repositories of the files, then the media;
\* the first that cannot be set up ends it and leaves the list short.
Refresh4 ==
    LET ids == RepoFileIds \o MediaIds
        made == [id \in RcIds |-> IF id \in ToSet(MediaIds) THEN MediaRepo(id) ELSE ParsedRepo(id)]
        bad == {i \in DOMAIN ids : ~ made[ids[i]].ok}
        kept == IF bad = {} THEN ids ELSE SubSeq(ids, 1, (CHOOSE i \in bad : \A j \in bad : i <= j) - 1)
    IN /\ repos4' = [id \in RcIds |-> IF id \in ToSet(kept) THEN made[id] ELSE repos4[id]]
       /\ repoList' = IF bad = {} THEN SortSeq(ids, LAMBDA a, b : CostOf(made[a]) < CostOf(made[b]))
                      ELSE kept
       /\ keyfile' = [id \in RcIds |-> IF id \in ToSet(kept) THEN onDisk4[id] ELSE keyfile[id]]
       /\ UNCHANGED <<onDisk4, confEdits>>

InList(id) == id \in ToSet(repoList)
Edited == confEdits < MaxConfEdits /\ confEdits' = confEdits + 1

\* dnf_repo_set_cost, _gpgcheck, _gpgcheck_md, _skip_if_unavailable, _required,
\* _module_hotfixes, _metadata_expire.
SetRuntime(id, o, val) ==
    /\ InList(id) /\ Edited
    /\ repos4' = [repos4 EXCEPT ![id].conf = SetOpt(@, o, "RUNTIME", val), ![id].checked = FALSE]
    /\ UNCHANGED <<keyfile, onDisk4, repoList>>

\* dnf_repo_set_data, and dnf_repo_commit, which writes the whole keyfile.
SetData(id, key, val) ==
    /\ InList(id) /\ Edited
    /\ keyfile' = [keyfile EXCEPT ![id][key] = val]
    /\ repos4' = [repos4 EXCEPT ![id].checked = FALSE]
    /\ UNCHANGED <<onDisk4, repoList>>

CommitConf(id) ==
    /\ InList(id) /\ repos4[id].kind # "MEDIA"
    /\ onDisk4' = [onDisk4 EXCEPT ![id] = keyfile[id]]
    /\ UNCHANGED <<keyfile, repos4, repoList, confEdits>>

CheckedRepoSlip(r, k) == [SetKeyfileData(r, k) EXCEPT !.checked = @ \/ SetKeyfileData(r, k).ok]

\* dnf_repo_check_internal points the handle at the repository's directory.
AtLocation(r) ==
    [r EXCEPT !.handle.urls = r.location, !.handle.local = TRUE,
              !.handle.mirrorlist = Unset, !.handle.metalink = Unset, !.checked = FALSE]

\* The end of it: a new HyRepo, filled from the keyfile.
CheckedRepo(r, k) ==
    LET new == SetKeyfileData([AtLocation(r) EXCEPT !.conf = FreshConf], k)
    IN [new EXCEPT !.checked = new.ok]

CheckConf(id) ==
    /\ InList(id)
    /\ repos4' = [repos4 EXCEPT ![id] = CheckedRepo(repos4[id], keyfile[id])]
    /\ UNCHANGED <<keyfile, onDisk4, repoList, confEdits>>

\* It fails before: the directory of a medium or a local repository is gone,
\* which disables it unless it is required, or the metadata are incomplete or
\* too old, which leaves the handle where it was pointed at.
Vanished(r) == [r EXCEPT !.enabled = IF r.conf["skip_if_unavailable"].val = "1" THEN {} ELSE @, !.checked = FALSE]

CheckConfFails(id) ==
    /\ InList(id)
    /\ \/ /\ repos4[id].kind \in {"MEDIA", "LOCAL"}
          /\ repos4' = [repos4 EXCEPT ![id] = Vanished(@)]
       \/ repos4' = [repos4 EXCEPT ![id] = AtLocation(@)]
    /\ UNCHANGED <<keyfile, onDisk4, repoList, confEdits>>

\* dnf_repo_update and dnf_repo_download_packages copy the keyfile onto the
\* HyRepo that is there.
ReuseConf(id) ==
    /\ InList(id)
    /\ repos4' = [repos4 EXCEPT ![id] = SetKeyfileData(repos4[id], keyfile[id])]
    /\ UNCHANGED <<keyfile, onDisk4, repoList, confEdits>>

\* dnf_context_repo_enable and dnf_context_repo_disable (dnf-context.cpp).
RepoSetEnabled(id, E) ==
    /\ InList(id) /\ Edited
    /\ repos4' = [repos4 EXCEPT ![id].enabled = Implied(E)]
    /\ UNCHANGED <<keyfile, onDisk4, repoList>>

RcNext ==
    \/ Refresh4
    \/ \E id \in RcIds :
          \/ \E e \in RuntimeSets : SetRuntime(id, e[1], e[2])
          \/ \E e \in DataEdits : SetData(id, e[1], e[2])
          \/ CommitConf(id) \/ CheckConf(id) \/ CheckConfFails(id) \/ ReuseConf(id)
          \/ \E E \in {{}, {"PACKAGES"}} : RepoSetEnabled(id, E)

RcSpec == RcInit /\ [][RcNext]_rcVars

-----------------------------------------------------------------------------
\* After a successful dnf_repo_check the configuration and librepo's handle are
\* those of a repository newly set up from the same keyfile, whatever the
\* program had set, changed, checked or downloaded before ("ensure we reset the
\* values from the keyfile", dnf_repo_check_internal).
CheckedIsFresh ==
    \A id \in RcIds : repos4[id].checked =>
        LET new == SetKeyfileData(NewDnfRepo(repos4[id].kind), keyfile[id])
        IN /\ repos4[id].conf = new.conf
           /\ repos4[id].keys = new.keys
           /\ [repos4[id].handle EXCEPT !.sslverify = "1"] = new.handle

=============================================================================
