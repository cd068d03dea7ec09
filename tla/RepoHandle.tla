----------------------------- MODULE RepoHandle -----------------------------
(***************************************************************************)
(* How a repository of libdnf reaches its servers (rpm/repo.cpp): the      *)
(* librepo handle that Repo::Impl::lr_handle_init_remote fills from the    *)
(* configuration, the one that get_cached_handle keeps for url and package *)
(* downloads, the directories named after the source, the package targets  *)
(* and the log handlers that threads add and remove (LibrepoLog).          *)
(*                                                                         *)
(* A configuration is a record of the options that decide something;       *)
(* options that are only copied into the handle are left out.  Speeds are  *)
(* in tenths, so that throttle may be a fraction.  librepo and glib are    *)
(* external.                                                               *)
(***************************************************************************)
EXTENDS Integers, Sequences, FiniteSets

CONSTANTS
    RhConfs,        \* configurations of the repository
    LogThreads,     \* threads that use LibrepoLog
    MaxRhSteps,     \* bound: calls on the repository
    MaxHandlers     \* bound: handlers added

ASSUME RepoHandleAssumption == MaxRhSteps \in Nat /\ MaxHandlers \in Nat

VARIABLES
    rhConf,         \* the configuration now
    rhHeaders,      \* http_headers: how often they were set
    rhCallbacks,    \* callbacks: which object, 0 for none
    rhCached,       \* handle, with the headers and callbacks it was given
    rhFetched,      \* what load() fetched: from where, into which directory
    rhLast,         \* how the last call ended
    rhSteps,
    lrDatas,        \* lr_log_datas: [uid, data]
    lrUid,          \* static long uid of LibrepoLog::add_handler
    lrGlib,         \* the handlers registered with glib
    lrThread        \* where each thread is in add_handler

rhVars == <<rhConf, rhHeaders, rhCallbacks, rhCached, rhFetched, rhLast, rhSteps>>
lrVars == <<lrDatas, lrUid, lrGlib, lrThread>>

NoHandle == [source |-> "none", url |-> "none", speed |-> 0, timeout |-> 0,
             auth |-> "none", headers |-> 0, callbacks |-> 0]

RhTypeOK ==
    /\ rhConf \in RhConfs
    /\ rhCached.callbacks \in 0 .. MaxRhSteps
    /\ rhLast \in {"ok", "bad", "none"}
    /\ lrUid \in 0 .. MaxHandlers
    /\ \A e \in lrDatas : e.uid \in 1 .. lrUid

RhInit ==
    /\ rhConf \in RhConfs
    /\ rhHeaders = 0 /\ rhCallbacks = 0
    /\ rhCached = NoHandle
    /\ rhFetched = {}
    /\ rhLast = "none" /\ rhSteps = 0

LrInit ==
    /\ lrDatas = {} /\ lrUid = 0 /\ lrGlib = {}
    /\ lrThread = [t \in LogThreads |-> [pc |-> "idle", data |-> 0, got |-> 0]]

-----------------------------------------------------------------------------
(* The source of a repository.  Three functions choose one.                *)

HasUrl(url) == url # "none"

\* lr_handle_init_remote; a mirrorlist that looks like a metalink is offered
\* to librepo as one, too.
SourceOf(c) ==
    CASE HasUrl(c.metalink) -> [source |-> "METALINK", url |-> c.metalink]
      [] ~ HasUrl(c.metalink) /\ HasUrl(c.mirrorlist) ->
            [source |-> IF c.looksLikeMetalink THEN "METALINK" ELSE "MIRRORLIST",
             url |-> c.mirrorlist]
      [] ~ HasUrl(c.metalink) /\ ~ HasUrl(c.mirrorlist) /\ c.baseurl # << >> ->
            [source |-> "URLS", url |-> Head(c.baseurl)]
      [] OTHER -> [source |-> "none", url |-> "none"]

HashedUrlSlip(c) ==
    IF HasUrl(c.mirrorlist) THEN c.mirrorlist
    ELSE IF HasUrl(c.metalink) THEN c.metalink
    ELSE IF c.baseurl # << >> THEN Head(c.baseurl) ELSE "id"

\* get_hash, which names the cache and the persistent directory.
HashedUrl(c) ==
    IF HasUrl(c.metalink) THEN c.metalink
    ELSE IF HasUrl(c.mirrorlist) THEN c.mirrorlist
    ELSE IF c.baseurl # << >> THEN Head(c.baseurl) ELSE "id"

\* Repo::is_local.
IsLocalRepo(c) ==
    ~ HasUrl(c.metalink) /\ ~ HasUrl(c.mirrorlist) /\ c.baseurl # << >> /\ c.isFile

\* Repo::verify: some source is given, though a list may be empty.
Verified(c) ==
    /\ c.baseurlSet \/ HasUrl(c.metalink) \/ HasUrl(c.mirrorlist)
    /\ c.type \in {"", "rpm-md", "rpm", "repomd", "rpmmd", "yum", "YUM"}

-----------------------------------------------------------------------------
(* The options of a handle.                                                *)

\* A throttle up to one is a part of the bandwidth.
MaxSpeed(c) == IF c.throttle > 0 /\ c.throttle <= 10 THEN c.throttle * c.bandwidth ELSE c.throttle
TooSlow(c) == MaxSpeed(c) # 0 /\ MaxSpeed(c) < 10 * c.minrate
SpeedOpt(c) == MaxSpeed(c) \div 10

TimeoutOpt(c) == IF c.timeout > 0 THEN c.timeout ELSE 120

AuthOpt(c) ==
    IF c.auth \in {"none", "basic", "digest", "negotiate", "ntlm", "digest_ie", "ntlm_wb", "any"}
    THEN c.auth ELSE "any"

\* lr_handle_init_remote throws without a source and for a throttle below the
\* minimum rate.
InitRemoteFails(c) == SourceOf(c).source = "none" \/ TooSlow(c)
InitRemote(c) ==
    [source |-> SourceOf(c).source, url |-> SourceOf(c).url, speed |-> SpeedOpt(c),
     timeout |-> TimeoutOpt(c), auth |-> AuthOpt(c), headers |-> rhHeaders,
     callbacks |-> rhCallbacks]

\* new_handle, for downloads without a repository.
NewHandleFails(c) == TooSlow(c)

-----------------------------------------------------------------------------
Turn == rhSteps < MaxRhSteps /\ rhSteps' = rhSteps + 1

\* An option is changed, as the command line or a program does at run time.
SetConf(c) ==
    /\ Turn /\ rhConf' = c
    /\ UNCHANGED <<rhHeaders, rhCallbacks, rhCached, rhFetched, rhLast>>

\* set_http_headers and set_callbacks.
SetHeaders ==
    /\ Turn /\ rhHeaders' = rhHeaders + 1
    /\ UNCHANGED <<rhConf, rhCallbacks, rhCached, rhFetched, rhLast>>

SetCallbacks ==
    /\ Turn /\ rhCallbacks' = rhSteps'
    /\ UNCHANGED <<rhConf, rhHeaders, rhCached, rhFetched, rhLast>>

VerifyRepo ==
    /\ Turn /\ rhLast' = IF Verified(rhConf) THEN "ok" ELSE "bad"
    /\ UNCHANGED <<rhConf, rhHeaders, rhCallbacks, rhCached, rhFetched>>

\* load() and download_metadata(): a handle of their own, the cache directory
\* of the configuration of the moment.
FetchMetadata ==
    /\ Turn
    /\ IF InitRemoteFails(rhConf)
       THEN rhLast' = "bad" /\ UNCHANGED rhFetched
       ELSE /\ rhLast' = "ok"
            /\ rhFetched' = rhFetched \cup {[from |-> InitRemote(rhConf).url,
                                              source |-> InitRemote(rhConf).source,
                                              dir |-> HashedUrl(rhConf),
                                              local |-> IsLocalRepo(rhConf)]}
    /\ UNCHANGED <<rhConf, rhHeaders, rhCallbacks, rhCached>>

\* get_cached_handle: made once, but with the headers of now.
GetCachedHandle ==
    IF rhCached = NoHandle THEN InitRemote(rhConf) ELSE [rhCached EXCEPT !.headers = rhHeaders]

\* download_url and PackageTarget on a repository; the transfer itself, and a
\* target that resumes and has a start, may fail.
DownloadWithRepo ==
    /\ Turn
    /\ IF rhCached = NoHandle /\ InitRemoteFails(rhConf)
       THEN rhLast' = "bad" /\ UNCHANGED rhCached
       ELSE rhCached' = GetCachedHandle /\ rhLast' \in {"ok", "bad"}
    /\ UNCHANGED <<rhConf, rhHeaders, rhCallbacks, rhFetched>>

\* Downloader::download_url and PackageTarget on the main configuration.
DownloadWithConfig ==
    /\ Turn
    /\ rhLast' \in IF NewHandleFails(rhConf) THEN {"bad"} ELSE {"ok", "bad"}
    /\ UNCHANGED <<rhConf, rhHeaders, rhCallbacks, rhCached, rhFetched>>

RhNext ==
    \/ \E c \in RhConfs : SetConf(c)
    \/ SetHeaders \/ SetCallbacks
    \/ VerifyRepo
    \/ FetchMetadata
    \/ DownloadWithRepo
    \/ DownloadWithConfig

RhSpec == RhInit /\ [][RhNext]_rhVars

-----------------------------------------------------------------------------
(* LibrepoLog.                                                             *)

Datas == {lrThread[t].data : t \in LogThreads} \cup {e.data : e \in lrDatas}
FreshData == CHOOSE n \in 1 .. MaxHandlers + 1 : n \notin Datas \cup lrGlib

\* add_handler: the file is opened and the handler registered ...
AddOpen(t) ==
    /\ lrThread[t].pc \in {"idle", "done"}
    /\ lrUid + Cardinality({u \in LogThreads : lrThread[u].pc = "opened"}) < MaxHandlers
    /\ lrThread' = [lrThread EXCEPT ![t] = [pc |-> "opened", data |-> FreshData, got |-> 0]]
    /\ lrGlib' = lrGlib \cup {FreshData}
    /\ UNCHANGED <<lrDatas, lrUid>>

\* ... the data is saved and numbered under the mutex ...
AddSave(t) ==
    /\ lrThread[t].pc = "opened"
    /\ lrUid' = lrUid + 1
    /\ lrDatas' = lrDatas \cup {[uid |-> lrUid', data |-> lrThread[t].data]}
    /\ lrThread' = [lrThread EXCEPT ![t].pc = "saved"]
    /\ UNCHANGED lrGlib

\* ... and the static counter is read again, without the mutex.
AddReturn(t) ==
    /\ lrThread[t].pc = "saved"
    /\ lrThread' = [lrThread EXCEPT ![t].pc = "done", ![t].got = lrUid]
    /\ UNCHANGED <<lrDatas, lrUid, lrGlib>>

\* remove_handler of the number add_handler returned, which throws when there
\* is no such handler, and remove_all_handlers.
RemoveHandler(t) ==
    /\ lrThread[t].pc = "done"
    /\ LET gone == {e \in lrDatas : e.uid = lrThread[t].got}
       IN lrDatas' = lrDatas \ gone /\ lrGlib' = lrGlib \ {e.data : e \in gone}
    /\ lrThread' = [lrThread EXCEPT ![t] = [pc |-> "idle", data |-> 0, got |-> 0]]
    /\ UNCHANGED lrUid

RemoveAllHandlers ==
    /\ lrDatas # {}
    /\ lrDatas' = {} /\ lrGlib' = lrGlib \ {e.data : e \in lrDatas}
    /\ UNCHANGED <<lrUid, lrThread>>

LrNext == RemoveAllHandlers \/ \E t \in LogThreads : AddOpen(t) \/ AddSave(t) \/ AddReturn(t) \/ RemoveHandler(t)

-----------------------------------------------------------------------------
\* The metadata in a cache directory came from the source the directory is
\* named after, and a repository that calls itself local asks no list of
\* mirrors, however the options were changed in between: get_hash, is_local
\* and lr_handle_init_remote choose the same source.
SourcesAgree ==
    \A f \in rhFetched : f.dir = f.from /\ (f.local => f.source = "URLS")

=============================================================================
