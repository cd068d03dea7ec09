------------------------------ MODULE MCLoaders ------------------------------
(***************************************************************************)
(* Instances, for TLC, of the parts that load repositories: microdnf's     *)
(* loader thread (SackLoader), the context and repository loader of dnf-4  *)
(* (DnfContext), and the configuration of the repositories the latter      *)
(* makes (DnfRepoConf).  These models do not call each other: the first    *)
(* state picks the one at work.  The first two must come to an end, and    *)
(* only their actions are fair.                                            *)
(***************************************************************************)
EXTENDS SackLoader, DnfContext, DnfRepoConf

VARIABLE focus

LoadersInit ==
    /\ focus \in {"threads", "context", "conf"}
    /\ Init /\ CtxInit /\ RcInit
    /\ focus # "context" => \A f \in FileSet : repoFile[f] = 0

Threads(A) == focus = "threads" /\ A /\ UNCHANGED <<focus, ctxVars, rcVars>>

Context(A) == focus = "context" /\ A /\ UNCHANGED <<focus, vars, rcVars>>

Config(A) == focus = "conf" /\ A /\ UNCHANGED <<focus, vars, ctxVars>>

LoadersNext == Threads(Next) \/ Context(CtxNext) \/ Config(RcNext)

LoadersVars == <<focus, vars, ctxVars, rcVars>>

\* The fairness of SackLoader's FairSpec; and of the thread of the context: it
\* goes on with the call it is in, and between calls its main loop runs the
\* callbacks that are due and it asks for the repositories again and again.
LoadersSpec ==
    /\ LoadersInit /\ [][LoadersNext]_LoadersVars
    /\ WF_LoadersVars(Threads(MainStep)) /\ WF_LoadersVars(Threads(LoaderStep))
    /\ WF_LoadersVars(Context(RefreshParse \/ RefreshEnd \/ AddJob))
    /\ SF_LoadersVars(Context(MonitorCallback)) /\ SF_LoadersVars(Context(GetRepos))

\* load_rpm_repos() of microdnf ends in every schedule of its two threads, with
\* the spurious wakeups of condition_variable::wait: no notification is lost
\* and no thread waits for ever (CallEnds, where it applies).
ThreadsCallEnds == focus = "threads" => CallEnds

TwoRepoFiles == <<"a", "redhat">>

TwoPlugins == <<"p", "q">>

-----------------------------------------------------------------------------
\* One .repo file, and a disc with a .treeinfo beside an ordinary mount.
NoKeys == [k \in KeyNames |-> Unset]

FileIds == <<"fedora">>

TwoMounts == <<[id |-> "home", readonly |-> FALSE, iso |-> FALSE, treeinfo |-> FALSE],
               [id |-> "media", readonly |-> TRUE, iso |-> TRUE, treeinfo |-> TRUE]>>

Keyfiles ==
    [fedora |-> [NoKeys EXCEPT !.baseurl = "http", !.mirrorlist = "a metalink", !.metadata_expire = "6h"],
     media |-> NoKeys]

KeyEdits == {<<"mirrorlist", "a list">>, <<"repo_gpgcheck", "1">>, <<"gpgkey", "key">>,
             <<"metadata_expire", "soon">>, <<"baseurl", "file">>}

OptionSets == {<<"repo_gpgcheck", "1">>, <<"cost", "5">>}

TimeExpr(num, nonum, unit) == [num |-> num, nonum |-> nonum, unit |-> unit]

Times == [x \in {"6h", "soon", "5", "100", "1000"} |->
            CASE x = "6h" -> TimeExpr(6, FALSE, "h")
              [] x = "soon" -> TimeExpr(0, TRUE, "n")
              [] x = "5" -> TimeExpr(5, FALSE, "none")
              [] x = "100" -> TimeExpr(100, FALSE, "none")
              [] x = "1000" -> TimeExpr(1000, FALSE, "none")]
=============================================================================
