----------------------------- MODULE SackLoader -----------------------------
(***************************************************************************)
(* microdnf/context.cpp, Context::load_rpm_repos(): the main thread brings *)
(* the metadata of the repositories up to date one after the other and     *)
(* hands each to a second thread, which loads it into the solv sack.  They *)
(* share prepared_repos (under prepared_repos_mutex), a condition variable *)
(* and the atomic flag `except`.  A step below is what a thread does       *)
(* between two accesses to shared state.                                   *)
(***************************************************************************)
EXTENDS Naturals, Sequences

CONSTANTS
    NumRepos,           \* repos.size()
    SkipIfUnavailable   \* repositories with that option on

ASSUME SackLoaderAssumption ==
    /\ NumRepos \in Nat
    /\ SkipIfUnavailable \subseteq 1 .. NumRepos

Repo    == 1 .. NumRepos
NullPtr == 0            \* the mark "work is done" in prepared_repos

VARIABLES
    mpc,        \* the main thread
    i,          \* the repository its loop is at
    lpc,        \* thread_sack_loader
    taken,      \* the `repo` local of the thread
    prepared,   \* prepared_repos
    numLoaded,  \* num_repos_loaded_to_solv_sack
    except,     \* the atomic flag
    exceptPtr,  \* except_ptr is set
    sack,       \* repositories in the solv sack, in the order of loading
    failed      \* repositories whose metadata could not be loaded (history)

main   == <<mpc, i, failed>>
loader == <<lpc, taken, numLoaded, exceptPtr, sack>>
vars   == <<main, loader, prepared, except>>

MainPC == {"check", "load", "push", "notify", "finish", "finish_notify", "join",
           "final_check", "report", "returned", "threw"}
LoaderPC == {"lock", "waiting", "taken", "load", "catch", "done"}

TypeOK ==
    /\ mpc \in MainPC
    /\ i \in 1 .. NumRepos + 1
    /\ lpc \in LoaderPC
    /\ taken \in Repo \cup {NullPtr}
    /\ prepared \in Seq(Repo \cup {NullPtr})
    /\ numLoaded \in Nat
    /\ except \in BOOLEAN
    /\ exceptPtr \in BOOLEAN
    /\ sack \in Seq(Repo)
    /\ failed \subseteq Repo

Init ==
    /\ mpc = "check" /\ i = 1
    /\ lpc = "lock" /\ taken = NullPtr
    /\ prepared = <<>> /\ numLoaded = 0
    /\ except = FALSE /\ exceptPtr = FALSE
    /\ sack = <<>> /\ failed = {}

-----------------------------------------------------------------------------
\* The main thread.

MainGoto(step) == mpc' = step /\ UNCHANGED <<i, failed>>

\* catch_thread_sack_loader_exceptions() at the head of the loop, and its end
CheckLoader ==
    /\ mpc = "check"
    /\ MainGoto(IF i > NumRepos THEN "finish" ELSE IF except THEN "report" ELSE "load")
    /\ UNCHANGED <<loader, prepared, except>>

\* load_rpm_repo() succeeds
LoadRpmRepo ==
    /\ mpc = "load"
    /\ MainGoto("push")
    /\ UNCHANGED <<loader, prepared, except>>

\* load_rpm_repo() throws; the failure is skipped or ends the whole load
LoadRpmRepoFails ==
    /\ mpc = "load"
    /\ failed' = failed \cup {i}
    /\ IF i \in SkipIfUnavailable
         THEN mpc' = "check" /\ i' = i + 1 /\ UNCHANGED except
         ELSE mpc' = "finish" /\ except' = TRUE /\ UNCHANGED i
    /\ UNCHANGED <<loader, prepared>>

PushRepo ==
    /\ mpc = "push"
    /\ prepared' = Append(prepared, i)
    /\ MainGoto("notify")
    /\ UNCHANGED <<loader, except>>

\* notify_one() wakes the thread if it is waiting, and is lost otherwise
Notify ==
    /\ mpc \in {"notify", "finish_notify"}
    /\ lpc' = IF lpc = "waiting" THEN "lock" ELSE lpc
    /\ IF mpc = "notify" THEN mpc' = "check" /\ i' = i + 1
                         ELSE mpc' = "join" /\ UNCHANGED i
    /\ UNCHANGED <<failed, taken, numLoaded, exceptPtr, sack, prepared, except>>

\* slip: the end mark is pushed without notify_one()
PushNullSilently ==
    /\ mpc = "finish"
    /\ prepared' = Append(prepared, NullPtr)
    /\ MainGoto("join")
    /\ UNCHANGED <<loader, except>>

\* finish_sack_loader()
PushNull ==
    /\ mpc = "finish"
    /\ prepared' = Append(prepared, NullPtr)
    /\ MainGoto("finish_notify")
    /\ UNCHANGED <<loader, except>>

\* join(), then the exception of the main thread goes on, or the last check
Join ==
    /\ mpc = "join"
    /\ lpc = "done"
    /\ MainGoto(IF i \in failed THEN "threw" ELSE "final_check")
    /\ UNCHANGED <<loader, prepared, except>>

\* slip: the thread's exception is not looked at after join()
FinalCheckMissing ==
    /\ mpc = "final_check"
    /\ MainGoto("returned")
    /\ UNCHANGED <<loader, prepared, except>>

FinalCheck ==
    /\ mpc = "final_check"
    /\ MainGoto(IF except THEN "report" ELSE "returned")
    /\ UNCHANGED <<loader, prepared, except>>

\* join() unless it was done, rethrow, name prepared_repos[num_loaded], throw
Report ==
    /\ mpc = "report"
    /\ lpc = "done"
    /\ MainGoto("threw")
    /\ UNCHANGED <<loader, prepared, except>>

-----------------------------------------------------------------------------
\* The loader thread.

\* under the mutex: wait() while there is nothing to take, else take the next
Take ==
    /\ lpc = "lock"
    /\ IF Len(prepared) <= numLoaded
         THEN lpc' = "waiting" /\ UNCHANGED taken
         ELSE lpc' = "taken" /\ taken' = prepared[numLoaded + 1]
    /\ UNCHANGED <<main, numLoaded, exceptPtr, sack, prepared, except>>

\* wait() may return by itself
SpuriousWakeup ==
    /\ lpc = "waiting"
    /\ lpc' = "lock"
    /\ UNCHANGED <<main, taken, numLoaded, exceptPtr, sack, prepared, except>>

CheckTaken ==
    /\ lpc = "taken"
    /\ lpc' = IF taken = NullPtr \/ except THEN "done" ELSE "load"
    /\ UNCHANGED <<main, taken, numLoaded, exceptPtr, sack, prepared, except>>

\* solv_sack.load_repo()
LoadRepo ==
    /\ lpc = "load"
    /\ sack' = Append(sack, taken)
    /\ numLoaded' = numLoaded + 1
    /\ lpc' = "lock"
    /\ UNCHANGED <<main, taken, exceptPtr, prepared, except>>

LoadRepoFails ==
    /\ lpc = "load"
    /\ exceptPtr' = TRUE
    /\ lpc' = "catch"
    /\ UNCHANGED <<main, taken, numLoaded, sack, prepared, except>>

SetExcept ==
    /\ lpc = "catch"
    /\ except' = TRUE
    /\ lpc' = "done"
    /\ UNCHANGED <<main, taken, numLoaded, exceptPtr, sack, prepared>>

-----------------------------------------------------------------------------
MainStep == CheckLoader \/ LoadRpmRepo \/ LoadRpmRepoFails \/ PushRepo \/ Notify
              \/ PushNull \/ Join \/ FinalCheck \/ Report

LoaderStep == Take \/ CheckTaken \/ LoadRepo \/ LoadRepoFails \/ SetExcept

Ended == mpc \in {"returned", "threw"} /\ UNCHANGED vars

Next == MainStep \/ LoaderStep \/ SpuriousWakeup \/ Ended

Spec == Init /\ [][Next]_vars

\* both threads are scheduled; nothing obliges wait() to wake up by itself
FairSpec == Spec /\ WF_vars(MainStep) /\ WF_vars(LoaderStep)

-----------------------------------------------------------------------------
\* load_rpm_repos() returns normally only when every repository whose metadata
\* could be loaded is in the sack, each once and in the order of the query, and
\* every other one was allowed to be skipped.
ReturnMeansFilled ==
    mpc = "returned" =>
      /\ \A r \in Repo \ failed : \E k \in 1 .. Len(sack) : sack[k] = r
      /\ \A k \in 1 .. Len(sack) : sack[k] \notin failed
      /\ \A j, k \in 1 .. Len(sack) : j < k => sack[j] < sack[k]
      /\ failed \subseteq SkipIfUnavailable

\* load_rpm_repos() is left, by a return or an exception, only when the thread
\* has ended: otherwise its std::thread would be destroyed joinable, and the
\* thread would go on using the locals of a function that is gone.
NeverLeavesThread == mpc \in {"returned", "threw"} => lpc = "done"

\* When a failure of the thread is reported, the repository named in the message
\* is the one that failed: prepared_repos[num_repos_loaded_to_solv_sack] exists
\* and is not the end mark, and except_ptr holds the exception to rethrow.
ReportNamesCulprit ==
    mpc = "report" /\ lpc = "done" =>
      /\ exceptPtr
      /\ numLoaded < Len(prepared)
      /\ prepared[numLoaded + 1] # NullPtr

\* What load_rpm_repos() promises when it ends, whichever thread fails first.
LoaderContract == ReturnMeansFilled /\ NeverLeavesThread /\ ReportNamesCulprit

\* The call ends: no notification is lost and no thread waits for ever.
CallEnds == <>(mpc \in {"returned", "threw"})
=============================================================================
