-------------------------- MODULE SackLoaderProofs --------------------------
(***************************************************************************)
(* Proofs about the two loaders of repositories: SackLoader, for every     *)
(* number of repositories, and the context of dnf-4, for every list of     *)
(* .repo files.                                                            *)
(***************************************************************************)
EXTENDS SackLoader, DnfContext, TLAPS

\* the loop is at a repository while it works on one
LoopInRange == mpc \in {"load", "push", "notify"} => i \in Repo

\* the end mark is the last element of prepared_repos, and only finish_sack_loader()
\* puts it there
Marked == mpc \in {"finish_notify", "join", "final_check", "returned"}
EndMark ==
    /\ mpc \in {"check", "load", "push", "notify", "finish"} =>
         \A k \in 1 .. Len(prepared) : prepared[k] # NullPtr
    /\ Marked =>
         /\ Len(prepared) >= 1 /\ prepared[Len(prepared)] = NullPtr
         /\ \A k \in 1 .. Len(prepared) : k < Len(prepared) => prepared[k] # NullPtr

\* what was handed over: the repositories the loop has passed, without the failed ones
Passed(r) == r < i \/ (mpc = "notify" /\ r = i)
HandedOver ==
    /\ \A k \in 1 .. Len(prepared) :
         prepared[k] # NullPtr => Passed(prepared[k]) /\ prepared[k] \notin failed
    /\ \A j, k \in 1 .. Len(prepared) :
         j < k /\ prepared[k] # NullPtr => prepared[j] < prepared[k]
    /\ \A r \in Repo : Passed(r) => r \in failed \/ \E k \in 1 .. Len(prepared) : prepared[k] = r
    /\ mpc \in {"check", "load", "push", "notify"} => i \notin failed
    /\ \A r \in failed : r <= i

\* what the thread has done of it
Taken ==
    /\ Len(sack) = numLoaded
    /\ numLoaded <= Len(prepared)
    /\ \A k \in 1 .. numLoaded : sack[k] = prepared[k] /\ prepared[k] # NullPtr
    /\ lpc \in {"taken", "load", "catch"} =>
         numLoaded < Len(prepared) /\ taken = prepared[numLoaded + 1]
    /\ lpc \in {"load", "catch"} => taken # NullPtr

\* a failure that may not be skipped is the one the main thread is leaving for
Aborting == i \in failed /\ mpc \in {"finish", "finish_notify", "join", "threw"}
Failures ==
    /\ failed \subseteq SkipIfUnavailable \/ Aborting
    /\ mpc \in {"finish", "finish_notify", "join", "final_check", "returned"} /\ ~Aborting =>
         i = NumRepos + 1
    /\ mpc \in {"final_check", "returned"} => i \notin failed

\* who set `except`, and why the thread has ended
Signals ==
    /\ except => exceptPtr \/ Aborting
    /\ exceptPtr =>
         /\ lpc = "catch" \/ (lpc = "done" /\ except)
         /\ numLoaded < Len(prepared) /\ prepared[numLoaded + 1] # NullPtr
    /\ lpc = "catch" => exceptPtr
    /\ lpc = "done" =>
         except \/ (numLoaded < Len(prepared) /\ prepared[numLoaded + 1] = NullPtr)
    /\ mpc \in {"final_check", "returned", "threw"} => lpc = "done"
    /\ mpc = "report" => except
    /\ mpc = "returned" => ~except

IInv == /\ TypeOK /\ LoopInRange /\ EndMark /\ HandedOver /\ Taken /\ Failures /\ Signals

\* The initial state satisfies the inductive invariant.
LEMMA InitIInv == Init => IInv
<1> USE SackLoaderAssumption DEF Init, Repo, NullPtr
<1> SUFFICES ASSUME Init PROVE IInv
  OBVIOUS
<1>1. TypeOK
  <2>1. prepared \in Seq(Repo \cup {NullPtr}) /\ sack \in Seq(Repo)
    OBVIOUS
  <2>2. mpc \in MainPC /\ lpc \in LoaderPC /\ i \in 1 .. NumRepos + 1
    BY DEF MainPC, LoaderPC
  <2>3. except \in BOOLEAN /\ exceptPtr \in BOOLEAN
    OBVIOUS
  <2> QED
    BY <2>1, <2>2, <2>3 DEF TypeOK
<1>2. LoopInRange /\ EndMark
  BY DEF LoopInRange, EndMark, Marked
<1>3. HandedOver
  BY DEF HandedOver, Passed
<1>4. Taken
  BY DEF Taken
<1>5. Failures /\ Signals
  BY DEF Failures, Aborting, Signals
<1> QED
  BY <1>1, <1>2, <1>3, <1>4, <1>5 DEF IInv

\* Every step of either thread keeps it.
LEMMA NextIInv == IInv /\ [Next]_vars => IInv'
<1> USE SackLoaderAssumption DEF Repo, NullPtr, main, loader, MainGoto
<1> SUFFICES ASSUME IInv, [Next]_vars PROVE IInv'
  OBVIOUS
<1>0. TypeOK /\ LoopInRange /\ EndMark /\ HandedOver /\ Taken /\ Failures /\ Signals
  BY DEF IInv
<1>1. CASE CheckLoader
  <2>1. TypeOK'
    BY <1>0, <1>1 DEF CheckLoader, TypeOK, LoopInRange, MainPC, LoaderPC
  <2>2. LoopInRange'
    BY <1>0, <1>1 DEF CheckLoader, TypeOK, LoopInRange
  <2>3. EndMark'
    BY <1>0, <1>1 DEF CheckLoader, TypeOK, EndMark, Marked
  <2>4. HandedOver'
    BY <1>0, <1>1 DEF CheckLoader, TypeOK, LoopInRange, EndMark, HandedOver, Passed
  <2>5. Taken'
    BY <1>0, <1>1 DEF CheckLoader, TypeOK, Taken
  <2>6. Failures'
    BY <1>0, <1>1 DEF CheckLoader, TypeOK, LoopInRange, HandedOver, Failures, Aborting
  <2>7. Signals'
    BY <1>0, <1>1 DEF CheckLoader, TypeOK, HandedOver, Taken, Failures, Aborting, Signals
  <2> QED
    BY <2>1, <2>2, <2>3, <2>4, <2>5, <2>6, <2>7 DEF IInv
<1>2. CASE LoadRpmRepo
  <2>1. TypeOK'
    BY <1>0, <1>2 DEF LoadRpmRepo, TypeOK, LoopInRange, MainPC, LoaderPC
  <2>2. LoopInRange'
    BY <1>0, <1>2 DEF LoadRpmRepo, TypeOK, LoopInRange
  <2>3. EndMark'
    BY <1>0, <1>2 DEF LoadRpmRepo, TypeOK, EndMark, Marked
  <2>4. HandedOver'
    BY <1>0, <1>2 DEF LoadRpmRepo, TypeOK, LoopInRange, EndMark, HandedOver, Passed
  <2>5. Taken'
    BY <1>0, <1>2 DEF LoadRpmRepo, TypeOK, Taken
  <2>6. Failures'
    BY <1>0, <1>2 DEF LoadRpmRepo, TypeOK, LoopInRange, HandedOver, Failures, Aborting
  <2>7. Signals'
    BY <1>0, <1>2 DEF LoadRpmRepo, TypeOK, HandedOver, Taken, Failures, Aborting, Signals
  <2> QED
    BY <2>1, <2>2, <2>3, <2>4, <2>5, <2>6, <2>7 DEF IInv
<1>3. CASE LoadRpmRepoFails
  <2>1. TypeOK'
    <3>1. failed' \subseteq Repo
      BY <1>0, <1>3 DEF LoadRpmRepoFails, TypeOK, LoopInRange
    <3>2. mpc' \in MainPC /\ i' \in 1 .. NumRepos + 1
      BY <1>0, <1>3 DEF LoadRpmRepoFails, TypeOK, LoopInRange, MainPC
    <3>3. except' \in BOOLEAN
      BY <1>0, <1>3, Zenon DEF LoadRpmRepoFails, TypeOK
    <3> QED
      BY <1>0, <1>3, <3>1, <3>2, <3>3 DEF LoadRpmRepoFails, TypeOK
  <2>2. LoopInRange'
    BY <1>0, <1>3 DEF LoadRpmRepoFails, TypeOK, LoopInRange
  <2>3. EndMark'
    BY <1>0, <1>3 DEF LoadRpmRepoFails, TypeOK, EndMark, Marked
  <2>4. HandedOver'
    <3> USE <1>0, <1>3 DEF LoadRpmRepoFails, TypeOK, LoopInRange, HandedOver, Passed
    <3>1. \A k \in 1 .. Len(prepared) :
            prepared[k] # NullPtr => prepared[k] < i' /\ prepared[k] \notin failed'
      BY DEF EndMark
    <3>2. \A r \in Repo : r < i' =>
            r \in failed' \/ \E k \in 1 .. Len(prepared) : prepared[k] = r
      <4> SUFFICES ASSUME NEW r \in Repo, r < i', r \notin failed'
                   PROVE  \E k \in 1 .. Len(prepared) : prepared[k] = r
        OBVIOUS
      <4>1. r < i /\ r \notin failed
        OBVIOUS
      <4> QED
        BY <4>1
    <3>3. \A r \in failed' : r <= i'
      OBVIOUS
    <3> QED
      BY <3>1, <3>2, <3>3
  <2>5. Taken'
    BY <1>0, <1>3 DEF LoadRpmRepoFails, TypeOK, Taken
  <2>6. Failures'
    BY <1>0, <1>3 DEF LoadRpmRepoFails, TypeOK, LoopInRange, HandedOver, Failures, Aborting
  <2>7. Signals'
    BY <1>0, <1>3 DEF LoadRpmRepoFails, TypeOK, HandedOver, Taken, Failures, Aborting, Signals
  <2> QED
    BY <2>1, <2>2, <2>3, <2>4, <2>5, <2>6, <2>7 DEF IInv
<1>4. CASE PushRepo
  <2>1. TypeOK'
    BY <1>0, <1>4 DEF PushRepo, TypeOK, LoopInRange, MainPC, LoaderPC
  <2>2. LoopInRange'
    BY <1>0, <1>4 DEF PushRepo, TypeOK, LoopInRange
  <2>3. EndMark'
    BY <1>0, <1>4 DEF PushRepo, TypeOK, EndMark, Marked
  <2>4. HandedOver'
    BY <1>0, <1>4 DEF PushRepo, TypeOK, LoopInRange, EndMark, HandedOver, Passed
  <2>5. Taken'
    BY <1>0, <1>4 DEF PushRepo, TypeOK, Taken
  <2>6. Failures'
    BY <1>0, <1>4 DEF PushRepo, TypeOK, LoopInRange, HandedOver, Failures, Aborting
  <2>7. Signals'
    BY <1>0, <1>4 DEF PushRepo, TypeOK, HandedOver, Taken, Failures, Aborting, Signals
  <2> QED
    BY <2>1, <2>2, <2>3, <2>4, <2>5, <2>6, <2>7 DEF IInv
<1>5. CASE Notify
  <2>1. TypeOK'
    BY <1>0, <1>5 DEF Notify, TypeOK, LoopInRange, MainPC, LoaderPC
  <2>2. LoopInRange'
    BY <1>0, <1>5 DEF Notify, TypeOK, LoopInRange
  <2>3. EndMark'
    BY <1>0, <1>5 DEF Notify, TypeOK, EndMark, Marked
  <2>4. HandedOver'
    <3> USE <1>0, <1>5 DEF Notify, TypeOK, LoopInRange, HandedOver, Passed
    <3>1. CASE mpc = "notify"
      <4>1. i' = i + 1 /\ mpc' = "check"
        BY <3>1
      <4>2. \A r \in Repo : r < i' <=> Passed(r)
        BY <3>1, <4>1
      <4>3. i' \notin failed
        BY <3>1, <4>1
      <4> QED
        BY <3>1, <4>1, <4>2, <4>3
    <3>2. CASE mpc = "finish_notify"
      BY <3>2
    <3> QED
      BY <3>1, <3>2
  <2>5. Taken'
    BY <1>0, <1>5 DEF Notify, TypeOK, Taken
  <2>6. Failures'
    BY <1>0, <1>5 DEF Notify, TypeOK, LoopInRange, HandedOver, Failures, Aborting
  <2>7. Signals'
    BY <1>0, <1>5 DEF Notify, TypeOK, HandedOver, Taken, Failures, Aborting, Signals
  <2> QED
    BY <2>1, <2>2, <2>3, <2>4, <2>5, <2>6, <2>7 DEF IInv
<1>6. CASE PushNull
  <2>1. TypeOK'
    BY <1>0, <1>6 DEF PushNull, TypeOK, LoopInRange, MainPC, LoaderPC
  <2>2. LoopInRange'
    BY <1>0, <1>6 DEF PushNull, TypeOK, LoopInRange
  <2>3. EndMark'
    BY <1>0, <1>6 DEF PushNull, TypeOK, EndMark, Marked
  <2>4. HandedOver'
    BY <1>0, <1>6 DEF PushNull, TypeOK, LoopInRange, EndMark, HandedOver, Passed
  <2>5. Taken'
    BY <1>0, <1>6 DEF PushNull, TypeOK, Taken
  <2>6. Failures'
    BY <1>0, <1>6 DEF PushNull, TypeOK, LoopInRange, HandedOver, Failures, Aborting
  <2>7. Signals'
    BY <1>0, <1>6 DEF PushNull, TypeOK, HandedOver, Taken, Failures, Aborting, Signals
  <2> QED
    BY <2>1, <2>2, <2>3, <2>4, <2>5, <2>6, <2>7 DEF IInv
<1>7. CASE Join
  <2>1. TypeOK'
    BY <1>0, <1>7 DEF Join, TypeOK, LoopInRange, MainPC, LoaderPC
  <2>2. LoopInRange'
    BY <1>0, <1>7 DEF Join, TypeOK, LoopInRange
  <2>3. EndMark'
    BY <1>0, <1>7 DEF Join, TypeOK, EndMark, Marked
  <2>4. HandedOver'
    BY <1>0, <1>7 DEF Join, TypeOK, LoopInRange, EndMark, HandedOver, Passed
  <2>5. Taken'
    BY <1>0, <1>7 DEF Join, TypeOK, Taken
  <2>6. Failures'
    BY <1>0, <1>7 DEF Join, TypeOK, LoopInRange, HandedOver, Failures, Aborting
  <2>7. Signals'
    BY <1>0, <1>7 DEF Join, TypeOK, HandedOver, Taken, Failures, Aborting, Signals
  <2> QED
    BY <2>1, <2>2, <2>3, <2>4, <2>5, <2>6, <2>7 DEF IInv
<1>8. CASE FinalCheck
  <2>1. TypeOK'
    BY <1>0, <1>8 DEF FinalCheck, TypeOK, LoopInRange, MainPC, LoaderPC
  <2>2. LoopInRange'
    BY <1>0, <1>8 DEF FinalCheck, TypeOK, LoopInRange
  <2>3. EndMark'
    BY <1>0, <1>8 DEF FinalCheck, TypeOK, EndMark, Marked
  <2>4. HandedOver'
    BY <1>0, <1>8 DEF FinalCheck, TypeOK, LoopInRange, EndMark, HandedOver, Passed
  <2>5. Taken'
    BY <1>0, <1>8 DEF FinalCheck, TypeOK, Taken
  <2>6. Failures'
    BY <1>0, <1>8 DEF FinalCheck, TypeOK, LoopInRange, HandedOver, Failures, Aborting
  <2>7. Signals'
    BY <1>0, <1>8 DEF FinalCheck, TypeOK, HandedOver, Taken, Failures, Aborting, Signals
  <2> QED
    BY <2>1, <2>2, <2>3, <2>4, <2>5, <2>6, <2>7 DEF IInv
<1>9. CASE Report
  <2>1. TypeOK'
    BY <1>0, <1>9 DEF Report, TypeOK, LoopInRange, MainPC, LoaderPC
  <2>2. LoopInRange'
    BY <1>0, <1>9 DEF Report, TypeOK, LoopInRange
  <2>3. EndMark'
    BY <1>0, <1>9 DEF Report, TypeOK, EndMark, Marked
  <2>4. HandedOver'
    BY <1>0, <1>9 DEF Report, TypeOK, LoopInRange, EndMark, HandedOver, Passed
  <2>5. Taken'
    BY <1>0, <1>9 DEF Report, TypeOK, Taken
  <2>6. Failures'
    BY <1>0, <1>9 DEF Report, TypeOK, LoopInRange, HandedOver, Failures, Aborting
  <2>7. Signals'
    BY <1>0, <1>9 DEF Report, TypeOK, HandedOver, Taken, Failures, Aborting, Signals
  <2> QED
    BY <2>1, <2>2, <2>3, <2>4, <2>5, <2>6, <2>7 DEF IInv
<1>10. CASE Take
  <2>1. TypeOK'
    BY <1>0, <1>10 DEF Take, TypeOK, LoopInRange, MainPC, LoaderPC
  <2>2. LoopInRange'
    BY <1>0, <1>10 DEF Take, TypeOK, LoopInRange
  <2>3. EndMark'
    BY <1>0, <1>10 DEF Take, TypeOK, EndMark, Marked
  <2>4. HandedOver'
    BY <1>0, <1>10 DEF Take, TypeOK, LoopInRange, EndMark, HandedOver, Passed
  <2>5. Taken'
    BY <1>0, <1>10 DEF Take, TypeOK, Taken
  <2>6. Failures'
    BY <1>0, <1>10 DEF Take, TypeOK, LoopInRange, HandedOver, Failures, Aborting
  <2>7. Signals'
    BY <1>0, <1>10 DEF Take, TypeOK, HandedOver, Taken, Failures, Aborting, Signals
  <2> QED
    BY <2>1, <2>2, <2>3, <2>4, <2>5, <2>6, <2>7 DEF IInv
<1>11. CASE SpuriousWakeup
  <2>1. TypeOK'
    BY <1>0, <1>11 DEF SpuriousWakeup, TypeOK, LoopInRange, MainPC, LoaderPC
  <2>2. LoopInRange'
    BY <1>0, <1>11 DEF SpuriousWakeup, TypeOK, LoopInRange
  <2>3. EndMark'
    BY <1>0, <1>11 DEF SpuriousWakeup, TypeOK, EndMark, Marked
  <2>4. HandedOver'
    BY <1>0, <1>11 DEF SpuriousWakeup, TypeOK, LoopInRange, EndMark, HandedOver, Passed
  <2>5. Taken'
    BY <1>0, <1>11 DEF SpuriousWakeup, TypeOK, Taken
  <2>6. Failures'
    BY <1>0, <1>11 DEF SpuriousWakeup, TypeOK, LoopInRange, HandedOver, Failures, Aborting
  <2>7. Signals'
    BY <1>0, <1>11 DEF SpuriousWakeup, TypeOK, HandedOver, Taken, Failures, Aborting, Signals
  <2> QED
    BY <2>1, <2>2, <2>3, <2>4, <2>5, <2>6, <2>7 DEF IInv
<1>12. CASE CheckTaken
  <2>1. TypeOK'
    BY <1>0, <1>12 DEF CheckTaken, TypeOK, LoopInRange, MainPC, LoaderPC
  <2>2. LoopInRange'
    BY <1>0, <1>12 DEF CheckTaken, TypeOK, LoopInRange
  <2>3. EndMark'
    BY <1>0, <1>12 DEF CheckTaken, TypeOK, EndMark, Marked
  <2>4. HandedOver'
    BY <1>0, <1>12 DEF CheckTaken, TypeOK, LoopInRange, EndMark, HandedOver, Passed
  <2>5. Taken'
    BY <1>0, <1>12 DEF CheckTaken, TypeOK, Taken
  <2>6. Failures'
    BY <1>0, <1>12 DEF CheckTaken, TypeOK, LoopInRange, HandedOver, Failures, Aborting
  <2>7. Signals'
    BY <1>0, <1>12 DEF CheckTaken, TypeOK, HandedOver, Taken, Failures, Aborting, Signals
  <2> QED
    BY <2>1, <2>2, <2>3, <2>4, <2>5, <2>6, <2>7 DEF IInv
<1>13. CASE LoadRepo
  <2>1. TypeOK'
    BY <1>0, <1>13 DEF LoadRepo, Taken, TypeOK, LoopInRange, MainPC, LoaderPC
  <2>2. LoopInRange'
    BY <1>0, <1>13 DEF LoadRepo, TypeOK, LoopInRange
  <2>3. EndMark'
    BY <1>0, <1>13 DEF LoadRepo, TypeOK, EndMark, Marked
  <2>4. HandedOver'
    BY <1>0, <1>13 DEF LoadRepo, TypeOK, LoopInRange, EndMark, HandedOver, Passed
  <2>5. Taken'
    BY <1>0, <1>13 DEF LoadRepo, TypeOK, Taken
  <2>6. Failures'
    BY <1>0, <1>13 DEF LoadRepo, TypeOK, LoopInRange, HandedOver, Failures, Aborting
  <2>7. Signals'
    BY <1>0, <1>13 DEF LoadRepo, TypeOK, HandedOver, Taken, Failures, Aborting, Signals
  <2> QED
    BY <2>1, <2>2, <2>3, <2>4, <2>5, <2>6, <2>7 DEF IInv
<1>14. CASE LoadRepoFails
  <2>1. TypeOK'
    BY <1>0, <1>14 DEF LoadRepoFails, TypeOK, LoopInRange, MainPC, LoaderPC
  <2>2. LoopInRange'
    BY <1>0, <1>14 DEF LoadRepoFails, TypeOK, LoopInRange
  <2>3. EndMark'
    BY <1>0, <1>14 DEF LoadRepoFails, TypeOK, EndMark, Marked
  <2>4. HandedOver'
    BY <1>0, <1>14 DEF LoadRepoFails, TypeOK, LoopInRange, EndMark, HandedOver, Passed
  <2>5. Taken'
    BY <1>0, <1>14 DEF LoadRepoFails, TypeOK, Taken
  <2>6. Failures'
    BY <1>0, <1>14 DEF LoadRepoFails, TypeOK, LoopInRange, HandedOver, Failures, Aborting
  <2>7. Signals'
    BY <1>0, <1>14 DEF LoadRepoFails, TypeOK, HandedOver, Taken, Failures, Aborting, Signals
  <2> QED
    BY <2>1, <2>2, <2>3, <2>4, <2>5, <2>6, <2>7 DEF IInv
<1>15. CASE SetExcept
  <2>1. TypeOK'
    BY <1>0, <1>15 DEF SetExcept, TypeOK, LoopInRange, MainPC, LoaderPC
  <2>2. LoopInRange'
    BY <1>0, <1>15 DEF SetExcept, TypeOK, LoopInRange
  <2>3. EndMark'
    BY <1>0, <1>15 DEF SetExcept, TypeOK, EndMark, Marked
  <2>4. HandedOver'
    BY <1>0, <1>15 DEF SetExcept, TypeOK, LoopInRange, EndMark, HandedOver, Passed
  <2>5. Taken'
    BY <1>0, <1>15 DEF SetExcept, TypeOK, Taken
  <2>6. Failures'
    BY <1>0, <1>15 DEF SetExcept, TypeOK, LoopInRange, HandedOver, Failures, Aborting
  <2>7. Signals'
    BY <1>0, <1>15 DEF SetExcept, TypeOK, HandedOver, Taken, Failures, Aborting, Signals
  <2> QED
    BY <2>1, <2>2, <2>3, <2>4, <2>5, <2>6, <2>7 DEF IInv
<1>16. CASE UNCHANGED vars
  <2>1. TypeOK'
    BY <1>0, <1>16 DEF vars, TypeOK, LoopInRange, MainPC, LoaderPC
  <2>2. LoopInRange'
    BY <1>0, <1>16 DEF vars, TypeOK, LoopInRange
  <2>3. EndMark'
    BY <1>0, <1>16 DEF vars, TypeOK, EndMark, Marked
  <2>4. HandedOver'
    BY <1>0, <1>16 DEF vars, TypeOK, LoopInRange, EndMark, HandedOver, Passed
  <2>5. Taken'
    BY <1>0, <1>16 DEF vars, TypeOK, Taken
  <2>6. Failures'
    BY <1>0, <1>16 DEF vars, TypeOK, LoopInRange, HandedOver, Failures, Aborting
  <2>7. Signals'
    BY <1>0, <1>16 DEF vars, TypeOK, HandedOver, Taken, Failures, Aborting, Signals
  <2> QED
    BY <2>1, <2>2, <2>3, <2>4, <2>5, <2>6, <2>7 DEF IInv
<1> QED
  BY <1>1, <1>2, <1>3, <1>4, <1>5, <1>6, <1>7, <1>8, <1>9, <1>10, <1>11, <1>12, <1>13, <1>14, <1>15, <1>16 DEF Next, MainStep, LoaderStep, Ended

\* load_rpm_repos() never leaves the thread behind, blames the right repository
\* and returns normally only with the sack filled: the invariants of the run,
\* for any number of repositories.
THEOREM LoaderCorrect ==
  Spec => [](TypeOK /\ LoaderContract)
<1>1. IInv => ReturnMeansFilled
  <2> SUFFICES ASSUME IInv, mpc = "returned" PROVE ReturnMeansFilled
    BY DEF ReturnMeansFilled
  <2> USE SackLoaderAssumption DEF IInv, TypeOK, Repo, NullPtr
  <2>1. Len(sack) = numLoaded /\ numLoaded + 1 = Len(prepared)
    BY DEF Signals, EndMark, Marked, Taken
  <2>2. i = NumRepos + 1 /\ failed \subseteq SkipIfUnavailable
    BY DEF Failures, Aborting
  <2>3. \A k \in 1 .. Len(sack) : k \in 1 .. Len(prepared) /\ sack[k] = prepared[k] /\ prepared[k] # NullPtr
    BY <2>1 DEF Taken
  <2>4. \A k \in 1 .. Len(prepared) : prepared[k] # NullPtr => k \in 1 .. Len(sack)
    BY <2>1 DEF EndMark, Marked
  <2>5. ASSUME NEW r \in Repo, r \notin failed PROVE \E k \in 1 .. Len(sack) : sack[k] = r
    <3>1. PICK k \in 1 .. Len(prepared) : prepared[k] = r
      BY <2>2, <2>5 DEF HandedOver, Passed
    <3> QED
      BY <3>1, <2>3, <2>4
  <2>6. \A k \in 1 .. Len(sack) : sack[k] \notin failed
    BY <2>3 DEF HandedOver
  <2>7. \A j, k \in 1 .. Len(sack) : j < k => sack[j] < sack[k]
    BY <2>3 DEF HandedOver
  <2> QED
    BY <2>2, <2>5, <2>6, <2>7 DEF ReturnMeansFilled
<1>2. IInv => NeverLeavesThread
  BY DEF IInv, Signals, NeverLeavesThread
<1>3. IInv => ReportNamesCulprit
  BY DEF IInv, Signals, Aborting, ReportNamesCulprit
<1>4. IInv => TypeOK
  BY DEF IInv
<1>5. IInv => TypeOK /\ LoaderContract
  BY <1>1, <1>2, <1>3, <1>4 DEF LoaderContract
<1>6. QED
  BY <1>5, InitIInv, NextIInv, PTL DEF Spec

-----------------------------------------------------------------------------
(* The repository loader of dnf-4.                                         *)

FileVersions == Versions \cup {0, RhsmVersion}
Refreshing == ctx.pc \in {"refresh", "setupRefresh"}
ReadSoFar == Len(RepoFiles) - Len(ctxLoader.reading)

CtxTypes ==
    /\ repoFile \in [FileSet -> FileVersions]
    /\ monitorEvent \in BOOLEAN
    /\ ctxLoader \in [made : BOOLEAN, loaded : BOOLEAN, repos : Seq(FileSet \X FileVersions),
                      reading : Seq(FileSet), gone : SUBSET FileSet]
    /\ ctx \in [pc : {"idle", "refresh", "setupRefresh", "adding"}, setups : Nat, edits : Nat,
                ready : BOOLEAN, sack : Nat, sacks : Nat, goal : Nat]

\* During a refresh the loader is not loaded, still has to read the last files,
\* and lists what the others hold unless one was written since.
MidRefresh ==
    /\ ctxLoader.made /\ ~ ctxLoader.loaded
    /\ ReadSoFar \in Nat
    /\ \A k \in 1 .. Len(ctxLoader.reading) : ctxLoader.reading[k] = RepoFiles[ReadSoFar + k]
    /\ ~ monitorEvent => Lists(ctxLoader.repos, ReadSoFar, repoFile)

CtxInv ==
    /\ CtxTypes
    /\ Refreshing => MidRefresh
    /\ ctxLoader.loaded => ctxLoader.made
    /\ LoaderFresh

LEMMA FilesAre ==
    /\ Len(RepoFiles) \in Nat /\ RepoFiles \in Seq(FileSet)
    /\ \A x \in 1 .. Len(RepoFiles) : RepoFiles[x] \in FileSet
  <1>1. RepoFiles \in Seq(STRING)
    BY DnfContextAssumption
  <1>2. DOMAIN RepoFiles = 1 .. Len(RepoFiles) /\ Len(RepoFiles) \in Nat
    BY <1>1
  <1>3. \A x \in 1 .. Len(RepoFiles) : RepoFiles[x] \in FileSet
    BY <1>2 DEF FileSet, ToSet
  <1> QED BY <1>1, <1>2, <1>3

LEMMA NothingRead == ASSUME NEW version PROVE Lists(<< >>, 0, version)
  <1> DEFINE at == [k \in {} |-> 0]
             s == << >>
  <1>1. DOMAIN s = {} /\ at \in [DOMAIN s -> 1 .. 0]
    OBVIOUS
  <1> HIDE DEF s
  <1>2. Lists(s, 0, version)
    <2>1. \A j, k \in DOMAIN s : j < k => at[j] < at[k]
      BY <1>1
    <2>2. \A x \in 1 .. 0 : version[RepoFiles[x]] # 0 => \E k \in DOMAIN s : at[k] = x
      OBVIOUS
    <2>3. \A k \in DOMAIN s : /\ version[RepoFiles[at[k]]] # 0
                              /\ s[k] = <<RepoFiles[at[k]], version[RepoFiles[at[k]]]>>
      BY <1>1
    <2> HIDE DEF at
    <2> QED BY <1>1, <2>1, <2>2, <2>3, Zenon DEF Lists
  <1> QED BY <1>2 DEF s

\* A refresh that starts has read nothing.
LEMMA StartsMidRefresh ==
    ASSUME CtxTypes', ctxLoader'.made, ~ ctxLoader'.loaded, ctxLoader'.repos = << >>,
           ctxLoader'.reading = RepoFiles
    PROVE MidRefresh' /\ CtxInv'
  <1>1. ReadSoFar' = 0
    BY FilesAre DEF ReadSoFar
  <1>2. Lists(ctxLoader'.repos, ReadSoFar', repoFile')
    BY <1>1, NothingRead
  <1>3. MidRefresh'
    BY <1>1, <1>2, FilesAre DEF MidRefresh
  <1> QED BY <1>3 DEF CtxInv, LoaderFresh

LEMMA CtxInvInit == CtxInit => CtxInv
  <1> SUFFICES ASSUME CtxInit PROVE CtxInv
    OBVIOUS
  <1>1. ctxLoader.made = FALSE /\ ctxLoader.loaded = FALSE /\ ctx.pc = "idle"
    BY DEF CtxInit, NoLoader
  <1>2. repoFile \in [FileSet -> FileVersions] /\ monitorEvent \in BOOLEAN
    BY DEF CtxInit, FileVersions
  <1>3. ctxLoader \in [made : BOOLEAN, loaded : BOOLEAN, repos : Seq(FileSet \X FileVersions),
                       reading : Seq(FileSet), gone : SUBSET FileSet]
    BY DEF CtxInit, NoLoader
  <1>4. ctx \in [pc : {"idle", "refresh", "setupRefresh", "adding"}, setups : Nat, edits : Nat,
                 ready : BOOLEAN, sack : Nat, sacks : Nat, goal : Nat]
    BY DEF CtxInit
  <1> QED BY <1>1, <1>2, <1>3, <1>4 DEF CtxInv, CtxTypes, Refreshing, LoaderFresh

\* Reading one more file adds its entry, or nothing when it is missing.
LEMMA ReadOneMore ==
    ASSUME NEW version, NEW n \in Nat, NEW S, NEW repos \in Seq(S),
           Lists(repos, n, version)
    PROVE /\ version[RepoFiles[n + 1]] = 0 => Lists(repos, n + 1, version)
          /\ version[RepoFiles[n + 1]] # 0 /\ <<RepoFiles[n + 1], version[RepoFiles[n + 1]]>> \in S =>
                Lists(Append(repos, <<RepoFiles[n + 1], version[RepoFiles[n + 1]]>>), n + 1, version)
  <1> DEFINE m == n + 1
             e == <<RepoFiles[m], version[RepoFiles[m]]>>
             r == Append(repos, e)
             len == Len(repos)
  <1>1. PICK at \in [DOMAIN repos -> 1 .. n] :
           /\ \A j, k \in DOMAIN repos : j < k => at[j] < at[k]
           /\ \A x \in 1 .. n : version[RepoFiles[x]] # 0 => \E k \in DOMAIN repos : at[k] = x
           /\ \A k \in DOMAIN repos :
                 /\ version[RepoFiles[at[k]]] # 0
                 /\ repos[k] = <<RepoFiles[at[k]], version[RepoFiles[at[k]]]>>
    BY DEF Lists
  <1>2. DOMAIN repos = 1 .. len /\ len \in Nat
    OBVIOUS
  <1>3. m \in Nat /\ m = n + 1
    OBVIOUS
  <1> HIDE DEF m
  <1>4. ASSUME version[RepoFiles[m]] = 0 PROVE Lists(repos, m, version)
    <2>1. at \in [DOMAIN repos -> 1 .. m]
      BY <1>1, <1>3
    <2>2. \A x \in 1 .. m : version[RepoFiles[x]] # 0 => \E k \in DOMAIN repos : at[k] = x
      <3> TAKE x \in 1 .. m
      <3>1. CASE x = m
        BY <3>1, <1>4
      <3>2. CASE x \in 1 .. n
        BY <3>2, <1>1
      <3> QED BY <3>1, <3>2, <1>3
    <2> QED BY <2>1, <2>2, <1>1 DEF Lists
  <1>5. ASSUME version[RepoFiles[m]] # 0, e \in S PROVE Lists(r, m, version)
    <2> DEFINE up == [k \in 1 .. len + 1 |-> IF k = len + 1 THEN m ELSE at[k]]
    <2> HIDE DEF e
    <2>1. /\ r \in Seq(S) /\ DOMAIN r = 1 .. len + 1 /\ r[len + 1] = e
          /\ \A k \in 1 .. len : r[k] = repos[k]
      BY <1>2, <1>5
    <2>2. /\ up \in [DOMAIN r -> 1 .. m] /\ up[len + 1] = m
          /\ \A k \in 1 .. len : up[k] = at[k] /\ at[k] \in 1 .. n
      <3>1. \A k \in 1 .. len : at[k] \in 1 .. n
        BY <1>1, <1>2
      <3>2. ASSUME NEW k \in 1 .. len + 1 PROVE up[k] \in 1 .. m
        BY <3>1, <1>2, <1>3
      <3>3. \A k \in 1 .. len : up[k] = at[k]
        BY <1>2
      <3> HIDE DEF r
      <3> QED BY <3>1, <3>2, <3>3, <1>2, <2>1
    <2> HIDE DEF up, r
    <2>3. ASSUME NEW j \in DOMAIN r, NEW k \in DOMAIN r, j < k PROVE up[j] < up[k]
      <3>1. j \in 1 .. len /\ up[j] = at[j] /\ at[j] \in 1 .. n
        BY <2>3, <2>1, <2>2, <1>2
      <3>2. CASE k = len + 1
        BY <3>1, <3>2, <2>2, <1>3
      <3>3. CASE k # len + 1
        BY <3>1, <3>3, <2>1, <2>2, <2>3, <1>1, <1>2
      <3> QED BY <3>2, <3>3
    <2>4. ASSUME NEW x \in 1 .. m, version[RepoFiles[x]] # 0
          PROVE \E k \in DOMAIN r : up[k] = x
      <3>1. CASE x = m
        BY <3>1, <1>2, <2>1, <2>2
      <3>2. CASE x # m
        <4>1. PICK k \in DOMAIN repos : at[k] = x
          BY <3>2, <2>4, <1>1, <1>3
        <4> QED BY <4>1, <1>2, <2>1, <2>2
      <3> QED BY <3>1, <3>2
    <2>5. ASSUME NEW k \in DOMAIN r
          PROVE /\ version[RepoFiles[up[k]]] # 0
                /\ r[k] = <<RepoFiles[up[k]], version[RepoFiles[up[k]]]>>
      <3>1. CASE k = len + 1
        BY <3>1, <2>1, <2>2, <1>5 DEF e
      <3>2. CASE k # len + 1
        BY <3>2, <2>1, <2>2, <1>1, <1>2
      <3> QED BY <3>1, <3>2
    <2> QED BY <2>2, <2>3, <2>4, <2>5 DEF Lists
  <1> QED BY <1>4, <1>5 DEF m

LEMMA CtxInvNext == CtxInv /\ [CtxNext]_ctxVars => CtxInv'
  <1> SUFFICES ASSUME CtxInv, [CtxNext]_ctxVars PROVE CtxInv'
    OBVIOUS
  <1> DEFINE Loaders == [made : BOOLEAN, loaded : BOOLEAN, repos : Seq(FileSet \X FileVersions),
                         reading : Seq(FileSet), gone : SUBSET FileSet]
             Contexts == [pc : {"idle", "refresh", "setupRefresh", "adding"}, setups : Nat, edits : Nat,
                          ready : BOOLEAN, sack : Nat, sacks : Nat, goal : Nat]
  <1>0. CtxTypes /\ repoFile \in [FileSet -> FileVersions] /\ ctxLoader \in Loaders /\ ctx \in Contexts
    BY DEF CtxInv, CtxTypes
  <1>e. Enrolled \in [FileSet -> FileVersions]
    BY <1>0 DEF Enrolled, FileVersions
  <1>f. RepoFiles \in Seq(FileSet) /\ << >> \in Seq(FileSet \X FileVersions)
    BY FilesAre
  <1>1. CASE ContextSetup
    <2>1. CASE /\ ctxLoader' = [NoLoader EXCEPT !.made = TRUE, !.reading = RepoFiles]
               /\ ctx' = [ctx EXCEPT !.pc = "setupRefresh", !.setups = @ + 1, !.ready = FALSE]
               /\ repoFile' = Enrolled
               /\ monitorEvent' \in BOOLEAN
      <3>1. /\ ctxLoader' \in Loaders /\ ctxLoader'.made /\ ~ ctxLoader'.loaded
            /\ ctxLoader'.repos = << >> /\ ctxLoader'.reading = RepoFiles
        <4>1. NoLoader \in Loaders /\ NoLoader.loaded = FALSE /\ NoLoader.repos = << >>
          BY <1>f DEF NoLoader
        <4> QED BY <4>1, <2>1, <1>f
      <3>2. ctx' \in Contexts
        <4>1. ctx.setups + 1 \in Nat
          BY <1>0
        <4> QED BY <4>1, <2>1, <1>0
      <3>3. CtxTypes'
        BY <3>1, <3>2, <2>1, <1>e DEF CtxTypes
      <3> QED BY <3>1, <3>3, StartsMidRefresh
    <2>2. CASE /\ ctx' = [ctx EXCEPT !.setups = @ + 1]
               /\ UNCHANGED <<repoFile, monitorEvent, enrollmentValid, ctxLoader>>
      <3>1. ctx' \in Contexts /\ ctx'.pc = "idle"
        <4>1. ctx.setups + 1 \in Nat /\ ctx.pc = "idle"
          BY <1>0, <1>1 DEF ContextSetup
        <4> QED BY <4>1, <2>2, <1>0
      <3> QED BY <3>1, <2>2, <1>0 DEF CtxInv, CtxTypes, Refreshing, LoaderFresh
    <2>3. CASE SetupRefreshFails
      <3>1. ctxLoader' \in Loaders /\ ctxLoader'.loaded = FALSE
        <4>1. NoLoader \in Loaders /\ NoLoader.loaded = FALSE
          BY <1>f DEF NoLoader
        <4> QED BY <4>1, <2>3 DEF SetupRefreshFails
      <3>2. ctx' \in Contexts /\ ctx'.pc = "idle"
        <4>1. ctx.setups + 1 \in Nat /\ ctx.pc = "idle"
          BY <1>0, <1>1 DEF ContextSetup
        <4> QED BY <4>1, <2>3, <1>0 DEF SetupRefreshFails
      <3>3. repoFile' \in [FileSet -> FileVersions] /\ monitorEvent' \in BOOLEAN
        BY <2>3, <1>0, <1>e DEF SetupRefreshFails
      <3> QED BY <3>1, <3>2, <3>3 DEF CtxInv, CtxTypes, Refreshing, LoaderFresh
    <2>4. CASE SetupRefresh
      BY <2>1, <2>4 DEF SetupRefresh
    <2> QED BY <1>1, <2>2, <2>3, <2>4 DEF ContextSetup
  <1>2. CASE GetRepos
    <2>1. /\ ctxLoader' = [[ctxLoader EXCEPT !.loaded = FALSE]
                              EXCEPT !.repos = << >>, !.reading = RepoFiles, !.gone = {}]
          /\ ctx' = [ctx EXCEPT !.pc = "refresh"]
          /\ repoFile' = Enrolled
          /\ monitorEvent' = (monitorEvent \/ Enrolled # repoFile)
          /\ ctxLoader.made
      BY <1>2 DEF GetRepos, RefreshStart, SetupEnrollments, Invalidated
    <2>2. /\ ctxLoader' \in Loaders /\ ctxLoader'.made /\ ~ ctxLoader'.loaded
          /\ ctxLoader'.repos = << >> /\ ctxLoader'.reading = RepoFiles
      BY <2>1, <1>0, <1>f
    <2>3. ctx' \in Contexts
      BY <2>1, <1>0
    <2>4. CtxTypes'
      BY <2>1, <2>2, <2>3, <1>e DEF CtxTypes
    <2> QED BY <2>2, <2>4, StartsMidRefresh
  <1>3. CASE RefreshParse
    <2> DEFINE f == Head(ctxLoader.reading)
               n == ReadSoFar
    <2>1. Refreshing /\ ctxLoader.reading # << >>
      BY <1>3 DEF RefreshParse, Refreshing
    <2>2. MidRefresh
      BY <2>1 DEF CtxInv
    <2>3. /\ Len(ctxLoader.reading) \in Nat /\ Len(ctxLoader.reading) >= 1
          /\ f = ctxLoader.reading[1] /\ Tail(ctxLoader.reading) \in Seq(FileSet)
          /\ Len(Tail(ctxLoader.reading)) = Len(ctxLoader.reading) - 1
          /\ \A k \in 1 .. Len(ctxLoader.reading) - 1 :
                Tail(ctxLoader.reading)[k] = ctxLoader.reading[k + 1]
      BY <2>1, <1>0
    <2>4. n \in Nat /\ f = RepoFiles[n + 1] /\ n + 1 \in 1 .. Len(RepoFiles) /\ f \in FileSet
      <3>1. n \in Nat /\ ctxLoader.reading[1] = RepoFiles[n + 1]
        BY <2>2, <2>3 DEF MidRefresh
      <3>2. n + 1 \in 1 .. Len(RepoFiles)
        BY <3>1, <2>3, FilesAre DEF ReadSoFar
      <3> QED BY <3>1, <3>2, <2>3, FilesAre
    <2>5. /\ repoFile' = repoFile /\ monitorEvent' = monitorEvent
      BY <1>3 DEF RefreshParse
    <2>6. CASE /\ ctx' = [ctx EXCEPT !.pc = "idle"]
               /\ ctxLoader' = [ctxLoader EXCEPT !.reading = << >>]
      <3>1. ctxLoader' \in Loaders /\ ctxLoader'.loaded = FALSE /\ ctx' \in Contexts /\ ctx'.pc = "idle"
        <4>1. << >> \in Seq(FileSet) /\ ctxLoader.loaded = FALSE
          BY <2>2, <1>0 DEF MidRefresh
        <4>2. ctxLoader' \in Loaders /\ ctxLoader'.loaded = FALSE
          BY <4>1, <2>6, <1>0
        <4> QED BY <4>2, <2>6, <1>0
      <3> QED BY <3>1, <2>5, <1>0 DEF CtxInv, CtxTypes, Refreshing, LoaderFresh
    <2>7. ASSUME NEW l \in Loaders, ctxLoader' = l, ctx' = ctx, l.made = ctxLoader.made,
                 l.loaded = ctxLoader.loaded, l.reading = Tail(ctxLoader.reading),
                 ~ monitorEvent => Lists(l.repos, n + 1, repoFile)
          PROVE CtxInv'
      <3>1. ReadSoFar' = n + 1
        <4>1. ReadSoFar' = Len(RepoFiles) - Len(Tail(ctxLoader.reading))
          BY <2>7 DEF ReadSoFar
        <4>2. n = Len(RepoFiles) - Len(ctxLoader.reading)
          BY DEF ReadSoFar
        <4> DEFINE a == Len(RepoFiles)
                   b == Len(ctxLoader.reading)
        <4>3. a \in Nat /\ b \in Nat /\ ReadSoFar' = a - (b - 1)
          BY <4>1, <2>3, FilesAre
        <4> HIDE DEF a, b
        <4>4. a - (b - 1) = (a - b) + 1
          BY <4>3
        <4> QED BY <4>2, <4>3, <4>4 DEF a, b
      <3>2. ASSUME NEW k \in 1 .. Len(l.reading)
            PROVE l.reading[k] = RepoFiles[n + 1 + k]
        <4> HIDE DEF n
        <4>1. k \in 1 .. Len(ctxLoader.reading) - 1 /\ k + 1 \in 1 .. Len(ctxLoader.reading)
          BY <2>3, <2>7
        <4>2. ctxLoader.reading[k + 1] = RepoFiles[n + (k + 1)]
          BY <4>1, <2>2 DEF MidRefresh, n
        <4>3. n + (k + 1) = n + 1 + k
          BY <2>4, <4>1
        <4> QED BY <4>1, <4>2, <4>3, <2>3, <2>7
      <3>3. MidRefresh'
        BY <2>2, <2>4, <2>5, <2>7, <3>1, <3>2 DEF MidRefresh
      <3> QED BY <2>2, <2>5, <2>7, <3>3, <1>0 DEF CtxInv, CtxTypes, LoaderFresh, MidRefresh
    <2>8. CASE repoFile[f] = 0 /\ ctx' = ctx /\ ctxLoader' = [ctxLoader EXCEPT !.reading = Tail(@)]
      <3> DEFINE l == [ctxLoader EXCEPT !.reading = Tail(ctxLoader.reading)]
      <3>1. /\ l \in Loaders /\ l.made = ctxLoader.made /\ l.loaded = ctxLoader.loaded
            /\ l.reading = Tail(ctxLoader.reading) /\ l.repos = ctxLoader.repos
        BY <2>3, <1>0
      <3>2. ~ monitorEvent => Lists(ctxLoader.repos, n + 1, repoFile)
        BY <2>2, <2>4, <2>8, <1>0, ReadOneMore DEF MidRefresh
      <3>3. ctxLoader' = l
        BY <2>8
      <3> HIDE DEF l
      <3> QED BY <3>1, <3>2, <3>3, <2>7, <2>8
    <2>9. CASE /\ repoFile[f] # 0 /\ ctx' = ctx
               /\ ctxLoader' = [ctxLoader EXCEPT !.reading = Tail(@),
                                                 !.repos = Append(@, <<f, repoFile[f]>>)]
      <3> DEFINE e == <<f, repoFile[f]>>
                 l == [ctxLoader EXCEPT !.reading = Tail(ctxLoader.reading),
                                        !.repos = Append(ctxLoader.repos, e)]
      <3>1. e \in FileSet \X FileVersions
        BY <2>4, <1>0
      <3>2. Append(ctxLoader.repos, e) \in Seq(FileSet \X FileVersions)
        BY <3>1, <1>0
      <3>3. ctxLoader' = l
        BY <2>9
      <3>4. ~ monitorEvent => Lists(Append(ctxLoader.repos, e), n + 1, repoFile)
        BY <2>2, <2>4, <2>9, <3>1, <1>0, ReadOneMore DEF MidRefresh
      <3> HIDE DEF e
      <3>5. /\ l \in Loaders /\ l.made = ctxLoader.made /\ l.loaded = ctxLoader.loaded
            /\ l.reading = Tail(ctxLoader.reading) /\ l.repos = Append(ctxLoader.repos, e)
        BY <2>3, <3>2, <1>0
      <3> HIDE DEF l
      <3> QED BY <3>3, <3>4, <3>5, <2>7, <2>9
    <2> QED BY <1>3, <2>6, <2>8, <2>9 DEF RefreshParse
  <1>4. CASE RefreshEnd
    <2>1. Refreshing /\ ctxLoader.reading = << >>
      BY <1>4 DEF RefreshEnd, Refreshing
    <2>2. MidRefresh
      BY <2>1 DEF CtxInv
    <2>3. ReadSoFar = Len(RepoFiles)
      BY <2>1, FilesAre DEF ReadSoFar
    <2>4. /\ ctxLoader' \in Loaders /\ ctxLoader'.made /\ ctxLoader'.repos = ctxLoader.repos
          /\ repoFile' = repoFile /\ monitorEvent' = monitorEvent
      BY <1>4, <2>2, <1>0 DEF RefreshEnd, MidRefresh
    <2>5. ctx' \in Contexts /\ ctx'.pc = "idle"
      BY <1>4, <1>0 DEF RefreshEnd
    <2> QED BY <2>2, <2>3, <2>4, <2>5, <1>0 DEF CtxInv, CtxTypes, Refreshing, LoaderFresh, MidRefresh
  <1>5. CASE MonitorCallback
    <2>1. /\ ctxLoader' \in Loaders /\ ctxLoader'.loaded = FALSE /\ monitorEvent' = FALSE
          /\ repoFile' = repoFile /\ ctx' = ctx /\ ctx.pc = "idle"
      BY <1>5, <1>0 DEF MonitorCallback, Invalidated
    <2> QED BY <2>1, <1>0 DEF CtxInv, CtxTypes, Refreshing, LoaderFresh
  <1>6. ASSUME NEW f \in FileSet, NEW v \in Versions \cup {0}, EditRepoFile(f, v) PROVE CtxInv'
    <2>1. /\ ctxLoader' \in Loaders /\ ctxLoader'.made = ctxLoader.made
          /\ ctxLoader'.loaded = ctxLoader.loaded /\ ctxLoader'.repos = ctxLoader.repos
          /\ ctxLoader'.reading = ctxLoader.reading
          /\ repoFile' \in [FileSet -> FileVersions]
          /\ monitorEvent' = (monitorEvent \/ ctxLoader.made)
      BY <1>6, <1>0 DEF EditRepoFile, FileVersions
    <2>2. ctx' \in Contexts /\ ctx'.pc = ctx.pc
      <3>1. ctx.edits + 1 \in Nat /\ ctx' = [ctx EXCEPT !.edits = @ + 1]
        BY <1>6, <1>0 DEF EditRepoFile
      <3> QED BY <3>1, <1>0
    <2>3. CtxTypes'
      BY <2>1, <2>2, <1>0 DEF CtxTypes
    <2>4. ctxLoader.made => monitorEvent'
      BY <2>1
    <2>5. Refreshing' => MidRefresh'
      BY <2>1, <2>2, <2>4 DEF CtxInv, Refreshing, MidRefresh, ReadSoFar
    <2> QED BY <2>1, <2>3, <2>4, <2>5 DEF CtxInv, LoaderFresh
  <1>7. ASSUME ctx' \in Contexts, ctx'.pc \in {"idle", "adding"},
               UNCHANGED <<repoFile, monitorEvent, ctxLoader>>
        PROVE CtxInv'
    BY <1>7, <1>0 DEF CtxInv, CtxTypes, Refreshing, LoaderFresh
  <1>8. CASE MarkPackage
    <2>1. CASE ctx' = [ctx EXCEPT !.pc = "adding"]
      BY <2>1, <1>0, <1>7, <1>8 DEF MarkPackage
    <2>2. ASSUME NEW ok \in BOOLEAN, ctx' = [SetupSack(ok) EXCEPT !.pc = IF ok THEN "adding" ELSE "idle"]
          PROVE CtxInv'
      <3>1. SetupSack(ok) \in Contexts
        <4>1. ctx.sacks + 1 \in Nat /\ (IF ok THEN ctx.sacks + 1 ELSE ctx.goal) \in Nat
          BY <1>0
        <4> QED BY <4>1, <1>0 DEF SetupSack
      <3>2. ctx' \in Contexts /\ ctx'.pc \in {"idle", "adding"}
        BY <2>2, <3>1
      <3> QED BY <3>2, <1>7, <1>8 DEF MarkPackage
    <2> QED BY <1>8, <2>1, <2>2 DEF MarkPackage
  <1>9. CASE AddJob
    BY <1>9, <1>0, <1>7 DEF AddJob
  <1>10. CASE ContextRun
    BY <1>10, <1>0, <1>7 DEF ContextRun
  <1>12. CASE RefreshFails
    <2>1. /\ ctxLoader' \in Loaders /\ ctxLoader'.loaded = FALSE /\ monitorEvent' = monitorEvent
          /\ repoFile' = repoFile /\ ctx' = ctx /\ ctx.pc = "idle"
      BY <1>12, <1>0, <1>f DEF RefreshFails, Invalidated
    <2> QED BY <2>1, <1>0 DEF CtxInv, CtxTypes, Refreshing, LoaderFresh
  <1>11. CASE UNCHANGED ctxVars
    BY <1>11 DEF CtxInv, CtxTypes, Refreshing, MidRefresh, ReadSoFar, LoaderFresh, ctxVars
  <1> QED BY <1>1, <1>2, <1>3, <1>4, <1>5, <1>6, <1>8, <1>9, <1>10, <1>11, <1>12 DEF CtxNext

\* LoaderFresh for any list of .repo files and any number of edits, setups and
\* refreshes, wherever other programs write between two reads.
THEOREM LoaderFreshAlways == CtxSpec => []LoaderFresh
  <1>1. CtxInv => LoaderFresh
    BY DEF CtxInv
  <1> QED BY CtxInvInit, CtxInvNext, <1>1, PTL DEF CtxSpec

=============================================================================
