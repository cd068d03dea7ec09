------------------------------- MODULE Countme -------------------------------
(***************************************************************************)
(* Repo::Impl::add_countme_flag() (libdnf/rpm/repo.cpp): once in a window   *)
(* of time a metalink request carries the countme flag.  The only memory    *)
(* is a cookie file, shared by all processes and rewritten in place: opened *)
(* with truncation, then written.                                           *)
(*                                                                         *)
(* Time is counted in ticks.  A call that is not for a remote metalink or   *)
(* mirrorlist, or not by root, leaves everything alone and is left out.     *)
(***************************************************************************)
EXTENDS Integers, Sequences

CONSTANTS
    Proc,
    COUNTME_WINDOW,   \* ticks per window
    COUNTME_OFFSET,   \* where the first window starts
    COUNTME_BUDGET,   \* requests the counting one is chosen among
    COUNTME_BUCKETS,  \* window steps at which the next bucket starts
    MaxTime           \* bound: the last tick

ASSUME CountmeAssumption ==
    /\ COUNTME_WINDOW \in Nat \ {0}
    /\ COUNTME_OFFSET \in Nat \ {0}
    /\ COUNTME_BUDGET \in Nat \ {0}
    /\ COUNTME_BUCKETS \in Seq(Nat)
    /\ MaxTime \in Nat /\ COUNTME_WINDOW <= MaxTime

\* the defaults an absent or empty cookie leaves in place
NoCookie == [epoch |-> 0, win |-> COUNTME_OFFSET, budget |-> -1]

\* the position of the window a time is in; Windows is their range
WindowOf(t) == (t - COUNTME_OFFSET) \div COUNTME_WINDOW
Windows     == 0 .. WindowOf(COUNTME_OFFSET + MaxTime)

VARIABLES
    now,        \* time(2)
    cookie,     \* the cookie file
    cmPc,       \* per process: where its call is
    mem,        \* per process: epoch, win and budget in memory
    flag,       \* per process: window of its request, bucket in it (0: no flag)
    counted,    \* per window, the requests sent with the flag
    requests,   \* per window, the requests sent
    bucket,     \* the bucket sent last, 0 before the first
    killed      \* a process was killed in a call (history variable)

origin == <<counted, requests, bucket>>
cmVars == <<now, cookie, cmPc, mem, flag, origin, killed>>

Cookies == [epoch : 0 .. COUNTME_OFFSET + MaxTime,
            win : 0 .. COUNTME_OFFSET + MaxTime,
            budget : {-1} \cup 1 .. COUNTME_BUDGET]

CmTypeOK ==
    /\ now \in COUNTME_OFFSET .. COUNTME_OFFSET + MaxTime
    /\ cookie \in Cookies
    /\ cmPc \in [Proc -> {"idle", "decide", "open", "write", "send"}]
    /\ mem \in [Proc -> Cookies]
    /\ flag \in [Proc -> [window : Windows, bucket : 0 .. Len(COUNTME_BUCKETS) + 1]]
    /\ counted \in [Windows -> Nat]
    /\ requests \in [Windows -> Nat]
    /\ bucket \in 0 .. Len(COUNTME_BUCKETS) + 1
    /\ killed \in BOOLEAN

CmInit ==
    /\ now = COUNTME_OFFSET + COUNTME_WINDOW
    /\ cookie = NoCookie
    /\ cmPc = [p \in Proc |-> "idle"]
    /\ mem = [p \in Proc |-> NoCookie]
    /\ flag = [p \in Proc |-> [window |-> 0, bucket |-> 0]]
    /\ counted = [w \in Windows |-> 0]
    /\ requests = [w \in Windows |-> 0]
    /\ bucket = 0
    /\ killed = FALSE

-----------------------------------------------------------------------------
LoadCookie(p) ==
    /\ cmPc[p] = "idle"
    /\ mem' = [mem EXCEPT ![p] = cookie]
    /\ cmPc' = [cmPc EXCEPT ![p] = "decide"]
    /\ UNCHANGED <<now, cookie, flag, origin, killed>>

\* slip: the last window counts as a whole window ago one tick too early
WindowAdvancedEarly(win) == now - win >= COUNTME_WINDOW - 1

WindowAdvanced(win) == now - win >= COUNTME_WINDOW

SetFlag(p, b) == flag' = [flag EXCEPT ![p] = [window |-> WindowOf(now), bucket |-> b]]

AlreadyCounted(p) ==
    /\ cmPc[p] = "decide"
    /\ ~WindowAdvanced(mem[p].win)
    /\ SetFlag(p, 0)
    /\ cmPc' = [cmPc EXCEPT ![p] = "send"]
    /\ UNCHANGED <<now, cookie, mem, origin, killed>>

\* -1 asks for a new budget
Budgets(b) == IF b < 0 THEN 1 .. COUNTME_BUDGET ELSE {b}

SpendBudget(p) ==
    /\ cmPc[p] = "decide"
    /\ WindowAdvanced(mem[p].win)
    /\ \E b \in Budgets(mem[p].budget) :
         /\ b - 1 # 0
         /\ mem' = [mem EXCEPT ![p].budget = b - 1]
    /\ SetFlag(p, 0)
    /\ cmPc' = [cmPc EXCEPT ![p] = "open"]
    /\ UNCHANGED <<now, cookie, origin, killed>>

\* the start of the window `now' is in
WindowStart(win) == now - ((now - win) % COUNTME_WINDOW)

\* the position of the first window counted ever
Epoch(epoch, win) == IF epoch = 0 THEN win ELSE epoch

\* slip: the comparison is the other way round
BucketOfInverted(step) == IF step >= COUNTME_BUCKETS[1] THEN 1 ELSE Len(COUNTME_BUCKETS) + 1

\* the first bucket whose end the step has not reached, from 1
BucketOf(step) ==
    CHOOSE i \in 1 .. Len(COUNTME_BUCKETS) + 1 :
      /\ \A j \in 1 .. i - 1 : step >= COUNTME_BUCKETS[j]
      /\ i <= Len(COUNTME_BUCKETS) => step < COUNTME_BUCKETS[i]

\* budget exhausted: the flag is set on the handle and a new budget asked for
Count(p) ==
    /\ cmPc[p] = "decide"
    /\ WindowAdvanced(mem[p].win)
    /\ 1 \in Budgets(mem[p].budget)
    /\ LET win   == WindowStart(mem[p].win)
           epoch == Epoch(mem[p].epoch, win) IN
         /\ mem' = [mem EXCEPT ![p] = [epoch |-> epoch, win |-> win, budget |-> -1]]
         /\ SetFlag(p, BucketOf((win - epoch) \div COUNTME_WINDOW))
    /\ cmPc' = [cmPc EXCEPT ![p] = "open"]
    /\ UNCHANGED <<now, cookie, origin, killed>>

\* std::ofstream(fname) truncates the file
OpenCookie(p) ==
    /\ cmPc[p] = "open"
    /\ cookie' = NoCookie
    /\ cmPc' = [cmPc EXCEPT ![p] = "write"]
    /\ UNCHANGED <<now, mem, flag, origin, killed>>

SaveCookie(p) ==
    /\ cmPc[p] = "write"
    /\ cookie' = mem[p]
    /\ cmPc' = [cmPc EXCEPT ![p] = "send"]
    /\ UNCHANGED <<now, mem, flag, origin, killed>>

AtMost(n, m) == IF n < m THEN n ELSE m

\* lr_handle_perform() then sends the request, with the flag or without
Send(p) ==
    /\ cmPc[p] = "send"
    /\ requests' = [requests EXCEPT ![flag[p].window] = AtMost(@ + 1, COUNTME_BUDGET)]
    /\ IF flag[p].bucket = 0
         THEN UNCHANGED <<counted, bucket>>
         ELSE /\ counted' = [counted EXCEPT ![flag[p].window] = AtMost(@ + 1, 2)]
              /\ bucket' = flag[p].bucket
    /\ cmPc' = [cmPc EXCEPT ![p] = "idle"]
    /\ UNCHANGED <<now, cookie, mem, flag, killed>>

Tick ==
    /\ now < COUNTME_OFFSET + MaxTime
    /\ now' = now + 1
    /\ UNCHANGED <<cookie, cmPc, mem, flag, origin, killed>>

Crash(p) ==
    /\ cmPc[p] # "idle"
    /\ cmPc' = [cmPc EXCEPT ![p] = "idle"]
    /\ killed' = TRUE
    /\ UNCHANGED <<now, cookie, mem, flag, origin>>

CmNext ==
    \/ Tick
    \/ \E p \in Proc :
         \/ LoadCookie(p) \/ AlreadyCounted(p) \/ SpendBudget(p) \/ Count(p)
         \/ OpenCookie(p) \/ SaveCookie(p) \/ Send(p) \/ Crash(p)

CmSpec == CmInit /\ [][CmNext]_cmVars

-----------------------------------------------------------------------------
\* "once (and only once)": no window is counted twice, although the cookie is read,
\* truncated and written at different times and the process may die in between.
OnlyOncePerWindow == \A w \in Windows : counted[w] <= 1

\* "once": as long as no process was killed, a window with as many requests as the
\* budget has been counted, whatever part of the budget earlier windows spent.
CountedWhenAsked ==
    ~killed => \A w \in Windows : requests[w] >= COUNTME_BUDGET => counted[w] >= 1

\* "to align the time window with an absolute point in time": whatever processes
\* race and die, the cookie only ever holds window starts, of the past, and the
\* first counted window is not after the last.
CookieAligned ==
    /\ (cookie.win - COUNTME_OFFSET) % COUNTME_WINDOW = 0
    /\ cookie.win <= now
    /\ cookie.epoch # 0 => /\ (cookie.epoch - COUNTME_OFFSET) % COUNTME_WINDOW = 0
                           /\ cookie.epoch <= cookie.win

\* The longevity bucket a system reports never goes down, as long as no kill has
\* emptied the cookie and with it the epoch.
BucketNeverFalls == [][~killed => bucket' >= bucket]_cmVars

\* Repo::Impl::add_countme_flag counts each window with enough requests exactly
\* once and keeps its windows aligned, wherever the process is killed.
CountedOnce == OnlyOncePerWindow /\ CountedWhenAsked /\ CookieAligned
=============================================================================
