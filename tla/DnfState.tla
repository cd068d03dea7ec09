------------------------------ MODULE DnfState ------------------------------
(***************************************************************************)
(* Progress, cancellation and lock ownership of one running dnf-4 task     *)
(* (dnf-4/libdnf/dnf-state.cpp).                                           *)
(*                                                                         *)
(* A DnfState counts the steps of a task; a step may be split further by a *)
(* child state, whose percentage is scaled into the parent's step.  A      *)
(* state has at most one child, so the states alive at any time form a     *)
(* chain: level 1 is the state the caller made, level l + 1 the child of   *)
(* level l.  Each state remembers the locks taken through it and gives     *)
(* them back when it reaches 100 %, is reset or is destroyed.              *)
(*                                                                         *)
(* One thread of one process drives the chain.  Timers, profiling, speed   *)
(* and the progress of single packages are left out; report_progress is    *)
(* TRUE, its default.  Percentages are exact rationals rounded down: the   *)
(* code's float arithmetic gives the same integers (the sum of offset and  *)
(* range is exact in the last step, so a completed state reaches 100).     *)
(***************************************************************************)
EXTENDS DnfLock, Sequences

CONSTANTS
    Depth,          \* levels of the chain
    StepCounts,     \* arguments of dnf_state_set_number_steps
    StepShares,     \* arguments of dnf_state_set_steps: sequences of shares
    LeafPercents,   \* percentages a task without steps reports
    Actions,        \* DnfStateAction values other than UNKNOWN
    ActionLevels,   \* levels whose tasks name actions and forbid cancelling
    StateProc, StateThread,  \* who drives the chain
    MaxTakes        \* bound: items created, and locks held by one state

Unknown == "UNKNOWN"

\* A lock is never taken as often as its count, a guint, can tell apart.
ASSUME DnfStateAssumption ==
    /\ Depth \in Nat \ {0} /\ MaxTakes \in Nat /\ Depth * MaxTakes < RefModulus
    /\ StateProc \in Procs /\ StateThread \in Threads /\ ActionLevels \subseteq 1 .. Depth
    /\ StepCounts \subseteq Nat /\ StepShares \subseteq Seq(Nat) /\ LeafPercents \subseteq Nat

VARIABLES
    chain,          \* chain[l]: the state at level l
    cancelled       \* the shared GCancellable has been triggered

stateVars == <<chain, cancelled>>

NewState(action) ==
    [live |-> TRUE, steps |-> 0, current |-> 0, data |-> << >>, pct |-> 0,
     cancel |-> TRUE, cancelChild |-> TRUE,
     action |-> action, last |-> Unknown, childAction |-> Unknown, ids |-> << >>]

NoState == [NewState(Unknown) EXCEPT !.live = FALSE]

StateTypeOK ==
    /\ \A l \in 1 .. Depth :
          /\ chain[l].current <= chain[l].steps
          /\ chain[l].pct \in 0 .. 100
          /\ Len(chain[l].data) \in {0, chain[l].steps}
          /\ ~ chain[l].live => chain[l] = NoState
          /\ l > 1 /\ chain[l].live => chain[l - 1].live
    /\ cancelled \in BOOLEAN

StateInit ==
    /\ chain = [l \in 1 .. Depth |-> IF l = 1 THEN NewState(Unknown) ELSE NoState]
    /\ cancelled = FALSE

\* What a step works on: the chain and the lock of the process driving it.
View == [chain |-> chain, file |-> lockFile, items |-> lockItems[StateProc]]

-----------------------------------------------------------------------------
\* dnf_state_release_locks of one state: stops at the first release that
\* fails and then keeps every id.
ReleaseNext(acc, id) ==
    IF acc.ok THEN Release(acc.file, acc.items, StateThread, id) ELSE acc

ReleaseIds(v, ids) ==
    LET r[k \in 0 .. Len(ids)] ==
            IF k = 0 THEN [file |-> v.file, items |-> v.items, ok |-> TRUE]
            ELSE ReleaseNext(r[k - 1], ids[k])
    IN r[Len(ids)]

ReleaseLevel(v, l) ==
    LET r == ReleaseIds(v, v.chain[l].ids)
    IN [chain |-> IF r.ok THEN [v.chain EXCEPT ![l].ids = << >>] ELSE v.chain,
        file |-> r.file, items |-> r.items]

\* dnf_state_release_locks: the children first, deepest level first.
ReleaseLocks(v, l) ==
    LET r[k \in 0 .. Depth + 1 - l] ==
            IF k = 0 THEN v ELSE ReleaseLevel(r[k - 1], Depth + 1 - k)
    IN r[Depth + 1 - l]

DropChildSlip(v, l) ==
    [v EXCEPT !.chain = [m \in 1 .. Depth |-> IF m > l THEN NoState ELSE @[m]]]

\* The child of level l is unreferenced: it and its own children give their
\* locks back and are gone.
DropChild(v, l) ==
    LET r == IF l < Depth THEN ReleaseLocks(v, l + 1) ELSE v
    IN [r EXCEPT !.chain = [m \in 1 .. Depth |-> IF m > l THEN NoState ELSE @[m]]]

\* dnf_state_reset.  allow_cancel, allow_cancel_child and the actions stay.
Reset(v, l) ==
    LET r == ReleaseLocks(DropChild(v, l), l)
    IN [r EXCEPT !.chain[l] = [@ EXCEPT !.steps = 0, !.current = 0, !.pct = 0, !.data = << >>]]

\* dnf_state_set_allow_cancel and dnf_state_child_allow_cancel_changed_cb:
\* every ancestor learns whether its child and all below it may be cancelled.
TellParent(c, m) == [c EXCEPT ![m].cancelChild = c[m + 1].cancel /\ c[m + 1].cancelChild]

TellParents(c, l) ==
    LET r[k \in 0 .. l - 1] == IF k = 0 THEN c ELSE TellParent(r[k - 1], l - k)
    IN r[l - 1]

AllowCancel(c, l, b) ==
    IF c[l].cancel = b THEN c ELSE TellParents([c EXCEPT ![l].cancel = b], l)

\* The action of level l changes and dnf_state_child_action_changed_cb copies
\* it into every ancestor.
EmitAction(c, l, a) ==
    [m \in 1 .. Depth |-> IF m <= l THEN [c[m] EXCEPT !.action = a] ELSE c[m]]

\* dnf_state_action_stop.
ActionStop(c, l) ==
    IF c[l].action = Unknown THEN c
    ELSE EmitAction([c EXCEPT ![l].last = Unknown], l, c[l].last)

\* dnf_state_discrete_to_percent, rounded down by the cast to guint.
DiscreteToPercent(d, steps) == (100 * d) \div steps

ParentPercentSlip(s, p) ==
    CASE s.steps = 1 -> p
      [] s.steps = 0 -> 101
      [] s.data # << >> /\ s.current > 0 -> s.data[s.current] + p
      [] OTHER -> (100 * s.current + p) \div s.steps

\* dnf_state_child_percentage_changed_cb: the parent's new percentage, or 101
\* when the parent ignores its child.
ParentPercent(s, p) ==
    CASE s.steps = 1 -> p
      [] s.steps = 0 \/ (s.steps # 1 /\ s.current >= s.steps) -> 101
      [] s.steps > 1 /\ s.current < s.steps /\ s.data # << >> ->
           IF s.current = 0 THEN (p * s.data[1]) \div 100
           ELSE ((100 - p) * s.data[s.current] + p * s.data[s.current + 1]) \div 100
      [] OTHER -> (100 * s.current + p) \div s.steps

\* A linear parent restores its own action when the child is complete.
RestoresAction(s, p) ==
    p = 100 /\ s.steps > 1 /\ s.current < s.steps /\ s.data = << >>

\* dnf_state_set_percentage of level acc.l alone; acc.p becomes what its
\* parent is told, 101 for nothing.
PercentLevel(acc, l) ==
    LET v == acc.v
        s == v.chain[l]
    IN IF acc.p = s.pct \/ acc.p > 100 \/ acc.p < s.pct
       THEN [acc EXCEPT !.p = 101]
       ELSE LET done == [v EXCEPT !.chain = ActionStop(AllowCancel(@, l, TRUE), l)]
                w == IF acc.p = 100 THEN ReleaseLocks(done, l) ELSE v
            IN IF acc.p = 100 /\ w.chain[l].ids # << >>
               THEN [v |-> w, p |-> 101]
               ELSE LET x == [w EXCEPT !.chain[l].pct = acc.p] IN
                    IF l = 1 THEN [v |-> x, p |-> 101]
                    ELSE [v |-> IF RestoresAction(x.chain[l - 1], acc.p)
                                THEN [x EXCEPT !.chain[l - 1].last = x.chain[l - 1].childAction]
                                ELSE x,
                          p |-> ParentPercent(x.chain[l - 1], acc.p)]

\* dnf_state_set_percentage with the chain of signals it sets off.
SetPercentage(v, l, p) ==
    LET r[k \in 0 .. l] == IF k = 0 THEN [v |-> v, p |-> p] ELSE PercentLevel(r[k - 1], l + 1 - k)
    IN r[l].v

-----------------------------------------------------------------------------
Becomes(v) ==
    /\ chain' = v.chain
    /\ lockFile' = v.file
    /\ lockItems' = [lockItems EXCEPT ![StateProc] = v.items]
    /\ UNCHANGED <<lockNextId, lockAlive, cancelled>>

OnlyChain(c) == Becomes([View EXCEPT !.chain = c])

\* The task at level l is still at work: callers ask nothing more of a state
\* once its steps, or those of a state above it, are all done.
Busy(l) ==
    /\ chain[l].live
    /\ \A m \in 1 .. l : chain[m].steps = 0 \/ chain[m].current < chain[m].steps

\* dnf_state_take_lock.
StateTakeLock(l, ty, mode) ==
    /\ Busy(l)
    /\ lockNextId[StateProc] <= MaxTakes
    /\ \A m \in 1 .. Depth : Len(chain[m].ids) < MaxTakes
    /\ \/ /\ TakenItem(lockItems[StateProc], ty, mode) = {}
          /\ NeedsFile(StateProc, ty, mode) => FileFree(ty)
          /\ CreateItem(StateProc, StateThread, ty, mode)
       \/ TakeAgain(StateProc, StateThread, ty, mode)
    /\ chain' = [chain EXCEPT ![l].ids = Append(@, TakenId(StateProc, ty, mode))]
    /\ UNCHANGED cancelled

\* dnf_state_release_locks called by the task itself.
StateReleaseLocks(l) == chain[l].live /\ Becomes(ReleaseLocks(View, l))

\* dnf_state_get_child.
StateGetChild(l) ==
    /\ Busy(l) /\ l < Depth
    /\ LET v == DropChild(View, l) IN
       Becomes([v EXCEPT !.chain[l].childAction = chain[l].action,
                         !.chain[l + 1] = NewState(chain[l].action)])

\* The shares of the first k steps added up, for every k.
Cumulated(shares) ==
    LET sum[k \in 0 .. Len(shares)] == IF k = 0 THEN 0 ELSE sum[k - 1] + shares[k]
    IN sum

\* dnf_state_set_number_steps and dnf_state_set_steps: once per state; the
\* shares are stored cumulated and must add up to 100.  Callers set the steps
\* of a state before it reports anything.
StateSetNumberSteps(l, n) ==
    /\ Busy(l) /\ chain[l].steps = 0 /\ chain[l].pct = 0
    /\ OnlyChain([chain EXCEPT ![l].steps = n])

StateSetSteps(l, shares) ==
    /\ Busy(l) /\ chain[l].steps = 0 /\ chain[l].pct = 0
    /\ Cumulated(shares)[Len(shares)] = 100
    /\ OnlyChain([chain EXCEPT ![l].steps = Len(shares),
           ![l].data = [k \in 1 .. Len(shares) |-> Cumulated(shares)[k]]])

\* A task without steps reports a percentage of its own.
StateSetPercentage(l, p) ==
    /\ chain[l].live /\ chain[l].steps = 0
    /\ Becomes(SetPercentage(View, l, p))

\* dnf_state_done: refused when cancelled or when the state has no step left.
StateDone(l) ==
    /\ chain[l].live /\ ~ cancelled /\ chain[l].current < chain[l].steps
    /\ LET c == AllowCancel(chain, l, TRUE)
           n == chain[l].current + 1
           p == IF chain[l].data = << >> THEN DiscreteToPercent(n, chain[l].steps)
                ELSE chain[l].data[n]
           v == SetPercentage([View EXCEPT !.chain = [c EXCEPT ![l].current = n]], l, p)
       IN Becomes(IF l < Depth /\ v.chain[l + 1].live THEN Reset(v, l + 1) ELSE v)

\* dnf_state_finished.
StateFinished(l) ==
    /\ chain[l].live /\ ~ cancelled /\ chain[l].current # chain[l].steps
    /\ Becomes(SetPercentage([View EXCEPT !.chain[l].current = chain[l].steps], l, 100))

StateReset(l) == chain[l].live /\ Becomes(Reset(View, l))

StateSetAllowCancel(l, b) == Busy(l) /\ OnlyChain(AllowCancel(chain, l, b))

\* dnf_state_action_start: ignored when the action is already set.
StateActionStart(l, a) ==
    /\ Busy(l) /\ chain[l].action # a
    /\ OnlyChain(EmitAction([chain EXCEPT ![l].last = chain[l].action], l, a))

StateActionStop(l) == Busy(l) /\ OnlyChain(ActionStop(chain, l))

\* The user triggers the cancellable (from a signal handler or another thread).
StateCancel ==
    /\ ~ cancelled
    /\ cancelled' = TRUE
    /\ UNCHANGED <<chain, lockVars>>

StateNext ==
    \/ \E l \in 1 .. Depth :
          \/ \E ty \in LockTypes, mode \in LockModes : StateTakeLock(l, ty, mode)
          \/ StateReleaseLocks(l)
          \/ StateGetChild(l)
          \/ \E n \in StepCounts : StateSetNumberSteps(l, n)
          \/ \E s \in StepShares : StateSetSteps(l, s)
          \/ \E p \in LeafPercents : StateSetPercentage(l, p)
          \/ StateDone(l)
          \/ StateFinished(l)
          \/ StateReset(l)
    \/ \E l \in ActionLevels :
          \/ \E b \in BOOLEAN : StateSetAllowCancel(l, b)
          \/ \E a \in Actions : StateActionStart(l, a)
          \/ StateActionStop(l)
    \/ StateCancel

StateSpec == LockInit /\ StateInit /\ [][StateNext]_<<lockVars, stateVars>>

-----------------------------------------------------------------------------
Occurrences(id) ==
    Cardinality({x \in (1 .. Depth) \X (1 .. MaxTakes) :
                    x[2] <= Len(chain[x[1]].ids) /\ chain[x[1]].ids[x[2]] = id})

\* Every count of a lock belongs to exactly one state that is still alive:
\* however states are nested, replaced, completed, reset or dropped, no lock
\* stays taken with nobody left to release it, and none is released twice
\* (dnf_state_release_locks, dnf_state_reset, dnf_state_get_child).
RefcountBalanced ==
    /\ \A i \in lockItems[StateProc] : i.refcount = Occurrences(i.id)
    /\ \A l \in 1 .. Depth : \A k \in DOMAIN chain[l].ids :
          \E i \in lockItems[StateProc] : i.id = chain[l].ids[k]

\* Where the step with index c begins.
StepStart(s, c) ==
    CASE c = 0 -> 0
      [] c > 0 /\ s.data # << >> -> s.data[c]
      [] OTHER -> DiscreteToPercent(c, s.steps)

\* A state never reports less than the steps it has done nor more than the
\* step it is in, whatever its children report
\* (dnf_state_child_percentage_changed_cb, dnf_state_done).
StepWindow ==
    \A l \in 1 .. Depth :
        LET s == chain[l] IN
        s.steps > 0 =>
            /\ StepStart(s, s.current) <= s.pct
            /\ s.current < s.steps => s.pct <= StepStart(s, s.current + 1)

=============================================================================
