------------------------------- MODULE WeakPtr -------------------------------
(***************************************************************************)
(* include/libdnf/utils/weak_ptr.hpp: WeakPtr objects, each with a pointer *)
(* to a resource and one to a guard, and the guards, each with the set of  *)
(* WeakPtrs registered at it, which it invalidates when it goes away.      *)
(*                                                                         *)
(* A slot is the storage of a WeakPtr, a cell that of a resource.  Freed   *)
(* storage is never read or freed again by the model: `fault' records that *)
(* the code does it.                                                       *)
(***************************************************************************)
EXTENDS FiniteSets

CONSTANTS
    Slot,              \* storage for WeakPtr objects
    Guard,             \* storage for WeakPtrGuard objects
    Cell,              \* storage for resources
    Null,              \* nullptr
    ptr_owner,         \* the template parameter: WeakPtrs own their resource
    AssignInUse,       \* whether a guard in use is the target of a move assignment
    SelfCopy           \* whether a WeakPtr is copied to itself

ASSUME WeakPtrAssumption ==
    /\ Null \notin Slot \cup Guard \cup Cell
    /\ ptr_owner \in BOOLEAN
    /\ AssignInUse \in BOOLEAN
    /\ SelfCopy \in BOOLEAN

VARIABLES
    live,     \* slots that hold a WeakPtr
    ptr,      \* its resource
    guard,    \* its guard
    up,       \* guards that exist
    registered_weak_ptrs,
    heap,     \* resources that exist and are owned by WeakPtrs
    fault     \* freed storage was used

wpVars == <<live, ptr, guard, up, registered_weak_ptrs, heap, fault>>

WpTypeOK ==
    /\ live \subseteq Slot
    /\ ptr \in [Slot -> Cell \cup {Null}]
    /\ guard \in [Slot -> Guard \cup {Null}]
    /\ up \subseteq Guard
    /\ registered_weak_ptrs \in [Guard -> SUBSET Slot]
    /\ heap \subseteq Cell
    /\ fault \in BOOLEAN

WpInit ==
    /\ live = {}
    /\ ptr = [s \in Slot |-> Null]
    /\ guard = [s \in Slot |-> Null]
    /\ up = {}
    /\ registered_weak_ptrs = [g \in Guard |-> {}]
    /\ heap = {}
    /\ fault = FALSE

-----------------------------------------------------------------------------
\* Guards

NewGuard(g) ==
    /\ g \notin up
    /\ up' = up \cup {g}
    /\ registered_weak_ptrs' = [registered_weak_ptrs EXCEPT ![g] = {}]
    /\ UNCHANGED <<live, ptr, guard, heap, fault>>

\* slip: the registered WeakPtrs are not told where their guard is now
TakeRegistrationsOnly(g, h) ==
    /\ registered_weak_ptrs' =
         [registered_weak_ptrs EXCEPT ![g] = registered_weak_ptrs[h], ![h] = {}]
    /\ UNCHANGED <<guard, fault>>

\* g takes the registrations of h, whose set is left empty
TakeRegistrations(g, h) ==
    /\ registered_weak_ptrs' =
         [registered_weak_ptrs EXCEPT ![g] = registered_weak_ptrs[h], ![h] = {}]
    /\ guard' = [s \in Slot |-> IF s \in registered_weak_ptrs[h] THEN g ELSE guard[s]]
    /\ fault' = (fault \/ ~(registered_weak_ptrs[h] \subseteq live))

\* WeakPtrGuard(WeakPtrGuard &&)
MoveGuard(g, h) ==
    /\ h \in up /\ g \notin up
    /\ up' = up \cup {g}
    /\ TakeRegistrations(g, h)
    /\ UNCHANGED <<live, ptr, heap>>

\* operator=(WeakPtrGuard &&): what was registered at g stays as it is
AssignGuard(g, h) ==
    /\ g \in up /\ h \in up /\ g # h
    /\ registered_weak_ptrs[g] = {} \/ AssignInUse
    /\ TakeRegistrations(g, h)
    /\ UNCHANGED <<live, ptr, up, heap>>

\* clear()
Invalidate(g) ==
    /\ guard' = [s \in Slot |-> IF s \in registered_weak_ptrs[g] THEN Null ELSE guard[s]]
    /\ registered_weak_ptrs' = [registered_weak_ptrs EXCEPT ![g] = {}]
    /\ fault' = (fault \/ ~(registered_weak_ptrs[g] \subseteq live))

WpClear(g) ==
    /\ g \in up
    /\ Invalidate(g)
    /\ UNCHANGED <<live, ptr, up, heap>>

\* ~WeakPtrGuard()
DeleteGuard(g) ==
    /\ g \in up
    /\ Invalidate(g)
    /\ up' = up \ {g}
    /\ UNCHANGED <<live, ptr, heap>>

-----------------------------------------------------------------------------
\* WeakPtrs.  The registrations after slot s left its guard, and after it registered
\* at g; nothing changes for a null guard.

Unregister(reg, s) ==
    [h \in Guard |-> IF h = guard[s] THEN reg[h] \ {s} ELSE reg[h]]

Register(reg, s, g) ==
    [h \in Guard |-> IF h = g THEN reg[h] \cup {s} ELSE reg[h]]

GuardGone(s) == guard[s] # Null /\ guard[s] \notin up

\* the storage a copy of the resource of t is put into, Null for a null one
CopyOf(t) ==
    IF ~ptr_owner \/ ptr[t] = Null THEN {ptr[t]} ELSE Cell \ heap

New(c) == IF ptr_owner THEN {c} \ {Null} ELSE {}
Freed(s) == IF ptr_owner THEN {ptr[s]} ELSE {}
Dangling(s) == ptr_owner /\ ptr[s] # Null /\ ptr[s] \notin heap

\* WeakPtr(ptr, guard): an owner is given a resource of its own
Create(s, g, c) ==
    /\ s \notin live /\ g \in up
    /\ ptr_owner => c \notin heap
    /\ live' = live \cup {s}
    /\ ptr' = [ptr EXCEPT ![s] = c]
    /\ guard' = [guard EXCEPT ![s] = g]
    /\ registered_weak_ptrs' = Register(registered_weak_ptrs, s, g)
    /\ heap' = heap \cup New(c)
    /\ UNCHANGED <<up, fault>>

\* WeakPtr(const WeakPtr &)
Copy(s, t) ==
    /\ s \notin live /\ t \in live
    /\ \E c \in CopyOf(t) :
         /\ ptr' = [ptr EXCEPT ![s] = c]
         /\ heap' = heap \cup New(c)
    /\ live' = live \cup {s}
    /\ guard' = [guard EXCEPT ![s] = guard[t]]
    /\ registered_weak_ptrs' = Register(registered_weak_ptrs, s, guard[t])
    /\ fault' = (fault \/ Dangling(t) \/ GuardGone(t))
    /\ UNCHANGED up

\* WeakPtr(WeakPtr &&), for owners
Move(s, t) ==
    /\ ptr_owner
    /\ s \notin live /\ t \in live
    /\ live' = live \cup {s}
    /\ ptr' = [ptr EXCEPT ![s] = ptr[t], ![t] = Null]
    /\ guard' = [guard EXCEPT ![s] = guard[t], ![t] = Null]
    /\ registered_weak_ptrs' = Register(Unregister(registered_weak_ptrs, t), s, guard[t])
    /\ fault' = (fault \/ GuardGone(t))
    /\ UNCHANGED <<up, heap>>

\* ~WeakPtr()
Delete(s) ==
    /\ s \in live
    /\ live' = live \ {s}
    /\ ptr' = [ptr EXCEPT ![s] = Null]
    /\ guard' = [guard EXCEPT ![s] = Null]
    /\ registered_weak_ptrs' = Unregister(registered_weak_ptrs, s)
    /\ heap' = heap \ Freed(s)
    /\ fault' = (fault \/ Dangling(s) \/ GuardGone(s))
    /\ UNCHANGED up

\* operator=(const WeakPtr &).  With equal guards the registration is not touched.
\* An owner deletes its resource first, then copies the other one.
Assign(s, t) ==
    /\ s \in live /\ t \in live /\ (s = t => SelfCopy)
    /\ \E c \in CopyOf(t) :
         /\ ptr' = [ptr EXCEPT ![s] = c]
         /\ heap' = (heap \ Freed(s)) \cup New(c)
    /\ IF guard[s] = guard[t]
         THEN UNCHANGED <<guard, registered_weak_ptrs>>
         ELSE /\ guard' = [guard EXCEPT ![s] = guard[t]]
              /\ registered_weak_ptrs' = Register(Unregister(registered_weak_ptrs, s), s, guard[t])
    /\ fault' = \/ fault \/ Dangling(s) \/ Dangling(t)
                \/ ptr_owner /\ s = t /\ ptr[s] # Null
                \/ guard[s] # guard[t] /\ (GuardGone(s) \/ GuardGone(t))
    /\ UNCHANGED <<live, up>>

\* operator=(WeakPtr &&), for owners; with equal guards this WeakPtr stays registered.
\* Moved to itself, a WeakPtr ends up deleted and null.
MoveAssign(s, t) ==
    /\ ptr_owner
    /\ s \in live /\ t \in live
    /\ ptr' = [[ptr EXCEPT ![s] = ptr[t]] EXCEPT ![t] = Null]
    /\ heap' = heap \ Freed(s)
    /\ guard' = [[guard EXCEPT ![s] = guard[t]] EXCEPT ![t] = Null]
    /\ registered_weak_ptrs' =
         IF guard[s] = guard[t]
           THEN Unregister(registered_weak_ptrs, t)
           ELSE Register(Unregister(Unregister(registered_weak_ptrs, s), t), s, guard[t])
    /\ fault' = (fault \/ Dangling(s) \/ GuardGone(s) \/ GuardGone(t))
    /\ UNCHANGED <<live, up>>

-----------------------------------------------------------------------------
WpNext ==
    \/ \E g \in Guard : NewGuard(g) \/ WpClear(g) \/ DeleteGuard(g)
    \/ \E g, h \in Guard : MoveGuard(g, h) \/ AssignGuard(g, h)
    \/ \E s \in Slot : Delete(s) \/ \E g \in Guard, c \in Cell : Create(s, g, c)
    \/ \E s, t \in Slot : Copy(s, t) \/ Move(s, t) \/ Assign(s, t) \/ MoveAssign(s, t)

WpSpec == WpInit /\ [][WpNext]_wpVars

-----------------------------------------------------------------------------
\* "the resource guard invalidates the registered WeakPtrs when the resource is
\* unusable": no WeakPtr is valid with a guard that is gone.
ValidHasGuard == \A s \in live : guard[s] \in up \cup {Null}

\* A WeakPtr and its guard know of each other, and only of each other: a valid
\* WeakPtr is registered at its guard, which exists, and at no other, and a guard
\* registers no WeakPtr that is gone, whatever was copied, moved and assigned.
RegistrationExact ==
    /\ \A g \in Guard : registered_weak_ptrs[g] = {s \in live : guard[s] = g}
    /\ ValidHasGuard

\* Owners: each resource has exactly one WeakPtr that will delete it; none is
\* leaked and none is deleted twice.
OneOwnerEach ==
    ptr_owner =>
      /\ \A s, t \in live : ptr[s] = ptr[t] /\ ptr[s] # Null => s = t
      /\ heap = {ptr[s] : s \in live} \ {Null}

\* No freed resource, guard or WeakPtr is ever used.
NoFault == ~fault

\* Whatever is copied, moved, assigned and destroyed in whatever order, WeakPtrs
\* and guards agree, no resource is leaked or deleted twice, and nothing freed
\* is used (WeakPtr and WeakPtrGuard, utils/weak_ptr.hpp).
PointersSafe == RegistrationExact /\ OneOwnerEach /\ NoFault
=============================================================================
