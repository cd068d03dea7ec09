----------------------------- MODULE UtilsProofs -----------------------------
(***************************************************************************)
(* Proofs about two utilities of libdnf, and about the containers and the  *)
(* queries of its rpm API.                                                 *)
(*                                                                         *)
(* WeakPtr, for any number of WeakPtrs, guards and resources: registration *)
(* is exact, ownership is unique and nothing freed is used, provided no    *)
(* guard in use is assigned to and no owner is copied to itself.           *)
(*                                                                         *)
(* MemoryBufferLogger implements MessageLog for every limit, every set of  *)
(* messages and any number of readers, when clear() is not called in the   *)
(* middle of a get_item().                                                 *)
(*                                                                         *)
(* PackageSet, ReldepList and Package return all they hold, for any length *)
(* of a byte, any sets and lists and any evrs of the parts rpm allows.     *)
(*                                                                         *)
(* SolvQuery, for any packages, repositories, queries and filter calls:    *)
(* every filter keeps what its patterns mean, by the cached sorted list or *)
(* by the query, when a load that fails leaves the pool's array in place.  *)
(***************************************************************************)
EXTENDS WeakPtr, MemoryBufferLogger, SolvContainers, SolvQuery, SequenceTheorems,
        WellFoundedInduction, FiniteSetTheorems, TLAPS

-----------------------------------------------------------------------------
(* WeakPtr.                                                                *)

\* Types, exact registration, unique ownership and no fault, which together are
\* inductive: a fault needs a WeakPtr whose guard or resource is gone.
WpInv == WpTypeOK /\ RegistrationExact /\ OneOwnerEach /\ NoFault

\* With exact registration no guard knows a dead WeakPtr and no live WeakPtr has a
\* dead guard or a dangling resource.
LEMMA NothingDangles ==
    ASSUME WpInv
    PROVE  /\ \A g \in Guard : registered_weak_ptrs[g] \subseteq live
           /\ \A s \in live : ~GuardGone(s) /\ ~Dangling(s)
  BY DEF WpInv, RegistrationExact, ValidHasGuard, OneOwnerEach, GuardGone, Dangling

\* Every step keeps the types.
LEMMA StepType == WpInv /\ [WpNext]_wpVars => WpTypeOK'
<1>1. SUFFICES ASSUME WpInv, [WpNext]_wpVars PROVE WpTypeOK'  OBVIOUS
<1>2. WpTypeOK  BY <1>1 DEF WpInv
<1>3. CASE \E g \in Guard : NewGuard(g) \/ WpClear(g) \/ DeleteGuard(g)
  BY <1>2, <1>3 DEF WpTypeOK, NewGuard, WpClear, DeleteGuard, Invalidate
<1>4. CASE \E g, h \in Guard : MoveGuard(g, h) \/ AssignGuard(g, h)
  <2>1. PICK g \in Guard, h \in Guard : MoveGuard(g, h) \/ AssignGuard(g, h)  BY <1>4
  <2>2. registered_weak_ptrs[h] \in SUBSET Slot  BY <1>2 DEF WpTypeOK
  <2>3. registered_weak_ptrs' \in [Guard -> SUBSET Slot] /\ guard' \in [Slot -> Guard \cup {Null}]
    BY <1>2, <2>1, <2>2 DEF WpTypeOK, MoveGuard, AssignGuard, TakeRegistrations
  <2>4. QED
    BY <1>2, <2>1, <2>3 DEF WpTypeOK, MoveGuard, AssignGuard, TakeRegistrations
<1>5. CASE \E s \in Slot : Delete(s)
  BY <1>2, <1>5 DEF WpTypeOK, Delete, Unregister
<1>6. CASE \E s \in Slot, g \in Guard, c \in Cell : Create(s, g, c)
  BY <1>2, <1>6 DEF WpTypeOK, Create, Register, New
<1>7. CASE \E s, t \in Slot : Copy(s, t)
  BY <1>2, <1>7 DEF WpTypeOK, Copy, Register, CopyOf, New
<1>8. CASE \E s, t \in Slot : Move(s, t)
  BY <1>2, <1>8 DEF WpTypeOK, Move, Register, Unregister
<1>9. CASE \E s, t \in Slot : Assign(s, t)
  BY <1>2, <1>9 DEF WpTypeOK, Assign, Register, Unregister, CopyOf, New
<1>10. CASE \E s, t \in Slot : MoveAssign(s, t)
  BY <1>2, <1>10 DEF WpTypeOK, MoveAssign, Register, Unregister
<1>11. CASE UNCHANGED wpVars  BY <1>2, <1>11 DEF WpTypeOK, wpVars
<1>12. QED
  BY <1>1, <1>3, <1>4, <1>5, <1>6, <1>7, <1>8, <1>9, <1>10, <1>11 DEF WpNext

\* No step of a guard or a WeakPtr breaks the registrations.
LEMMA StepRegistration ==
    ASSUME ~AssignInUse, WpInv, [WpNext]_wpVars
    PROVE  RegistrationExact'
<1>1. /\ WpTypeOK
      /\ \A g \in Guard : registered_weak_ptrs[g] = {s \in live : guard[s] = g}
      /\ \A s \in live : guard[s] \in up \cup {Null}
      /\ Null \notin Guard
  BY WeakPtrAssumption DEF WpInv, RegistrationExact, ValidHasGuard
<1>2. ASSUME NEW g \in Guard, NewGuard(g) PROVE RegistrationExact'
  BY <1>1, <1>2 DEF WpTypeOK, NewGuard, RegistrationExact, ValidHasGuard
<1>3. ASSUME NEW g \in Guard, WpClear(g) \/ DeleteGuard(g) PROVE RegistrationExact'
  BY <1>1, <1>3 DEF WpTypeOK, WpClear, DeleteGuard, Invalidate, RegistrationExact, ValidHasGuard
<1>4. ASSUME NEW g \in Guard, NEW h \in Guard, MoveGuard(g, h) PROVE RegistrationExact'
  BY <1>1, <1>4 DEF WpTypeOK, MoveGuard, TakeRegistrations, RegistrationExact, ValidHasGuard
<1>5. ASSUME NEW g \in Guard, NEW h \in Guard, AssignGuard(g, h) PROVE RegistrationExact'
  BY <1>1, <1>5 DEF WpTypeOK, AssignGuard, TakeRegistrations, RegistrationExact, ValidHasGuard
<1>6. ASSUME NEW s \in Slot, Delete(s) PROVE RegistrationExact'
  BY <1>1, <1>6 DEF WpTypeOK, Delete, Unregister, RegistrationExact, ValidHasGuard
<1>7. ASSUME NEW s \in Slot, NEW g \in Guard, NEW c \in Cell, Create(s, g, c)
      PROVE  RegistrationExact'
  BY <1>1, <1>7 DEF WpTypeOK, Create, Register, RegistrationExact, ValidHasGuard
<1>8. ASSUME NEW s \in Slot, NEW t \in Slot, Copy(s, t) PROVE RegistrationExact'
  BY <1>1, <1>8 DEF WpTypeOK, Copy, Register, RegistrationExact, ValidHasGuard
<1>9. ASSUME NEW s \in Slot, NEW t \in Slot, Move(s, t) PROVE RegistrationExact'
  BY <1>1, <1>9 DEF WpTypeOK, Move, Register, Unregister, RegistrationExact, ValidHasGuard
<1>10. ASSUME NEW s \in Slot, NEW t \in Slot, Assign(s, t) PROVE RegistrationExact'
  BY <1>1, <1>10 DEF WpTypeOK, Assign, Register, Unregister, RegistrationExact, ValidHasGuard
<1>11. ASSUME NEW s \in Slot, NEW t \in Slot, MoveAssign(s, t) PROVE RegistrationExact'
  BY <1>1, <1>11 DEF WpTypeOK, MoveAssign, Register, Unregister, RegistrationExact, ValidHasGuard
<1>12. CASE UNCHANGED wpVars  BY <1>1, <1>12 DEF wpVars, RegistrationExact, ValidHasGuard
<1>13. QED
  BY <1>2, <1>3, <1>4, <1>5, <1>6, <1>7, <1>8, <1>9, <1>10, <1>11, <1>12 DEF WpNext

\* No step leaves a resource without an owner, or with two.
LEMMA StepOwner ==
    ASSUME ptr_owner => ~SelfCopy, WpInv, [WpNext]_wpVars
    PROVE  OneOwnerEach'
<1>1. SUFFICES ASSUME ptr_owner
               PROVE  (/\ \A s, t \in live : ptr[s] = ptr[t] /\ ptr[s] # Null => s = t
                       /\ heap = {ptr[s] : s \in live} \ {Null})'
  BY DEF OneOwnerEach
<1>2. /\ WpTypeOK /\ Null \notin Cell
      /\ \A s, t \in live : ptr[s] = ptr[t] /\ ptr[s] # Null => s = t
      /\ heap = {ptr[s] : s \in live} \ {Null}
  BY <1>1, WeakPtrAssumption DEF WpInv, OneOwnerEach
<1>3. CASE UNCHANGED <<live, ptr, heap>>  BY <1>2, <1>3
<1>4. ASSUME NEW s \in Slot, Delete(s) PROVE OneOwnerEach'
  BY <1>1, <1>2, <1>4 DEF WpTypeOK, Delete, Freed, OneOwnerEach
<1>5. ASSUME NEW s \in Slot, NEW g \in Guard, NEW c \in Cell, Create(s, g, c) PROVE OneOwnerEach'
  BY <1>1, <1>2, <1>5 DEF WpTypeOK, Create, New, OneOwnerEach
<1>6. ASSUME NEW s \in Slot, NEW t \in Slot, Copy(s, t) PROVE OneOwnerEach'
  BY <1>1, <1>2, <1>6 DEF WpTypeOK, Copy, CopyOf, New, OneOwnerEach
<1>7. ASSUME NEW s \in Slot, NEW t \in Slot, Move(s, t) PROVE OneOwnerEach'
  BY <1>1, <1>2, <1>7 DEF WpTypeOK, Move, OneOwnerEach
<1>8. ASSUME NEW s \in Slot, NEW t \in Slot, Assign(s, t) PROVE OneOwnerEach'
  BY <1>1, <1>2, <1>8 DEF WpTypeOK, Assign, CopyOf, New, Freed, OneOwnerEach
<1>9. ASSUME NEW s \in Slot, NEW t \in Slot, MoveAssign(s, t) PROVE OneOwnerEach'
  BY <1>1, <1>2, <1>9 DEF WpTypeOK, MoveAssign, Freed, OneOwnerEach
<1>10. QED
  BY <1>1, <1>3, <1>4, <1>5, <1>6, <1>7, <1>8, <1>9
     DEF WpNext, wpVars, OneOwnerEach, NewGuard, WpClear, DeleteGuard, MoveGuard, AssignGuard

\* No step uses freed storage.
LEMMA StepFault ==
    ASSUME ptr_owner => ~SelfCopy, WpInv, [WpNext]_wpVars
    PROVE  NoFault'
<1>1. /\ ~fault
      /\ \A g \in Guard : registered_weak_ptrs[g] \subseteq live
      /\ \A s \in live : ~GuardGone(s) /\ ~Dangling(s)
  BY NothingDangles DEF WpInv, NoFault
<1>2. QED
  BY <1>1 DEF WpNext, wpVars, NoFault, NewGuard, WpClear, DeleteGuard, Invalidate, MoveGuard, AssignGuard,
     TakeRegistrations, Create, Delete, Copy, Move, Assign, MoveAssign

\* WeakPtrs and guards agree, every owned resource is deleted exactly once, and no
\* freed storage is used, if no guard in use is assigned to and no owner copied to itself.
THEOREM WeakPtrSafe ==
    ASSUME ~AssignInUse, ptr_owner => ~SelfCopy
    PROVE  WpSpec => []PointersSafe
<1>1. WpInit => WpInv
  BY DEF WpInit, WpInv, WpTypeOK, RegistrationExact, ValidHasGuard, OneOwnerEach, NoFault
<1>2. WpInv /\ [WpNext]_wpVars => WpInv'
  BY StepType, StepRegistration, StepOwner, StepFault DEF WpInv
<1>3. WpInv => PointersSafe  BY DEF WpInv, PointersSafe
<1>4. QED  BY <1>1, <1>2, <1>3, PTL DEF WpSpec

-----------------------------------------------------------------------------
(* MemoryBufferLogger.                                                     *)

\* A reader that has passed its check asks for an item that is there.
AskedExists ==
    \A r \in Reader : asked[r] # <<>> =>
      asked[r][1] \in Nat /\ asked[r][1] < Len(items) /\ asked[r][1] < max_items

LogInv == LogTypeOK /\ WrapsOnlyWhenFull /\ AskedExists

\* What Kept is, whatever the position of the oldest item.
LEMMA KeptType ==
    ASSUME LogInv
    PROVE  /\ Kept \in Seq(Message) /\ Len(Kept) = Len(items) /\ Len(items) \in Nat
           /\ first_item_idx = 0 => Kept = items
           /\ first_item_idx <= Len(items)
<1>1. /\ items \in Seq(Message) /\ Len(items) \in Nat /\ first_item_idx \in Nat
      /\ max_items \in Nat
  BY LoggerAssumption DEF LogInv, LogTypeOK
<1>2. first_item_idx <= Len(items)  BY <1>1 DEF LogInv, WrapsOnlyWhenFull
<1>3. \A i \in 1 .. Len(items) :
        (IF i + first_item_idx > Len(items) THEN i + first_item_idx - Len(items)
                                            ELSE i + first_item_idx) \in 1 .. Len(items)
  BY <1>1, <1>2
<1>4. \A i \in 1 .. Len(items) : Kept[i] \in Message  BY <1>1, <1>3 DEF Kept
<1>5. Kept \in [1 .. Len(items) -> Message]  BY <1>4 DEF Kept
<1>6. Kept \in Seq(Message) /\ Len(Kept) = Len(items)  BY <1>1, <1>5
<1>7. ASSUME first_item_idx = 0 PROVE Kept = items
  <2>1. \A i \in 1 .. Len(items) : Kept[i] = items[i]  BY <1>1, <1>7 DEF Kept
  <2>2. QED  BY <1>1, <1>6, <2>1, SeqEqual
<1>8. QED  BY <1>1, <1>2, <1>6, <1>7

\* The invariant holds initially.
LEMMA InvInit == LogInit => LogInv
<1>1. SUFFICES ASSUME LogInit PROVE LogInv  OBVIOUS
<1>2. LogTypeOK  BY <1>1 DEF LogInit, LogTypeOK
<1>3. WrapsOnlyWhenFull  BY <1>1, LoggerAssumption DEF LogInit, WrapsOnlyWhenFull
<1>4. AskedExists  BY <1>1 DEF LogInit, AskedExists
<1>5. QED  BY <1>2, <1>3, <1>4 DEF LogInv

\* Every step keeps the invariant: a clear() comes only between get_item() calls, so
\* an index that was checked stays valid.
LEMMA InvStep ==
    ASSUME ~ClearRaces, LogInv, [LogNext]_logVars PROVE LogInv'
<1>1. /\ items \in Seq(Message) /\ Len(items) \in Nat /\ first_item_idx \in Nat
      /\ max_items \in Nat /\ delivered \in Seq(Message) /\ WrapsOnlyWhenFull
      /\ asked \in [Reader -> {<<>>} \cup {<<i>> : i \in Nat}] /\ AskedExists
  BY LoggerAssumption DEF LogInv, LogTypeOK
<1>2. ASSUME NEW m \in Message, Write(m) PROVE LogInv'
  <2>1. CASE max_items = 0 \/ Len(items) < max_items
    <3>1. items' = Append(items, m) /\ UNCHANGED <<first_item_idx, asked, delivered>>
      BY <1>2, <2>1 DEF Write
    <3>2. items' \in Seq(Message) /\ Len(items') = Len(items) + 1  BY <1>1, <3>1
    <3>3. LogTypeOK'  BY <1>1, <3>1, <3>2 DEF LogTypeOK
    <3>4. WrapsOnlyWhenFull'  BY <1>1, <2>1, <3>1, <3>2 DEF WrapsOnlyWhenFull
    <3>5. AskedExists'  BY <1>1, <3>1, <3>2 DEF AskedExists
    <3>6. QED  BY <3>3, <3>4, <3>5 DEF LogInv
  <2>2. CASE ~(max_items = 0 \/ Len(items) < max_items)
    <3>1. /\ items' = [items EXCEPT ![first_item_idx + 1] = m] /\ UNCHANGED <<asked, delivered>>
          /\ first_item_idx' = IF first_item_idx + 1 >= max_items THEN 0 ELSE first_item_idx + 1
      BY <1>2, <2>2 DEF Write
    <3>2. items' \in Seq(Message) /\ Len(items') = Len(items)
      <4>1. first_item_idx + 1 \in 1 .. Len(items)  BY <1>1, <2>2 DEF WrapsOnlyWhenFull
      <4>2. QED  BY <1>1, <3>1, <4>1, ExceptSeq
    <3>3. LogTypeOK'  BY <1>1, <3>1, <3>2 DEF LogTypeOK
    <3>4. WrapsOnlyWhenFull'  BY <1>1, <2>2, <3>1, <3>2 DEF WrapsOnlyWhenFull
    <3>5. AskedExists'  BY <1>1, <3>1, <3>2 DEF AskedExists
    <3>6. QED  BY <3>3, <3>4, <3>5 DEF LogInv
  <2>3. QED  BY <2>1, <2>2
<1>3. ASSUME NEW r \in Reader, NEW i \in 0 .. Len(items), CheckIndex(r, i) PROVE LogInv'
  <2>1. UNCHANGED <<items, first_item_idx, delivered>> /\ i \in Nat
        /\ asked' = [asked EXCEPT ![r] = <<i>>] /\ i < Len(items) /\ i < max_items
    BY <1>1, <1>3 DEF CheckIndex
  <2>2. LogTypeOK'  BY <1>1, <2>1 DEF LogTypeOK
  <2>3. WrapsOnlyWhenFull'  BY <1>1, <2>1 DEF WrapsOnlyWhenFull
  <2>4. AskedExists'  BY <1>1, <2>1 DEF AskedExists
  <2>5. QED  BY <2>2, <2>3, <2>4 DEF LogInv
<1>4. ASSUME NEW r \in Reader, ReadItem(r) PROVE LogInv'
  <2>1. UNCHANGED <<items, first_item_idx, delivered>> /\ asked' = [asked EXCEPT ![r] = <<>>]
    BY <1>4 DEF ReadItem
  <2>2. LogTypeOK'  BY <1>1, <2>1 DEF LogTypeOK
  <2>3. WrapsOnlyWhenFull'  BY <1>1, <2>1 DEF WrapsOnlyWhenFull
  <2>4. AskedExists'  BY <1>1, <2>1 DEF AskedExists
  <2>5. QED  BY <2>2, <2>3, <2>4 DEF LogInv
<1>5. CASE WriteToLogger
  <2>1. UNCHANGED <<items, first_item_idx, asked>>  BY <1>5 DEF WriteToLogger
  <2>2. first_item_idx <= Len(items)  BY KeptType
  <2>3. delivered' \in Seq(Message)
    <3>1. SubSeq(items, first_item_idx + 1, Len(items)) \in Seq(Message)  BY <1>1, <2>2
    <3>2. SubSeq(items, 1, first_item_idx) \in Seq(Message)  BY <1>1, <2>2
    <3>3. QED  BY <1>5, <3>1, <3>2 DEF WriteToLogger
  <2>4. LogTypeOK'  BY <1>1, <2>1, <2>3 DEF LogTypeOK
  <2>5. QED  BY <1>1, <2>1, <2>4 DEF LogInv, WrapsOnlyWhenFull, AskedExists
<1>6. CASE Clear
  <2>1. items' = <<>> /\ first_item_idx' = 0 /\ UNCHANGED <<asked, delivered>>
        /\ \A r \in Reader : asked[r] = <<>>
    BY <1>6 DEF Clear
  <2>2. LogTypeOK'  BY <1>1, <2>1 DEF LogTypeOK
  <2>3. WrapsOnlyWhenFull'  BY <1>1, <2>1 DEF WrapsOnlyWhenFull
  <2>4. AskedExists'  BY <2>1 DEF AskedExists
  <2>5. QED  BY <2>2, <2>3, <2>4 DEF LogInv
<1>7. CASE UNCHANGED logVars
  BY <1>1, <1>7 DEF logVars, LogInv, LogTypeOK, WrapsOnlyWhenFull, AskedExists
<1>8. QED  BY <1>2, <1>3, <1>4, <1>5, <1>6, <1>7 DEF LogNext

\* A write to a full buffer drops the oldest message and adds the new one last.
LEMMA WriteFull ==
    ASSUME LogInv, NEW m \in Message, Write(m), LogInv', max_items # 0, Len(items) = max_items
    PROVE  Kept' = Append(Tail(Kept), m)
<1>1. /\ items \in Seq(Message) /\ first_item_idx \in Nat /\ max_items \in Nat
      /\ first_item_idx < max_items
  BY LoggerAssumption DEF LogInv, LogTypeOK, WrapsOnlyWhenFull
<1>2. /\ items' = [items EXCEPT ![first_item_idx + 1] = m]
      /\ first_item_idx' = IF first_item_idx + 1 >= max_items THEN 0 ELSE first_item_idx + 1
  BY <1>1 DEF Write
<1>3. /\ Len(items') = max_items /\ items' \in Seq(Message)
      /\ \A j \in 1 .. max_items :
           items'[j] = IF j = first_item_idx + 1 THEN m ELSE items[j]
  <2>1. first_item_idx + 1 \in 1 .. Len(items)  BY <1>1
  <2>2. QED  BY <1>1, <1>2, <2>1, ExceptSeq
<1>4. Kept \in Seq(Message) /\ Len(Kept) = max_items /\ Len(Kept') = max_items
      /\ Kept' \in Seq(Message)
  <2>1. (Kept \in Seq(Message) /\ Len(Kept) = Len(items))'
    BY KeptType, PTL
  <2>2. QED  BY <1>3, <2>1, KeptType
<1>5. Append(Tail(Kept), m) \in Seq(Message) /\ Len(Append(Tail(Kept), m)) = max_items
  BY <1>1, <1>4
<1>6. ASSUME NEW i \in 1 .. max_items PROVE Kept'[i] = Append(Tail(Kept), m)[i]
  <2>1. Kept'[i] = items'[IF i + first_item_idx' > max_items
                            THEN i + first_item_idx' - max_items ELSE i + first_item_idx']
    BY <1>3 DEF Kept
  <2>2. CASE i = max_items
    <3>1. Append(Tail(Kept), m)[i] = m  BY <1>1, <1>4, <2>2
    <3>2. Kept'[i] = items'[first_item_idx + 1]  BY <1>1, <1>2, <2>1, <2>2
    <3>3. first_item_idx + 1 \in 1 .. max_items  BY <1>1
    <3>4. QED  BY <1>3, <3>1, <3>2, <3>3
  <2>3. CASE i < max_items
    <3>1. i + 1 \in 1 .. max_items /\ Append(Tail(Kept), m)[i] = Kept[i + 1]
      BY <1>1, <1>4, <2>3
    <3>2. Kept[i + 1] = items[IF i + 1 + first_item_idx > max_items
                                THEN i + 1 + first_item_idx - max_items
                                ELSE i + 1 + first_item_idx]
      BY <3>1 DEF Kept
    <3>3. Kept'[i] = items'[IF i + 1 + first_item_idx > max_items
                              THEN i + 1 + first_item_idx - max_items
                              ELSE i + 1 + first_item_idx]
      BY <1>1, <1>2, <2>1, <2>3
    <3>4. (IF i + 1 + first_item_idx > max_items THEN i + 1 + first_item_idx - max_items
                                                 ELSE i + 1 + first_item_idx)
            \in (1 .. max_items) \ {first_item_idx + 1}
      BY <1>1, <2>3
    <3>5. QED  BY <1>3, <3>1, <3>2, <3>3, <3>4
  <2>4. i = max_items \/ i < max_items  BY <1>1
  <2>5. QED  BY <2>2, <2>3, <2>4
<1>7. QED  BY <1>4, <1>5, <1>6, SeqEqual

\* What write_to_logger() delivers is the log from its oldest message on.
LEMMA DeliversKept ==
    ASSUME LogInv
    PROVE  SubSeq(items, first_item_idx + 1, Len(items)) \o SubSeq(items, 1, first_item_idx) = Kept
<1> DEFINE a == SubSeq(items, first_item_idx + 1, Len(items))
           b == SubSeq(items, 1, first_item_idx)
<1>1. items \in Seq(Message) /\ Len(items) \in Nat /\ first_item_idx \in Nat
  BY DEF LogInv, LogTypeOK
<1>2. first_item_idx <= Len(items) /\ Kept \in Seq(Message) /\ Len(Kept) = Len(items)
  BY KeptType
<1>3. /\ a \in Seq(Message) /\ Len(a) = Len(items) - first_item_idx
      /\ \A i \in 1 .. Len(a) : a[i] = items[i + first_item_idx]
  BY <1>1, <1>2
<1>4. /\ b \in Seq(Message) /\ Len(b) = first_item_idx
      /\ \A i \in 1 .. Len(b) : b[i] = items[i]
  BY <1>1, <1>2
<1> HIDE DEF a, b
<1>5. /\ a \o b \in Seq(Message) /\ Len(a \o b) = Len(items)
      /\ \A i \in 1 .. Len(items) : (a \o b)[i] = IF i <= Len(a) THEN a[i] ELSE b[i - Len(a)]
  <2>1. Len(a) + Len(b) = Len(items)  BY <1>1, <1>2, <1>3, <1>4
  <2>2. QED  BY <1>3, <1>4, <2>1, ConcatProperties
<1>6. ASSUME NEW i \in 1 .. Len(items) PROVE (a \o b)[i] = Kept[i]
  <2>1. CASE i + first_item_idx <= Len(items)
    <3>1. i \in 1 .. Len(a) /\ i <= Len(a) /\ ~(i + first_item_idx > Len(items))
      BY <1>1, <1>2, <1>3, <2>1
    <3>2. (a \o b)[i] = items[i + first_item_idx]  BY <1>3, <1>5, <3>1
    <3>3. QED  BY <3>1, <3>2 DEF Kept
  <2>2. CASE i + first_item_idx > Len(items)
    <3>1. i - Len(a) = i + first_item_idx - Len(items) /\ i - Len(a) \in 1 .. Len(b)
          /\ ~(i <= Len(a))
      BY <1>1, <1>2, <1>3, <1>4, <2>2
    <3>2. (a \o b)[i] = items[i + first_item_idx - Len(items)]  BY <1>4, <1>5, <3>1
    <3>3. QED  BY <2>2, <3>2 DEF Kept
  <2>3. i + first_item_idx <= Len(items) \/ i + first_item_idx > Len(items)  BY <1>1
  <2>4. QED  BY <2>1, <2>2, <2>3
<1>7. a \o b = Kept  BY <1>2, <1>5, <1>6, SeqEqual
<1>8. QED  BY <1>7 DEF a, b

\* Every step of the buffer is a step of the log or leaves the log alone.
LEMMA StepImplements ==
    ASSUME LogInv, LogInv', [LogNext]_logVars
    PROVE  [Log!Next]_Log!vars
<1>1. /\ Kept \in Seq(Message) /\ Len(Kept) = Len(items) /\ Len(items) \in Nat
      /\ first_item_idx = 0 => Kept = items
  BY KeptType
<1>2. (first_item_idx = 0 => Kept = items)'  BY KeptType, PTL
<1>3. ASSUME NEW m \in Message, Write(m) PROVE Log!Write(m)
  <2>1. delivered' = delivered /\ got' = got  BY <1>3 DEF Write
  <2>2. CASE max_items = 0 \/ Len(items) < max_items
    <3>1. first_item_idx = 0  BY <2>2 DEF LogInv, WrapsOnlyWhenFull
    <3>2. items' = Append(items, m) /\ first_item_idx' = first_item_idx
      BY <1>3, <2>2 DEF Write
    <3>3. Kept' = Append(Kept, m)  BY <1>1, <1>2, <3>1, <3>2
    <3>4. ~(max_items # 0 /\ Len(Kept) = max_items)  BY <1>1, <2>2, LoggerAssumption
    <3>5. QED  BY <2>1, <3>3, <3>4 DEF Log!Write
  <2>3. CASE max_items # 0 /\ Len(items) = max_items
    <3>1. Kept' = Append(Tail(Kept), m)  BY <1>3, <2>3, WriteFull
    <3>2. QED  BY <1>1, <2>1, <2>3, <3>1 DEF Log!Write
  <2>4. max_items # 0 => Len(items) <= max_items  BY DEF LogInv, WrapsOnlyWhenFull
  <2>5. QED  BY <1>1, <2>2, <2>3, <2>4, LoggerAssumption
<1>4. ASSUME NEW r \in Reader, ReadItem(r)
      PROVE  \E i \in 0 .. Len(Kept) : Log!GetItem(r, i)
  <2>1. PICK i \in Nat : i = asked[r][1] /\ i < Len(items) /\ i < max_items
    BY <1>4 DEF ReadItem, LogInv, AskedExists
  <2>2. items' = items /\ first_item_idx' = first_item_idx /\ delivered' = delivered
    BY <1>4 DEF ReadItem
  <2>3. Kept' = Kept  BY <2>2 DEF Kept
  <2>4. Place(i) < Len(items) /\ items[Place(i) + 1] = Kept[i + 1]
    <3>1. /\ first_item_idx \in Nat /\ max_items \in Nat /\ i + 1 \in 1 .. Len(items)
          /\ Len(items) <= max_items /\ first_item_idx < max_items
          /\ Len(items) < max_items => first_item_idx = 0
      BY <1>1, <2>1, LoggerAssumption DEF LogInv, LogTypeOK, WrapsOnlyWhenFull
    <3>2. CASE i + first_item_idx >= max_items
      <4>1. Len(items) = max_items  BY <1>1, <2>1, <3>1, <3>2
      <4>2. i + 1 + first_item_idx > Len(items)  BY <3>1, <3>2, <4>1
      <4>3. Kept[i + 1] = items[i + 1 + first_item_idx - Len(items)]  BY <3>1, <4>2 DEF Kept
      <4>4. Place(i) = i + first_item_idx - max_items /\ Place(i) < Len(items)
            /\ Place(i) + 1 = i + 1 + first_item_idx - Len(items)
        BY <2>1, <3>1, <3>2, <4>1 DEF Place
      <4>5. QED  BY <4>3, <4>4
    <3>3. CASE i + first_item_idx < max_items
      <4>1. Place(i) = i + first_item_idx  BY <2>1, <3>1, <3>3 DEF Place
      <4>2. i + first_item_idx < Len(items)  BY <1>1, <2>1, <3>1, <3>3
      <4>3. ~(i + 1 + first_item_idx > Len(items))  BY <1>1, <2>1, <3>1, <4>2
      <4>4. Kept[i + 1] = items[i + 1 + first_item_idx]  BY <3>1, <4>3 DEF Kept
      <4>5. i + 1 + first_item_idx = Place(i) + 1  BY <3>1, <4>1
      <4>6. QED  BY <4>1, <4>2, <4>4, <4>5
    <3>4. QED  BY <2>1, <3>1, <3>2, <3>3
  <2>5. got' = [got EXCEPT ![r] = <<i, Kept[i + 1]>>]
    BY <1>4, <2>1, <2>4 DEF ReadItem
  <2>6. Log!GetItem(r, i)  BY <1>1, <2>1, <2>2, <2>3, <2>5 DEF Log!GetItem
  <2>7. i \in 0 .. Len(Kept)  BY <1>1, <2>1
  <2>8. QED  BY <2>6, <2>7
<1>5. ASSUME NEW r \in Reader, NEW i \in 0 .. Len(items), CheckIndex(r, i)
      PROVE  UNCHANGED Log!vars
  BY <1>5 DEF CheckIndex, Log!vars, Kept
<1>6. ASSUME WriteToLogger PROVE Log!WriteToLogger
  BY <1>6, DeliversKept DEF WriteToLogger, Log!WriteToLogger, Kept
<1>7. ASSUME Clear PROVE Log!Clear
  BY <1>2, <1>7 DEF Clear, Log!Clear
<1>8. CASE UNCHANGED logVars  BY <1>8 DEF logVars, Log!vars, Kept
<1>9. QED  BY <1>3, <1>4, <1>5, <1>6, <1>7, <1>8 DEF LogNext, Log!Next

\* The ring buffer implements the log of the last max_items messages.
THEOREM BufferIsMessageLog ==
    ASSUME ~ClearRaces PROVE LogSpec => ImplementsMessageLog
<1>1. LogInit => Log!Init
  <2>1. SUFFICES ASSUME LogInit PROVE Log!Init  OBVIOUS
  <2>2. LogInv /\ items = <<>> /\ first_item_idx = 0  BY <2>1, InvInit DEF LogInit
  <2>3. Kept = <<>>  BY <2>2, KeptType
  <2>4. QED  BY <2>1, <2>3 DEF LogInit, Log!Init
<1>2. LogInv /\ [LogNext]_logVars => LogInv'  BY InvStep
<1>3. LogInv /\ LogInv' /\ [LogNext]_logVars => [Log!Next]_Log!vars  BY StepImplements
<1>4. QED  BY <1>1, <1>2, <1>3, InvInit, PTL DEF LogSpec, ImplementsMessageLog, Log!Spec

-----------------------------------------------------------------------------
(* Arithmetic, and smallest numbers.                                       *)

LEMMA Divided ==
    ASSUME NEW a \in Nat, NEW n \in Nat \ {0}
    PROVE  /\ a \div n \in Nat /\ a % n \in 0 .. n - 1
           /\ a = n * (a \div n) + (a % n)
OBVIOUS

LEMMA Multiplied ==
    ASSUME NEW a \in Nat, NEW c \in Nat, NEW n \in Nat \ {0}
    PROVE  /\ a * n \in Nat /\ a * n = n * a
           /\ a < c => a * n + n <= c * n
           /\ c <= a => c * n <= a * n
OBVIOUS

\* Ids of a later byte are greater, and in one byte the remainders decide.
LEMMA BytesInOrder ==
    ASSUME NEW a \in Nat, NEW c \in Nat, NEW n \in Nat \ {0}
    PROVE  /\ a \div n < c \div n => a < c
           /\ a \div n = c \div n => (a < c <=> a % n < c % n)
<1> DEFINE x == a \div n
           y == c \div n
           p == a % n
           q == c % n
<1>1. x \in Nat /\ p \in 0 .. n - 1 /\ a = n * x + p
  BY Divided
<1>2. y \in Nat /\ q \in 0 .. n - 1 /\ c = n * y + q
  BY Divided
<1> HIDE DEF x, y, p, q
<1>3. x * n \in Nat /\ y * n \in Nat /\ x * n = n * x /\ y * n = n * y /\ (x < y => x * n + n <= y * n)
  BY <1>1, <1>2, Multiplied
<1>4. x < y => a < c
  BY <1>1, <1>2, <1>3
<1>5. x = y => (a < c <=> p < q)
  BY <1>1, <1>2, <1>3
<1> QED
  BY <1>4, <1>5 DEF x, y, p, q

\* An id lies in the map when its byte does.
LEMMA ByteInMap ==
    ASSUME NEW a \in Nat, NEW k \in Nat, NEW n \in Nat \ {0}
    PROVE  a \in 0 .. (k * n - 1) <=> a \div n < k
<1> DEFINE x == a \div n
           p == a % n
<1>1. x \in Nat /\ p \in 0 .. n - 1 /\ a = n * x + p
  BY Divided
<1> HIDE DEF x, p
<1>2. /\ x * n \in Nat /\ k * n \in Nat /\ x * n = n * x
      /\ (x < k => x * n + n <= k * n) /\ (k <= x => k * n <= x * n)
  BY <1>1, Multiplied
<1>3. a \in 0 .. (k * n - 1) <=> x < k
  BY <1>1, <1>2
<1> QED
  BY <1>3 DEF x

\* Every set of numbers that is not empty has a smallest one, which Min gives.
LEMMA SmallestOf ==
    ASSUME NEW T \in SUBSET Nat, T # {}
    PROVE  Min(T) \in T /\ \A y \in T : Min(T) <= y
<1> DEFINE R == OpToRel(<, Nat)
<1>1. \A a, b \in Nat : a < b => <<a, b>> \in R
  BY DEF OpToRel
<1>2. IsWellFoundedOn(R, Nat)
  BY NatLessThanWellFounded
<1> HIDE DEF R
<1>3. PICK x \in T : \A y \in T : ~ (<<y, x>> \in R)
  BY <1>2, WFMin
<1>4. \A y \in T : ~ (y < x)
  BY <1>1, <1>3
<1>5. \A y \in T : x <= y
  BY <1>3, <1>4
<1>6. \E z \in T : \A y \in T : z <= y
  BY <1>5
<1> QED
  BY <1>6 DEF Min

\* A set of numbers that holds 0 and with each number the next one.
LEMMA NumbersUpTo ==
    ASSUME NEW N \in Nat, NEW G, 0 \in G, \A n \in 1 .. N : n - 1 \in G => n \in G
    PROVE  N \in G
<1> DEFINE T == {n \in 0 .. N : n \notin G}
<1>1. SUFFICES ASSUME T # {} PROVE FALSE
  OBVIOUS
<1>2. T \in SUBSET Nat
  OBVIOUS
<1>3. PICK n \in T : \A m \in T : n <= m
  <2> HIDE DEF T
  <2> QED
    BY <1>1, <1>2, SmallestOf
<1>4. n \in 1 .. N /\ n - 1 \in 0 .. N /\ ~ (n <= n - 1)
  BY <1>3
<1> QED
  BY <1>3, <1>4

LEMMA GreaterOfTwo ==
    ASSUME NEW a \in Nat, NEW b \in Nat
    PROVE  Max({a, b}) = IF a >= b THEN a ELSE b
BY DEF Max

-----------------------------------------------------------------------------
(* Bit maps and their iterator.                                            *)

Maps == {m \in [bytes : Nat, bits : SUBSET Nat] : m.bits \subseteq 0 .. (m.bytes * ByteBits - 1)}

Iterators ==
    [on : BOOLEAN, of : MapNames, at : Nat, end : Nat, value : Nat \cup {BEGIN, END}, lost : BOOLEAN,
     seen : Seq(Nat), stable : SUBSET Nat, ever : SUBSET Nat, rewound : BOOLEAN]

\* Where an iterator may stand: at its end, or at an id of the byte it is in.
Placed(it) ==
    /\ it.at <= it.end
    /\ it.value = END \/ (it.value \in Nat /\ it.value \div ByteBits = it.at /\ it.at < it.end)

\* What a step of an iterator from it to nx over map m finds: the first of the
\* ids in S, if there is one.
Finds(m, it, nx, S) ==
    /\ nx \in Iterators /\ Placed(nx)
    /\ nx = [it EXCEPT !.at = nx.at, !.value = nx.value]
    /\ nx.value = END => S = {}
    /\ nx.value # END => nx.value \in S /\ \A id \in S : nx.value <= id

LEMMA BitsByByte ==
    ASSUME NEW m \in Maps, NEW id \in m.bits
    PROVE  /\ id \in Nat /\ id \div ByteBits \in 0 .. m.bytes - 1
           /\ id \in ByteOf(m, id \div ByteBits)
<1>1. m.bytes \in Nat /\ ByteBits \in Nat \ {0} /\ id \in 0 .. (m.bytes * ByteBits - 1) /\ id \in Nat
  BY SolvContainersAssumption DEF Maps
<1>2. id \div ByteBits < m.bytes /\ id \div ByteBits \in Nat
  BY <1>1, ByteInMap, Divided
<1> QED
  BY <1>1, <1>2 DEF ByteOf

\* SolvMapIterator::operator++ from byte b on.
LEMMA ScanFinds ==
    ASSUME NEW m \in Maps, NEW it \in Iterators, it.end = m.bytes, NEW b \in Nat, b <= it.end
    PROVE  Finds(m, it, Scan(m, it, b), {id \in m.bits : b <= id \div ByteBits})
<1> DEFINE bytes == {c \in b .. it.end - 1 : ByteOf(m, c) # {}}
           S == {id \in m.bits : b <= id \div ByteBits}
           nx == Scan(m, it, b)
<1>1. it.end \in Nat /\ ByteBits \in Nat \ {0} /\ m.bits \subseteq Nat
  BY SolvContainersAssumption DEF Iterators, Maps
<1>2. \A id \in m.bits : id \in Nat /\ id \div ByteBits \in 0 .. m.bytes - 1 /\ id \in ByteOf(m, id \div ByteBits)
  BY BitsByByte
<1>3. CASE bytes = {}
  <2>1. nx = [it EXCEPT !.at = it.end, !.value = END]
    BY <1>1, <1>3, GreaterOfTwo DEF Scan
  <2>2. S = {}
    <3>1. SUFFICES ASSUME NEW id \in S PROVE FALSE
      OBVIOUS
    <3>2. id \div ByteBits \in bytes
      BY <1>1, <1>2, <3>1
    <3> QED
      BY <1>3, <3>2
  <2> HIDE DEF S, bytes
  <2>3. nx \in Iterators /\ nx.at = it.end /\ nx.value = END /\ nx.end = it.end
    BY <1>1, <2>1 DEF Iterators
  <2>4. nx = [it EXCEPT !.at = nx.at, !.value = nx.value]
    BY <2>1, <2>3
  <2> HIDE DEF nx
  <2>5. Finds(m, it, nx, S)
    BY <1>1, <2>2, <2>3, <2>4 DEF Finds, Placed
  <2> QED
    BY <2>5 DEF nx, S
<1>4. CASE bytes # {}
  <2> DEFINE k == Min(bytes)
             v == Min(ByteOf(m, k))
  <2>1. nx = [it EXCEPT !.at = k, !.value = v]
    BY <1>4 DEF Scan
  <2>2. k \in bytes /\ \A c \in bytes : k <= c
    <3>1. bytes \in SUBSET Nat
      BY <1>1
    <3> HIDE DEF bytes
    <3> QED
      BY <1>4, <3>1, SmallestOf
  <2> HIDE DEF k
  <2>3. k \in Nat /\ b <= k /\ k < it.end /\ ByteOf(m, k) # {}
    BY <1>1, <2>2
  <2>4. v \in ByteOf(m, k) /\ \A id \in ByteOf(m, k) : v <= id
    <3>1. ByteOf(m, k) \in SUBSET Nat
      BY <1>1 DEF ByteOf
    <3> QED
      BY <2>3, <3>1, SmallestOf
  <2>5. v \in m.bits /\ v \in Nat /\ v \div ByteBits = k
    BY <1>1, <2>4 DEF ByteOf
  <2> HIDE DEF v
  <2>6. ASSUME NEW id \in S PROVE v <= id
    <3>1. id \in Nat /\ id \div ByteBits \in bytes /\ id \in ByteOf(m, id \div ByteBits)
      BY <1>1, <1>2
    <3>2. k <= id \div ByteBits /\ id \div ByteBits \in Nat
      BY <1>1, <2>2, <3>1
    <3>3. CASE id \div ByteBits = k
      BY <2>4, <3>1, <3>3
    <3>4. CASE k < id \div ByteBits
      <4>1. v < id
        BY <1>1, <2>5, <3>1, <3>4, BytesInOrder
      <4> QED
        BY <2>5, <3>1, <4>1
    <3> QED
      BY <2>3, <3>2, <3>3, <3>4
  <2>7. v \in S
    BY <2>3, <2>5
  <2> HIDE DEF S, bytes
  <2>8. nx \in Iterators /\ nx.at = k /\ nx.value = v /\ nx.end = it.end
    BY <1>1, <2>1, <2>3, <2>5 DEF Iterators
  <2>9. nx = [it EXCEPT !.at = nx.at, !.value = nx.value]
    BY <2>1, <2>8
  <2> HIDE DEF nx
  <2>10. Finds(m, it, nx, S)
    BY <1>1, <2>3, <2>5, <2>6, <2>7, <2>8, <2>9 DEF Finds, Placed, END
  <2> QED
    BY <2>10 DEF nx, S
<1> QED
  BY <1>3, <1>4

\* SolvMapIterator::operator++ from an id.
LEMMA IncrementFinds ==
    ASSUME NEW m \in Maps, NEW it \in Iterators, it.end = m.bytes, Placed(it), it.value \in Nat
    PROVE  Finds(m, it, Increment(m, it), {id \in m.bits : it.value < id})
<1> DEFINE S == {id \in m.bits : it.value < id}
           nx == Increment(m, it)
           v == it.value
           k == it.at
<1>1. /\ ByteBits \in Nat \ {0} /\ m.bits \subseteq Nat /\ v \in Nat /\ k \in Nat /\ it.end \in Nat
      /\ v \div ByteBits = k /\ k < it.end /\ v # END /\ ~ (v < 0)
  BY SolvContainersAssumption DEF Maps, Iterators, Placed, END
<1>2. \A id \in m.bits : id \in Nat /\ id \div ByteBits \in Nat /\ id \in ByteOf(m, id \div ByteBits)
  BY BitsByByte
<1>3. \A id \in m.bits : /\ k < id \div ByteBits => v < id
                         /\ id \div ByteBits < k => id < v
                         /\ id \div ByteBits = k => (v < id <=> v % ByteBits < id % ByteBits)
  BY <1>1, <1>2, BytesInOrder
<1>4. \A id : id \in Rest(m, it) <=> id \in m.bits /\ id \div ByteBits = k /\ v < id
  <2>1. ASSUME NEW id \in m.bits, id \div ByteBits = k
        PROVE  id % ByteBits > v % ByteBits <=> v < id
    <3>1. v < id <=> v % ByteBits < id % ByteBits
      BY <1>3, <2>1
    <3>2. id % ByteBits \in 0 .. ByteBits - 1 /\ v % ByteBits \in 0 .. ByteBits - 1
      BY <1>1, <1>2, Divided
    <3> QED
      BY <3>1, <3>2
  <2> QED
    BY <2>1 DEF Rest, ByteOf
<1>5. CASE Rest(m, it) # {}
  <2> DEFINE x == Min(Rest(m, it))
  <2>1. nx = [it EXCEPT !.value = x]
    BY <1>1, <1>5 DEF Increment
  <2>2. x \in Rest(m, it) /\ \A id \in Rest(m, it) : x <= id
    <3>1. Rest(m, it) \in SUBSET Nat
      BY <1>1, <1>4
    <3> QED
      BY <1>5, <3>1, SmallestOf
  <2> HIDE DEF x
  <2>3. x \in m.bits /\ x \in Nat /\ x \div ByteBits = k /\ v < x
    BY <1>2, <1>4, <2>2
  <2>4. ASSUME NEW id \in S PROVE x <= id
    <3>1. id \in m.bits /\ id \in Nat /\ id \div ByteBits \in Nat /\ v < id
      BY <1>2
    <3>2. ~ (id \div ByteBits < k)
      BY <1>1, <1>3, <3>1
    <3>3. CASE id \div ByteBits = k
      BY <1>4, <2>2, <3>1, <3>3
    <3>4. CASE k < id \div ByteBits
      <4>1. x < id
        BY <1>1, <2>3, <3>1, <3>4, BytesInOrder
      <4> QED
        BY <2>3, <3>1, <4>1
    <3> QED
      BY <1>1, <3>1, <3>2, <3>3, <3>4
  <2>5. x \in S
    BY <2>3
  <2>6. nx \in Iterators /\ nx.at = k /\ nx.value = x /\ nx.end = it.end
    BY <1>1, <2>1, <2>3 DEF Iterators
  <2>7. nx = [it EXCEPT !.at = nx.at, !.value = nx.value]
    BY <2>1, <2>6 DEF Iterators
  <2> HIDE DEF nx, S
  <2>8. Finds(m, it, nx, S)
    BY <1>1, <2>3, <2>4, <2>5, <2>6, <2>7 DEF Finds, Placed, END
  <2> QED
    BY <2>8 DEF nx, S
<1>6. CASE Rest(m, it) = {}
  <2>1. nx = Scan(m, it, k + 1)
    BY <1>1, <1>6 DEF Increment
  <2>2. k + 1 \in Nat /\ k + 1 <= it.end
    BY <1>1
  <2>3. Finds(m, it, nx, {id \in m.bits : k + 1 <= id \div ByteBits})
    BY <2>1, <2>2, ScanFinds
  <2>4. ASSUME NEW id \in m.bits PROVE k + 1 <= id \div ByteBits <=> v < id
    <3>1. id \in Nat /\ id \div ByteBits \in Nat
      BY <1>2
    <3>2. id \div ByteBits = k => ~ (v < id)
      BY <1>4, <1>6
    <3>3. (id \div ByteBits < k => id < v) /\ (k < id \div ByteBits => v < id)
      BY <1>3
    <3> QED
      BY <1>1, <3>1, <3>2, <3>3
  <2>5. {id \in m.bits : k + 1 <= id \div ByteBits} = S
    BY <2>4
  <2> HIDE DEF nx, S
  <2>6. Finds(m, it, nx, S)
    BY <2>3, <2>5
  <2> QED
    BY <2>6 DEF nx, S
<1> QED
  BY <1>5, <1>6

\* SolvMapIterator::begin goes on from the byte it is in.
LEMMA BeginFinds ==
    ASSUME NEW m \in Maps, NEW it \in Iterators, it.end = m.bytes, it.at <= it.end
    PROVE  Finds(m, it, Begin(m, it), {id \in m.bits : it.at <= id \div ByteBits})
<1> DEFINE jt == [it EXCEPT !.value = BEGIN]
           nx == Begin(m, it)
           S == {id \in m.bits : it.at <= id \div ByteBits}
<1>1. jt \in Iterators /\ jt.end = m.bytes /\ jt.at = it.at /\ jt.value = BEGIN /\ jt.end = it.end /\ it.at \in Nat
  BY DEF Iterators
<1>2. nx = Increment(m, jt)
  BY DEF Begin
<1>3. nx = Scan(m, jt, it.at)
  <2> HIDE DEF jt, nx
  <2> QED
    BY <1>1, <1>2 DEF Increment, BEGIN
<1> HIDE DEF S, nx, jt
<1>4. Finds(m, jt, nx, S)
  BY <1>1, <1>3, ScanFinds DEF S
<1>5. nx = [it EXCEPT !.at = nx.at, !.value = nx.value]
  <2>1. nx = [jt EXCEPT !.at = nx.at, !.value = nx.value]
    BY <1>4 DEF Finds
  <2> QED
    BY <2>1 DEF jt, Iterators
<1>6. Finds(m, it, nx, S)
  BY <1>4, <1>5 DEF Finds
<1> QED
  BY <1>6 DEF nx, S

-----------------------------------------------------------------------------
(* A walk over a map.                                                      *)

Ascending(s) == \A i, j \in DOMAIN s : i < j => s[i] < s[j]

\* What holds of a walk w over map m between two of its steps: it has returned
\* ids in order, the last of them where it stands, and of the ids that were
\* there all the time every one up to there.
Walking(w, m) ==
    /\ w.end = m.bytes /\ Placed(w)
    /\ Ascending(w.seen)
    /\ w.value # END => w.seen # << >> /\ w.seen[Len(w.seen)] = w.value
    /\ ToSet(w.seen) \subseteq w.ever
    /\ w.stable \subseteq m.bits /\ m.bits \subseteq w.ever
    /\ ~ w.rewound => \A id \in w.stable : (w.value = END \/ id <= w.value) => id \in ToSet(w.seen)

\* A step of the iterator whose result the caller takes.
LEMMA StepWalks ==
    ASSUME NEW m \in Maps, NEW w \in Iterators, Walking(w, m), w.value \in Nat
    PROVE  LET r == Returned(Increment(m, w)) IN
           /\ r \in Iterators /\ Walking(r, m)
           /\ r.on = w.on /\ r.of = w.of /\ r.lost = w.lost
<1> DEFINE S == {id \in m.bits : w.value < id}
           nx == Increment(m, w)
           r == Returned(nx)
           v == w.value
<1>1. w.end = m.bytes /\ Placed(w)
  BY DEF Walking
<1>2. Finds(m, w, nx, S)
  BY <1>1, IncrementFinds
<1> HIDE DEF nx
<1>3. /\ nx \in Iterators /\ Placed(nx)
      /\ nx.on = w.on /\ nx.of = w.of /\ nx.end = w.end /\ nx.lost = w.lost /\ nx.seen = w.seen
      /\ nx.stable = w.stable /\ nx.ever = w.ever /\ nx.rewound = w.rewound
      /\ nx.value = END => S = {}
      /\ nx.value # END => nx.value \in S /\ \A id \in S : nx.value <= id
  <2>1. nx = [w EXCEPT !.at = nx.at, !.value = nx.value]
    BY <1>2 DEF Finds
  <2>2. /\ nx.on = w.on /\ nx.of = w.of /\ nx.end = w.end /\ nx.lost = w.lost /\ nx.seen = w.seen
        /\ nx.stable = w.stable /\ nx.ever = w.ever /\ nx.rewound = w.rewound
    BY <2>1 DEF Iterators
  <2> QED
    BY <1>2, <2>2 DEF Finds
<1>4. /\ m.bits \subseteq Nat /\ v \in Nat /\ w.seen \in Seq(Nat) /\ w.seen # << >> /\ w.seen[Len(w.seen)] = v
      /\ Ascending(w.seen) /\ ToSet(w.seen) \subseteq w.ever /\ w.stable \subseteq m.bits /\ m.bits \subseteq w.ever
      /\ ~ w.rewound => \A id \in w.stable : id <= v => id \in ToSet(w.seen)
  BY DEF Walking, Maps, Iterators, END
<1>5. CASE nx.value = END
  <2>1. r = nx
    BY <1>5 DEF Returned, END
  <2>2. \A id \in w.stable : id <= v
    BY <1>3, <1>4, <1>5
  <2>3. Walking(nx, m)
    BY <1>1, <1>3, <1>4, <1>5, <2>2 DEF Walking
  <2> QED
    BY <1>3, <2>1, <2>3 DEF nx
<1>6. CASE nx.value # END
  <2> DEFINE x == nx.value
             t == Append(w.seen, x)
  <2>1. x \in S /\ x \in Nat /\ x \in m.bits /\ v < x /\ \A id \in S : x <= id
    BY <1>3, <1>4, <1>6
  <2>2. r = [nx EXCEPT !.seen = t]
    BY <1>3, <2>1 DEF Returned
  <2>3. /\ t \in Seq(Nat) /\ Len(t) = Len(w.seen) + 1 /\ t[Len(t)] = x /\ t # << >>
        /\ DOMAIN t = 1 .. Len(w.seen) + 1 /\ DOMAIN w.seen = 1 .. Len(w.seen) /\ Len(w.seen) \in Nat \ {0}
        /\ \A i \in 1 .. Len(w.seen) : t[i] = w.seen[i]
    BY <1>4, <2>1
  <2> HIDE DEF t
  <2>4. Ascending(t)
    <3>1. ASSUME NEW i \in DOMAIN t, NEW j \in DOMAIN t, i < j PROVE t[i] < t[j]
      <4>1. i \in 1 .. Len(w.seen) /\ j \in 1 .. Len(w.seen) + 1 /\ Len(w.seen) \in 1 .. Len(w.seen)
        BY <1>4, <2>3, <3>1
      <4>2. CASE j \in 1 .. Len(w.seen)
        BY <1>4, <2>3, <3>1, <4>1, <4>2 DEF Ascending
      <4>3. CASE j = Len(w.seen) + 1
        <5>1. t[j] = x /\ t[i] = w.seen[i] /\ w.seen[i] \in Nat
          BY <1>4, <2>3, <4>1, <4>3
        <5>2. i < Len(w.seen) => w.seen[i] < w.seen[Len(w.seen)]
          <6>1. i \in DOMAIN w.seen /\ Len(w.seen) \in DOMAIN w.seen
            BY <2>3, <4>1
          <6>2. Ascending(w.seen)
            BY <1>4
          <6> QED
            BY <6>1, <6>2 DEF Ascending
        <5> QED
          BY <1>4, <2>1, <2>3, <4>1, <5>1, <5>2
      <4> QED
        BY <4>1, <4>2, <4>3
    <3> QED
      BY <3>1 DEF Ascending
  <2>5. ToSet(t) = ToSet(w.seen) \cup {x}
    <3>1. \A i \in DOMAIN t : i \in DOMAIN w.seen \/ i = Len(t)
      BY <2>3
    <3>2. DOMAIN w.seen \subseteq DOMAIN t /\ Len(t) \in DOMAIN t
      BY <2>3
    <3>3. t[Len(t)] = x /\ \A i \in DOMAIN w.seen : t[i] = w.seen[i]
      BY <2>3
    <3> QED
      BY <3>1, <3>2, <3>3, Zenon DEF ToSet
  <2>6. ASSUME ~ w.rewound, NEW id \in w.stable, id <= x PROVE id \in ToSet(t)
    <3>1. id \in m.bits /\ id \in Nat
      BY <1>4
    <3>2. CASE id <= v
      BY <1>4, <2>5, <2>6, <3>2
    <3>3. CASE v < id
      <4>1. id \in S
        BY <3>1, <3>3
      <4>2. id = x
        BY <2>1, <2>6, <3>1, <4>1
      <4> QED
        BY <2>5, <4>2
    <3> QED
      BY <1>4, <3>1, <3>2, <3>3
  <2>7. /\ r \in Iterators /\ r.seen = t /\ r.value = x /\ r.at = nx.at /\ r.end = w.end /\ r.stable = w.stable
        /\ r.ever = w.ever /\ r.rewound = w.rewound /\ r.on = w.on /\ r.of = w.of /\ r.lost = w.lost
    BY <1>3, <2>2, <2>3 DEF Iterators
  <2> HIDE DEF r, x
  <2>8. Placed(r)
    BY <1>3, <2>7 DEF Placed, x
  <2>9. Walking(r, m)
    <3>1. x # END
      BY <1>6 DEF x
    <3>2. r.end = m.bytes /\ Ascending(r.seen) /\ r.seen # << >> /\ r.seen[Len(r.seen)] = r.value
      BY <1>1, <2>3, <2>4, <2>7
    <3>3. ToSet(r.seen) \subseteq r.ever /\ r.stable \subseteq m.bits /\ m.bits \subseteq r.ever
      BY <1>4, <2>1, <2>5, <2>7
    <3>4. ~ r.rewound => \A id \in r.stable : (r.value = END \/ id <= r.value) => id \in ToSet(r.seen)
      BY <2>6, <2>7, <3>1
    <3> QED
      BY <2>8, <3>2, <3>3, <3>4 DEF Walking
  <2> QED
    BY <2>7, <2>9 DEF r, nx
<1> QED
  BY <1>5, <1>6

\* Where a walk begins: nothing is returned yet but the id it stands at, which is
\* the first of S.
LEMMA BeginWalks ==
    ASSUME NEW m \in Maps, NEW w \in Iterators, NEW S \in SUBSET m.bits, w.rewound \/ S = m.bits,
           w.end = m.bytes, Placed(w), w.stable = m.bits, w.ever = m.bits,
           w.seen = IF w.value = END THEN << >> ELSE <<w.value>>,
           w.value = END => S = {},
           w.value # END => w.value \in S /\ \A id \in S : w.value <= id
    PROVE  Walking(w, m)
<1>1. m.bits \subseteq Nat
  BY DEF Maps
<1>2. CASE w.value = END
  <2>1. w.seen = << >> /\ S = {}
    BY <1>2
  <2>2. Ascending(w.seen) /\ ToSet(w.seen) = {}
    BY <2>1 DEF Ascending, ToSet
  <2> QED
    BY <1>2, <2>1, <2>2 DEF Walking
<1>3. CASE w.value # END
  <2>1. w.seen = <<w.value>> /\ w.value \in S /\ \A id \in S : w.value <= id
    BY <1>3
  <2>2. DOMAIN w.seen = {1} /\ w.seen[1] = w.value /\ Len(w.seen) = 1 /\ w.seen # << >>
    BY <2>1
  <2>3. Ascending(w.seen) /\ ToSet(w.seen) = {w.value}
    BY <2>2 DEF Ascending, ToSet
  <2>4. \A id \in S : id <= w.value => id = w.value
    BY <1>1, <2>1
  <2> QED
    BY <1>3, <2>1, <2>2, <2>3, <2>4 DEF Walking
<1> QED
  BY <1>2, <1>3

\* What the caller's record of a walk that begins over set s holds.
LEMMA StartedFields ==
    ASSUME NEW s \in MapNames, NEW m \in Maps, smap[s] = m, NEW it \in Iterators, it.value \in Nat \cup {END},
           NEW w, w = Started(s, it)
    PROVE  /\ w \in Iterators /\ w.on /\ w.of = s /\ w.at = it.at /\ w.end = it.end /\ w.value = it.value
           /\ w.lost = it.lost /\ w.rewound = it.rewound
           /\ w.seen = IF w.value = END THEN << >> ELSE <<w.value>>
           /\ w.stable = m.bits /\ w.ever = m.bits
<1> DEFINE B == m.bits
           x1 == [it EXCEPT !.on = TRUE, !.of = s]
           x2 == [x1 EXCEPT !.seen = << >>]
           x == [x2 EXCEPT !.stable = B, !.ever = B]
<1>1. B \in SUBSET Nat /\ << >> \in Seq(Nat)
  BY DEF Maps
<1>2. w = Returned(x)
  BY DEF Started
<1> HIDE DEF B
<1>3. /\ x \in Iterators
      /\ x.on = TRUE /\ x.of = s /\ x.at = it.at /\ x.end = it.end /\ x.value = it.value
      /\ x.lost = it.lost /\ x.rewound = it.rewound /\ x.seen = << >> /\ x.stable = B /\ x.ever = B
  <2>1. /\ x1 \in Iterators
        /\ x1.on = TRUE /\ x1.of = s /\ x1.at = it.at /\ x1.end = it.end /\ x1.value = it.value
        /\ x1.lost = it.lost /\ x1.rewound = it.rewound /\ x1.seen = it.seen /\ x1.stable = it.stable /\ x1.ever = it.ever
    BY DEF Iterators
  <2> HIDE DEF x1
  <2>2. /\ x2 \in Iterators
        /\ x2.on = TRUE /\ x2.of = s /\ x2.at = it.at /\ x2.end = it.end /\ x2.value = it.value
        /\ x2.lost = it.lost /\ x2.rewound = it.rewound /\ x2.seen = << >> /\ x2.stable = it.stable /\ x2.ever = it.ever
    BY <1>1, <2>1 DEF Iterators
  <2> HIDE DEF x2
  <2> QED
    BY <1>1, <2>2 DEF Iterators
<1> HIDE DEF x
<1>4. CASE it.value = END
  <2>1. w = x
    BY <1>2, <1>3, <1>4 DEF Returned, END
  <2> QED
    BY <1>3, <1>4, <2>1 DEF B
<1>5. CASE it.value # END
  <2> DEFINE t == <<it.value>>
             y == [x EXCEPT !.seen = t]
  <2>1. t \in Seq(Nat) /\ it.value \in Nat
    BY <1>5
  <2>2. w = y
    BY <1>2, <1>3, <2>1 DEF Returned
  <2> HIDE DEF t
  <2>3. /\ y \in Iterators
        /\ y.on = TRUE /\ y.of = s /\ y.at = it.at /\ y.end = it.end /\ y.value = it.value
        /\ y.lost = it.lost /\ y.rewound = it.rewound /\ y.seen = t /\ y.stable = B /\ y.ever = B
    BY <1>3, <2>1 DEF Iterators
  <2> HIDE DEF y
  <2> QED
    BY <1>5, <2>2, <2>3 DEF B, t
<1> QED
  BY <1>4, <1>5

\* Changing the map in place keeps what holds of a walk over it.
LEMMA ChangeWalks ==
    ASSUME NEW m \in Maps, NEW n \in Maps, n.bytes = m.bytes, NEW w \in Iterators, Walking(w, m)
    PROVE  LET r == [w EXCEPT !.stable = @ \cap n.bits, !.ever = @ \cup n.bits] IN
           r \in Iterators /\ Walking(r, n)
<1> DEFINE r == [w EXCEPT !.stable = @ \cap n.bits, !.ever = @ \cup n.bits]
<1>1. n.bits \in SUBSET Nat
  BY DEF Maps
<1>2. /\ r \in Iterators /\ r.at = w.at /\ r.end = w.end /\ r.value = w.value /\ r.seen = w.seen
      /\ r.rewound = w.rewound /\ r.stable = w.stable \cap n.bits /\ r.ever = w.ever \cup n.bits
  <2> DEFINE a == w.stable \cap n.bits
             b == w.ever \cup n.bits
  <2>1. a \in SUBSET Nat /\ b \in SUBSET Nat
    BY <1>1 DEF Iterators
  <2>2. r = [w EXCEPT !.stable = a, !.ever = b]
    OBVIOUS
  <2> HIDE DEF a, b, r
  <2>3. /\ r \in Iterators /\ r.at = w.at /\ r.end = w.end /\ r.value = w.value /\ r.seen = w.seen
        /\ r.rewound = w.rewound /\ r.stable = a /\ r.ever = b
    BY <2>1, <2>2 DEF Iterators
  <2> QED
    BY <2>3 DEF a, b
<1> HIDE DEF r
<1>3. Walking(r, n)
  BY <1>2 DEF Walking, Placed
<1> QED
  BY <1>2, <1>3 DEF r

-----------------------------------------------------------------------------
(* The maps of a caller and its walk, through every step.                  *)

MapInv ==
    /\ nsolvables \in PoolSizes
    /\ smap \in [MapNames -> Maps]
    /\ mapWalk \in Iterators
    /\ mapWalk.value # BEGIN
    /\ mapWalk.on /\ ~ mapWalk.lost => Walking(mapWalk, smap[mapWalk.of])

LEMMA EmptyMap ==
    ASSUME NEW n \in PoolSizes
    PROVE  [bytes |-> Bytes(n), bits |-> {}] \in Maps
<1>1. n \in Nat /\ ByteBits \in Nat \ {0} /\ n + ByteBits - 1 \in Nat
  BY SolvContainersAssumption
<1>2. Bytes(n) \in Nat
  BY <1>1, Divided DEF Bytes
<1> QED
  BY <1>2 DEF Maps

LEMMA ChangeKeepsMapInv ==
    ASSUME MapInv, NEW s \in MapNames, NEW n \in Maps, n.bytes = smap[s].bytes, Change(s, n),
           nsolvables' \in PoolSizes
    PROVE  MapInv'
<1>1. smap' = [smap EXCEPT ![s] = n] /\ mapWalk' = Watched(mapWalk, n, s)
  BY DEF Change
<1>2. smap' \in [MapNames -> Maps] /\ smap'[s] = n /\ \A o \in MapNames : o # s => smap'[o] = smap[o]
  BY <1>1 DEF MapInv
<1>3. CASE mapWalk.on /\ mapWalk.of = s
  <2> DEFINE r == [mapWalk EXCEPT !.stable = @ \cap n.bits, !.ever = @ \cup n.bits]
  <2>1. mapWalk' = r
    BY <1>1, <1>3 DEF Watched
  <2>2. n.bits \in SUBSET Nat /\ mapWalk \in Iterators /\ mapWalk.value # BEGIN /\ smap[s] \in Maps
    BY DEF MapInv, Maps
  <2>3. r \in Iterators /\ r.on /\ r.of = s /\ r.lost = mapWalk.lost /\ r.value = mapWalk.value
    BY <1>3, <2>2 DEF Iterators
  <2>4. ~ mapWalk.lost => Walking(r, n)
    <3>1. SUFFICES ASSUME ~ mapWalk.lost PROVE Walking(r, n)
      OBVIOUS
    <3>2. Walking(mapWalk, smap[s])
      BY <1>3, <3>1 DEF MapInv
    <3> QED
      BY <2>2, <3>2, ChangeWalks
  <2> HIDE DEF r
  <2> QED
    BY <1>2, <2>1, <2>2, <2>3, <2>4 DEF MapInv
<1>4. CASE ~ (mapWalk.on /\ mapWalk.of = s)
  <2>1. mapWalk' = mapWalk
    BY <1>1, <1>4 DEF Watched
  <2>2. mapWalk.of \in MapNames
    BY DEF MapInv, Iterators
  <2> QED
    BY <1>2, <1>4, <2>1, <2>2 DEF MapInv
<1> QED
  BY <1>3, <1>4

LEMMA ReallocateKeepsMapInv ==
    ASSUME MapInv, NEW D \in SUBSET MapNames, NEW new \in [D -> Maps], Reallocate(new),
           nsolvables' \in PoolSizes
    PROVE  MapInv'
<1>1. /\ smap' = [s \in MapNames |-> IF s \in D THEN new[s] ELSE smap[s]]
      /\ mapWalk' = [mapWalk EXCEPT !.lost = @ \/ (mapWalk.on /\ mapWalk.of \in D)]
  BY DEF Reallocate
<1>2. smap' \in [MapNames -> Maps] /\ \A o \in MapNames : o \notin D => smap'[o] = smap[o]
  BY <1>1 DEF MapInv
<1>3. mapWalk \in Iterators /\ mapWalk.value # BEGIN /\ mapWalk.of \in MapNames /\ mapWalk.on \in BOOLEAN /\ mapWalk.lost \in BOOLEAN
  BY DEF MapInv, Iterators
<1>4. /\ mapWalk' \in Iterators /\ mapWalk'.on = mapWalk.on /\ mapWalk'.of = mapWalk.of /\ mapWalk'.value = mapWalk.value
      /\ mapWalk'.lost = (mapWalk.lost \/ (mapWalk.on /\ mapWalk.of \in D))
  BY <1>1, <1>3 DEF Iterators
<1>5. ASSUME mapWalk'.on, ~ mapWalk'.lost PROVE Walking(mapWalk', smap'[mapWalk'.of])
  <2>1. mapWalk.on /\ ~ mapWalk.lost /\ mapWalk.of \notin D
    BY <1>4, <1>5
  <2>2. mapWalk' = mapWalk
    <3>1. (mapWalk.lost \/ (mapWalk.on /\ mapWalk.of \in D)) = mapWalk.lost
      BY <1>3, <2>1
    <3> QED
      BY <1>1, <1>3, <3>1 DEF Iterators
  <2>3. smap'[mapWalk.of] = smap[mapWalk.of]
    BY <1>2, <1>3, <2>1
  <2>4. Walking(mapWalk, smap[mapWalk.of])
    BY <2>1 DEF MapInv
  <2> QED
    BY <2>2, <2>3, <2>4
<1> QED
  BY <1>2, <1>3, <1>4, <1>5 DEF MapInv

\* PackageSet::begin: the iterator is built at the first byte that is not zero
\* and told to begin again there.
LEMMA WalkBeginKeepsMapInv ==
    ASSUME MapInv, NEW s \in MapNames, WalkBegin(s)
    PROVE  MapInv'
<1> DEFINE m == smap[s]
           i0 == [NoWalk EXCEPT !.end = m.bytes]
           i1 == IteratorOf(m)
           i2 == Begin(m, i1)
           w == Started(s, i2)
           S == {id \in m.bits : i1.at <= id \div ByteBits}
<1>1. m \in Maps /\ m.bytes \in Nat /\ mapWalk' = w /\ smap' = smap /\ nsolvables' = nsolvables
  BY DEF WalkBegin, MapInv, Maps
<1>2. i0 \in Iterators /\ i0.at = 0 /\ i0.end = m.bytes /\ ~ i0.lost /\ ~ i0.rewound
  <2>1. (CHOOSE x \in MapNames : TRUE) \in MapNames
    OBVIOUS
  <2>2. << >> \in Seq(Nat) /\ {} \in SUBSET Nat
    OBVIOUS
  <2> QED
    BY <1>1, <2>1, <2>2 DEF NoWalk, Iterators
<1>3. i1 = Begin(m, i0)
  BY DEF IteratorOf
<1> HIDE DEF m, i0, i1
<1>4. Finds(m, i0, i1, {id \in m.bits : i0.at <= id \div ByteBits})
  BY <1>1, <1>2, <1>3, BeginFinds
<1>5. i1 \in Iterators /\ Placed(i1) /\ i1.end = m.bytes /\ ~ i1.lost /\ ~ i1.rewound
  <2>1. i1 = [i0 EXCEPT !.at = i1.at, !.value = i1.value]
    BY <1>4 DEF Finds
  <2>2. i1.end = i0.end /\ i1.lost = i0.lost /\ i1.rewound = i0.rewound
    BY <1>2, <2>1 DEF Iterators
  <2> QED
    BY <1>2, <1>4, <2>2 DEF Finds
<1>6. \A id \in m.bits : i1.at <= id \div ByteBits
  <2>1. \A id \in m.bits : id \in Nat /\ id \div ByteBits \in Nat
    BY <1>1, BitsByByte
  <2>2. i1.at \in Nat /\ i0.at = 0 /\ ByteBits \in Nat \ {0}
    BY <1>2, <1>5, SolvContainersAssumption DEF Iterators
  <2>3. CASE i1.value = END
    BY <1>4, <2>1, <2>2, <2>3 DEF Finds
  <2>4. CASE i1.value # END
    <3>1. i1.value \in Nat /\ i1.value \div ByteBits = i1.at
      BY <1>5, <2>4 DEF Placed
    <3>2. ASSUME NEW id \in m.bits PROVE i1.value <= id
      BY <1>4, <2>1, <2>2, <2>4 DEF Finds
    <3>3. ASSUME NEW id \in m.bits PROVE ~ (id \div ByteBits < i1.value \div ByteBits)
      <4>1. id \div ByteBits < i1.value \div ByteBits => id < i1.value
        BY <2>1, <2>2, <3>1, BytesInOrder
      <4> QED
        BY <2>1, <3>1, <3>2, <4>1
    <3> QED
      BY <2>1, <2>2, <3>1, <3>3
  <2> QED
    BY <2>3, <2>4
<1>7. S = m.bits
  BY <1>6
<1>8. Finds(m, i1, i2, S)
  BY <1>1, <1>5, BeginFinds DEF Placed
<1> HIDE DEF S, i2
<1>9. /\ i2 \in Iterators /\ Placed(i2) /\ i2.end = m.bytes /\ ~ i2.lost /\ ~ i2.rewound
      /\ i2.value \in Nat \cup {END}
  <2>1. i2 = [i1 EXCEPT !.at = i2.at, !.value = i2.value]
    BY <1>8 DEF Finds
  <2>2. i2.end = i1.end /\ i2.lost = i1.lost /\ i2.rewound = i1.rewound
    BY <1>5, <2>1 DEF Iterators
  <2> QED
    BY <1>5, <1>8, <2>2 DEF Finds, Placed
<1>10. /\ w \in Iterators /\ w.on /\ w.of = s /\ w.at = i2.at /\ w.end = i2.end /\ w.value = i2.value
       /\ w.lost = i2.lost /\ w.rewound = i2.rewound
       /\ w.seen = IF w.value = END THEN << >> ELSE <<w.value>>
       /\ w.stable = m.bits /\ w.ever = m.bits
  <2>1. smap[s] = m
    BY DEF m
  <2> QED
    BY <1>1, <1>9, <2>1, StartedFields
<1> HIDE DEF w
<1>11. Walking(w, m)
  <2>1. Placed(w)
    BY <1>9, <1>10 DEF Placed
  <2>2. /\ w.value = END => S = {}
        /\ w.value # END => w.value \in S /\ \A id \in S : w.value <= id
    BY <1>8, <1>10 DEF Finds
  <2>3. S \in SUBSET m.bits /\ w.end = m.bytes
    BY <1>7, <1>9, <1>10
  <2> QED
    BY <1>1, <1>7, <1>10, <2>1, <2>2, <2>3, BeginWalks
<1>12. smap'[w.of] = m /\ w.value # BEGIN
  BY <1>1, <1>9, <1>10 DEF m, BEGIN, END
<1> QED
  BY <1>1, <1>10, <1>11, <1>12 DEF MapInv

\* PackageSetIterator::operator++.
LEMMA WalkNextKeepsMapInv ==
    ASSUME MapInv, WalkNext
    PROVE  MapInv'
<1> DEFINE m == smap[mapWalk.of]
           r == Returned(Increment(m, mapWalk))
<1>1. mapWalk \in Iterators /\ m \in Maps /\ mapWalk.on /\ ~ mapWalk.lost /\ Walking(mapWalk, m) /\ mapWalk.value \in Nat
  BY DEF MapInv, WalkNext, Iterators, BEGIN, END
<1>2. mapWalk' = r /\ smap' = smap /\ nsolvables' = nsolvables
  BY DEF WalkNext
<1>3. r \in Iterators /\ Walking(r, m) /\ r.of = mapWalk.of
  BY <1>1, StepWalks
<1> HIDE DEF r
<1>4. r.value # BEGIN
  BY <1>3 DEF Walking, Placed, BEGIN, END
<1> QED
  BY <1>2, <1>3, <1>4 DEF MapInv

\* PackageSetIterator::begin of an iterator in use.
LEMMA RewindKeepsMapInv ==
    ASSUME MapInv, Rewind
    PROVE  MapInv'
<1> DEFINE s == mapWalk.of
           m == smap[s]
           it == Begin(m, mapWalk)
           w == Started(s, it)
           r == [w EXCEPT !.rewound = TRUE]
           S == {id \in m.bits : mapWalk.at <= id \div ByteBits}
<1>1. /\ mapWalk \in Iterators /\ s \in MapNames /\ m \in Maps /\ Walking(mapWalk, m)
      /\ mapWalk' = r /\ smap' = smap /\ nsolvables' = nsolvables
  BY DEF MapInv, Rewind, Iterators
<1>2. mapWalk.end = m.bytes /\ mapWalk.at <= mapWalk.end
  BY <1>1 DEF Walking, Placed
<1> HIDE DEF m
<1>3. Finds(m, mapWalk, it, S)
  BY <1>1, <1>2, BeginFinds
<1> HIDE DEF it
<1>4. it \in Iterators /\ Placed(it) /\ it.end = m.bytes /\ it.value \in Nat \cup {END}
  <2>1. it = [mapWalk EXCEPT !.at = it.at, !.value = it.value]
    BY <1>3 DEF Finds
  <2>2. it.end = mapWalk.end
    BY <1>1, <2>1 DEF Iterators
  <2> QED
    BY <1>2, <1>3, <2>2 DEF Finds, Placed
<1> HIDE DEF s
<1>5. /\ w \in Iterators /\ w.of = s /\ w.at = it.at /\ w.end = it.end /\ w.value = it.value
      /\ w.seen = IF w.value = END THEN << >> ELSE <<w.value>>
      /\ w.stable = m.bits /\ w.ever = m.bits
  <2>1. smap[s] = m
    BY DEF m
  <2> QED
    BY <1>1, <1>4, <2>1, StartedFields
<1> HIDE DEF w
<1>6. /\ r \in Iterators /\ r.of = s /\ r.at = it.at /\ r.end = it.end /\ r.value = it.value /\ r.rewound
      /\ r.seen = IF r.value = END THEN << >> ELSE <<r.value>>
      /\ r.stable = m.bits /\ r.ever = m.bits
  BY <1>5 DEF Iterators
<1> HIDE DEF r
<1>7. Walking(r, m)
  <2>1. Placed(r)
    BY <1>4, <1>6 DEF Placed
  <2>2. /\ r.value = END => S = {}
        /\ r.value # END => r.value \in S /\ \A id \in S : r.value <= id
    BY <1>3, <1>6 DEF Finds
  <2>3. S \in SUBSET m.bits /\ r.end = m.bytes
    BY <1>4, <1>6
  <2> HIDE DEF S
  <2> QED
    BY <1>1, <1>6, <2>1, <2>2, <2>3, BeginWalks
<1>8. smap'[r.of] = m /\ r.value # BEGIN
  BY <1>1, <1>4, <1>6 DEF m, BEGIN, END
<1>9. nsolvables \in PoolSizes /\ smap \in [MapNames -> Maps]
  BY DEF MapInv
<1> QED
  BY <1>1, <1>6, <1>7, <1>8, <1>9 DEF MapInv

LEMMA MapNextKeepsMapInv ==
    ASSUME MapInv, MapNext
    PROVE  MapInv'
<1>1. smap \in [MapNames -> Maps] /\ nsolvables \in PoolSizes /\ ByteBits \in Nat \ {0}
  BY SolvContainersAssumption DEF MapInv
<1>2. ASSUME NEW n \in PoolSizes, PoolGrows(n) PROVE MapInv'
  BY <1>2 DEF PoolGrows, MapInv
<1>3. ASSUME NEW s \in MapNames, NewSet(s) PROVE MapInv'
  <2> DEFINE new == [x \in {s} |-> NewMap]
  <2>1. NewMap \in Maps
    BY <1>1, EmptyMap DEF NewMap
  <2>2. new \in [{s} -> Maps] /\ {s} \in SUBSET MapNames /\ Reallocate(new) /\ nsolvables' = nsolvables
    BY <1>3, <2>1 DEF NewSet
  <2> HIDE DEF new
  <2> QED
    BY <1>1, <2>2, ReallocateKeepsMapInv
<1>4. ASSUME NEW s \in MapNames, ClearMap(s) PROVE MapInv'
  <2> DEFINE n == [smap[s] EXCEPT !.bits = {}]
  <2>1. n \in Maps /\ n.bytes = smap[s].bytes /\ Change(s, n) /\ nsolvables' = nsolvables
    BY <1>1, <1>4 DEF ClearMap, Maps
  <2> HIDE DEF n
  <2> QED
    BY <1>1, <2>1, ChangeKeepsMapInv
<1>5. ASSUME NEW s \in MapNames, NEW o \in MapNames, AssignMap(s, o) PROVE MapInv'
  <2> DEFINE new == [x \in {s} |-> smap[o]]
  <2>1. new \in [{s} -> Maps] /\ {s} \in SUBSET MapNames /\ Reallocate(new) /\ nsolvables' = nsolvables
    BY <1>1, <1>5 DEF AssignMap
  <2> HIDE DEF new
  <2> QED
    BY <1>1, <2>1, ReallocateKeepsMapInv
<1>6. ASSUME NEW s \in MapNames, NEW o \in MapNames, SwapMap(s, o) PROVE MapInv'
  <2> DEFINE new == [x \in {s, o} |-> IF x = s THEN smap[o] ELSE smap[s]]
  <2>1. new \in [{s, o} -> Maps] /\ {s, o} \in SUBSET MapNames /\ Reallocate(new) /\ nsolvables' = nsolvables
    BY <1>1, <1>6 DEF SwapMap
  <2> HIDE DEF new
  <2> QED
    BY <1>1, <2>1, ReallocateKeepsMapInv
<1>7. ASSUME NEW s \in MapNames, NEW o \in MapNames, Union(s, o) PROVE MapInv'
  <2> DEFINE m == smap[s]
             n == MapOr(m, smap[o])
             new == [x \in {s} |-> n]
  <2>1. n \in Maps /\ (~ (n.bytes > m.bytes) => n.bytes = m.bytes)
    <3> DEFINE k == smap[o].bytes
               b == Max({m.bytes, k})
    <3>1. m.bytes \in Nat /\ k \in Nat /\ m \in Maps /\ smap[o] \in Maps
      BY <1>1 DEF Maps
    <3>2. b = (IF m.bytes >= k THEN m.bytes ELSE k)
      BY <3>1, GreaterOfTwo
    <3> HIDE DEF b, k
    <3>3. b \in Nat /\ m.bytes <= b /\ k <= b /\ (~ (b > m.bytes) => b = m.bytes)
      BY <3>1, <3>2
    <3>4. /\ m.bytes * ByteBits \in Nat /\ k * ByteBits \in Nat /\ b * ByteBits \in Nat
          /\ m.bytes * ByteBits <= b * ByteBits /\ k * ByteBits <= b * ByteBits
      BY <1>1, <3>1, <3>3, Multiplied
    <3>5. m.bits \subseteq 0 .. (m.bytes * ByteBits - 1) /\ smap[o].bits \subseteq 0 .. (k * ByteBits - 1)
      BY <3>1 DEF Maps, k
    <3>6. m.bits \cup smap[o].bits \subseteq 0 .. (b * ByteBits - 1)
      BY <3>4, <3>5
    <3>7. n = [bytes |-> b, bits |-> m.bits \cup smap[o].bits]
      BY DEF MapOr, b, k
    <3>8. m.bits \cup smap[o].bits \in SUBSET Nat
      BY <3>1 DEF Maps
    <3> HIDE DEF n
    <3> QED
      BY <3>3, <3>6, <3>7, <3>8 DEF Maps
  <2>2. IF n.bytes > m.bytes THEN Reallocate(new) ELSE Change(s, n)
    BY <1>7 DEF Union
  <2>3. nsolvables' \in PoolSizes /\ new \in [{s} -> Maps] /\ {s} \in SUBSET MapNames
    BY <1>1, <1>7, <2>1 DEF Union
  <2> HIDE DEF n, new
  <2>4. CASE n.bytes > m.bytes
    BY <2>2, <2>3, <2>4, ReallocateKeepsMapInv
  <2>5. CASE ~ (n.bytes > m.bytes)
    BY <2>1, <2>2, <2>3, <2>5, ChangeKeepsMapInv
  <2> QED
    BY <2>4, <2>5
<1>8. ASSUME NEW s \in MapNames, NEW o \in MapNames, Difference(s, o) PROVE MapInv'
  <2> DEFINE n == MapSubtract(smap[s], smap[o])
  <2>1. n \in Maps /\ n.bytes = smap[s].bytes /\ Change(s, n) /\ nsolvables' = nsolvables
    BY <1>1, <1>8 DEF Difference, MapSubtract, Maps
  <2> HIDE DEF n
  <2> QED
    BY <1>1, <2>1, ChangeKeepsMapInv
<1>9. ASSUME NEW s \in MapNames, NEW o \in MapNames, Intersection(s, o) PROVE MapInv'
  <2> DEFINE n == MapAnd(smap[s], smap[o])
  <2>1. n \in Maps /\ n.bytes = smap[s].bytes /\ Change(s, n) /\ nsolvables' = nsolvables
    BY <1>1, <1>9 DEF Intersection, MapAnd, Maps
  <2> HIDE DEF n
  <2> QED
    BY <1>1, <2>1, ChangeKeepsMapInv
<1>10. ASSUME NEW s \in MapNames, NEW id \in UNION {0 .. n : n \in PoolSizes}, AddId(s, id) PROVE MapInv'
  <2> DEFINE n == [smap[s] EXCEPT !.bits = @ \cup {id}]
  <2>1. id \in Nat
    BY SolvContainersAssumption
  <2>2. n \in Maps
    BY <1>1, <1>10, <2>1 DEF AddId, InRange, Maps
  <2>3. n.bytes = smap[s].bytes /\ Change(s, n) /\ nsolvables' = nsolvables
    BY <1>1, <1>10 DEF AddId, Maps
  <2> HIDE DEF n
  <2> QED
    BY <1>1, <2>2, <2>3, ChangeKeepsMapInv
<1>11. ASSUME NEW s \in MapNames, NEW id, RemoveId(s, id) PROVE MapInv'
  <2> DEFINE n == [smap[s] EXCEPT !.bits = @ \ {id}]
  <2>1. n \in Maps /\ n.bytes = smap[s].bytes /\ Change(s, n) /\ nsolvables' = nsolvables
    BY <1>1, <1>11 DEF RemoveId, Maps
  <2> HIDE DEF n
  <2> QED
    BY <1>1, <2>1, ChangeKeepsMapInv
<1> QED
  BY <1>2, <1>3, <1>4, <1>5, <1>6, <1>7, <1>8, <1>9, <1>10, <1>11,
     WalkBeginKeepsMapInv, WalkNextKeepsMapInv, RewindKeepsMapInv DEF MapNext

-----------------------------------------------------------------------------
(* What a finished walk over an unchanged map has returned.                *)

\* The ids of the first b bytes of a map, of which PackageSet::size counts.
Below(m, b) == {id \in m.bits : id \div ByteBits < b}

LEMMA BelowGrows ==
    ASSUME NEW m \in Maps, NEW b \in Nat
    PROVE  /\ IsFiniteSet(Below(m, b)) /\ Cardinality(Below(m, b)) \in Nat
           /\ Below(m, 0) = {}
           /\ Cardinality(Below(m, b + 1)) = Cardinality(Below(m, b)) + Cardinality(ByteOf(m, b))
<1> DEFINE A == Below(m, b)
           C == ByteOf(m, b)
<1>1. \A id \in m.bits : id \in Nat /\ id \div ByteBits \in Nat
  BY BitsByByte
<1>2. IsFiniteSet(m.bits)
  <2>1. m.bits \subseteq 0 .. (m.bytes * ByteBits - 1) /\ m.bytes * ByteBits - 1 \in Int /\ 0 \in Int
    BY SolvContainersAssumption, Multiplied DEF Maps
  <2>2. IsFiniteSet(0 .. (m.bytes * ByteBits - 1))
    BY <2>1, FS_Interval
  <2> QED
    BY <2>1, <2>2, FS_Subset
<1>3. IsFiniteSet(A) /\ IsFiniteSet(C)
  <2>1. A \in SUBSET m.bits /\ C \in SUBSET m.bits
    BY DEF Below, ByteOf
  <2> HIDE DEF A, C
  <2> QED
    BY <1>2, <2>1, FS_Subset
<1>4. Below(m, b + 1) = A \cup C /\ A \cap C = {}
  BY <1>1 DEF Below, ByteOf
<1>5. Below(m, 0) = {}
  BY <1>1 DEF Below
<1> HIDE DEF A, C
<1>6. Cardinality(A) \in Nat /\ Cardinality(C) \in Nat /\ Cardinality(A \cap C) = 0
  BY <1>3, <1>4, FS_CardinalityType, FS_EmptySet
<1>7. Cardinality(A \cup C) = Cardinality(A) + Cardinality(C) - Cardinality(A \cap C)
  BY <1>3, FS_Union
<1>8. Cardinality(Below(m, b + 1)) = Cardinality(A) + Cardinality(C)
  <2> DEFINE both == A \cup C
             common == Cardinality(A \cap C)
  <2>1. Cardinality(both) = Cardinality(A) + Cardinality(C) - common /\ common = 0 /\ Below(m, b + 1) = both
    BY <1>4, <1>6, <1>7
  <2> HIDE DEF both, common
  <2> QED
    BY <1>6, <2>1
<1> QED
  BY <1>3, <1>5, <1>6, <1>8 DEF A, C

\* The counts of size(), byte after byte.
Counts(m, f) == f = [b \in 0 .. m.bytes |-> IF b = 0 THEN 0 ELSE f[b - 1] + Cardinality(ByteOf(m, b - 1))]

LEMMA SizeCounts ==
    ASSUME NEW m \in Maps
    PROVE  MapSize(m) = Cardinality(m.bits) /\ (IsEmpty(m) <=> m.bits = {})
<1> DEFINE N == m.bytes
           g == [b \in 0 .. N |-> Cardinality(Below(m, b))]
           f == CHOOSE h : Counts(m, h)
           G == {b \in 0 .. N : f[b] = Cardinality(Below(m, b))}
<1>1. N \in Nat /\ Cardinality(Below(m, 0)) = 0
  BY BelowGrows, FS_EmptySet DEF Maps
<1>2. MapSize(m) = f[N]
  BY DEF MapSize, Counts
<1> HIDE DEF N
<1>3. ASSUME NEW b \in 1 .. N
      PROVE  Cardinality(Below(m, b)) = Cardinality(Below(m, b - 1)) + Cardinality(ByteOf(m, b - 1))
  <2>1. b - 1 \in Nat /\ (b - 1) + 1 = b
    BY <1>1
  <2> QED
    BY <2>1, BelowGrows
<1>4. Counts(m, g)
  <2>1. \A b \in 0 .. N : g[b] = IF b = 0 THEN 0 ELSE g[b - 1] + Cardinality(ByteOf(m, b - 1))
    BY <1>1, <1>3
  <2>2. g = [b \in 0 .. N |-> g[b]]
    OBVIOUS
  <2> HIDE DEF g
  <2> QED
    BY <2>1, <2>2 DEF Counts, N
<1>5. Counts(m, f)
  <2> HIDE DEF g
  <2> QED
    BY <1>4
<1> HIDE DEF f, g
<1>6. 0 \in G
  <2>1. f[0] = 0
    BY <1>1, <1>5 DEF Counts, N
  <2> QED
    BY <1>1, <2>1
<1>7. ASSUME NEW b \in 1 .. N, b - 1 \in G PROVE b \in G
  <2>1. b \in 0 .. N /\ b # 0
    BY <1>1
  <2>2. f[b] = f[b - 1] + Cardinality(ByteOf(m, b - 1))
    BY <1>5, <2>1 DEF Counts, N
  <2> QED
    BY <1>3, <1>7, <2>1, <2>2
<1>8. N \in G
  <2> HIDE DEF G
  <2> QED
    BY <1>1, <1>6, <1>7, NumbersUpTo
<1>9. Below(m, N) = m.bits
  <2>1. \A id \in m.bits : id \div ByteBits \in 0 .. m.bytes - 1
    BY BitsByByte
  <2> QED
    BY <1>1, <2>1 DEF Below, N
<1>10. IsEmpty(m) <=> m.bits = {}
  <2>1. \A id \in m.bits : id \div ByteBits \in 0 .. m.bytes - 1 /\ id \in ByteOf(m, id \div ByteBits)
    BY BitsByByte
  <2>2. \A b : ByteOf(m, b) \subseteq m.bits
    BY DEF ByteOf
  <2> QED
    BY <2>1, <2>2 DEF IsEmpty
<1> QED
  BY <1>2, <1>8, <1>9, <1>10

\* Ids in ascending order are as many as they are places.
LEMMA AscendingCounts ==
    ASSUME NEW s \in Seq(Nat), Ascending(s)
    PROVE  Len(s) = Cardinality(ToSet(s)) /\ (s = << >> <=> ToSet(s) = {})
<1> DEFINE n == Len(s)
<1>1. n \in Nat /\ DOMAIN s = 1 .. n /\ s \in [1 .. n -> Nat]
  OBVIOUS
<1>2. s \in [1 .. n -> ToSet(s)] /\ \A x \in ToSet(s) : \E i \in 1 .. n : s[i] = x
  BY <1>1 DEF ToSet
<1>3. \A i, j \in 1 .. n : s[i] = s[j] => i = j
  <2>1. \A i, j \in 1 .. n : i < j => s[i] < s[j]
    BY <1>1 DEF Ascending
  <2>2. \A i \in 1 .. n : s[i] \in Nat
    BY <1>1
  <2> HIDE DEF n
  <2> QED
    BY <1>1, <2>1, <2>2
<1> HIDE DEF n
<1>4. s \in Bijection(1 .. n, ToSet(s))
  BY <1>1, <1>2, <1>3, Zenon DEF Bijection, Injection, Surjection, IsInjective
<1>5. Cardinality(ToSet(s)) = n
  BY <1>1, <1>4, FS_CountingElements DEF ExistsBijection
<1>6. s = << >> <=> ToSet(s) = {}
  <2>1. s = << >> <=> n = 0
    BY DEF n
  <2>2. n = 0 <=> 1 .. n = {}
    BY <1>1
  <2>3. 1 .. n = {} <=> ToSet(s) = {}
    BY <1>1 DEF ToSet
  <2> QED
    BY <2>1, <2>2, <2>3
<1> QED
  BY <1>5, <1>6 DEF n

LEMMA MapsAreWalkedWhole ==
    ASSUME MapInv, mapWalk.on, ~ mapWalk.lost
    PROVE  LET m == smap[mapWalk.of] IN
           /\ \A i, j \in DOMAIN mapWalk.seen : i < j => mapWalk.seen[i] < mapWalk.seen[j]
           /\ ToSet(mapWalk.seen) \subseteq mapWalk.ever
           /\ (mapWalk.value = END /\ ~ mapWalk.rewound) =>
                 /\ mapWalk.stable \subseteq ToSet(mapWalk.seen)
                 /\ mapWalk.ever = mapWalk.stable =>
                       Len(mapWalk.seen) = MapSize(m) /\ (mapWalk.seen = << >> <=> IsEmpty(m))
<1> DEFINE m == smap[mapWalk.of]
           s == mapWalk.seen
<1>1. m \in Maps /\ s \in Seq(Nat) /\ Walking(mapWalk, m)
  BY DEF MapInv, Iterators
<1>2. Ascending(s) /\ ToSet(s) \subseteq mapWalk.ever
  BY <1>1 DEF Walking
<1>3. ASSUME mapWalk.value = END, ~ mapWalk.rewound PROVE mapWalk.stable \subseteq ToSet(s)
  BY <1>1, <1>3 DEF Walking
<1>4. ASSUME mapWalk.value = END, ~ mapWalk.rewound, mapWalk.ever = mapWalk.stable
      PROVE  Len(s) = MapSize(m) /\ (s = << >> <=> IsEmpty(m))
  <2>1. mapWalk.stable \subseteq m.bits /\ m.bits \subseteq mapWalk.ever
    BY <1>1 DEF Walking
  <2>2. ToSet(s) = m.bits
    BY <1>2, <1>3, <1>4, <2>1
  <2> HIDE DEF s, m
  <2> QED
    BY <1>1, <1>2, <2>2, AscendingCounts, SizeCounts
<1> QED
  BY <1>2, <1>3, <1>4 DEF Ascending

-----------------------------------------------------------------------------
(* The lists of dependencies and their iterator.                           *)

MatchedDeps == UNION {ToSet(GlobDeps[g]) : g \in DOMAIN GlobDeps}
SolvableDeps == UNION {ToSet(PkgDeps[t]) : t \in DOMAIN PkgDeps}
DepItems == DepStrings \cup BadDeps \cup MatchedDeps \cup SolvableDeps

DepWalks ==
    [on : BOOLEAN, of : ListNames, index : Nat, end : BOOLEAN, seen : Seq(DepItems), steady : BOOLEAN]

\* Walk w over list d has returned the entries up to its index, or all of them.
Following(w, d) ==
    IF w.end THEN w.seen = d
    ELSE /\ Len(w.seen) = w.index /\ w.index \in 1 .. Len(d)
         /\ \A i \in 1 .. w.index : w.seen[i] = d[i]

DepInv ==
    /\ deps \in [ListNames -> Seq(DepItems)]
    /\ depWalk \in DepWalks
    /\ depWalk.on /\ depWalk.steady => Following(depWalk, deps[depWalk.of])

\* List d begins with what list c holds.
Extends(d, c) == Len(c) <= Len(d) /\ \A i \in 1 .. Len(c) : d[i] = c[i]

LEMMA DepStepFollows ==
    ASSUME NEW l \in ListNames, deps[l] \in Seq(DepItems), NEW w \in DepWalks, NEW i \in Nat \ {0},
           NEW r, r = DepStep(l, w, i)
    PROVE  /\ r \in DepWalks /\ r.on = w.on /\ r.of = w.of /\ r.steady = w.steady
           /\ /\ Len(w.seen) = i - 1 /\ i <= Len(deps[l]) + 1
              /\ \A j \in 1 .. i - 1 : w.seen[j] = deps[l][j]
              => Following(r, deps[l])
<1> DEFINE d == deps[l]
<1>1. d \in Seq(DepItems) /\ Len(d) \in Nat /\ w.seen \in Seq(DepItems) /\ Len(w.seen) \in Nat
  BY DEF DepWalks
<1> HIDE DEF d
<1>2. r = IF i > Len(d) THEN [w EXCEPT !.index = i, !.end = TRUE]
          ELSE [w EXCEPT !.index = i, !.end = FALSE, !.seen = Append(@, d[i])]
  BY DEF DepStep, d
<1>3. CASE i > Len(d)
  <2>1. /\ r \in DepWalks /\ r.on = w.on /\ r.of = w.of /\ r.steady = w.steady /\ r.index = i /\ r.end
        /\ r.seen = w.seen
    BY <1>2, <1>3 DEF DepWalks
  <2>2. ASSUME Len(w.seen) = i - 1, i <= Len(d) + 1, \A j \in 1 .. i - 1 : w.seen[j] = d[j]
        PROVE  Following(r, d)
    <3>1. Len(w.seen) = Len(d) /\ \A j \in 1 .. Len(w.seen) : w.seen[j] = d[j]
      BY <1>1, <1>3, <2>2
    <3>2. w.seen = d
      BY <1>1, <3>1, SeqEqual
    <3> QED
      BY <2>1, <3>2 DEF Following
  <2> QED
    BY <2>1, <2>2 DEF d
<1>4. CASE ~ (i > Len(d))
  <2> DEFINE t == Append(w.seen, d[i])
  <2>1. i \in 1 .. Len(d) /\ d[i] \in DepItems
    BY <1>1, <1>4
  <2>2. /\ t \in Seq(DepItems) /\ Len(t) = Len(w.seen) + 1 /\ t[Len(w.seen) + 1] = d[i]
        /\ \A j \in 1 .. Len(w.seen) : t[j] = w.seen[j]
    BY <1>1, <2>1, AppendProperties
  <2>3. r = [w EXCEPT !.index = i, !.end = FALSE, !.seen = t]
    BY <1>2, <1>4 DEF DepWalks
  <2> HIDE DEF t
  <2>4. /\ r \in DepWalks /\ r.on = w.on /\ r.of = w.of /\ r.steady = w.steady /\ r.index = i /\ ~ r.end
        /\ r.seen = t
    BY <2>2, <2>3 DEF DepWalks
  <2>5. ASSUME Len(w.seen) = i - 1, \A j \in 1 .. i - 1 : w.seen[j] = d[j]
        PROVE  Following(r, d)
    <3>1. Len(t) = i /\ \A j \in 1 .. i : t[j] = d[j]
      BY <1>1, <2>1, <2>2, <2>5
    <3> QED
      BY <2>1, <2>4, <3>1 DEF Following
  <2> QED
    BY <2>4, <2>5 DEF d
<1> QED
  BY <1>3, <1>4

\* An operation on the lists, which appends to them or ends the walk's warranty.
LEMMA DepOpKeepsDepInv ==
    ASSUME DepInv, NEW new \in [ListNames -> Seq(DepItems)], NEW appended \in BOOLEAN, DepOp(new, appended),
           appended => \A l \in ListNames : Extends(new[l], deps[l])
    PROVE  DepInv'
<1> DEFINE w == depWalk
           l == depWalk.of
           same == new[l] = deps[l]
           on == w.on /\ (~ w.end \/ same)
           steady == w.steady /\ (appended \/ same)
           r == [w EXCEPT !.on = on, !.steady = steady]
<1>1. w \in DepWalks /\ l \in ListNames /\ w.end \in BOOLEAN /\ deps \in [ListNames -> Seq(DepItems)]
  BY DEF DepInv, DepWalks
<1>2. deps' = new /\ depWalk' = r
  BY DEF DepOp
<1>3. on \in BOOLEAN /\ steady \in BOOLEAN
  BY <1>1 DEF DepWalks
<1> HIDE DEF on, steady
<1>4. r \in DepWalks /\ r.on = on /\ r.steady = steady /\ r.of = l /\ r.index = w.index /\ r.end = w.end /\ r.seen = w.seen
  BY <1>1, <1>3 DEF DepWalks
<1> HIDE DEF r
<1>5. ASSUME on, steady PROVE Following(r, new[l])
  <2>1. w.on /\ w.steady /\ (~ w.end \/ same) /\ (appended \/ same)
    BY <1>5 DEF on, steady
  <2>2. Following(w, deps[l])
    BY <2>1 DEF DepInv
  <2>3. CASE same
    <3>1. Following(w, new[l])
      BY <2>2, <2>3
    <3> QED
      BY <1>4, <3>1 DEF Following
  <2>4. CASE ~ same
    <3>1. ~ w.end /\ Extends(new[l], deps[l])
      BY <1>1, <2>1, <2>4
    <3>2. Len(new[l]) \in Nat /\ Len(deps[l]) \in Nat
      BY <1>1
    <3> QED
      BY <1>4, <2>2, <3>1, <3>2 DEF Following, Extends
  <2> QED
    BY <2>3, <2>4
<1>6. DepInv'
  BY <1>1, <1>2, <1>4, <1>5 DEF DepInv
<1> QED
  BY <1>6

LEMMA DepsAreItems ==
    /\ \A t \in DOMAIN PkgDeps : PkgDeps[t] \in Seq(DepItems)
    /\ \A g \in DOMAIN GlobDeps : GlobDeps[g] \in Seq(DepItems)
<1>1. ASSUME NEW t \in DOMAIN PkgDeps PROVE PkgDeps[t] \in Seq(DepItems)
  <2>1. PkgDeps[t] \in Seq(ToSet(PkgDeps[t]))
    BY SolvContainersAssumption
  <2>2. ToSet(PkgDeps[t]) \in {ToSet(PkgDeps[u]) : u \in DOMAIN PkgDeps}
    OBVIOUS
  <2>3. ToSet(PkgDeps[t]) \subseteq DepItems
    <3>1. ToSet(PkgDeps[t]) \subseteq SolvableDeps
      BY <2>2, Zenon DEF SolvableDeps
    <3> QED
      BY <3>1 DEF DepItems
  <2> QED
    BY <2>1, <2>3, SeqMonotonic
<1>2. ASSUME NEW g \in DOMAIN GlobDeps PROVE GlobDeps[g] \in Seq(DepItems)
  <2>1. GlobDeps[g] \in Seq(ToSet(GlobDeps[g]))
    BY SolvContainersAssumption
  <2>2. ToSet(GlobDeps[g]) \in {ToSet(GlobDeps[u]) : u \in DOMAIN GlobDeps}
    OBVIOUS
  <2>3. ToSet(GlobDeps[g]) \subseteq DepItems
    <3>1. ToSet(GlobDeps[g]) \subseteq MatchedDeps
      BY <2>2, Zenon DEF MatchedDeps
    <3> QED
      BY <3>1 DEF DepItems
  <2> QED
    BY <2>1, <2>3, SeqMonotonic
<1> QED
  BY <1>1, <1>2

LEMMA ConcatExtends ==
    ASSUME NEW c \in Seq(DepItems), NEW a \in Seq(DepItems)
    PROVE  c \o a \in Seq(DepItems) /\ Extends(c \o a, c)
<1>1. Len(c) \in Nat /\ Len(a) \in Nat
  OBVIOUS
<1>2. /\ c \o a \in Seq(DepItems) /\ Len(c \o a) = Len(c) + Len(a)
      /\ \A i \in 1 .. Len(c) + Len(a) : (c \o a)[i] = IF i <= Len(c) THEN c[i] ELSE a[i - Len(c)]
  BY ConcatProperties
<1> QED
  BY <1>1, <1>2 DEF Extends

-----------------------------------------------------------------------------
(* The requires of a package.                                              *)

\* The one place of the marker, if there is one.
LEMMA MarkerPlace ==
    ASSUME NEW all, all = PkgDeps["requires"], NEW m, m = SelectInSeq(all, IsMarker)
    PROVE  /\ all \in Seq(DepItems) /\ m \in 0 .. Len(all)
           /\ m = 0 => \A i \in 1 .. Len(all) : ~ IsMarker(all[i])
           /\ m # 0 => \A i \in 1 .. Len(all) : IsMarker(all[i]) <=> i = m
<1> DEFINE I == {i \in 1 .. Len(all) : IsMarker(all[i])}
<1>2. all \in Seq(DepItems)
  BY DepsAreItems, SolvContainersAssumption
<1>3. Len(all) \in Nat /\ DOMAIN all = 1 .. Len(all)
  BY <1>2
<1>4. \A i, j \in I : i = j
  BY <1>3, SolvContainersAssumption DEF IsMarker
<1>5. m = IF I # {} THEN Min(I) ELSE 0
  BY DEF SelectInSeq
<1>6. I # {} => Min(I) \in I
  <2>1. I \in SUBSET Nat
    BY <1>3
  <2> HIDE DEF I
  <2> QED
    BY <2>1, SmallestOf
<1>7. m \in 0 .. Len(all) /\ (m = 0 => I = {}) /\ (m # 0 => m \in I)
  <2>1. I \subseteq 1 .. Len(all)
    OBVIOUS
  <2> HIDE DEF I
  <2>2. CASE I = {}
    BY <1>3, <1>5, <2>2
  <2>3. CASE I # {}
    <3>1. m \in I /\ m \in 1 .. Len(all)
      BY <1>5, <1>6, <2>1, <2>3
    <3> QED
      BY <1>3, <3>1
  <2> QED
    BY <2>2, <2>3
<1> QED
  BY <1>2, <1>4, <1>7

LEMMA RequiresAreDeps ==
    /\ RegularRequires \in Seq(DepItems) /\ RequiresPre \in Seq(DepItems)
    /\ \A type \in DOMAIN PkgDeps \cup {"regular_requires", "requires_pre"} : PackageDeps(type) \in Seq(DepItems)
<1> DEFINE all == PkgDeps["requires"]
           m == SelectInSeq(all, IsMarker)
<1>1. all \in Seq(DepItems) /\ m \in 0 .. Len(all)
  BY MarkerPlace
<1>2. Len(all) \in Nat /\ m \in Nat /\ m <= Len(all)
  BY <1>1
<1>3. RegularRequires = (IF m = 0 THEN all ELSE SubSeq(all, 1, m - 1))
      /\ RequiresPre = (IF m = 0 THEN << >> ELSE SubSeq(all, m + 1, Len(all)))
  BY DEF RegularRequires, RequiresPre
<1> HIDE DEF all, m
<1>4. m # 0 => SubSeq(all, 1, m - 1) \in Seq(DepItems) /\ SubSeq(all, m + 1, Len(all)) \in Seq(DepItems)
  <2>1. \A i \in 1 .. Len(all) : all[i] \in DepItems
    BY <1>1
  <2>2. \A i \in 1 .. m - 1 : all[i] \in DepItems
    BY <1>2, <2>1
  <2>3. \A i \in m + 1 .. Len(all) : all[i] \in DepItems
    BY <1>2, <2>1
  <2> QED
    BY <1>2, <2>2, <2>3, SubSeqProperties
<1>5. RegularRequires \in Seq(DepItems) /\ RequiresPre \in Seq(DepItems)
  BY <1>1, <1>3, <1>4
<1>6. \A t \in DOMAIN PkgDeps : PkgDeps[t] \in Seq(DepItems)
  BY DepsAreItems
<1>7. RegularRequires \o RequiresPre \in Seq(DepItems)
  BY <1>5, ConcatProperties
<1> QED
  BY <1>5, <1>6, <1>7 DEF PackageDeps

-----------------------------------------------------------------------------
(* The lists through every step.                                           *)

LEMMA DepNextKeepsDepInv ==
    ASSUME DepInv, DepNext
    PROVE  DepInv'
<1>1. deps \in [ListNames -> Seq(DepItems)] /\ depWalk \in DepWalks
  BY DEF DepInv
<1>2. ASSUME NEW l \in ListNames, DepWalkBegin(l) PROVE DepInv'
  <2> DEFINE w == [NoDepWalk EXCEPT !.on = TRUE, !.of = l]
             i == 1
             r == DepStep(l, w, i)
  <2>1. deps' = deps /\ depWalk' = r /\ deps[l] \in Seq(DepItems) /\ Len(deps[l]) \in Nat
    BY <1>1, <1>2 DEF DepWalkBegin
  <2>2. w \in DepWalks /\ w.on /\ w.of = l /\ w.seen = << >> /\ w.steady
    <3>1. << >> \in Seq(DepItems)
      OBVIOUS
    <3> QED
      BY <3>1 DEF NoDepWalk, DepWalks
  <2> HIDE DEF w
  <2>3. /\ i \in Nat \ {0} /\ Len(w.seen) = i - 1 /\ i <= Len(deps[l]) + 1
        /\ \A j \in 1 .. i - 1 : w.seen[j] = deps[l][j]
    BY <2>1, <2>2
  <2> HIDE DEF i
  <2>4. r \in DepWalks /\ r.of = w.of
    BY <2>1, <2>2, <2>3, DepStepFollows
  <2>5. Following(r, deps[l])
    BY <2>1, <2>2, <2>3, DepStepFollows
  <2> HIDE DEF r
  <2> QED
    BY <1>1, <2>1, <2>2, <2>4, <2>5 DEF DepInv
<1>3. ASSUME DepWalkNext PROVE DepInv'
  <2> DEFINE w == depWalk
             l == depWalk.of
             i == depWalk.index + 1
             r == DepStep(l, w, i)
  <2>1. /\ deps' = deps /\ depWalk' = r /\ l \in ListNames /\ deps[l] \in Seq(DepItems) /\ Len(deps[l]) \in Nat
        /\ w.index \in Nat /\ i \in Nat \ {0} /\ ~ w.end
    BY <1>1, <1>3 DEF DepWalkNext, DepWalks
  <2>2. r \in DepWalks /\ r.on = w.on /\ r.of = l /\ r.steady = w.steady
    BY <1>1, <2>1, DepStepFollows
  <2>3. ASSUME w.on, w.steady PROVE Following(r, deps[l])
    <3>1. Len(w.seen) = w.index /\ w.index \in 1 .. Len(deps[l]) /\ \A j \in 1 .. w.index : w.seen[j] = deps[l][j]
      BY <2>1, <2>3 DEF DepInv, Following
    <3>2. Len(w.seen) = i - 1 /\ i <= Len(deps[l]) + 1 /\ \A j \in 1 .. i - 1 : w.seen[j] = deps[l][j]
      BY <2>1, <3>1
    <3> HIDE DEF i
    <3> QED
      BY <1>1, <2>1, <3>2, DepStepFollows
  <2> HIDE DEF r
  <2> QED
    BY <1>1, <2>1, <2>2, <2>3 DEF DepInv
<1>4. ASSUME NEW l \in ListNames, NEW a \in Seq(DepItems), DepOp([deps EXCEPT ![l] = @ \o a], TRUE) PROVE DepInv'
  <2> DEFINE new == [deps EXCEPT ![l] = @ \o a]
  <2>1. deps[l] \o a \in Seq(DepItems) /\ Extends(deps[l] \o a, deps[l])
    BY <1>1, ConcatExtends
  <2>2. \A k \in ListNames : Extends(deps[k], deps[k])
    <3>1. \A k \in ListNames : Len(deps[k]) \in Nat
      BY <1>1
    <3> QED
      BY <3>1 DEF Extends
  <2>3. new \in [ListNames -> Seq(DepItems)] /\ \A k \in ListNames : Extends(new[k], deps[k])
    BY <1>1, <2>1, <2>2
  <2>4. DepOp(new, TRUE)
    BY <1>4
  <2> HIDE DEF new
  <2> QED
    BY <2>3, <2>4, DepOpKeepsDepInv
<1>5. ASSUME NEW l \in ListNames, NEW k \in ListNames, AppendList(l, k) PROVE DepInv'
  BY <1>1, <1>4, <1>5 DEF AppendList
<1>6. ASSUME NEW l \in ListNames, NEW k \in ListNames, AssignList(l, k) PROVE DepInv'
  <2> DEFINE new == [deps EXCEPT ![l] = deps[k]]
             same == l = k
  <2>1. DepOp(new, same) /\ new \in [ListNames -> Seq(DepItems)] /\ same \in BOOLEAN
    BY <1>1, <1>6 DEF AssignList
  <2>2. same => \A o \in ListNames : Extends(new[o], deps[o])
    <3>1. \A o \in ListNames : Len(deps[o]) \in Nat
      BY <1>1
    <3>2. same => new = deps
      BY <1>1
    <3> QED
      BY <3>1, <3>2 DEF Extends
  <2> HIDE DEF new, same
  <2> QED
    BY <2>1, <2>2, DepOpKeepsDepInv
<1>7. ASSUME NEW l \in ListNames, NEW k \in ListNames, MoveList(l, k) PROVE DepInv'
  <2> DEFINE new == [deps EXCEPT ![l] = deps[k], ![k] = deps[l]]
  <2>1. DepOp(new, FALSE) /\ new \in [ListNames -> Seq(DepItems)]
    BY <1>1, <1>7 DEF MoveList
  <2> HIDE DEF new
  <2> QED
    BY <2>1, DepOpKeepsDepInv
<1>8. ASSUME NEW l \in ListNames, NEW d \in DepStrings \cup BadDeps, AddReldep(l, d) PROVE DepInv'
  <2> DEFINE a == IF DepParses(d) THEN <<d>> ELSE << >>
  <2>0. d \in DepItems
    BY DEF DepItems
  <2>1. <<d>> \in Seq(DepItems) /\ << >> \in Seq(DepItems) /\ deps[l] \in Seq(DepItems)
    BY <1>1, <2>0
  <2>2. (IF DepParses(d) THEN Append(deps[l], d) ELSE deps[l]) = deps[l] \o a /\ a \in Seq(DepItems)
    BY <2>0, <2>1, AppendIsConcat, ConcatEmptySeq
  <2> HIDE DEF a
  <2>3. [deps EXCEPT ![l] = IF DepParses(d) THEN Append(@, d) ELSE @] = [deps EXCEPT ![l] = @ \o a]
    BY <2>2
  <2>4. DepOp([deps EXCEPT ![l] = @ \o a], TRUE)
    BY <1>8, <2>3 DEF AddReldep
  <2> QED
    BY <1>4, <2>2, <2>4
<1>9. ASSUME NEW l \in ListNames, NEW g \in DOMAIN GlobDeps, AddReldepWithGlob(l, g) PROVE DepInv'
  <2>1. GlobDeps[g] \in Seq(DepItems)
    BY DepsAreItems
  <2> QED
    BY <1>4, <1>9, <2>1 DEF AddReldepWithGlob
<1>10. ASSUME NEW l \in ListNames, NEW t \in DOMAIN PkgDeps \cup {"regular_requires", "requires_pre"}, GetDeps(l, t)
       PROVE  DepInv'
  <2> DEFINE new == [deps EXCEPT ![l] = PackageDeps(t)]
  <2>1. PackageDeps(t) \in Seq(DepItems)
    BY RequiresAreDeps
  <2>2. DepOp(new, FALSE) /\ new \in [ListNames -> Seq(DepItems)]
    BY <1>1, <1>10, <2>1 DEF GetDeps
  <2> HIDE DEF new
  <2> QED
    BY <2>2, DepOpKeepsDepInv
<1> QED
  BY <1>2, <1>3, <1>5, <1>6, <1>7, <1>8, <1>9, <1>10 DEF DepNext

LEMMA ListsAreWalkedWhole ==
    ASSUME DepInv, depWalk.on, depWalk.steady
    PROVE  /\ IsPrefix(depWalk.seen, deps[depWalk.of])
           /\ depWalk.end => depWalk.seen = deps[depWalk.of]
<1> DEFINE s == depWalk.seen
           d == deps[depWalk.of]
<1>1. s \in Seq(DepItems) /\ d \in Seq(DepItems) /\ Following(depWalk, d) /\ Len(s) \in Nat /\ Len(d) \in Nat
  BY DEF DepInv, DepWalks
<1>2. Len(s) <= Len(d) /\ \A i \in 1 .. Len(s) : s[i] = d[i]
  BY <1>1 DEF Following
<1> HIDE DEF s, d
<1>3. SubSeq(s, 1, Len(s)) = SubSeq(d, 1, Len(s))
  <2> DEFINE a == SubSeq(s, 1, Len(s))
             b == SubSeq(d, 1, Len(s))
  <2>1. /\ \A i \in 1 .. Len(s) : s[i] \in DepItems
        /\ \A i \in 1 .. Len(s) : d[i] \in DepItems
    BY <1>1, <1>2
  <2>2. a \in Seq(DepItems) /\ Len(a) = Len(s) /\ \A i \in 1 .. Len(s) : a[i] = s[i]
    BY <1>1
  <2>3. b \in Seq(DepItems) /\ Len(b) = Len(s) /\ \A i \in 1 .. Len(s) : b[i] = d[i]
    BY <1>1, <1>2
  <2> HIDE DEF a, b
  <2>4. a = b
    BY <1>2, <2>2, <2>3, SeqEqual
  <2> QED
    BY <2>4 DEF a, b
<1> QED
  BY <1>1, <1>2, <1>3 DEF IsPrefix, Following, s, d

-----------------------------------------------------------------------------
(* What is read of a package.                                              *)

\* What an evr is made of.
Chars == STRING \cup {":", "-", "0"}

LEMMA SeekGives ==
    ASSUME NEW e \in Seq(Chars), NEW i \in Nat \ {0}, NEW cs, NEW k \in i .. Len(e) + 1,
           k <= Len(e) => e[k] \in cs, \A j \in i .. k - 1 : e[j] \notin cs
    PROVE  Seek(e, i, cs) = k
<1> DEFINE T == {j \in i .. Len(e) : e[j] \in cs} \cup {Len(e) + 1}
<1>1. Len(e) \in Nat /\ k \in Nat
  OBVIOUS
<1>2. k \in T /\ \A j \in T : k <= j
  <2>1. k \in T
    BY <1>1
  <2>2. ASSUME NEW j \in T PROVE k <= j
    BY <1>1
  <2> QED
    BY <2>1, <2>2
<1>3. T \in SUBSET Nat
  BY <1>1
<1> HIDE DEF T
<1>4. Min(T) \in T /\ \A j \in T : Min(T) <= j
  BY <1>2, <1>3, SmallestOf
<1>5. Min(T) = k
  <2>1. Min(T) <= k /\ k <= Min(T) /\ Min(T) \in Nat
    BY <1>2, <1>3, <1>4
  <2> HIDE DEF T
  <2> QED
    BY <1>1, <2>1
<1> QED
  BY <1>5 DEF Seek, T

\* A part of a sequence that is joined from three.
LEMMA PartOfJoined ==
    ASSUME NEW a \in Seq(Chars), NEW b \in Seq(Chars), NEW c \in Seq(Chars), NEW e, e = (a \o b) \o c
    PROVE  /\ e \in Seq(Chars) /\ Len(e) = Len(a) + Len(b) + Len(c)
           /\ \A i \in 1 .. Len(a) : e[i] = a[i]
           /\ \A i \in 1 .. Len(b) : e[Len(a) + i] = b[i]
           /\ \A i \in 1 .. Len(c) : e[Len(a) + Len(b) + i] = c[i]
           /\ SubSeq(e, 1, Len(a)) = a
           /\ SubSeq(e, Len(a) + 1, Len(a) + Len(b)) = b
           /\ SubSeq(e, Len(a) + Len(b) + 1, Len(e)) = c
<1> DEFINE ab == a \o b
           p == Len(a)
           q == Len(b)
           n == Len(c)
<1>1. p \in Nat /\ q \in Nat /\ n \in Nat
  OBVIOUS
<1>2. /\ ab \in Seq(Chars) /\ Len(ab) = p + q
      /\ \A i \in 1 .. p + q : ab[i] = IF i <= p THEN a[i] ELSE b[i - p]
  BY ConcatProperties
<1> HIDE DEF ab
<1>3. /\ e \in Seq(Chars) /\ Len(e) = (p + q) + n
      /\ \A i \in 1 .. (p + q) + n : e[i] = IF i <= p + q THEN ab[i] ELSE c[i - (p + q)]
  <2>1. e = ab \o c
    BY DEF ab
  <2>2. /\ ab \o c \in Seq(Chars) /\ Len(ab \o c) = Len(ab) + Len(c)
        /\ \A i \in 1 .. Len(ab) + Len(c) : (ab \o c)[i] = IF i <= Len(ab) THEN ab[i] ELSE c[i - Len(ab)]
    BY <1>2, ConcatProperties
  <2> HIDE DEF p, q
  <2> QED
    BY <1>2, <2>1, <2>2
<1>4. \A i \in 1 .. p : e[i] = a[i]
  BY <1>1, <1>2, <1>3
<1>5. \A i \in 1 .. q : e[p + i] = b[i]
  <2>1. ASSUME NEW i \in 1 .. q PROVE e[p + i] = b[i]
    <3>1. p + i \in 1 .. p + q /\ ~ (p + i <= p) /\ (p + i) - p = i /\ p + i \in 1 .. (p + q) + n
      BY <1>1
    <3> QED
      BY <1>2, <1>3, <3>1
  <2> QED
    BY <2>1
<1>6. \A i \in 1 .. n : e[p + q + i] = c[i]
  <2>1. ASSUME NEW i \in 1 .. n PROVE e[p + q + i] = c[i]
    <3>1. ~ (p + q + i <= p + q) /\ (p + q + i) - (p + q) = i /\ p + q + i \in 1 .. (p + q) + n
      BY <1>1
    <3> QED
      BY <1>3, <3>1
  <2> QED
    BY <2>1
<1>7. ASSUME NEW f \in Nat, NEW s \in Seq(Chars), f + Len(s) <= Len(e), \A i \in 1 .. Len(s) : e[f + i] = s[i]
      PROVE  SubSeq(e, f + 1, f + Len(s)) = s
  <2> DEFINE l == f + 1
             h == f + Len(s)
             x == SubSeq(e, l, h)
  <2>1. /\ Len(s) \in Nat /\ l \in Nat \ {0} /\ h \in Nat /\ h <= Len(e) /\ h - l + 1 = Len(s)
        /\ (l <= h <=> 0 < Len(s))
    BY <1>7
  <2>2. \A i \in 1 .. Len(s) : l + i - 1 = f + i
    OBVIOUS
  <2> HIDE DEF l, h
  <2>3. x \in Seq(Chars)
    BY <1>3, <2>1
  <2>4. Len(x) = (IF l <= h THEN h - l + 1 ELSE 0)
    BY <1>3, <2>1
  <2>5. \A i \in 1 .. h - l + 1 : x[i] = e[l + i - 1]
    BY <1>3, <2>1
  <2> HIDE DEF x
  <2>6. Len(x) = Len(s)
    BY <2>1, <2>4
  <2>7. ASSUME NEW i \in 1 .. Len(s) PROVE x[i] = s[i]
    <3>1. x[i] = e[l + i - 1]
      BY <2>1, <2>5
    <3>2. l + i - 1 = f + i
      BY <2>2
    <3>3. e[f + i] = s[i]
      BY <1>7
    <3> QED
      BY <3>1, <3>2, <3>3
  <2>8. x = s
    BY <1>7, <2>3, <2>6, <2>7, SeqEqual
  <2> QED
    BY <2>8 DEF x, l, h
<1>8. SubSeq(e, 1, p) = a
  <2>1. SubSeq(e, 0 + 1, 0 + Len(a)) = a
    BY <1>1, <1>3, <1>4, <1>7
  <2> QED
    BY <1>1, <2>1
<1>9. SubSeq(e, p + 1, p + q) = b
  BY <1>1, <1>3, <1>5, <1>7
<1>10. SubSeq(e, p + q + 1, Len(e)) = c
  <2>1. p + q \in Nat
    BY <1>1
  <2> QED
    BY <1>1, <1>3, <1>6, <1>7, <2>1
<1> QED
  BY <1>1, <1>3, <1>4, <1>5, <1>6, <1>8, <1>9, <1>10

\* The dash and the release, if there is one.
DashRelease(p) == IF p.release = << >> THEN << >> ELSE <<"-">> \o p.release

LEMMA EvrParts ==
    ASSUME NEW p \in Evrs
    PROVE  /\ p.epoch \in Seq(Chars) /\ p.version \in Seq(Chars) /\ p.release \in Seq(Chars)
           /\ Len(p.epoch) \in Nat /\ Len(p.version) \in Nat \ {0} /\ Len(p.release) \in Nat
           /\ p = [epoch |-> p.epoch, version |-> p.version, release |-> p.release]
           /\ \A i \in 1 .. Len(p.epoch) : p.epoch[i] \notin {":", "-"}
           /\ \A i \in 1 .. Len(p.version) : p.version[i] \notin {":", "-"}
<1>1. /\ p.epoch \in Seq(STRING) /\ p.version \in Seq(STRING) /\ p.version # << >> /\ p.release \in Seq(STRING)
      /\ p = [epoch |-> p.epoch, version |-> p.version, release |-> p.release]
  <2>1. p \in [epoch : Seq(STRING), version : Seq(STRING) \ {<< >>}, release : Seq(STRING)]
    BY SolvContainersAssumption
  <2> QED
    BY <2>1
<1>2. p.epoch \in Seq(Chars) /\ p.version \in Seq(Chars) /\ p.release \in Seq(Chars)
  <2>1. STRING \subseteq Chars
    BY DEF Chars
  <2> QED
    BY <1>1, <2>1, SeqMonotonic
<1>3. (ToSet(p.epoch) \cup ToSet(p.version)) \cap {":", "-"} = {}
  BY SolvContainersAssumption
<1>4. \A i \in 1 .. Len(p.epoch) : p.epoch[i] \in ToSet(p.epoch)
  BY <1>2 DEF ToSet
<1>5. \A i \in 1 .. Len(p.version) : p.version[i] \in ToSet(p.version)
  BY <1>2 DEF ToSet
<1>6. Len(p.epoch) \in Nat /\ Len(p.version) \in Nat \ {0} /\ Len(p.release) \in Nat
  BY <1>1, <1>2, EmptySeq
<1> QED
  BY <1>1, <1>2, <1>3, <1>4, <1>5, <1>6

LEMMA DashedRelease ==
    ASSUME NEW p \in Evrs
    PROVE  DashRelease(p) \in Seq(Chars) /\ <<"-">> \in Seq(Chars) /\ <<":">> \in Seq(Chars)
<1>1. p.release \in Seq(Chars)
  BY EvrParts
<1>2. "-" \in Chars /\ ":" \in Chars
  BY DEF Chars
<1>3. <<"-">> \in Seq(Chars) /\ <<":">> \in Seq(Chars) /\ << >> \in Seq(Chars)
  BY <1>2
<1>4. <<"-">> \o p.release \in Seq(Chars)
  BY <1>1, <1>3, ConcatProperties
<1> QED
  BY <1>3, <1>4 DEF DashRelease

LEMMA Regroup ==
    ASSUME NEW a \in Seq(Chars), NEW b \in Seq(Chars), NEW c \in Seq(Chars)
    PROVE  (a \o b) \o c = a \o (b \o c)
BY ConcatAssociative

LEMMA JoinType ==
    ASSUME NEW a \in Seq(Chars), NEW b \in Seq(Chars)
    PROVE  a \o b \in Seq(Chars)
BY ConcatProperties

\* e is P, then the version and the release.
Follows(e, P, p) == e = (P \o p.version) \o DashRelease(p)

\* Where the version and the release lie after what comes before them, the dash
\* at r when there is one.
LaidOut(e, P, p, r) ==
    /\ e \in Seq(Chars) /\ Len(e) \in Nat /\ Len(P) \in Nat /\ r \in Nat /\ r <= Len(e) + 1
    /\ r <= Len(e) => e[r] = "-"
    /\ \A i \in 1 .. Len(P) : e[i] = P[i]
    /\ \A i \in 1 .. Len(p.version) : e[Len(P) + i] = p.version[i]
    /\ SubSeq(e, Len(P) + 1, r - 1) = p.version
    /\ SubSeq(e, r + 1, Len(e)) = p.release

LEMMA JoinedParts ==
    ASSUME NEW p \in Evrs, NEW P \in Seq(Chars), NEW e, Follows(e, P, p),
           NEW r, r = Len(P) + Len(p.version) + 1
    PROVE  LaidOut(e, P, p, r)
<1> DEFINE V == p.version
           T == DashRelease(p)
           R == p.release
           A == P \o V
           D == <<"-">>
<1>1. /\ V \in Seq(Chars) /\ Len(V) \in Nat \ {0} /\ R \in Seq(Chars) /\ Len(R) \in Nat /\ Len(P) \in Nat
      /\ T \in Seq(Chars) /\ Len(T) \in Nat /\ D \in Seq(Chars) /\ Len(D) = 1 /\ D[1] = "-"
  BY EvrParts, DashedRelease
<1>2. T = IF R = << >> THEN << >> ELSE D \o R
  BY DEF DashRelease
<1>4. e = A \o T
  BY DEF Follows
<1> HIDE DEF V, T, R, D
<1>3. A \in Seq(Chars) /\ Len(A) = Len(P) + Len(V)
  BY <1>1, ConcatProperties
<1>5. /\ e \in Seq(Chars) /\ Len(e) = Len(P) + Len(V) + Len(T)
      /\ \A i \in 1 .. Len(P) : e[i] = P[i]
      /\ \A i \in 1 .. Len(V) : e[Len(P) + i] = V[i]
      /\ SubSeq(e, Len(P) + 1, Len(P) + Len(V)) = V
  BY <1>1, <1>4, PartOfJoined
<1>6. r \in Nat /\ r - 1 = Len(P) + Len(V) /\ r = Len(P) + Len(V) + 1
  BY <1>1 DEF V
<1> HIDE DEF A
<1>9. SubSeq(e, Len(P) + 1, r - 1) = V
  BY <1>5, <1>6
<1>10. V \in Seq(Chars) /\ R \in Seq(Chars) /\ T \in Seq(Chars) /\ D \in Seq(Chars) /\ A \in Seq(Chars)
  BY <1>1, <1>3
<1>11. Len(V) \in Nat /\ Len(R) \in Nat /\ Len(P) \in Nat /\ Len(T) \in Nat /\ Len(D) = 1
  BY <1>1
<1>7. CASE R = << >>
  <2>1. Len(T) = 0
    BY <1>2, <1>7
  <2>2. r = Len(e) + 1 /\ Len(e) \in Nat
    BY <1>5, <1>6, <1>11, <2>1
  <2>3. SubSeq(e, r + 1, Len(e)) = R
    <3>1. r + 1 \in Int /\ Len(e) \in Int /\ Len(e) < r + 1
      BY <1>6, <2>2
    <3>2. SubSeq(e, r + 1, Len(e)) = << >>
      BY <3>1, SubSeqEmpty
    <3> QED
      BY <1>7, <3>2
  <2>4. r <= Len(e) + 1 /\ ~ (r <= Len(e))
    BY <2>2
  <2> QED
    BY <1>5, <1>6, <1>9, <1>11, <2>2, <2>3, <2>4 DEF V, R, LaidOut
<1>8. CASE R # << >>
  <2>1. e = (A \o D) \o R
    <3>1. e = A \o (D \o R)
      BY <1>2, <1>4, <1>8
    <3>2. (A \o D) \o R = A \o (D \o R)
      BY <1>10, Regroup, Zenon
    <3> QED
      BY <3>1, <3>2
  <2>2. /\ Len(e) = Len(A) + Len(D) + Len(R)
        /\ \A i \in 1 .. Len(D) : e[Len(A) + i] = D[i]
        /\ SubSeq(e, Len(A) + Len(D) + 1, Len(e)) = R
    BY <1>10, <2>1, PartOfJoined
  <2>3. r = Len(A) + 1 /\ r + 1 = Len(A) + Len(D) + 1 /\ r <= Len(e) + 1 /\ Len(e) \in Nat
    BY <1>3, <1>6, <1>11, <2>2
  <2>4. e[r] = "-"
    <3>1. 1 \in 1 .. Len(D) /\ D[1] = "-"
      BY <1>1
    <3>2. e[Len(A) + 1] = "-"
      BY <2>2, <3>1
    <3> QED
      BY <2>3, <3>2
  <2>5. SubSeq(e, r + 1, Len(e)) = R
    BY <2>2, <2>3
  <2> QED
    BY <1>5, <1>6, <1>9, <1>11, <2>3, <2>4, <2>5 DEF V, R, LaidOut
<1> QED
  BY <1>7, <1>8

\* pool_split_evr takes apart what libsolv joined.
LEMMA SplitUndoesJoin ==
    ASSUME NEW p \in Evrs
    PROVE  SplitEvr(Joined(p)) = p /\ FullEvr(Joined(p)) = Joined([p EXCEPT !.epoch = EpochString(Joined(p))])
<1> DEFINE E == p.epoch
           V == p.version
           T == DashRelease(p)
           C == <<":">>
           e == Joined(p)
<1>1. /\ E \in Seq(Chars) /\ V \in Seq(Chars) /\ p.release \in Seq(Chars) /\ T \in Seq(Chars) /\ C \in Seq(Chars)
      /\ Len(E) \in Nat /\ Len(V) \in Nat \ {0} /\ C[1] = ":" /\ Len(C) = 1
      /\ p = [epoch |-> E, version |-> V, release |-> p.release]
      /\ \A i \in 1 .. Len(E) : E[i] \notin {":", "-"}
      /\ \A i \in 1 .. Len(V) : V[i] \notin {":", "-"}
  BY EvrParts, DashedRelease
<1>6. E \in Seq(Chars) /\ V \in Seq(Chars) /\ T \in Seq(Chars) /\ C \in Seq(Chars)
  BY <1>1
<1>7. Len(E) \in Nat /\ Len(V) \in Nat \ {0}
  BY <1>1
<1>8. \A i \in 1 .. Len(V) : V[i] \notin {":", "-"}
  BY <1>1
<1>2. e = ((IF E = << >> THEN << >> ELSE E \o C) \o V) \o T
  BY DEF Joined, DashRelease
<1> HIDE DEF C
<1>3. "0" \in Chars /\ ":" \in Chars /\ << >> \in Seq(Chars)
  BY DEF Chars
<1>4. CASE E = << >>
  <2> DEFINE P == << >>
             r == Len(P) + Len(V) + 1
  <2>1. e = (P \o V) \o T /\ P \in Seq(Chars)
    BY <1>2, <1>3, <1>4
  <2> HIDE DEF e, T
  <2>2. /\ e \in Seq(Chars) /\ Len(e) \in Nat /\ r \in Nat /\ r <= Len(e) + 1
        /\ r <= Len(e) => e[r] = "-"
        /\ \A i \in 1 .. Len(V) : e[Len(P) + i] = V[i]
        /\ SubSeq(e, Len(P) + 1, r - 1) = V /\ SubSeq(e, r + 1, Len(e)) = p.release
    <3>1. r = Len(P) + Len(V) + 1
      OBVIOUS
    <3> HIDE DEF P, r
    <3>2. Follows(e, P, p)
      BY <2>1 DEF Follows, T
    <3>3. LaidOut(e, P, p, r)
      BY <2>1, <3>1, <3>2, JoinedParts, Zenon
    <3> QED
      BY <3>3 DEF LaidOut
  <2>3. Len(P) = 0
    OBVIOUS
  <2> HIDE DEF P
  <2>4. r = Len(V) + 1 /\ r \in 2 .. Len(e) + 1 /\ SubSeq(e, 1, r - 1) = V /\ \A i \in 1 .. Len(V) : e[i] = V[i]
    BY <1>1, <2>2, <2>3
  <2>5. Seek(e, 2, {":", "-"}) = r
    <3>1. \A j \in 2 .. r - 1 : e[j] \notin {":", "-"}
      <4>1. \A j \in 2 .. r - 1 : j \in 1 .. Len(V)
        BY <1>7, <2>4
      <4>2. \A i \in 1 .. Len(V) : e[i] = V[i]
        BY <2>4
      <4> HIDE DEF r
      <4> QED
        BY <1>8, <4>1, <4>2, Zenon
    <3>2. r <= Len(e) => e[r] \in {":", "-"}
      BY <2>2
    <3>3. 2 \in Nat \ {0}
      OBVIOUS
    <3> HIDE DEF r
    <3> QED
      BY <2>2, <2>4, <3>1, <3>2, <3>3, SeekGives, Zenon
  <2>6. ~ (r <= Len(e) /\ e[r] = ":")
    BY <2>2
  <2>7. SplitEvr(e) = p
    <3>1. SplitEvr(e) = [epoch |-> << >>, version |-> SubSeq(e, 1, r - 1), release |-> SubSeq(e, r + 1, Len(e))]
      BY <2>5, <2>6 DEF SplitEvr
    <3> HIDE DEF r
    <3> QED
      BY <1>1, <1>4, <2>2, <2>4, <3>1
  <2>8. EpochString(e) = <<"0">> /\ FullEvr(e) = <<"0", ":">> \o e
    BY <1>4, <2>5, <2>6, <2>7 DEF EpochString, FullEvr
  <2> DEFINE Z == <<"0">> \o C
             p0 == [p EXCEPT !.epoch = <<"0">>]
  <2>9. Joined(p0) = (Z \o V) \o T
    <3>1. p0.epoch = <<"0">> /\ p0.version = V /\ p0.release = p.release /\ <<"0">> # << >>
      BY <1>1
    <3>2. Joined(p0) = ((IF p0.epoch = << >> THEN << >> ELSE p0.epoch \o <<":">>) \o p0.version)
                       \o (IF p0.release = << >> THEN << >> ELSE <<"-">> \o p0.release)
      BY DEF Joined
    <3> HIDE DEF p0
    <3>3. (IF p0.epoch = << >> THEN << >> ELSE p0.epoch \o <<":">>) = Z
      BY <3>1 DEF C
    <3>4. (IF p0.release = << >> THEN << >> ELSE <<"-">> \o p0.release) = T
      BY <3>1 DEF T, DashRelease
    <3> QED
      BY <3>1, <3>2, <3>3, <3>4, Zenon
  <2>10. Z = <<"0", ":">> /\ Z \in Seq(Chars)
    <3>1. <<"0">> \in Seq(Chars)
      BY <1>3
    <3>2. Append(<<"0">>, ":") = Z
      BY <1>3, <3>1, AppendIsConcat DEF C
    <3>3. Append(<<"0">>, ":") = <<"0", ":">>
      <4> DEFINE x == Append(<<"0">>, ":")
                 y == <<"0", ":">>
      <4>1. x \in Seq(Chars) /\ Len(x) = 2 /\ x[1] = "0" /\ x[2] = ":"
        BY <1>3, <3>1
      <4>2. y \in Seq(Chars) /\ Len(y) = 2 /\ y[1] = "0" /\ y[2] = ":"
        BY <1>3
      <4> HIDE DEF x, y
      <4>3. x = y
        BY <4>1, <4>2, SeqEqual
      <4> QED
        BY <4>3 DEF x, y
    <3> QED
      BY <1>1, <3>1, <3>2, <3>3, ConcatProperties
  <2>11. e = V \o T
    BY <1>1, <2>1, ConcatEmptySeq DEF P
  <2>12. (Z \o V) \o T = Z \o (V \o T)
    <3> HIDE DEF Z
    <3> QED
      BY <1>6, <2>10, Regroup, Zenon
  <2>13. FullEvr(e) = Joined([p EXCEPT !.epoch = EpochString(e)])
    <3> HIDE DEF Z
    <3> QED
      BY <2>8, <2>9, <2>10, <2>11, <2>12
  <2> QED
    BY <2>7, <2>13 DEF e
<1>5. CASE E # << >>
  <2> DEFINE P == E \o C
             k == Len(P)
             r == Len(P) + Len(V) + 1
  <2>1. e = (P \o V) \o T
    BY <1>2, <1>5
  <2>2. P \in Seq(Chars) /\ Len(P) = Len(E) + 1 /\ P[Len(P)] = ":" /\ \A i \in 1 .. Len(E) : P[i] = E[i]
    <3>1. /\ P \in Seq(Chars) /\ Len(P) = Len(E) + Len(C)
          /\ \A i \in 1 .. Len(E) + Len(C) : P[i] = IF i <= Len(E) THEN E[i] ELSE C[i - Len(E)]
      BY <1>6, ConcatProperties
    <3>2. /\ Len(E) + 1 \in 1 .. Len(E) + Len(C) /\ ~ (Len(E) + 1 <= Len(E)) /\ (Len(E) + 1) - Len(E) = 1
          /\ \A i \in 1 .. Len(E) : i <= Len(E) /\ i \in 1 .. Len(E) + Len(C)
      BY <1>1
    <3> HIDE DEF P
    <3> QED
      BY <1>1, <3>1, <3>2
  <2>3. SubSeq(e, 1, Len(E)) = E
    <3>1. V \o T \in Seq(Chars)
      BY <1>6, JoinType
    <3>2. (P \o V) \o T = P \o (V \o T)
      <4> HIDE DEF P, T
      <4> QED
        BY <1>6, <2>2, Regroup, Zenon
    <3>3. e = (E \o C) \o (V \o T)
      BY <2>1, <3>2
    <3> HIDE DEF e
    <3> QED
      BY <1>1, <3>1, <3>3, PartOfJoined
  <2> HIDE DEF e, P, T
  <2>4. /\ e \in Seq(Chars) /\ Len(e) \in Nat /\ r \in Nat /\ r <= Len(e) + 1
        /\ r <= Len(e) => e[r] = "-"
        /\ \A i \in 1 .. Len(P) : e[i] = P[i]
        /\ \A i \in 1 .. Len(V) : e[Len(P) + i] = V[i]
        /\ SubSeq(e, Len(P) + 1, r - 1) = V /\ SubSeq(e, r + 1, Len(e)) = p.release
    <3>1. r = Len(P) + Len(V) + 1
      OBVIOUS
    <3> HIDE DEF r
    <3>2. Follows(e, P, p)
      BY <2>1 DEF Follows, T
    <3>3. LaidOut(e, P, p, r)
      BY <2>2, <3>1, <3>2, JoinedParts, Zenon
    <3> QED
      BY <3>3 DEF LaidOut
  <2>5. k \in 2 .. Len(e) /\ k = Len(E) + 1 /\ e[k] = ":" /\ Len(E) # 0 /\ r \in k + 2 .. Len(e) + 1
    <3>1. Len(E) # 0
      BY <1>1, <1>5
    <3>2. Len(P) = Len(E) + 1 /\ r = Len(P) + Len(V) + 1 /\ r <= Len(e) + 1 /\ Len(e) \in Nat
      BY <2>2, <2>4
    <3>3. k \in 1 .. Len(P) /\ P[k] = ":"
      BY <1>7, <2>2
    <3>4. e[k] = ":"
      BY <2>4, <3>3
    <3> DEFINE le == Len(E)
               lv == Len(V)
               n == Len(e)
    <3>5. le \in Nat /\ le # 0 /\ lv \in Nat \ {0} /\ k = le + 1 /\ r = k + lv + 1 /\ r <= n + 1 /\ n \in Nat
      BY <1>7, <3>1, <3>2
    <3> HIDE DEF r, k, le, lv, n
    <3>6. k \in 2 .. n /\ r \in k + 2 .. n + 1
      BY <3>5
    <3> QED
      BY <3>1, <3>4, <3>5, <3>6 DEF le, n, k
  <2>6. Seek(e, 2, {":", "-"}) = k
    <3>1. \A j \in 2 .. k - 1 : e[j] \notin {":", "-"}
      <4>1. \A j \in 2 .. k - 1 : j \in 1 .. Len(E) /\ j \in 1 .. Len(P)
        BY <1>7, <2>2
      <4>2. /\ \A i \in 1 .. Len(P) : e[i] = P[i]
            /\ \A i \in 1 .. Len(E) : P[i] = E[i]
        BY <2>2, <2>4
      <4>3. \A i \in 1 .. Len(E) : E[i] \notin {":", "-"}
        BY <1>1
      <4> HIDE DEF k
      <4> QED
        BY <4>1, <4>2, <4>3, Zenon
    <3>2. k <= Len(e) => e[k] \in {":", "-"}
      BY <2>5
    <3>3. k \in 2 .. Len(e) + 1
      BY <2>4, <2>5
    <3>4. 2 \in Nat \ {0}
      OBVIOUS
    <3> HIDE DEF k
    <3> QED
      BY <2>4, <3>1, <3>2, <3>3, <3>4, SeekGives, Zenon
  <2>7. Seek(e, k + 2, {"-"}) = r
    <3>1. ASSUME NEW j \in k + 2 .. r - 1 PROVE e[j] \notin {"-"}
      <4>1. j - Len(P) \in 1 .. Len(V) /\ Len(P) + (j - Len(P)) = j
        BY <1>1, <2>2
      <4>2. e[Len(P) + (j - Len(P))] = V[j - Len(P)]
        BY <2>4, <4>1
      <4> QED
        BY <1>1, <4>1, <4>2
    <3>2. k + 2 \in Nat \ {0} /\ r <= Len(e) => e[r] \in {"-"}
      BY <2>4, <2>5
    <3>3. k + 2 \in Nat \ {0}
      BY <2>5
    <3> HIDE DEF k, r
    <3> QED
      BY <2>4, <2>5, <3>1, <3>2, <3>3, SeekGives
  <2>8. k <= Len(e) /\ e[k] = ":" /\ k - 1 = Len(E)
    BY <1>1, <2>4, <2>5
  <2>9. SplitEvr(e) = p
    <3>1. SplitEvr(e) = [epoch |-> SubSeq(e, 1, k - 1), version |-> SubSeq(e, k + 1, r - 1),
                         release |-> SubSeq(e, r + 1, Len(e))]
      BY <2>6, <2>7, <2>8 DEF SplitEvr
    <3> HIDE DEF r
    <3> QED
      BY <1>1, <2>3, <2>4, <2>8, <3>1
  <2>10. EpochString(e) = E /\ FullEvr(e) = e
    BY <1>5, <2>6, <2>8, <2>9 DEF EpochString, FullEvr
  <2>11. [p EXCEPT !.epoch = E] = p
    BY <1>1
  <2> QED
    BY <2>9, <2>10, <2>11 DEF e
<1> QED
  BY <1>4, <1>5

\* get_requires leaves out the marker and nothing else.
LEMMA RequiresAreWhole ==
    WithoutMarkers(PackageDeps("requires"), PkgDeps["requires"])
<1> DEFINE all == PkgDeps["requires"]
           m == SelectInSeq(all, IsMarker)
           n == Len(all)
           M(i) == {j \in 1 .. i : IsMarker(all[j])}
           before(i) == Cardinality(M(i))
           given == PackageDeps("requires")
           a == RegularRequires
           b == RequiresPre
<1>1. /\ all \in Seq(DepItems) /\ m \in 0 .. n
      /\ m = 0 => \A i \in 1 .. n : ~ IsMarker(all[i])
      /\ m # 0 => \A i \in 1 .. n : IsMarker(all[i]) <=> i = m
  BY MarkerPlace
<1>2. /\ a = IF m = 0 THEN all ELSE SubSeq(all, 1, m - 1)
      /\ b = IF m = 0 THEN << >> ELSE SubSeq(all, m + 1, n)
      /\ given = a \o b
  BY DEF RegularRequires, RequiresPre, PackageDeps
<1>3. a \in Seq(DepItems) /\ b \in Seq(DepItems)
  BY RequiresAreDeps
<1>4. n \in Nat /\ DOMAIN all = 1 .. n /\ m \in Nat /\ m <= n
  BY <1>1
<1> HIDE DEF all, m, a, b, given
<1>5. CASE m = 0
  <2>1. given = all
    BY <1>1, <1>2, <1>5, ConcatEmptySeq
  <2>2. \A i \in 0 .. n : M(i) = {}
    BY <1>1, <1>4, <1>5
  <2>3. \A i \in 0 .. n : before(i) = 0
    BY <2>2, FS_EmptySet
  <2>4. Len(given) = n - before(n)
    BY <1>4, <2>1, <2>3
  <2>5. \A i \in 1 .. n : given[i - before(i)] = all[i]
    BY <1>4, <2>1, <2>3
  <2> HIDE DEF M
  <2> QED
    BY <1>4, <2>4, <2>5 DEF WithoutMarkers, all, given, M
<1>6. CASE m # 0
  <2>1. m \in 1 .. n /\ \A i \in 1 .. n : IsMarker(all[i]) <=> i = m
    BY <1>1, <1>4, <1>6
  <2>2. \A i \in 0 .. n : M(i) = IF i < m THEN {} ELSE {m}
    BY <1>4, <2>1
  <2>3. \A i \in 0 .. n : before(i) = IF i < m THEN 0 ELSE 1
    BY <2>2, FS_EmptySet, FS_Singleton
  <2>4. Len(a) = m - 1 /\ \A i \in 1 .. m - 1 : a[i] = all[i]
    <3>1. a = SubSeq(all, 1, m - 1)
      BY <1>2, <1>6
    <3> QED
      BY <1>1, <1>4, <2>1, <3>1
  <2>5. Len(b) = n - m /\ \A i \in 1 .. n - m : b[i] = all[m + i]
    <3>1. b = SubSeq(all, m + 1, n)
      BY <1>2, <1>6
    <3> QED
      BY <1>1, <1>4, <2>1, <3>1 DEF n
  <2>6. /\ Len(given) = Len(a) + Len(b)
        /\ \A i \in 1 .. Len(a) + Len(b) : given[i] = IF i <= Len(a) THEN a[i] ELSE b[i - Len(a)]
    BY <1>2, <1>3, ConcatProperties
  <2> HIDE DEF M, n
  <2>7. Len(given) = n - before(n)
    BY <1>4, <2>1, <2>3, <2>4, <2>5, <2>6
  <2>8. ASSUME NEW i \in 1 .. n, ~ IsMarker(all[i]) PROVE given[i - before(i)] = all[i]
    <3>1. i # m /\ i \in Nat
      BY <1>4, <2>1, <2>8
    <3>2. CASE i < m
      <4>1. before(i) = 0 /\ i - 0 = i /\ i \in 1 .. m - 1 /\ i \in 1 .. Len(a) + Len(b) /\ i <= Len(a)
        BY <1>4, <2>1, <2>3, <2>4, <2>5, <3>2
      <4> QED
        BY <2>4, <2>6, <4>1
    <3>3. CASE m < i
      <4>1. /\ before(i) = 1 /\ i - 1 \in 1 .. Len(a) + Len(b) /\ ~ (i - 1 <= Len(a)) /\ (i - 1) - Len(a) = i - m
            /\ i - m \in 1 .. n - m /\ m + (i - m) = i
        BY <1>4, <2>1, <2>3, <2>4, <2>5, <3>3
      <4>2. given[i - 1] = b[i - m]
        BY <2>6, <4>1
      <4>3. b[i - m] = all[i]
        BY <2>5, <4>1
      <4> QED
        BY <4>1, <4>2, <4>3
    <3> QED
      BY <1>4, <3>1, <3>2, <3>3
  <2> QED
    BY <1>4, <2>7, <2>8 DEF WithoutMarkers, all, given, M, n
<1> QED
  BY <1>5, <1>6

-----------------------------------------------------------------------------
(* The theorem about the containers.                                       *)

ContInv == MapInv /\ DepInv /\ evr \in Evrs

LEMMA ContInit_ContInv == ContInit => ContInv
<1> SUFFICES ASSUME ContInit PROVE ContInv
  OBVIOUS
<1>1. Min(PoolSizes) \in PoolSizes
  BY SolvContainersAssumption, SmallestOf
<1>2. [bytes |-> Bytes(Min(PoolSizes)), bits |-> {}] \in Maps
  BY <1>1, EmptyMap
<1>3. smap \in [MapNames -> Maps] /\ nsolvables \in PoolSizes
  BY <1>1, <1>2 DEF ContInit
<1>4. mapWalk \in Iterators /\ mapWalk.value # BEGIN /\ ~ mapWalk.on
  <2>1. (CHOOSE s \in MapNames : TRUE) \in MapNames
    BY SolvContainersAssumption
  <2>2. << >> \in Seq(Nat)
    OBVIOUS
  <2> QED
    BY <2>1, <2>2 DEF ContInit, NoWalk, Iterators, BEGIN, END
<1>5. deps \in [ListNames -> Seq(DepItems)]
  <2>1. << >> \in Seq(DepItems)
    OBVIOUS
  <2> QED
    BY <2>1 DEF ContInit
<1>6. depWalk \in DepWalks /\ ~ depWalk.on
  <2>1. (CHOOSE l \in ListNames : TRUE) \in ListNames
    BY SolvContainersAssumption
  <2>2. << >> \in Seq(DepItems)
    OBVIOUS
  <2> QED
    BY <2>1, <2>2 DEF ContInit, NoDepWalk, DepWalks
<1>7. evr \in Evrs
  BY SolvContainersAssumption DEF ContInit
<1> QED
  BY <1>3, <1>4, <1>5, <1>6, <1>7 DEF ContInv, MapInv, DepInv

LEMMA ContStepKeepsInv == ContInv /\ [MapNext \/ DepNext \/ PkgNext]_contVars => ContInv'
<1> SUFFICES ASSUME ContInv, [MapNext \/ DepNext \/ PkgNext]_contVars PROVE ContInv'
  OBVIOUS
<1>1. MapInv /\ DepInv /\ evr \in Evrs
  BY DEF ContInv
<1>2. CASE MapNext
  <2>1. UNCHANGED <<depVars, evr>>
    BY <1>2 DEF MapNext, PoolGrows, NewSet, ClearMap, WalkBegin, AssignMap, SwapMap, Union, Difference,
                Intersection, AddId, RemoveId, WalkNext, Rewind, MapOp
  <2>2. DepInv' /\ evr' \in Evrs
    BY <1>1, <2>1 DEF DepInv, depVars
  <2> QED
    BY <1>1, <1>2, <2>2, MapNextKeepsMapInv DEF ContInv
<1>3. CASE DepNext
  <2>1. UNCHANGED <<mapVars, evr>>
    BY <1>3 DEF DepNext, DepWalkBegin, DepWalkNext, AppendList, AssignList, MoveList, AddReldep, AddReldepWithGlob,
                GetDeps, DepOp
  <2>2. MapInv' /\ evr' \in Evrs
    BY <1>1, <2>1 DEF MapInv, mapVars
  <2> QED
    BY <1>1, <1>3, <2>2, DepNextKeepsDepInv DEF ContInv
<1>4. CASE PkgNext
  <2>1. UNCHANGED <<mapVars, depVars>> /\ evr' \in Evrs
    BY <1>4 DEF PkgNext, LookAt
  <2> QED
    BY <1>1, <2>1 DEF ContInv, MapInv, DepInv, mapVars, depVars
<1>5. CASE UNCHANGED contVars
  BY <1>1, <1>5 DEF ContInv, MapInv, DepInv, contVars, mapVars, depVars
<1> QED
  BY <1>2, <1>3, <1>4, <1>5

\* A walk over a PackageSet returns, in order and once each, what the set held all
\* the time, and over a ReldepList all of it, whatever the loop does meanwhile; a
\* package gives back the parts of its evr and every requirement
\* (solv/map_iterator.hpp, solv/queue_iterator.hpp, solv/package_private.hpp).
THEOREM ReadsStayWhole == ContSpec => []ReadsAreWhole
<1>1. ContInv => ReadsAreWhole
  <2> SUFFICES ASSUME ContInv PROVE ReadsAreWhole
    OBVIOUS
  <2>1. MapInv /\ DepInv /\ evr \in Evrs
    BY DEF ContInv
  <2>2. WalkVisitsContent
    BY <2>1, MapsAreWalkedWhole, ListsAreWalkedWhole DEF WalkVisitsContent
  <2>3. PackageReadsWhole
    BY <2>1, SplitUndoesJoin, RequiresAreWhole DEF PackageReadsWhole
  <2> QED
    BY <2>2, <2>3 DEF ReadsAreWhole
<1> QED
  BY <1>1, ContInit_ContInv, ContStepKeepsInv, PTL DEF ContSpec
-----------------------------------------------------------------------------
(* Queries: the order of the keys and the sorted list of solvables.        *)

Keys3 == Nat \X Nat \X Nat

\* Lexicographic, said field by field.
LEMMA KeyBelowIs ==
    /\ \A a1, b1 \in Nat : KeyBelow(<<a1>>, <<b1>>) <=> a1 < b1
    /\ \A a1, a2, b1, b2 \in Nat :
          KeyBelow(<<a1, a2>>, <<b1, b2>>) <=> a1 < b1 \/ (a1 = b1 /\ a2 < b2)
    /\ \A a1, a2, a3, b1, b2, b3 \in Nat :
          KeyBelow(<<a1, a2, a3>>, <<b1, b2, b3>>)
            <=> a1 < b1 \/ (a1 = b1 /\ a2 < b2) \/ (a1 = b1 /\ a2 = b2 /\ a3 < b3)
<1>1. ASSUME NEW a1 \in Nat, NEW b1 \in Nat
      PROVE  KeyBelow(<<a1>>, <<b1>>) <=> a1 < b1
  <2> DEFINE a == <<a1>>
             b == <<b1>>
  <2>1. a[1] = a1 /\ b[1] = b1 /\ DOMAIN a = {1}
    OBVIOUS
  <2> HIDE DEF a, b
  <2>2. KeyBelow(a, b) <=> \E i \in {1} : a[i] < b[i] /\ \A j \in 1..(i - 1) : a[j] = b[j]
    BY <2>1 DEF KeyBelow
  <2>3. 1..(1 - 1) = {}
    OBVIOUS
  <2>4. KeyBelow(a, b) <=> a[1] < b[1]
    BY <2>2, <2>3
  <2> QED
    BY <2>1, <2>4 DEF a, b
<1>2. ASSUME NEW a1 \in Nat, NEW a2 \in Nat, NEW b1 \in Nat, NEW b2 \in Nat
      PROVE  KeyBelow(<<a1, a2>>, <<b1, b2>>) <=> a1 < b1 \/ (a1 = b1 /\ a2 < b2)
  <2> DEFINE a == <<a1, a2>>
             b == <<b1, b2>>
  <2>1. a[1] = a1 /\ a[2] = a2 /\ b[1] = b1 /\ b[2] = b2 /\ DOMAIN a = {1, 2}
    OBVIOUS
  <2> HIDE DEF a, b
  <2>2. KeyBelow(a, b) <=> \E i \in {1, 2} : a[i] < b[i] /\ \A j \in 1..(i - 1) : a[j] = b[j]
    BY <2>1 DEF KeyBelow
  <2>3. 1..(1 - 1) = {} /\ 1..(2 - 1) = {1}
    OBVIOUS
  <2>4. KeyBelow(a, b) <=> a[1] < b[1] \/ (a[2] < b[2] /\ a[1] = b[1])
    BY <2>2, <2>3
  <2> QED
    BY <2>1, <2>4 DEF a, b
<1>3. ASSUME NEW a1 \in Nat, NEW a2 \in Nat, NEW a3 \in Nat, NEW b1 \in Nat, NEW b2 \in Nat, NEW b3 \in Nat
      PROVE  KeyBelow(<<a1, a2, a3>>, <<b1, b2, b3>>)
               <=> a1 < b1 \/ (a1 = b1 /\ a2 < b2) \/ (a1 = b1 /\ a2 = b2 /\ a3 < b3)
  <2> DEFINE a == <<a1, a2, a3>>
             b == <<b1, b2, b3>>
  <2>1. /\ a[1] = a1 /\ a[2] = a2 /\ a[3] = a3 /\ b[1] = b1 /\ b[2] = b2 /\ b[3] = b3
        /\ DOMAIN a = {1, 2, 3}
    OBVIOUS
  <2> HIDE DEF a, b
  <2>2. KeyBelow(a, b) <=> \E i \in {1, 2, 3} : a[i] < b[i] /\ \A j \in 1..(i - 1) : a[j] = b[j]
    BY <2>1 DEF KeyBelow
  <2>3. 1..(1 - 1) = {} /\ 1..(2 - 1) = {1} /\ 1..(3 - 1) = {1, 2}
    OBVIOUS
  <2>4. KeyBelow(a, b) <=> \/ a[1] < b[1] \/ (a[2] < b[2] /\ a[1] = b[1])
                          \/ (a[3] < b[3] /\ a[1] = b[1] /\ a[2] = b[2])
    BY <2>2, <2>3
  <2> QED
    BY <2>1, <2>4 DEF a, b
<1> QED
  BY <1>1, <1>2, <1>3

LEMMA PrefixIs ==
    ASSUME NEW a1 \in Nat, NEW a2 \in Nat, NEW a3 \in Nat
    PROVE  /\ Prefix(<<a1, a2, a3>>, 1) = <<a1>>
           /\ Prefix(<<a1, a2, a3>>, 2) = <<a1, a2>>
           /\ Prefix(<<a1, a2, a3>>, 3) = <<a1, a2, a3>>
<1> DEFINE a == <<a1, a2, a3>>
<1>1. a \in Seq(Nat) /\ Len(a) = 3 /\ a[1] = a1 /\ a[2] = a2 /\ a[3] = a3
  OBVIOUS
<1> HIDE DEF a
<1>2. ASSUME NEW n \in 1 .. 3
      PROVE  Prefix(a, n) \in Seq(Nat) /\ Len(Prefix(a, n)) = n /\ \A i \in 1 .. n : Prefix(a, n)[i] = a[i]
  BY <1>1 DEF Prefix
<1>3. Prefix(a, 1) = <<a1>>
  BY <1>1, <1>2
<1>4. Prefix(a, 2) = <<a1, a2>>
  <2>1. <<a1, a2>> \in Seq(Nat) /\ Len(<<a1, a2>>) = 2
    OBVIOUS
  <2>2. \A i \in 1 .. 2 : Prefix(a, 2)[i] = <<a1, a2>>[i]
    BY <1>1, <1>2
  <2> QED
    BY <1>2, <2>1, <2>2, SeqEqual
<1>5. Prefix(a, 3) = <<a1, a2, a3>>
  <2>1. <<a1, a2, a3>> \in Seq(Nat) /\ Len(<<a1, a2, a3>>) = 3
    OBVIOUS
  <2>2. \A i \in 1 .. 3 : Prefix(a, 3)[i] = <<a1, a2, a3>>[i]
    BY <1>1, <1>2
  <2> QED
    BY <1>2, <2>1, <2>2, SeqEqual
<1> QED
  BY <1>3, <1>4, <1>5 DEF a

\* Keys are ordered, and so are the keys cut to their first n fields.
LEMMA KeysOrder ==
    ASSUME NEW a \in Keys3, NEW b \in Keys3, NEW c \in Keys3
    PROVE  /\ ~ KeyBelow(a, a)
           /\ KeyBelow(a, b) \/ KeyBelow(b, a) \/ a = b
           /\ ~ (KeyBelow(a, b) /\ KeyBelow(b, a))
           /\ KeyBelow(a, b) /\ KeyBelow(b, c) => KeyBelow(a, c)
<1>1. PICK a1 \in Nat, a2 \in Nat, a3 \in Nat : a = <<a1, a2, a3>>
  BY DEF Keys3
<1>2. PICK b1 \in Nat, b2 \in Nat, b3 \in Nat : b = <<b1, b2, b3>>
  BY DEF Keys3
<1>3. PICK c1 \in Nat, c2 \in Nat, c3 \in Nat : c = <<c1, c2, c3>>
  BY DEF Keys3
<1> QED
  BY <1>1, <1>2, <1>3, KeyBelowIs

LEMMA PrefixesOrder ==
    ASSUME NEW a \in Keys3, NEW b \in Keys3, NEW n \in 1 .. 3
    PROVE  /\ ~ KeyBelow(Prefix(a, n), Prefix(a, n))
           /\ \/ KeyBelow(Prefix(a, n), Prefix(b, n)) \/ KeyBelow(Prefix(b, n), Prefix(a, n))
              \/ Prefix(a, n) = Prefix(b, n)
           /\ KeyBelow(Prefix(a, n), Prefix(b, n)) => KeyBelow(a, b)
<1>1. PICK a1 \in Nat, a2 \in Nat, a3 \in Nat : a = <<a1, a2, a3>>
  BY DEF Keys3
<1>2. PICK b1 \in Nat, b2 \in Nat, b3 \in Nat : b = <<b1, b2, b3>>
  BY DEF Keys3
<1>3. CASE n = 1
  BY <1>1, <1>2, <1>3, KeyBelowIs, PrefixIs
<1>4. CASE n = 2
  <2>1. Prefix(a, n) = <<a1, a2>> /\ Prefix(b, n) = <<b1, b2>>
    BY <1>1, <1>2, <1>4, PrefixIs
  <2>2. KeyBelow(a, b) <=> a1 < b1 \/ (a1 = b1 /\ a2 < b2) \/ (a1 = b1 /\ a2 = b2 /\ a3 < b3)
    BY <1>1, <1>2, KeyBelowIs
  <2>3. \A x1, x2, x3, y1, y2, y3 \in Nat :
          KeyBelow(<<x1, x2>>, <<y1, y2>>)
            <=> x1 < y1 \/ (x1 = y1 /\ x2 < y2)
    BY KeyBelowIs
  <2> QED
    BY <2>1, <2>2, <2>3
<1>5. CASE n = 3
  <2>1. Prefix(a, n) = <<a1, a2, a3>> /\ Prefix(b, n) = <<b1, b2, b3>>
    BY <1>1, <1>2, <1>5, PrefixIs
  <2>2. KeyBelow(a, b) <=> a1 < b1 \/ (a1 = b1 /\ a2 < b2) \/ (a1 = b1 /\ a2 = b2 /\ a3 < b3)
    BY <1>1, <1>2, KeyBelowIs
  <2>3. \A x1, x2, x3, y1, y2, y3 \in Nat :
          KeyBelow(<<x1, x2, x3>>, <<y1, y2, y3>>)
            <=> x1 < y1 \/ (x1 = y1 /\ x2 < y2) \/ (x1 = y1 /\ x2 = y2 /\ x3 < y3)
    BY KeyBelowIs
  <2> QED
    BY <2>1, <2>2, <2>3
<1> QED
  BY <1>3, <1>4, <1>5

Packages == DOMAIN SqTable

LEMMA NevraKeyType ==
    ASSUME NEW p \in Packages
    PROVE  /\ NevraKey(p) \in Keys3
           /\ NevraKey(p) = <<SqIdOf[SqPkg[p].name], SqIdOf[SqPkg[p].arch], SqPkg[p].evr>>
BY SqAssumption DEF NevraKey, Packages, Keys3, SqPkg

SortedList(list) ==
    /\ list \in Seq(Packages)
    /\ \A i, j \in 1 .. Len(list) : i < j => ~ KeyBelow(NevraKey(list[j]), NevraKey(list[i]))

\* In a sorted list the walk from the lower bound meets all with the key.
LEMMA WalkMeetsAll ==
    ASSUME NEW list, SortedList(list), NEW k \in Keys3, NEW n \in 1 .. 3
    PROVE  EqualRange(list, Prefix(k, n), n)
             = {list[i] : i \in {j \in 1 .. Len(list) : Prefix(NevraKey(list[j]), n) = Prefix(k, n)}}
<1> DEFINE P(i) == Prefix(NevraKey(list[i]), n)
           key == Prefix(k, n)
           low == {i \in DOMAIN list : ~KeyBelow(P(i), key)}
           walk == {i \in low : \A j \in low : j <= i => P(j) = key}
           all == {j \in 1 .. Len(list) : P(j) = key}
<1>1. DOMAIN list = 1 .. Len(list) /\ Len(list) \in Nat /\ \A i \in 1 .. Len(list) : list[i] \in Packages
  BY DEF SortedList
<1>2. \A i \in 1 .. Len(list) : NevraKey(list[i]) \in Keys3
  BY <1>1, NevraKeyType
<1>3. walk \subseteq all
  BY <1>1
<1>4. ASSUME NEW i \in all PROVE i \in walk
  <2>1. i \in 1 .. Len(list) /\ P(i) = key
    OBVIOUS
  <2>2. ~ KeyBelow(P(i), P(i))
    BY <1>2, <2>1, PrefixesOrder
  <2>3. i \in low
    BY <1>1, <2>1, <2>2
  <2>4. ASSUME NEW j \in low, j <= i PROVE P(j) = key
    <3>1. j \in 1 .. Len(list) /\ ~ KeyBelow(P(j), P(i))
      BY <1>1, <2>1
    <3>2. CASE j = i
      BY <2>1, <3>2
    <3>3. CASE j < i
      <4>1. ~ KeyBelow(NevraKey(list[i]), NevraKey(list[j]))
        BY <2>1, <3>1, <3>3 DEF SortedList
      <4>2. ~ KeyBelow(P(i), P(j))
        BY <1>2, <2>1, <3>1, <4>1, PrefixesOrder
      <4>3. KeyBelow(P(j), P(i)) \/ KeyBelow(P(i), P(j)) \/ P(j) = P(i)
        BY <1>2, <2>1, <3>1, PrefixesOrder
      <4> QED
        BY <2>1, <3>1, <4>2, <4>3
    <3> QED
      BY <1>1, <2>1, <2>4, <3>1, <3>2, <3>3
  <2> QED
    BY <2>3, <2>4
<1>5. EqualRange(list, key, n) = {list[i] : i \in walk}
  BY DEF EqualRange
<1>6. walk = all
  BY <1>3, <1>4
<1> QED
  BY <1>5, <1>6

\* A strict order of n things gives each number from 0 to n - 1 to one of them.
Rank(S, R, i) == Cardinality({j \in S : <<j, i>> \in R})

LEMMA RanksAreAll ==
    ASSUME NEW S, IsFiniteSet(S), NEW R,
           \A i \in S : <<i, i>> \notin R,
           \A i, j \in S : i # j => <<i, j>> \in R \/ <<j, i>> \in R,
           \A i, j, k \in S : <<i, j>> \in R /\ <<j, k>> \in R => <<i, k>> \in R
    PROVE  /\ \A i \in S : Rank(S, R, i) \in 0 .. Cardinality(S) - 1
           /\ \A r \in 0 .. Cardinality(S) - 1 : \E i \in S : Rank(S, R, i) = r
           /\ \A i, j \in S : <<i, j>> \in R => Rank(S, R, i) < Rank(S, R, j)
<1> DEFINE U(i) == {j \in S : <<j, i>> \in R}
           rank(i) == Cardinality(U(i))
           n == Cardinality(S)
<1>1. n \in Nat
  BY FS_CardinalityType
<1>2. ASSUME NEW i \in S
      PROVE  IsFiniteSet(U(i)) /\ rank(i) \in Nat /\ rank(i) <= n /\ rank(i) # n
  <2>1. U(i) \in SUBSET S /\ U(i) # S
    OBVIOUS
  <2> QED
    BY <2>1, FS_Subset, FS_CardinalityType
<1>3. ASSUME NEW i \in S, NEW j \in S, <<i, j>> \in R PROVE rank(i) < rank(j)
  <2>1. U(i) \in SUBSET U(j) /\ i \in U(j) /\ i \notin U(i)
    BY <1>3
  <2>2. rank(i) <= rank(j) /\ rank(i) # rank(j)
    BY <1>2, <2>1, FS_Subset
  <2> QED
    BY <1>2, <2>2
<1>4. \A i \in S : rank(i) \in 0 .. n - 1
  BY <1>1, <1>2
<1> DEFINE f == [i \in S |-> rank(i)]
           T == 0 .. n - 1
<1>5. f \in Injection(S, T)
  <2>1. ASSUME NEW i \in S, NEW j \in S, f[i] = f[j] PROVE i = j
    <3>1. rank(i) = rank(j) /\ rank(i) \in Nat
      BY <1>2, <2>1
    <3>2. ~ (<<i, j>> \in R) /\ ~ (<<j, i>> \in R)
      <4> HIDE DEF rank
      <4> QED
        BY <1>3, <3>1
    <3> QED
      BY <3>2
  <2>2. f \in [S -> T]
    BY <1>4
  <2> QED
    BY <2>1, <2>2 DEF Injection, IsInjective
<1>6. IsFiniteSet(T) /\ Cardinality(T) = n
  <2>1. 0 \in Int /\ n - 1 \in Int
    BY <1>1
  <2>2. IsFiniteSet(0 .. (n - 1)) /\ Cardinality(0 .. (n - 1)) = IF 0 > n - 1 THEN 0 ELSE (n - 1) - 0 + 1
    BY <2>1, FS_Interval
  <2> QED
    BY <1>1, <2>2
<1>7. f \in Surjection(S, T)
  <2> HIDE DEF f, T
  <2> QED
    BY <1>5, <1>6, FS_Injection
<1>8. \A r \in T : \E i \in S : rank(i) = r
  BY <1>7 DEF Surjection
<1> QED
  BY <1>3, <1>4, <1>8 DEF Rank

\* What sorting leaves: the solvables of the map, none before a lower one.
LEMMA SortedIsSorted ==
    ASSUME NEW at, NEW ids, IsFiniteSet(ids), ids \subseteq Nat,
           \A i \in ids : at[i] \in Packages
    PROVE  /\ SortedList(SortedByNevra(at, ids))
           /\ Range(SortedByNevra(at, ids)) = {at[i] : i \in ids}
<1> DEFINE Key(i) == NevraKey(at[i])
           Before(i) == {j \in ids : KeyBelow(Key(j), Key(i)) \/ (Key(j) = Key(i) /\ j < i)}
           n == Cardinality(ids)
           place(k) == CHOOSE i \in ids : Cardinality(Before(i)) = k - 1
           list == SortedByNevra(at, ids)
           R == {e \in ids \X ids : KeyBelow(Key(e[1]), Key(e[2])) \/ (Key(e[1]) = Key(e[2]) /\ e[1] < e[2])}
<1>1. \A i \in ids : Key(i) \in Keys3
  BY NevraKeyType
<1>2. list = [k \in 1 .. n |-> at[place(k)]]
  BY DEF SortedByNevra
<1> HIDE DEF list
<1>3. \A i, j \in ids : <<i, j>> \in R <=> KeyBelow(Key(i), Key(j)) \/ (Key(i) = Key(j) /\ i < j)
  OBVIOUS
<1> HIDE DEF R, Key
<1>4. ASSUME NEW i \in ids PROVE <<i, i>> \notin R
  <2>1. ~ KeyBelow(Key(i), Key(i)) /\ ~ (i < i)
    BY <1>1, KeysOrder
  <2> QED
    BY <1>3, <2>1
<1>5. \A i, j \in ids : i # j => <<i, j>> \in R \/ <<j, i>> \in R
  <2> SUFFICES ASSUME NEW i \in ids, NEW j \in ids, i # j PROVE <<i, j>> \in R \/ <<j, i>> \in R
    OBVIOUS
  <2>1. KeyBelow(Key(i), Key(j)) \/ KeyBelow(Key(j), Key(i)) \/ Key(i) = Key(j)
    BY <1>1, KeysOrder
  <2>2. i < j \/ j < i
    OBVIOUS
  <2> QED
    BY <1>3, <2>1, <2>2
<1>6. \A i, j, k \in ids : <<i, j>> \in R /\ <<j, k>> \in R => <<i, k>> \in R
  <2> SUFFICES ASSUME NEW i \in ids, NEW j \in ids, NEW k \in ids, <<i, j>> \in R, <<j, k>> \in R
               PROVE  <<i, k>> \in R
    OBVIOUS
  <2>1. KeyBelow(Key(i), Key(j)) /\ KeyBelow(Key(j), Key(k)) => KeyBelow(Key(i), Key(k))
    BY <1>1, KeysOrder
  <2>2. i < j /\ j < k => i < k
    OBVIOUS
  <2> QED
    BY <1>3, <2>1, <2>2
<1>7. \A i \in ids : Before(i) = {j \in ids : <<j, i>> \in R}
  BY <1>3
<1>8. /\ \A i \in ids : Cardinality(Before(i)) \in 0 .. n - 1
      /\ \A r \in 0 .. n - 1 : \E i \in ids : Cardinality(Before(i)) = r
      /\ \A i, j \in ids : <<i, j>> \in R => Cardinality(Before(i)) < Cardinality(Before(j))
  <2>1. /\ \A i \in ids : Rank(ids, R, i) \in 0 .. n - 1
        /\ \A r \in 0 .. n - 1 : \E i \in ids : Rank(ids, R, i) = r
        /\ \A i, j \in ids : <<i, j>> \in R => Rank(ids, R, i) < Rank(ids, R, j)
    BY <1>4, <1>5, <1>6, RanksAreAll
  <2>2. \A i \in ids : Rank(ids, R, i) = Cardinality(Before(i))
    BY <1>7 DEF Rank
  <2> HIDE DEF Before
  <2> QED
    BY <2>1, <2>2
<1>9. n \in Nat
  BY FS_CardinalityType
<1> HIDE DEF n
<1>10. \A k \in 1 .. n : place(k) \in ids /\ Cardinality(Before(place(k))) = k - 1
  <2> SUFFICES ASSUME NEW k \in 1 .. n PROVE place(k) \in ids /\ Cardinality(Before(place(k))) = k - 1
    OBVIOUS
  <2>1. k - 1 \in 0 .. n - 1
    BY <1>9
  <2>2. \E i \in ids : Cardinality(Before(i)) = k - 1
    BY <1>8, <2>1
  <2> QED
    BY <2>2
<1>11. \A i \in ids : \E k \in 1 .. n : place(k) = i
  <2> SUFFICES ASSUME NEW i \in ids PROVE \E k \in 1 .. n : place(k) = i
    OBVIOUS
  <2> DEFINE k == Cardinality(Before(i)) + 1
  <2>1. k \in 1 .. n /\ Cardinality(Before(i)) = k - 1
    BY <1>8, <1>9
  <2>2. place(k) \in ids /\ Cardinality(Before(place(k))) = Cardinality(Before(i))
    BY <1>10, <2>1
  <2>3. \A j \in ids : Cardinality(Before(j)) \in Nat
    BY <1>8, <1>9
  <2> HIDE DEF Before, k, place
  <2>4. ~ (<<place(k), i>> \in R) /\ ~ (<<i, place(k)>> \in R)
    <3>1. /\ <<place(k), i>> \in R => Cardinality(Before(place(k))) < Cardinality(Before(i))
          /\ <<i, place(k)>> \in R => Cardinality(Before(i)) < Cardinality(Before(place(k)))
      BY <1>8, <2>2
    <3>2. Cardinality(Before(i)) \in Nat
      BY <2>3
    <3> HIDE DEF R
    <3> QED
      BY <2>2, <3>1, <3>2
  <2>5. place(k) = i
    BY <1>5, <2>2, <2>4
  <2> QED
    BY <2>1, <2>5
<1>12. list \in Seq(Packages) /\ Len(list) = n /\ DOMAIN list = 1 .. n
  <2>1. \A k \in 1 .. n : at[place(k)] \in Packages
    BY <1>10
  <2> HIDE DEF place
  <2> QED
    BY <1>2, <1>9, <2>1
<1>13. ASSUME NEW k \in 1 .. n, NEW l \in 1 .. n, k < l
       PROVE  ~ KeyBelow(NevraKey(list[l]), NevraKey(list[k]))
  <2>1. place(k) \in ids /\ place(l) \in ids
    BY <1>10
  <2>2. Cardinality(Before(place(k))) = k - 1 /\ Cardinality(Before(place(l))) = l - 1
    BY <1>10
  <2> HIDE DEF Before, place
  <2>3. ~ (<<place(l), place(k)>> \in R)
    <3>1. <<place(l), place(k)>> \in R => Cardinality(Before(place(l))) < Cardinality(Before(place(k)))
      BY <1>8, <2>1
    <3> QED
      BY <1>9, <1>13, <2>2, <3>1
  <2>4. ~ KeyBelow(Key(place(l)), Key(place(k)))
    BY <1>3, <2>1, <2>3
  <2> QED
    BY <1>2, <2>4 DEF Key
<1>14. Range(list) = {at[i] : i \in ids}
  <2> HIDE DEF place
  <2>1. Range(list) = {at[place(k)] : k \in 1 .. n}
    BY <1>2, <1>12 DEF Range
  <2>2. \A k \in 1 .. n : place(k) \in ids
    BY <1>10 DEF place
  <2> QED
    BY <1>11, <2>1, <2>2
<1> QED
  BY <1>12, <1>13, <1>14 DEF SortedList, list

PoolOK == sqPool = [ids |-> sqPool.ids, gen |-> sqPool.gen] /\ sqPool.ids \in Seq(Packages) /\ sqPool.gen \in Nat

\* The cached list is of fewer solvables than there are now, or it is the one
\* that would be made now.
SortedOK ==
    /\ sqSorted.size \in Nat /\ sqSorted.size <= Nsolvables
    /\ sqSorted.size = Nsolvables => sqSorted = SortedNow

\* A query holds packages of the pool it was made from, and the pool grows.
QueryMap(m) ==
    /\ m = [there |-> TRUE, size |-> m.size, bits |-> m.bits]
    /\ m.size \in Nat /\ m.size <= Nsolvables
    /\ \A i \in m.bits : i \in 1 .. m.size /\ ~ SqPkg[sqPool.ids[i]].advisory

\* What a well-formed pool gives.
LEMMA PoolFacts ==
    ASSUME PoolOK
    PROVE  /\ Nsolvables \in Nat /\ DOMAIN sqPool.ids = 1 .. Nsolvables
           /\ \A i \in 1 .. Nsolvables : sqPool.ids[i] \in Packages
           /\ IsFiniteSet(GetSolvables.bits) /\ GetSolvables.bits \subseteq 1 .. Nsolvables
<1>1. /\ Nsolvables \in Nat /\ DOMAIN sqPool.ids = 1 .. Nsolvables
      /\ \A i \in 1 .. Nsolvables : sqPool.ids[i] \in Packages
  BY DEF PoolOK, Nsolvables
<1>2. GetSolvables.bits \in SUBSET (1 .. Nsolvables)
  BY DEF GetSolvables, MapOf
<1>3. IsFiniteSet(1 .. Nsolvables)
  BY <1>1, FS_Interval
<1> QED
  BY <1>1, <1>2, <1>3, FS_Subset

\* The list a filter walks is the sorted list of what is in the pool now.
LEMMA SortedIsOfNow ==
    ASSUME PoolOK, SortedOK
    PROVE  /\ GetSortedSolvables = SortedNow
           /\ SortedList(GetSortedSolvables.list)
           /\ Range(GetSortedSolvables.list) = PkgsOf(GetSolvables)
<1>1. GetSortedSolvables = SortedNow
  BY DEF SortedOK, GetSortedSolvables
<1>2. SortedNow.list = SortedByNevra(sqPool.ids, GetSolvables.bits)
  BY DEF SortedNow
<1>3. \A i \in GetSolvables.bits : i \in Nat /\ sqPool.ids[i] \in Packages
  BY PoolFacts
<1>4. IsFiniteSet(GetSolvables.bits) /\ GetSolvables.bits \subseteq Nat
  BY <1>3, PoolFacts
<1>5. /\ SortedList(SortedByNevra(sqPool.ids, GetSolvables.bits))
      /\ Range(SortedByNevra(sqPool.ids, GetSolvables.bits)) = {sqPool.ids[i] : i \in GetSolvables.bits}
  BY <1>3, <1>4, SortedIsSorted
<1> QED
  BY <1>1, <1>2, <1>5 DEF PkgsOf

LEMMA ListHolds ==
    ASSUME PoolOK, SortedOK, NEW i \in 1 .. Nsolvables, ~ SqPkg[sqPool.ids[i]].advisory
    PROVE  \E k \in 1 .. Len(GetSortedSolvables.list) : GetSortedSolvables.list[k] = sqPool.ids[i]
<1> DEFINE list == GetSortedSolvables.list
<1>1. list \in Seq(Packages) /\ DOMAIN list = 1 .. Len(list) /\ Range(list) = PkgsOf(GetSolvables)
  BY SortedIsOfNow DEF SortedList
<1>2. i \in GetSolvables.bits
  BY DEF GetSolvables, MapOf
<1>3. sqPool.ids[i] \in Range(list)
  BY <1>1, <1>2 DEF PkgsOf
<1> HIDE DEF list
<1>4. \E k \in DOMAIN list : list[k] = sqPool.ids[i]
  BY <1>3 DEF Range
<1> QED
  BY <1>1, <1>4 DEF list

\* A package is met by a walk exactly when it has the fields looked for.
LEMMA WalkIsExact ==
    ASSUME PoolOK, SortedOK, NEW i \in 1 .. Nsolvables, ~ SqPkg[sqPool.ids[i]].advisory,
           NEW k \in Keys3, NEW n \in 1 .. 3
    PROVE  sqPool.ids[i] \in EqualRange(GetSortedSolvables.list, Prefix(k, n), n)
             <=> Prefix(NevraKey(sqPool.ids[i]), n) = Prefix(k, n)
<1> DEFINE list == GetSortedSolvables.list
           p == sqPool.ids[i]
<1>1. SortedList(list)
  BY SortedIsOfNow
<1>2. PICK h \in 1 .. Len(list) : list[h] = p
  BY ListHolds
<1> HIDE DEF list
<1>3. EqualRange(list, Prefix(k, n), n)
        = {list[j] : j \in {j \in 1 .. Len(list) : Prefix(NevraKey(list[j]), n) = Prefix(k, n)}}
  BY <1>1, WalkMeetsAll
<1> HIDE DEF p
<1>4. p \in EqualRange(list, Prefix(k, n), n) <=> Prefix(NevraKey(p), n) = Prefix(k, n)
  BY <1>2, <1>3
<1> QED
  BY <1>4 DEF list, p

\* The pool tells strings apart by their Ids.
LEMMA SameId ==
    ASSUME NEW s \in DOMAIN SqIdOf, NEW t \in DOMAIN SqIdOf
    PROVE  SqIdOf[s] \in Nat /\ (SqIdOf[s] = SqIdOf[t] <=> s = t)
BY SqAssumption

\* What libsolv knows of every package.
LEMMA PackageFields ==
    ASSUME NEW p \in Packages
    PROVE  /\ SqPkg[p].name \in DOMAIN SqIdOf /\ SqPkg[p].arch \in DOMAIN SqIdOf
           /\ SqPkg[p].name # << >> /\ SqPkg[p].arch # << >> /\ SqPkg[p].evr \in Nat
BY SqAssumption DEF Packages, SqPkg

\* The walk for a name finds the packages of that name and no other.
LEMMA NameWalk ==
    ASSUME PoolOK, SortedOK, NEW i \in 1 .. Nsolvables, ~ SqPkg[sqPool.ids[i]].advisory, NEW str
    PROVE  sqPool.ids[i] \in SortedName(str) <=> SqPkg[sqPool.ids[i]].name = str
<1> DEFINE p == sqPool.ids[i]
<1>1. p \in Packages
  BY PoolFacts
<1>2. CASE str \notin DOMAIN SqIdOf
  BY <1>1, <1>2, PackageFields DEF SortedName
<1>3. CASE str \in DOMAIN SqIdOf
  <2> DEFINE k == <<SqIdOf[str], 0, 0>>
  <2>1. k \in Keys3 /\ Prefix(k, 1) = <<SqIdOf[str]>>
    BY <1>3, SameId, PrefixIs DEF Keys3
  <2>2. Prefix(NevraKey(p), 1) = <<SqIdOf[SqPkg[p].name]>>
    BY <1>1, NevraKeyType, PackageFields, SameId, PrefixIs
  <2>3. p \in EqualRange(GetSortedSolvables.list, Prefix(k, 1), 1)
          <=> Prefix(NevraKey(p), 1) = Prefix(k, 1)
    <3>1. 1 \in 1 .. 3
      OBVIOUS
    <3> HIDE DEF k
    <3> QED
      BY <2>1, <3>1, WalkIsExact
  <2>4. <<SqIdOf[SqPkg[p].name]>> = <<SqIdOf[str]>> <=> SqPkg[p].name = str
    BY <1>1, <1>3, PackageFields, SameId
  <2> HIDE DEF k, p
  <2> QED
    BY <1>3, <2>1, <2>2, <2>3, <2>4 DEF SortedName, p
<1> QED
  BY <1>2, <1>3

\* The walk for a NEVRA, whole or compared by EVR, finds what it means.
LEMMA NevraWalk ==
    ASSUME PoolOK, SortedOK, NEW i \in 1 .. Nsolvables, ~ SqPkg[sqPool.ids[i]].advisory,
           NEW n, n.evr \in Nat, NEW cmp \in {EQ, GT, LT, GTE, LTE}
    PROVE  sqPool.ids[i] \in SortedNevra(cmp, n)
             <=> /\ SqPkg[sqPool.ids[i]].name = n.name /\ SqPkg[sqPool.ids[i]].arch = n.arch
                 /\ Ordered(cmp, SqPkg[sqPool.ids[i]].evr, n.evr)
<1> DEFINE p == sqPool.ids[i]
           f == SqPkg[p]
           k == NevraKeyOf(n)
           list == GetSortedSolvables.list
<1>1. p \in Packages
  BY PoolFacts
<1>2. /\ f.name \in DOMAIN SqIdOf /\ f.arch \in DOMAIN SqIdOf /\ f.evr \in Nat
      /\ NevraKey(p) = <<SqIdOf[f.name], SqIdOf[f.arch], f.evr>>
  BY <1>1, PackageFields, NevraKeyType
<1>3. CASE ~ {n.name, n.arch} \subseteq DOMAIN SqIdOf
  <2>1. SortedNevra(cmp, n) = {}
    BY <1>3 DEF SortedNevra
  <2>2. ~ (f.name = n.name /\ f.arch = n.arch)
    BY <1>2, <1>3
  <2> QED
    BY <2>1, <2>2
<1>4. CASE {n.name, n.arch} \subseteq DOMAIN SqIdOf
  <2>1. n.name \in DOMAIN SqIdOf /\ n.arch \in DOMAIN SqIdOf
    BY <1>4
  <2>2. k = <<SqIdOf[n.name], SqIdOf[n.arch], n.evr>> /\ k \in Keys3
    BY <2>1, SameId DEF NevraKeyOf, Keys3
  <2>3. /\ SqIdOf[f.name] \in Nat /\ SqIdOf[f.arch] \in Nat
        /\ SqIdOf[n.name] \in Nat /\ SqIdOf[n.arch] \in Nat
        /\ (SqIdOf[f.name] = SqIdOf[n.name] <=> f.name = n.name)
        /\ (SqIdOf[f.arch] = SqIdOf[n.arch] <=> f.arch = n.arch)
    BY <1>2, <2>1, SameId
  <2>4. /\ Prefix(k, 2) = <<SqIdOf[n.name], SqIdOf[n.arch]>> /\ Prefix(k, 3) = k
        /\ Prefix(NevraKey(p), 2) = <<SqIdOf[f.name], SqIdOf[f.arch]>>
        /\ Prefix(NevraKey(p), 3) = NevraKey(p)
    <3> DEFINE key == NevraKey(p)
               v == f.evr
               w == n.evr
    <3>1. v \in Nat /\ w \in Nat /\ key = <<SqIdOf[f.name], SqIdOf[f.arch], v>>
          /\ k = <<SqIdOf[n.name], SqIdOf[n.arch], w>>
      BY <1>2, <2>2
    <3> HIDE DEF key, v, w, k, f
    <3>2. Prefix(k, 2) = <<SqIdOf[n.name], SqIdOf[n.arch]>> /\ Prefix(k, 3) = k
      BY <2>3, <3>1, PrefixIs
    <3>3. Prefix(key, 2) = <<SqIdOf[f.name], SqIdOf[f.arch]>> /\ Prefix(key, 3) = key
      BY <2>3, <3>1, PrefixIs
    <3> QED
      BY <3>2, <3>3 DEF key
  <2>5. /\ p \in EqualRange(list, Prefix(k, 2), 2) <=> Prefix(NevraKey(p), 2) = Prefix(k, 2)
        /\ p \in EqualRange(list, Prefix(k, 3), 3) <=> Prefix(NevraKey(p), 3) = Prefix(k, 3)
    <3>1. 2 \in 1 .. 3 /\ 3 \in 1 .. 3
      OBVIOUS
    <3> HIDE DEF k
    <3> QED
      BY <2>2, <3>1, WalkIsExact
  <2> HIDE DEF p, f, k, list
  <2>6. p \in EqualRange(list, Prefix(k, 2), 2) <=> f.name = n.name /\ f.arch = n.arch
    BY <2>3, <2>4, <2>5
  <2>7. p \in EqualRange(list, k, 3) <=> f.name = n.name /\ f.arch = n.arch /\ f.evr = n.evr
    BY <1>2, <2>2, <2>3, <2>4, <2>5
  <2>8. CASE cmp = EQ
    <3>1. SortedNevra(cmp, n) = EqualRange(list, k, 3)
      BY <1>4, <2>8 DEF SortedNevra, list, k
    <3>2. Ordered(cmp, f.evr, n.evr) <=> f.evr = n.evr
      BY <2>8 DEF Ordered, EQ
    <3> QED
      BY <2>7, <3>1, <3>2 DEF p, f
  <2>9. CASE cmp # EQ
    <3>1. SortedNevra(cmp, n) = {q \in EqualRange(list, Prefix(k, 2), 2) : Ordered(cmp, SqPkg[q].evr, n.evr)}
      BY <1>4, <2>9 DEF SortedNevra, list, k
    <3> QED
      BY <2>6, <3>1 DEF p, f
  <2> QED
    BY <2>8, <2>9
<1> QED
  BY <1>3, <1>4

\* The types of comparison are told apart by their flags.
LEMMA Comparisons ==
    /\ EQ # GLOB /\ EQ # IEXACT /\ EQ # IGLOB /\ EQ # CONTAINS /\ EQ # ICONTAINS
    /\ EQ # GT /\ EQ # LT /\ EQ # GTE /\ EQ # LTE
    /\ \A c \in {EQ, GT, LT, GTE, LTE} : c \notin {GLOB, IGLOB, IEXACT} /\ "GLOB" \notin c
    /\ \A c \in {GLOB, IGLOB, IEXACT} : c \notin {EQ, GT, LT, GTE, LTE}
<1>1. /\ "EQ" \in EQ /\ "GLOB" \notin EQ /\ "ICASE" \notin EQ /\ "GT" \notin EQ /\ "LT" \notin EQ
      /\ "GLOB" \in GLOB /\ "EQ" \notin GLOB /\ "ICASE" \in IEXACT /\ "ICASE" \in IGLOB
      /\ "EQ" \notin CONTAINS /\ "EQ" \notin ICONTAINS
      /\ "GT" \in GT /\ "LT" \in LT /\ "GT" \in GTE /\ "LT" \in LTE
      /\ "GLOB" \notin GT /\ "GLOB" \notin LT /\ "GLOB" \notin GTE /\ "GLOB" \notin LTE
      /\ "ICASE" \notin GT /\ "ICASE" \notin LT /\ "ICASE" \notin GTE /\ "ICASE" \notin LTE
  BY DEF EQ, GLOB, IEXACT, IGLOB, CONTAINS, ICONTAINS, GT, LT, GTE, LTE
<1> QED
  BY <1>1

ExactKeys == {"name", "arch", "nevra", "sourcerpm", "location", "reponame", "version", "release", "evr", "epoch"}

\* For every key, one turn of the loop finds the packages that the pattern
\* means, among those of the query.
LEMMA MatchedIsMeant ==
    ASSUME PoolOK, SortedOK, NEW m, QueryMap(m), NEW i \in m.bits,
           NEW call \in SqCalls, call.key \in ExactKeys, NEW pat \in call.pats, ~ Unsupported(call),
           call.key \in {"version", "release"} => call.cmp \in {EQ, GLOB, EQ \cup {"NOT"}}
    PROVE  sqPool.ids[i] \in MatchedBy(call, pat, m) <=> Means(call, pat, sqPool.ids[i])
<1> DEFINE p == sqPool.ids[i]
           cmp == call.cmp \ {"NOT"}
           c == WithoutGlob(cmp, pat)
<1>1. i \in 1 .. Nsolvables /\ ~ SqPkg[p].advisory
  BY PoolFacts DEF QueryMap
<1>2. p \in Packages /\ p \in PkgsOf(m)
  BY <1>1, PoolFacts DEF PkgsOf
<1>3. pat.str # << >> /\ (call.key = "nevra" => pat.nevra.evr \in Nat)
  BY SqAssumption DEF ExactKeys
<1>4. /\ SqPkg[p].name # << >> /\ SqPkg[p].arch # << >> /\ SqPkg[p].nevra # << >>
  BY <1>2, SqAssumption, PackageFields DEF Packages, SqPkg
<1>5. call.key \notin {"evr", "epoch", "location"} => c \in Supported(call.key)
  BY DEF Unsupported, ExactKeys
<1>6. CASE call.key = "name"
  <2>1. p \in MatchedBy(call, pat, m) <=> p \in FilterName(c, pat, m)
    BY <1>6 DEF MatchedBy, StringKeys
  <2>2. Means(call, pat, p) <=> StrMatch(c, pat, SqPkg[p].name)
    BY <1>4, <1>6 DEF Means
  <2>3. p \in FilterName(c, pat, m) <=> StrMatch(c, pat, SqPkg[p].name)
    <3>1. CASE c = EQ
      <4>1. p \in SortedName(pat.str) <=> SqPkg[p].name = pat.str
        BY <1>1, NameWalk
      <4> QED
        BY <3>1, <4>1, Comparisons DEF FilterName, StrMatch
    <3>2. CASE c # EQ
      BY <1>2, <3>2 DEF FilterName
    <3> QED
      BY <3>1, <3>2
  <2> QED
    BY <2>1, <2>2, <2>3
<1>7. CASE call.key = "arch"
  <2>1. p \in MatchedBy(call, pat, m) <=> p \in FilterArch(c, pat, m)
    BY <1>7 DEF MatchedBy, StringKeys
  <2>2. Means(call, pat, p) <=> StrMatch(c, pat, SqPkg[p].arch)
    BY <1>4, <1>7 DEF Means
  <2> QED
    BY <1>2, <2>1, <2>2 DEF FilterArch
<1>8. CASE call.key = "nevra"
  <2>1. p \in MatchedBy(call, pat, m) <=> p \in FilterNevra(c, pat, m)
    BY <1>8 DEF MatchedBy, StringKeys
  <2>2. c \in {EQ, GT, LT, GTE, LTE, GLOB, IGLOB, IEXACT}
    BY <1>5, <1>8 DEF Supported, StringKeys
  <2>3. CASE c \in {EQ, GT, LT, GTE, LTE}
    <3>1. p \in FilterNevra(c, pat, m) <=> p \in SortedNevra(c, pat.nevra)
      BY <2>3, Comparisons DEF FilterNevra
    <3>2. p \in SortedNevra(c, pat.nevra)
            <=> /\ SqPkg[p].name = pat.nevra.name /\ SqPkg[p].arch = pat.nevra.arch
                /\ Ordered(c, SqPkg[p].evr, pat.nevra.evr)
      BY <1>1, <1>3, <1>8, <2>3, NevraWalk
    <3>3. Means(call, pat, p)
            <=> /\ <<SqPkg[p].name, SqPkg[p].arch>> = <<pat.nevra.name, pat.nevra.arch>>
                /\ Ordered(c, SqPkg[p].evr, pat.nevra.evr)
      BY <1>8, <2>3 DEF Means
    <3>4. <<SqPkg[p].name, SqPkg[p].arch>> = <<pat.nevra.name, pat.nevra.arch>>
            <=> SqPkg[p].name = pat.nevra.name /\ SqPkg[p].arch = pat.nevra.arch
      OBVIOUS
    <3> QED
      BY <2>1, <3>1, <3>2, <3>3, <3>4
  <2>4. CASE c \in {GLOB, IGLOB, IEXACT}
    <3>1. c \notin {EQ, GT, LT, GTE, LTE}
      BY <2>4, Comparisons
    <3>2. Means(call, pat, p) <=> StrMatch(c, pat, SqPkg[p].nevra)
      BY <1>4, <1>8, <3>1 DEF Means
    <3> QED
      BY <1>2, <2>1, <2>4, <3>2 DEF FilterNevra
  <2> QED
    BY <2>2, <2>3, <2>4
<1>9. CASE call.key = "sourcerpm"
  <2>1. p \in MatchedBy(call, pat, m) <=> p \in FilterSourcerpm(c, pat, m)
    BY <1>9 DEF MatchedBy, StringKeys
  <2>2. Means(call, pat, p) <=> SqPkg[p].sourcerpm # << >> /\ StrMatch(c, pat, SqPkg[p].sourcerpm)
    BY <1>9 DEF Means
  <2> QED
    BY <1>2, <2>1, <2>2 DEF FilterSourcerpm
<1>10. CASE call.key = "reponame"
  <2>1. p \in MatchedBy(call, pat, m) <=> p \in FilterReponame(c, pat, m)
    BY <1>10 DEF MatchedBy, StringKeys
  <2>2. Means(call, pat, p) <=> StrMatch(c, pat, SqPkg[p].repo)
    BY <1>10 DEF Means
  <2> QED
    BY <1>2, <2>1, <2>2 DEF FilterReponame
<1>11. CASE call.key = "location"
  <2>1. cmp = EQ
    BY <1>11 DEF Unsupported, Supported, StringKeys, DepKeys
  <2>2. c = EQ
    BY <2>1, Comparisons DEF WithoutGlob
  <2>3. p \in MatchedBy(call, pat, m) <=> p \in FilterLocation(pat, m)
    BY <1>11 DEF MatchedBy, StringKeys
  <2>4. Means(call, pat, p) <=> SqPkg[p].location # << >> /\ SqPkg[p].location = pat.str
    BY <1>11, <2>2, Comparisons DEF Means, StrMatch
  <2> QED
    BY <1>2, <1>3, <2>3, <2>4 DEF FilterLocation
<1>12. CASE call.key \in {"version", "release"}
  <2>1. cmp \in {EQ, GLOB}
    <3>1. EQ \ {"NOT"} = EQ /\ GLOB \ {"NOT"} = GLOB /\ (EQ \cup {"NOT"}) \ {"NOT"} = EQ
      BY DEF EQ, GLOB
    <3> QED
      BY <1>12, <3>1
  <2>2. c \in {EQ, GLOB}
    <3>1. (GLOB \ {"GLOB"}) \cup {"EQ"} = EQ /\ "GLOB" \notin EQ
      BY DEF EQ, GLOB
    <3> QED
      BY <2>1, <3>1 DEF WithoutGlob
  <2>3. VersionMatch(c, pat, SqPkg[p][call.key])
          <=> IF c = GLOB THEN StrMatch(c, pat, SqPkg[p][call.key])
              ELSE Ordered(c, SqPkg[p][call.key][1], pat.str[1])
    <3>1. CASE c = GLOB
      BY <3>1 DEF VersionMatch
    <3>2. CASE c = EQ
      <4>1. c # GLOB
        BY <3>2, Comparisons
      <4>2. Ordered(c, SqPkg[p][call.key][1], pat.str[1]) <=> SqPkg[p][call.key][1] = pat.str[1]
        BY <3>2 DEF Ordered, EQ
      <4> QED
        BY <4>1, <4>2 DEF VersionMatch
    <3> QED
      BY <2>2, <3>1, <3>2
  <2>4. Means(call, pat, p)
          <=> IF c = GLOB THEN StrMatch(c, pat, SqPkg[p][call.key])
              ELSE Ordered(c, SqPkg[p][call.key][1], pat.str[1])
    BY <1>12 DEF Means
  <2>5. p \in MatchedBy(call, pat, m) <=> VersionMatch(c, pat, SqPkg[p][call.key])
    BY <1>2, <1>12 DEF MatchedBy, StringKeys, FilterVersion, FilterRelease
  <2> QED
    BY <2>3, <2>4, <2>5
<1>13. CASE call.key \in {"evr", "epoch"}
  <2>1. "GLOB" \notin cmp
    <3>1. CASE call.key = "evr"
      <4>1. call.cmp \in {EQ, GT, LT, GTE, LTE}
        BY <3>1 DEF Unsupported, Supported, StringKeys, DepKeys
      <4> QED
        BY <4>1, Comparisons
    <3>2. CASE call.key = "epoch"
      <4>1. cmp \in {EQ, GT, LT, GTE, LTE}
        BY <3>2 DEF Unsupported, Supported, StringKeys, DepKeys
      <4> QED
        BY <4>1, Comparisons
    <3> QED
      BY <1>13, <3>1, <3>2
  <2>2. c = cmp
    BY <2>1 DEF WithoutGlob
  <2>3. CASE call.key = "evr"
    <3>1. p \in MatchedBy(call, pat, m) <=> Ordered(cmp, SqPkg[p].evr, pat.str[1])
      BY <1>2, <2>3 DEF MatchedBy, StringKeys, FilterEvr
    <3>2. Means(call, pat, p) <=> Ordered(c, SqPkg[p].evr, pat.str[1])
      BY <2>3 DEF Means
    <3> QED
      BY <2>2, <3>1, <3>2
  <2>4. CASE call.key = "epoch"
    <3>1. p \in MatchedBy(call, pat, m) <=> Ordered(cmp, SqPkg[p].epoch_str[1], pat.str[1])
      BY <1>2, <2>4 DEF MatchedBy, StringKeys, FilterEpoch
    <3>2. Means(call, pat, p) <=> Ordered(c, SqPkg[p].epoch_str[1], pat.str[1])
      BY <2>4 DEF Means
    <3> QED
      BY <2>2, <3>1, <3>2
  <2> QED
    BY <1>13, <2>3, <2>4
<1> QED
  BY <1>6, <1>7, <1>8, <1>9, <1>10, <1>11, <1>12, <1>13 DEF ExactKeys

\* A map that another narrowed.
Narrowed(m, S) == MapOf(m.size, S)

\* Narrowing keeps a query a map of the pool.
LEMMA NarrowedKept ==
    ASSUME NEW m, QueryMap(m), NEW S \in SUBSET m.bits
    PROVE  QueryMap(Narrowed(m, S))
BY DEF QueryMap, Narrowed, MapOf

\* What is left of a query after a filter.
LEMMA FilteredIs ==
    ASSUME PoolOK, NEW m, QueryMap(m), NEW call
    PROVE  Filtered(call, m)
             = IF Unsupported(call) THEN m
               ELSE Narrowed(m, {i \in m.bits : (sqPool.ids[i] \in FilterResult(call, m)) # ("NOT" \in call.cmp)})
<1> DEFINE found == MapOf(Nsolvables, IdsOf(FilterResult(call, m)))
           F == FilterResult(call, m)
<1>2. \A i \in m.bits : i \in 1 .. Nsolvables /\ i <= Nsolvables
  BY PoolFacts DEF QueryMap
<1>3. found.size = Nsolvables /\ found.bits = IdsOf(F)
  BY DEF MapOf
<1>4. \A i \in 1 .. Nsolvables : i \in IdsOf(F) <=> sqPool.ids[i] \in F
  BY DEF IdsOf
<1> HIDE DEF found, F
<1>5. CASE "NOT" \in call.cmp
  <2>1. m.bits \ found.bits = {i \in m.bits : sqPool.ids[i] \notin F}
    BY <1>2, <1>3, <1>4
  <2>2. AppliedFilter(call, m, found) = Narrowed(m, m.bits \ found.bits)
    BY <1>5 DEF AppliedFilter, SqMapSubtract, Narrowed
  <2>3. {i \in m.bits : sqPool.ids[i] \notin F} = {i \in m.bits : (sqPool.ids[i] \in F) # ("NOT" \in call.cmp)}
    BY <1>5
  <2> QED
    BY <2>1, <2>2, <2>3 DEF Filtered, found, F
<1>6. CASE "NOT" \notin call.cmp
  <2>1. {i \in m.bits : i <= found.size => i \in found.bits} = {i \in m.bits : sqPool.ids[i] \in F}
    BY <1>2, <1>3, <1>4
  <2>2. AppliedFilter(call, m, found) = Narrowed(m, {i \in m.bits : i <= found.size => i \in found.bits})
    BY <1>6 DEF AppliedFilter, SqMapAnd, Narrowed
  <2>3. {i \in m.bits : sqPool.ids[i] \in F} = {i \in m.bits : (sqPool.ids[i] \in F) # ("NOT" \in call.cmp)}
    BY <1>6
  <2> QED
    BY <2>1, <2>2, <2>3 DEF Filtered, found, F
<1> QED
  BY <1>5, <1>6

\* A filter, or the resolution of a spec, only narrows a query.
LEMMA FilteredKept ==
    ASSUME PoolOK, NEW m, QueryMap(m), NEW call
    PROVE  QueryMap(Filtered(call, m))
<1> DEFINE S == {i \in m.bits : (sqPool.ids[i] \in FilterResult(call, m)) # ("NOT" \in call.cmp)}
<1>1. Filtered(call, m) = IF Unsupported(call) THEN m ELSE Narrowed(m, S)
  BY FilteredIs
<1>2. S \in SUBSET m.bits
  OBVIOUS
<1> HIDE DEF S
<1> QED
  BY <1>1, <1>2, NarrowedKept

LEMMA ResolvedKept ==
    ASSUME PoolOK, NEW m, QueryMap(m), NEW spec
    PROVE  QueryMap(ResolvedSpec(spec, m))
<1> DEFINE tries == SpecTries(spec, m)
           good == {i \in DOMAIN tries : IdsOf(tries[i]) \cap m.bits # {}}
           s == MapOf(Nsolvables, IdsOf(tries[CHOOSE i \in good : \A j \in good : i <= j]))
           left == {i \in m.bits : i <= s.size => i \in s.bits}
<1>1. ResolvedSpec(spec, m) = IF good = {} THEN Narrowed(m, {}) ELSE Narrowed(m, left)
  BY DEF ResolvedSpec, SqMapAnd, Narrowed
<1>2. {} \in SUBSET m.bits /\ left \in SUBSET m.bits
  OBVIOUS
<1> HIDE DEF good, left
<1> QED
  BY <1>1, <1>2, NarrowedKept

\* The filters that FilterIsExact is about do what they say.
LEMMA FilterKeepsMeant ==
    ASSUME PoolOK, SortedOK, NEW m, QueryMap(m), NEW call \in SqCalls, call.key \in ExactKeys,
           call.key \in {"version", "release"} => call.cmp \in {EQ, GLOB, EQ \cup {"NOT"}}
    PROVE  Filtered(call, m).bits
             = IF Unsupported(call) THEN m.bits
               ELSE {i \in m.bits : (\E pat \in call.pats : Means(call, pat, sqPool.ids[i]))
                                      # ("NOT" \in call.cmp)}
<1>1. CASE Unsupported(call)
  BY <1>1, FilteredIs
<1>2. CASE ~ Unsupported(call)
  <2>1. FilterResult(call, m) = UNION {MatchedBy(call, pat, m) : pat \in call.pats}
    BY DEF FilterResult, ExactKeys
  <2>2. \A i \in m.bits : sqPool.ids[i] \in FilterResult(call, m)
                            <=> \E pat \in call.pats : sqPool.ids[i] \in MatchedBy(call, pat, m)
    BY <2>1
  <2>3. \A i \in m.bits, pat \in call.pats :
           sqPool.ids[i] \in MatchedBy(call, pat, m) <=> Means(call, pat, sqPool.ids[i])
    BY <1>2, MatchedIsMeant
  <2>4. \A i \in m.bits : sqPool.ids[i] \in FilterResult(call, m)
                            <=> \E pat \in call.pats : Means(call, pat, sqPool.ids[i])
    BY <2>2, <2>3
  <2>5. Filtered(call, m).bits
          = {i \in m.bits : (sqPool.ids[i] \in FilterResult(call, m)) # ("NOT" \in call.cmp)}
    BY <1>2, FilteredIs DEF Narrowed, MapOf
  <2>6. \A i \in m.bits : ((sqPool.ids[i] \in FilterResult(call, m)) # ("NOT" \in call.cmp))
                           <=> ((\E pat \in call.pats : Means(call, pat, sqPool.ids[i])) # ("NOT" \in call.cmp))
    <3> SUFFICES ASSUME NEW i \in m.bits
                 PROVE  ((sqPool.ids[i] \in FilterResult(call, m)) # ("NOT" \in call.cmp))
                          <=> ((\E pat \in call.pats : Means(call, pat, sqPool.ids[i])) # ("NOT" \in call.cmp))
      OBVIOUS
    <3> DEFINE Hit == \E pat \in call.pats : Means(call, pat, sqPool.ids[i])
    <3>1. Hit \in BOOLEAN /\ (sqPool.ids[i] \in FilterResult(call, m) <=> Hit)
      BY <2>4
    <3> HIDE DEF Hit
    <3>2. ((sqPool.ids[i] \in FilterResult(call, m)) # ("NOT" \in call.cmp)) <=> (Hit # ("NOT" \in call.cmp))
      BY <3>1
    <3> QED
      BY <3>2 DEF Hit
  <2>7. {i \in m.bits : (sqPool.ids[i] \in FilterResult(call, m)) # ("NOT" \in call.cmp)}
          = {i \in m.bits : (\E pat \in call.pats : Means(call, pat, sqPool.ids[i])) # ("NOT" \in call.cmp)}
    BY <2>6
  <2> QED
    BY <1>2, <2>5, <2>7
<1> QED
  BY <1>1, <1>2

\* The invariant: what every operation of the sack and of its queries keeps.
SqInv ==
    /\ PoolOK
    /\ SortedOK
    /\ sqQuery = [q \in SqQueries |-> sqQuery[q]]
    /\ \A q \in SqQueries : sqQuery[q].there => QueryMap(sqQuery[q])
    /\ QueriesExact

LEMMA SqInitOK == SqInit => SqInv
<1> SUFFICES ASSUME SqInit PROVE SqInv
  OBVIOUS
<1>1. sqPool.ids = << >> /\ sqPool.gen = 1 /\ Nsolvables = 0
  BY DEF SqInit, Nsolvables
<1>2. PoolOK
  BY <1>1 DEF SqInit, PoolOK
<1>3. SortedOK
  <2>1. GetSolvables.bits = {}
    <3>1. 1 .. Nsolvables = {}
      BY <1>1
    <3> QED
      BY <3>1 DEF GetSolvables, MapOf
  <2>2. SortedByNevra(sqPool.ids, {}) = << >>
    <3>1. Cardinality({}) = 0
      BY FS_EmptySet
    <3>2. 1 .. Cardinality({}) = {}
      BY <3>1
    <3> QED
      BY <3>2 DEF SortedByNevra
  <2>3. SortedNow = [size |-> 0, gen |-> 1, list |-> << >>]
    BY <1>1, <2>1, <2>2 DEF SortedNow
  <2> QED
    BY <1>1, <2>3 DEF SqInit, SortedOK
<1>4. sqQuery = [q \in SqQueries |-> sqQuery[q]] /\ \A q \in SqQueries : ~ sqQuery[q].there
  BY DEF SqInit, NoQuery
<1>5. QueriesExact
  BY DEF SqInit, NoCall, QueriesExact, FilterIsExact, SortedListIsCurrent
<1> QED
  BY <1>2, <1>3, <1>4, <1>5 DEF SqInv

\* What only the pool decides stays while the pool does.
LEMMA PoolStays ==
    ASSUME UNCHANGED sqPool
    PROVE  /\ PoolOK <=> PoolOK'
           /\ Nsolvables' = Nsolvables /\ GetSolvables' = GetSolvables /\ SortedNow' = SortedNow
           /\ PkgsOf(GetSolvables)' = PkgsOf(GetSolvables)
           /\ \A m : QueryMap(m)' <=> QueryMap(m)
<1>1. Nsolvables' = Nsolvables /\ (PoolOK <=> PoolOK')
  BY DEF Nsolvables, PoolOK
<1>2. GetSolvables' = GetSolvables
  BY <1>1 DEF GetSolvables
<1>3. SortedNow' = SortedNow
  BY <1>1, <1>2 DEF SortedNow
<1>4. PkgsOf(GetSolvables)' = PkgsOf(GetSolvables)
  BY <1>2 DEF PkgsOf
<1>5. \A m : QueryMap(m)' <=> QueryMap(m)
  BY <1>1 DEF QueryMap
<1> QED
  BY <1>1, <1>2, <1>3, <1>4, <1>5

\* The property speaks only of the step after a call.
LEMMA NotACall ==
    ASSUME sqLast' = NoCall
    PROVE  QueriesExact'
BY DEF NoCall, QueriesExact, FilterIsExact, SortedListIsCurrent

\* A repository that is not empty outdates the list; an empty one changes nothing.
LEMMA LoadKeeps ==
    ASSUME SqInv, NEW r \in DOMAIN SqRepoPkgs, LoadRepo(r)
    PROVE  SqInv'
<1> DEFINE new == SqRepoPkgs[r]
<1>1. new \in Seq(Packages)
  BY SqAssumption DEF Packages
<1>2. /\ sqPool.ids \in Seq(Packages) /\ sqPool'.ids = sqPool.ids \o new /\ sqPool'.gen = Grown(r)
      /\ sqPool' = [ids |-> sqPool'.ids, gen |-> sqPool'.gen]
      /\ sqPool = [ids |-> sqPool.ids, gen |-> sqPool.gen] /\ sqPool.gen \in Nat
  BY DEF SqInv, PoolOK, LoadRepo
<1> HIDE DEF new
<1>3. /\ sqPool'.ids \in Seq(Packages) /\ Nsolvables' = Nsolvables + Len(new) /\ Len(new) \in Nat
      /\ \A i \in 1 .. Nsolvables : sqPool'.ids[i] = sqPool.ids[i]
      /\ Nsolvables \in Nat
  BY <1>1, <1>2 DEF Nsolvables
<1>4. PoolOK'
  <2>1. Grown(r) \in Nat
    BY <1>2 DEF Grown
  <2> QED
    BY <1>2, <1>3, <2>1 DEF PoolOK
<1>5. UNCHANGED <<sqSorted, sqQuery>> /\ sqLast' = NoCall
  BY DEF LoadRepo
<1>6. SortedOK'
  <2>1. CASE new = << >>
    <3>1. sqPool'.ids = sqPool.ids
      BY <1>2, <2>1
    <3>2. Grown(r) = sqPool.gen + 0
      BY <2>1 DEF Grown, new
    <3>3. UNCHANGED sqPool
      BY <1>2, <3>1, <3>2
    <3>4. Nsolvables' = Nsolvables /\ SortedNow' = SortedNow
      BY <3>3, PoolStays
    <3> QED
      BY <1>5, <3>4 DEF SqInv, SortedOK
  <2>2. CASE new # << >>
    <3>1. Len(new) > 0
      BY <1>1, <2>2
    <3>2. sqSorted'.size \in Nat /\ sqSorted'.size < Nsolvables'
      BY <1>3, <1>5, <3>1 DEF SqInv, SortedOK
    <3> QED
      BY <1>3, <3>2 DEF SortedOK
  <2> QED
    BY <2>1, <2>2
<1>7. ASSUME NEW q \in SqQueries, sqQuery'[q].there
      PROVE  QueryMap(sqQuery[q])'
  <2> DEFINE m == sqQuery[q]
  <2>1. QueryMap(m) /\ sqQuery'[q] = m
    BY <1>5, <1>7 DEF SqInv
  <2> HIDE DEF m
  <2>2. m.size \in Nat /\ m.size <= Nsolvables'
    BY <1>3, <2>1 DEF QueryMap
  <2>3. \A i \in m.bits : i \in 1 .. m.size /\ ~ SqPkg[sqPool'.ids[i]].advisory
    BY <1>3, <2>1 DEF QueryMap
  <2>4. m = [there |-> TRUE, size |-> m.size, bits |-> m.bits]
    BY <2>1 DEF QueryMap
  <2>5. m' = m
    BY <1>5 DEF m
  <2> QED
    BY <2>1, <2>2, <2>3, <2>4, <2>5 DEF QueryMap, SqPkg
<1> QED
  BY <1>4, <1>5, <1>6, <1>7, NotACall DEF SqInv

\* A load that fails leaves everything to the queries as it was, unless it
\* moved the array.
LEMMA FailureKeeps ==
    ASSUME SqInv, ~ FailuresMove, NEW r \in DOMAIN SqRepoPkgs, LoadFails(r)
    PROVE  SqInv'
<1>1. UNCHANGED <<sqSorted, sqQuery>> /\ sqLast' = NoCall
  BY DEF LoadFails
<1>2. UNCHANGED sqPool
  <2>1. sqPool = [ids |-> sqPool.ids, gen |-> sqPool.gen]
    BY DEF SqInv, PoolOK
  <2>2. sqPool' = [sqPool EXCEPT !.gen = sqPool.gen]
    BY DEF LoadFails
  <2> QED
    BY <2>1, <2>2
<1>3. PoolOK' /\ SortedOK'
  BY <1>1, <1>2, PoolStays DEF SqInv, SortedOK
<1>4. ASSUME NEW q \in SqQueries, sqQuery'[q].there
      PROVE  QueryMap(sqQuery[q])'
  BY <1>1, <1>2, <1>4, PoolStays DEF SqInv, QueryMap, Nsolvables
<1> QED
  BY <1>1, <1>3, <1>4, NotACall DEF SqInv

\* A new query has the packages of the pool, or none.
LEMMA NewKeeps ==
    ASSUME SqInv, NEW q \in SqQueries, NEW flags, NewQuery(q, flags)
    PROVE  SqInv'
<1> DEFINE m == IF flags = "EMPTY" THEN MapOf(Nsolvables, {})
                ELSE SqMapOr(MapOf(Nsolvables, {}), GetSolvables)
<1>1. /\ UNCHANGED sqPool /\ UNCHANGED sqSorted /\ sqLast' = NoCall
      /\ sqQuery' = [sqQuery EXCEPT ![q] = m]
  BY DEF NewQuery
<1>2. QueryMap(m)
  <2>1. m = MapOf(Nsolvables, m.bits) /\ m.bits \in {{}, GetSolvables.bits}
    BY DEF MapOf, SqMapOr, GetSolvables
  <2>2. \A i \in GetSolvables.bits : i \in 1 .. Nsolvables /\ ~ SqPkg[sqPool.ids[i]].advisory
    BY DEF GetSolvables, MapOf
  <2>3. Nsolvables \in Nat
    BY PoolFacts DEF SqInv
  <2> HIDE DEF m
  <2> QED
    BY <2>1, <2>2, <2>3 DEF QueryMap, MapOf
<1> HIDE DEF m
<1>3. PoolOK' /\ SortedOK'
  BY <1>1, PoolStays DEF SqInv, SortedOK
<1>4. /\ sqQuery' = [p \in SqQueries |-> sqQuery'[p]]
      /\ \A p \in SqQueries : sqQuery'[p] = IF p = q THEN m ELSE sqQuery[p]
  BY <1>1 DEF SqInv
<1> QED
  BY <1>1, <1>2, <1>3, <1>4, PoolStays, NotACall DEF SqInv, QueryMap, Nsolvables

LEMMA CopyKeeps ==
    ASSUME SqInv, NEW q \in SqQueries, NEW src \in SqQueries, CopyQuery(q, src)
    PROVE  SqInv'
<1>1. /\ UNCHANGED sqPool /\ UNCHANGED sqSorted /\ sqLast' = NoCall
      /\ sqQuery[src].there /\ sqQuery' = [sqQuery EXCEPT ![q] = sqQuery[src]]
  BY DEF CopyQuery
<1>2. PoolOK' /\ SortedOK'
  BY <1>1, PoolStays DEF SqInv, SortedOK
<1>3. /\ sqQuery' = [p \in SqQueries |-> sqQuery'[p]]
      /\ \A p \in SqQueries : sqQuery'[p] = IF p = q THEN sqQuery[src] ELSE sqQuery[p]
  BY <1>1 DEF SqInv
<1> QED
  BY <1>1, <1>2, <1>3, PoolStays, NotACall DEF SqInv, QueryMap, Nsolvables

\* What a call on a query leaves, whatever it finds.
LEMMA CalledKeeps ==
    ASSUME SqInv, NEW q \in SqQueries, NEW call, NEW result, QueryMap(result), Called(q, call, result)
    PROVE  /\ PoolOK' /\ SortedOK' /\ sqQuery' = [p \in SqQueries |-> sqQuery'[p]]
           /\ \A p \in SqQueries : sqQuery'[p].there => QueryMap(sqQuery[p])'
           /\ SortedListIsCurrent' /\ UNCHANGED sqPool
           /\ sqLast'.key = call.key /\ sqLast'.call = call /\ sqLast'.query = q
           /\ sqLast'.before = sqQuery[q] /\ sqQuery'[q] = result
<1> DEFINE used == IF UsesSorted(call) THEN GetSortedSolvables ELSE sqSorted
<1>1. /\ UNCHANGED sqPool /\ sqSorted' = sqLast'.used
      /\ sqLast' = [key |-> call.key, call |-> call, query |-> q, before |-> sqQuery[q], used |-> used]
      /\ sqQuery' = [sqQuery EXCEPT ![q] = result]
  BY DEF Called
<1> HIDE DEF used
<1>2. /\ sqLast'.key = call.key /\ sqLast'.call = call /\ sqLast'.query = q
      /\ sqLast'.before = sqQuery[q] /\ sqLast'.used = used /\ sqSorted' = used
  BY <1>1
<1>3. /\ sqQuery' = [p \in SqQueries |-> sqQuery'[p]]
      /\ \A p \in SqQueries : sqQuery'[p] = IF p = q THEN result ELSE sqQuery[p]
  BY <1>1 DEF SqInv
<1>4. \A p \in SqQueries : sqQuery'[p].there => QueryMap(sqQuery[p])'
  BY <1>1, <1>3, PoolStays DEF SqInv, QueryMap, Nsolvables
<1>5. PoolOK'
  BY <1>1, PoolStays DEF SqInv
<1>6. /\ GetSortedSolvables = SortedNow /\ Range(GetSortedSolvables.list) = PkgsOf(GetSolvables)
      /\ SortedNow.size = Nsolvables /\ SortedNow.gen = sqPool.gen /\ Nsolvables \in Nat
  BY SortedIsOfNow, PoolFacts DEF SqInv, SortedNow
<1>7. SortedOK'
  <2>1. used = SortedNow \/ used = sqSorted
    BY <1>6 DEF used
  <2>2. used.size \in Nat /\ used.size <= Nsolvables /\ (used.size = Nsolvables => used = SortedNow)
    BY <1>6, <2>1 DEF SqInv, SortedOK
  <2>3. Nsolvables' = Nsolvables /\ SortedNow' = SortedNow
    BY <1>1, PoolStays
  <2> QED
    BY <1>2, <2>2, <2>3 DEF SortedOK
<1>8. SortedListIsCurrent'
  <2>1. UsesSorted(call) => used.gen = sqPool.gen /\ Range(used.list) = PkgsOf(GetSolvables)
    BY <1>6 DEF used
  <2>2. PkgsOf(GetSolvables)' = PkgsOf(GetSolvables)
    BY <1>1, PoolStays
  <2> QED
    BY <1>1, <1>2, <2>1, <2>2 DEF SortedListIsCurrent, UsesSorted
<1> QED
  BY <1>1, <1>2, <1>3, <1>4, <1>5, <1>7, <1>8

\* A filter of a query, of any key, with the list of now.
LEMMA FilterStepKeeps ==
    ASSUME SqInv, NEW q \in SqQueries, NEW call \in SqCalls, ApplyFilter(q, call)
    PROVE  SqInv'
<1> DEFINE m == sqQuery[q]
<1>1. PoolOK /\ SortedOK /\ QueryMap(m) /\ Called(q, call, Filtered(call, m))
  BY DEF SqInv, ApplyFilter
<1>2. QueryMap(Filtered(call, m))
  BY <1>1, FilteredKept
<1>3. /\ PoolOK' /\ SortedOK' /\ sqQuery' = [p \in SqQueries |-> sqQuery'[p]]
      /\ \A p \in SqQueries : sqQuery'[p].there => QueryMap(sqQuery[p])'
      /\ SortedListIsCurrent' /\ UNCHANGED sqPool
      /\ sqLast'.key = call.key /\ sqLast'.call = call /\ sqLast'.query = q
      /\ sqLast'.before = m /\ sqQuery'[q] = Filtered(call, m)
  BY <1>1, <1>2, CalledKeeps
<1>4. FilterIsExact'
  <2> DEFINE Meant == call.key \in {"version", "release"} => call.cmp \in {EQ, GLOB, EQ \cup {"NOT"}}
             left == Filtered(call, m).bits
  <2>1. CASE call.key \in ExactKeys /\ Meant
    <3>1. left
            = IF Unsupported(call) THEN m.bits
              ELSE {i \in m.bits : (\E pat \in call.pats : Means(call, pat, sqPool.ids[i])) # ("NOT" \in call.cmp)}
      BY <1>1, <2>1, FilterKeepsMeant
    <3> HIDE DEF left, m
    <3> QED
      BY <1>3, <3>1 DEF FilterIsExact, left
  <2>2. CASE call.key \notin ExactKeys
    BY <1>3, <2>2 DEF FilterIsExact, ExactKeys
  <2>3. CASE ~ Meant
    BY <1>3, <2>3 DEF FilterIsExact
  <2> QED
    BY <2>1, <2>2, <2>3
<1> QED
  BY <1>3, <1>4 DEF SqInv, QueriesExact

LEMMA ResolveKeeps ==
    ASSUME SqInv, NEW q \in SqQueries, NEW spec, ResolveSpec(q, spec)
    PROVE  SqInv'
<1> DEFINE m == sqQuery[q]
           call == [key |-> "spec", spec |-> spec]
<1>1. PoolOK /\ QueryMap(m) /\ Called(q, call, ResolvedSpec(spec, m)) /\ call.key = "spec"
  BY DEF SqInv, ResolveSpec
<1>2. QueryMap(ResolvedSpec(spec, m))
  BY <1>1, ResolvedKept
<1> HIDE DEF call
<1>3. /\ PoolOK' /\ SortedOK' /\ sqQuery' = [p \in SqQueries |-> sqQuery'[p]]
      /\ \A p \in SqQueries : sqQuery'[p].there => QueryMap(sqQuery[p])'
      /\ SortedListIsCurrent' /\ sqLast'.key = "spec"
  BY <1>1, <1>2, CalledKeeps
<1>4. FilterIsExact'
  BY <1>3 DEF FilterIsExact
<1> QED
  BY <1>3, <1>4 DEF SqInv, QueriesExact

LEMMA SqStepOK ==
    ASSUME ~ FailuresMove
    PROVE  SqInv /\ [SqNext]_sqVars => SqInv'
<1> SUFFICES ASSUME SqInv, [SqNext]_sqVars PROVE SqInv'
  OBVIOUS
<1>1. ASSUME NEW r \in DOMAIN SqRepoPkgs, LoadRepo(r) PROVE SqInv'
  BY <1>1, LoadKeeps
<1>2. ASSUME NEW r \in DOMAIN SqRepoPkgs, LoadFails(r) PROVE SqInv'
  BY <1>2, FailureKeeps
<1>3. ASSUME NEW q \in SqQueries, NEW flags \in {"EMPTY", "APPLY_EXCLUDES"}, NewQuery(q, flags) PROVE SqInv'
  BY <1>3, NewKeeps
<1>4. ASSUME NEW q \in SqQueries, NEW src \in SqQueries, CopyQuery(q, src) PROVE SqInv'
  BY <1>4, CopyKeeps
<1>5. ASSUME NEW q \in SqQueries, NEW call \in SqCalls, ApplyFilter(q, call) PROVE SqInv'
  BY <1>5, FilterStepKeeps
<1>6. ASSUME NEW q \in SqQueries, NEW spec \in SqSpecs, ResolveSpec(q, spec) PROVE SqInv'
  BY <1>6, ResolveKeeps
<1>7. CASE UNCHANGED sqVars
  <2>1. UNCHANGED sqPool /\ UNCHANGED sqSorted /\ UNCHANGED sqQuery /\ UNCHANGED sqLast
    BY <1>7 DEF sqVars
  <2>2. PoolOK' /\ SortedOK'
    BY <2>1, PoolStays DEF SqInv, SortedOK
  <2>3. \A q \in SqQueries : sqQuery'[q].there => QueryMap(sqQuery[q])'
    BY <2>1, PoolStays DEF SqInv, QueryMap, Nsolvables
  <2>4. SortedListIsCurrent'
    BY <2>1, PoolStays DEF SqInv, QueriesExact, SortedListIsCurrent
  <2>5. FilterIsExact'
    BY <2>1 DEF SqInv, QueriesExact, FilterIsExact
  <2> QED
    BY <2>1, <2>2, <2>3, <2>4, <2>5 DEF SqInv, QueriesExact
<1> QED
  BY <1>1, <1>2, <1>3, <1>4, <1>5, <1>6, <1>7 DEF SqNext

(* Whatever is loaded, whichever queries there are and however their        *)
(* filters follow each other, every filter keeps exactly the packages its   *)
(* patterns mean, by the sorted list or by the query, and the list it walks *)
(* points into the array the pool has (solv_query.cpp filters,              *)
(* solv_sack_impl.hpp get_sorted_solvables).                                *)
THEOREM QueriesStayExact ==
    ASSUME ~ FailuresMove
    PROVE  SqSpec => []QueriesExact
<1>1. SqInv => QueriesExact
  BY DEF SqInv
<1> QED
  BY <1>1, SqInitOK, SqStepOK, PTL DEF SqSpec
==============================================================================
