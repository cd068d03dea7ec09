------------------------- MODULE MemoryBufferLogger -------------------------
(***************************************************************************)
(* libdnf/logger/memory_buffer_logger.cpp: a vector that, once it has       *)
(* max_items items, is written round and round from first_item_idx.  Every  *)
(* operation runs under items_mutex, except that get_item() checks its      *)
(* index before it takes the mutex.                                         *)
(***************************************************************************)
EXTENDS Naturals, Sequences

CONSTANTS
    Message,
    Reader,      \* threads that call get_item()
    max_items,   \* 0: no limit
    MaxKept,     \* bound: items kept when there is no limit
    ClearRaces   \* whether clear() is called while a get_item() is under way

ASSUME LoggerAssumption ==
    /\ max_items \in Nat
    /\ MaxKept \in Nat
    /\ ClearRaces \in BOOLEAN

VARIABLES
    items,
    first_item_idx,
    asked,       \* per reader, <<item_idx>> after its check, else <<>>
    delivered,   \* what the last write_to_logger() wrote
    got          \* per reader, the index and the item its get_item() returned

logVars == <<items, first_item_idx, asked, delivered, got>>

LogTypeOK ==
    /\ items \in Seq(Message)
    /\ first_item_idx \in Nat
    /\ asked \in [Reader -> {<<>>} \cup {<<i>> : i \in Nat}]
    /\ delivered \in Seq(Message)

LogInit ==
    /\ items = <<>>
    /\ first_item_idx = 0
    /\ asked = [r \in Reader |-> <<>>]
    /\ delivered = <<>>
    /\ got = [r \in Reader |-> <<>>]

Write(m) ==
    /\ max_items = 0 => Len(items) < MaxKept
    /\ IF max_items = 0 \/ Len(items) < max_items
         THEN items' = Append(items, m) /\ UNCHANGED first_item_idx
         ELSE /\ items' = [items EXCEPT ![first_item_idx + 1] = m]
              /\ first_item_idx' = IF first_item_idx + 1 >= max_items THEN 0
                                   ELSE first_item_idx + 1
    /\ UNCHANGED <<asked, delivered, got>>

\* get_item() up to the mutex; out_of_range leaves it and changes nothing
CheckIndex(r, i) ==
    /\ asked[r] = <<>>
    /\ i < Len(items) /\ i < max_items
    /\ asked' = [asked EXCEPT ![r] = <<i>>]
    /\ UNCHANGED <<items, first_item_idx, delivered, got>>

\* slip: the index is not wrapped
PlaceUnwrapped(i) == i + first_item_idx

Place(i) ==
    IF i + first_item_idx >= max_items THEN i + first_item_idx - max_items
                                       ELSE i + first_item_idx

\* past the end, items[idx] is undefined: no item at all stands for it
ReadItem(r) ==
    /\ asked[r] # <<>>
    /\ LET i == asked[r][1] IN
         got' = [got EXCEPT ![r] = IF Place(i) < Len(items) THEN <<i, items[Place(i) + 1]>>
                                                            ELSE <<i>>]
    /\ asked' = [asked EXCEPT ![r] = <<>>]
    /\ UNCHANGED <<items, first_item_idx, delivered>>

WriteToLogger ==
    /\ delivered' = SubSeq(items, first_item_idx + 1, Len(items))
                      \o SubSeq(items, 1, first_item_idx)
    /\ UNCHANGED <<items, first_item_idx, asked, got>>

Clear ==
    /\ ClearRaces \/ \A r \in Reader : asked[r] = <<>>
    /\ items' = <<>>
    /\ first_item_idx' = 0
    /\ UNCHANGED <<asked, delivered, got>>

LogNext ==
    \/ \E m \in Message : Write(m)
    \/ \E r \in Reader : ReadItem(r) \/ \E i \in 0 .. Len(items) : CheckIndex(r, i)
    \/ WriteToLogger
    \/ Clear

LogSpec == LogInit /\ [][LogNext]_logVars

-----------------------------------------------------------------------------
\* the messages, oldest first
Kept ==
    [i \in 1 .. Len(items) |->
       items[IF i + first_item_idx > Len(items) THEN i + first_item_idx - Len(items)
                                                ELSE i + first_item_idx]]

Log == INSTANCE MessageLog WITH kept <- Kept

\* The buffer is a log of the last max_items messages: writing past the end drops
\* the oldest, get_item(i) returns the i-th oldest even when other threads write
\* between its check and its read, and write_to_logger() keeps the order.
ImplementsMessageLog == Log!Spec

\* Once full the buffer stays full, and before that it has not wrapped.
WrapsOnlyWhenFull ==
    /\ Len(items) < max_items \/ max_items = 0 => first_item_idx = 0
    /\ max_items # 0 => Len(items) <= max_items /\ first_item_idx < max_items
=============================================================================
