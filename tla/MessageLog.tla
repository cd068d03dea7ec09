----------------------------- MODULE MessageLog -----------------------------
(***************************************************************************)
(* What a MemoryBufferLogger promises (include/libdnf/logger/               *)
(* memory_buffer_logger.hpp): the last max_items messages, or all of them   *)
(* when max_items is 0, in the order in which they were written.            *)
(***************************************************************************)
EXTENDS Naturals, Sequences

CONSTANTS Message, Reader, max_items

VARIABLES
    kept,       \* the messages, oldest first
    delivered,  \* what the last write_to_logger() gave to the other logger
    got         \* per reader, the index asked for and the item obtained

vars == <<kept, delivered, got>>

Init ==
    /\ kept = <<>>
    /\ delivered = <<>>
    /\ got = [r \in Reader |-> <<>>]

Write(m) ==
    /\ kept' = IF max_items # 0 /\ Len(kept) = max_items
                 THEN Append(Tail(kept), m) ELSE Append(kept, m)
    /\ UNCHANGED <<delivered, got>>

GetItem(r, i) ==
    /\ i < Len(kept)
    /\ got' = [got EXCEPT ![r] = <<i, kept[i + 1]>>]
    /\ UNCHANGED <<kept, delivered>>

WriteToLogger == delivered' = kept /\ UNCHANGED <<kept, got>>

Clear == kept' = <<>> /\ UNCHANGED <<delivered, got>>

Next ==
    \/ \E m \in Message : Write(m)
    \/ \E r \in Reader, i \in 0 .. Len(kept) : GetItem(r, i)
    \/ WriteToLogger
    \/ Clear

Spec == Init /\ [][Next]_vars
=============================================================================
