---------------------------- MODULE AbstractLog -----------------------------
(***************************************************************************)
(* What raft/src/raft_log.c promises: a sequence of entries whose indices  *)
(* are absolute.  Entries are appended at the end, the oldest are given up *)
(* by compaction, the newest are deleted on a conflict.                    *)
(***************************************************************************)
EXTENDS Integers, Sequences

CONSTANTS Id,           \* the entries
          MaxBatch      \* bound: entries appended by one call

VARIABLES base,         \* index of the last entry given up
          kept          \* the entries after it

Init == base = 0 /\ kept = <<>>

\* Appends n entries, whichever they are.
Extend(n) ==
    /\ Len(kept') = Len(kept) + n
    /\ SubSeq(kept', 1, Len(kept)) = kept
    /\ \A k \in (Len(kept) + 1)..Len(kept') : kept'[k] \in Id
    /\ UNCHANGED base

\* Gives up the n oldest entries.
Compact(n) ==
    /\ kept' = SubSeq(kept, n + 1, Len(kept))
    /\ base' = base + n

\* Deletes the entries from index idx on.
Delete(idx) ==
    /\ kept' = SubSeq(kept, 1, idx - 1 - base)
    /\ UNCHANGED base

Next ==
    \/ \E n \in 1..MaxBatch : Extend(n)
    \/ \E n \in 1..Len(kept) : Compact(n)
    \/ \E k \in 1..Len(kept) : Delete(base + k)

Spec == Init /\ [][Next]_<<base, kept>>
=============================================================================
