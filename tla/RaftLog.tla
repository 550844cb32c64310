------------------------------ MODULE RaftLog -------------------------------
(***************************************************************************)
(* The log of one server: the array of raft/src/raft_log.c, a ring indexed *)
(* by absolute index modulo its size, together with the ring of packet     *)
(* pointers of core/circular_log.h that the callbacks of core/cyclone.cpp  *)
(* keep in step with it, and the compaction of raft_server.c.              *)
(*                                                                         *)
(* Indices are unbounded here; in the code they are ints.                  *)
(***************************************************************************)
EXTENDS Integers, Sequences

CONSTANTS
    INITIAL_CAPACITY,   \* size of the array of a new log
    LOG_ENTRIES,        \* slots of the circular log
    log_target,         \* applied entries compaction leaves, and takes
    MaxId,              \* bound: entries ever appended
    MaxBatch            \* bound: entries appended by one call

ASSUME LogAssumption ==
    /\ {INITIAL_CAPACITY, LOG_ENTRIES, log_target} \subseteq Nat \ {0}
    /\ {MaxId, MaxBatch} \subseteq Nat

VARIABLES
    size, count, front, back, entries,   \* log_private_t
    head, tail, data,                    \* struct circular_log and its slots
    log_base, last_compacted_idx,        \* raft_server_private_t
    appended,                            \* entries offered so far
    freed,                               \* per entry: how often its packet was freed
    running                              \* FALSE once the process has exited

arrayVars == <<size, count, front, back, entries>>
ringVars == <<head, tail, data>>
compactVars == <<log_base, last_compacted_idx>>
vars == <<arrayVars, ringVars, compactVars, appended, freed, running>>

Id == 1..MaxId

\* An element of the array: the entry and the slot noted in its data.buf.
\* calloc leaves zeroes.
Zero == [id |-> 0, slot |-> 0]
Element == [id : 0..MaxId, slot : 0..(LOG_ENTRIES - 1)]

REL_POS(i, s) == i % s

Init ==
    /\ size = INITIAL_CAPACITY /\ count = 0 /\ front = 0 /\ back = 0
    /\ entries = [p \in 0..(INITIAL_CAPACITY - 1) |-> Zero]
    /\ head = 0 /\ tail = 0 /\ data = [p \in 0..(LOG_ENTRIES - 1) |-> 0]
    /\ log_base = 0 /\ last_compacted_idx = 0
    /\ appended = 0 /\ freed = [e \in Id |-> 0] /\ running = TRUE

-----------------------------------------------------------------------------
(* Appending.                                                              *)

\* The size __ensurecapacity_batch leaves for n more entries.
Capacity(n) ==
    LET Doubled[s \in Nat] == IF count + n <= s THEN s ELSE Doubled[2 * s]
    IN  Doubled[size]

\* Slip: the elements are copied to where they were.
CopiedInPlace(s) ==
    [p \in 0..(s - 1) |-> IF p < size THEN entries[p] ELSE Zero]

\* The array after it has grown to size s: live elements move to their place.
Copied(s) ==
    IF s = size THEN entries
    ELSE [p \in 0..(s - 1) |->
             LET here == {i \in front..(back - 1) : REL_POS(i, s) = p}
             IN  IF here = {} THEN Zero
                 ELSE entries[REL_POS(CHOOSE i \in here : TRUE, size)]]

\* Slip: the tail does not wrap.
SlotPastEnd(k) == tail + k

\* The slot log_offer fills for the k-th entry of a batch, from 0.
Slot(k) == (tail + k) % LOG_ENTRIES

\* Slip: a ring that has just become full goes unnoticed.
LogFullLate(n) == \E k \in 1..(n - 1) : Slot(k) = head

\* log_offer finds the circular log full at one of n entries.
LogFull(n) == \E k \in 1..n : Slot(k) = head

\* Where log_append_batch copies the k-th of n entries, the size being s: in
\* one piece, or in two if they wrap.
Place(s, n, k) ==
    LET start == REL_POS(back, s)
        part1 == s - start
    IN  IF REL_POS(back + n - 1, s) >= start \/ k < part1 THEN start + k ELSE k - part1

\* log_append_batch, and for one entry log_append_entry: make room, offer to
\* the circular log, copy.
log_append_batch(n) ==
    /\ running /\ appended + n <= MaxId
    /\ ~LogFull(n)
    /\ LET s == Capacity(n)
           grown == Copied(s)
       IN  /\ size' = s
           /\ entries' = [p \in 0..(s - 1) |->
                  LET new == {k \in 0..(n - 1) : Place(s, n, k) = p}
                  IN  IF new = {} THEN grown[p]
                      ELSE LET k == CHOOSE k \in new : TRUE
                           IN  [id |-> appended + 1 + k, slot |-> Slot(k)]]
    /\ data' = [p \in DOMAIN data |->
           LET new == {k \in 0..(n - 1) : Slot(k) = p}
           IN  IF new = {} THEN data[p] ELSE appended + 1 + (CHOOSE k \in new : TRUE)]
    /\ tail' = Slot(n)
    /\ count' = count + n /\ back' = back + n
    /\ appended' = appended + n
    /\ UNCHANGED <<front, head, compactVars, freed, running>>

\* "Out of raft logspace": the process exits.
OutOfLogspace(n) ==
    /\ running /\ appended + n <= MaxId
    /\ LogFull(n)
    /\ running' = FALSE
    /\ UNCHANGED <<arrayVars, ringVars, compactVars, appended, freed>>

-----------------------------------------------------------------------------
(* Deleting and compacting.                                                *)

\* The packets of the elements at positions P are freed once more.
Free(P) ==
    freed' = [e \in Id |-> IF \E p \in P : entries[p].id = e THEN freed[e] + 1 ELSE freed[e]]

\* log_delete from index idx on, with a log_pop per entry.  Its callers
\* assert that idx is not committed, hence not applied.
log_delete(idx) ==
    /\ running
    /\ back' = idx - 1 /\ count' = count - (back - (idx - 1))
    /\ tail' = (tail - (back - (idx - 1))) % LOG_ENTRIES
    /\ Free({REL_POS(i, size) : i \in (idx - 1)..(back - 1)})
    /\ UNCHANGED <<size, front, entries, head, data, compactVars, appended, running>>

\* raft_checkpoint: log_base follows the executors over applied entries.
raft_checkpoint(b) ==
    /\ running
    /\ log_base' = b
    /\ UNCHANGED <<arrayVars, ringVars, last_compacted_idx, appended, freed, running>>

\* Slip: the second callback starts where the first one did.
PolledTwice(cnt) ==
    LET start == REL_POS(front, size)
        part1 == size - start
    IN  IF REL_POS(front + cnt - 1, size) >= start
        THEN start..(start + cnt - 1)
        ELSE (start..(size - 1)) \cup (start..(start + cnt - part1 - 1))

\* The elements log_poll_batch hands to its callback, in one or two pieces.
Polled(cnt) ==
    LET start == REL_POS(front, size)
        part1 == size - start
    IN  IF REL_POS(front + cnt - 1, size) >= start
        THEN start..(start + cnt - 1)
        ELSE (start..(size - 1)) \cup (0..(cnt - part1 - 1))

\* Slip: everything applied is given up.
CompactAll ==
    /\ running
    /\ log_base > last_compacted_idx + 2 * log_target
    /\ LET cnt == log_base - last_compacted_idx
       IN  /\ front' = front + cnt /\ count' = count - cnt
           /\ head' = (head + cnt) % LOG_ENTRIES
           /\ Free(Polled(cnt))
           /\ last_compacted_idx' = last_compacted_idx + cnt
    /\ UNCHANGED <<size, back, entries, tail, data, log_base, appended, running>>

\* compact_log: log_poll_batch of log_target entries, once the executors are
\* more than twice as far ahead.  log_poll_batch takes no more than there are.
compact_log ==
    /\ running
    /\ log_base > last_compacted_idx + 2 * log_target
    /\ LET cnt == IF log_target > count THEN count ELSE log_target
       IN  /\ front' = front + cnt /\ count' = count - cnt
           /\ head' = (head + cnt) % LOG_ENTRIES
           /\ Free(Polled(cnt))
           /\ last_compacted_idx' = last_compacted_idx + log_target
    /\ UNCHANGED <<size, back, entries, tail, data, log_base, appended, running>>

-----------------------------------------------------------------------------
Next ==
    \/ \E n \in 1..MaxBatch : log_append_batch(n) \/ OutOfLogspace(n)
    \/ \E idx \in (log_base + 1)..back : log_delete(idx)
    \/ \E b \in (log_base + 1)..back : raft_checkpoint(b)
    \/ compact_log

Spec == Init /\ [][Next]_vars

-----------------------------------------------------------------------------
(* Reading.                                                                *)

\* Slip: the run of entries goes to the end of the array.
RunToEnd(idx) ==
    IF idx - 1 \in front..(back - 1) THEN size - REL_POS(idx - 1, size) ELSE 0

\* log_get_from_idx: how many entries from idx on lie in one piece.
RunFrom(idx) ==
    LET i == REL_POS(idx - 1, size)
        end == REL_POS(back, size)
    IN  IF idx - 1 \notin front..(back - 1) THEN 0
        ELSE IF i < end THEN end - i ELSE size - i

\* The entries it returns.
log_get_from_idx(idx) ==
    [k \in 1..RunFrom(idx) |-> entries[REL_POS(idx - 1, size) + k - 1].id]

-----------------------------------------------------------------------------
(* Properties.                                                             *)

\* The fields have their types, and the array is as long as size says.
TypeOK ==
    /\ size \in Nat \ {0} /\ {count, front, back, appended} \subseteq Nat
    /\ entries \in [0..(size - 1) -> Element]
    /\ {head, tail} \subseteq 0..(LOG_ENTRIES - 1)
    /\ data \in [0..(LOG_ENTRIES - 1) -> 0..MaxId]
    /\ {log_base, last_compacted_idx} \subseteq Nat
    /\ freed \in [Id -> Nat] /\ running \in BOOLEAN

\* The live entries, as log_get_at_idx finds them.
Live == [k \in 1..(back - front) |-> entries[REL_POS(front + k - 1, size)]]
LiveIds == [k \in 1..Len(Live) |-> Live[k].id]

\* The array is an implementation of the abstract log: growing, wrapping,
\* deleting and compacting neither lose, move nor bring back an entry.
Abstract == INSTANCE AbstractLog WITH base <- front, kept <- LiveIds
ImplementsLog == Abstract!Spec

\* The circular log is in step with the array: from head to tail it holds
\* the live entries in order, each in the slot its data.buf names, and count,
\* the room check of the array, is their number.
RingsInStep ==
    /\ count = back - front /\ count < LOG_ENTRIES
    /\ tail = (head + count) % LOG_ENTRIES
    /\ \A k \in 1..count : /\ Live[k].slot = (head + k - 1) % LOG_ENTRIES
                           /\ data[Live[k].slot] = Live[k].id

\* Every packet is freed once when its entry leaves the log by log_pop or
\* log_poll_batch, and never while the entry is in it.
FreedWhenGone ==
    \A e \in 1..appended :
        freed[e] = IF \E k \in 1..Len(LiveIds) : LiveIds[k] = e THEN 0 ELSE 1

\* log_get_from_idx returns entries of the log from idx on, in order, and at
\* least one where the log has it, so that a sender always makes progress.
ReadsAreRuns ==
    \A idx \in 1..(back + 1) :
        /\ RunFrom(idx) > 0 <=> idx \in (front + 1)..back
        /\ idx + RunFrom(idx) - 1 <= back
        /\ log_get_from_idx(idx)
              = SubSeq(LiveIds, idx - front, idx - front + RunFrom(idx) - 1)

\* "leave enough log entries for lagging nodes": compaction gives up only
\* applied entries and leaves more than log_target of them.
LaggersAreServed ==
    /\ front = last_compacted_idx
    /\ front > 0 => log_base - front > log_target
=============================================================================
