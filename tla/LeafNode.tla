------------------------------ MODULE LeafNode ------------------------------
(***************************************************************************)
(* A leaf of the persistent B-tree (leaf_node_t in                         *)
(* pmemds/include/tree/btree/persistent_b_tree.h).  Entries lie in slots;  *)
(* two arrays of slot numbers take turns at giving their order, and        *)
(* consistent_id says which one counts.  An insert or erase writes the     *)
(* other array, persists it, and switches by persisting p_consistent_id.   *)
(* consistent_id and epoch themselves are never flushed: after a restart   *)
(* check_consistency takes p_consistent_id when the tree's epoch is new.   *)
(*                                                                         *)
(* Memory is a function of cells.  A store changes mem, persist copies     *)
(* cells to nvm, and a crash keeps of every other cell the old or the new  *)
(* value.  The cells of "head" share a cache line that may be written back *)
(* at any time, as may the tree's epoch.                                   *)
(***************************************************************************)
EXTENDS Integers, FiniteSets

CONSTANTS
    Key,                    \* a set of integers
    number_entrys_slots,
    MaxCrashes              \* bound: crashes

VARIABLES
    mem, nvm,        \* what the program reads; what survives a crash
    op,              \* the operation at hand and where it is
    before, after,   \* the contents before and after the operation
    crashes,
    repeated         \* the epoch after some crash was one the leaf had seen

vars == <<mem, nvm, op, before, after, crashes, repeated>>

Slot == 0..(number_entrys_slots - 1)
Cell == {<<"entry", i>> : i \in Slot} \cup {<<"idx", c, i>> : c \in {0, 1}, i \in Slot} \cup
        {<<"size", c>> : c \in {0, 1}} \cup {<<"p_consistent_id">>, <<"head">>, <<"epoch">>}

None == [what |-> "none"]

\* A new leaf, allocated in the tree's epoch.
NewLeaf == [x \in Cell |->
    CASE x[1] = "idx" -> x[3]
      [] x[1] = "head" -> [epoch |-> 1, consistent_id |-> 0]
      [] x[1] = "epoch" -> 1
      [] OTHER -> 0]

Init ==
    /\ mem = NewLeaf /\ nvm = NewLeaf /\ op = None
    /\ before = {} /\ after = {} /\ crashes = 0 /\ repeated = FALSE

-----------------------------------------------------------------------------
\* check_consistency, as every descent to the leaf calls it.
Checked(m) ==
    IF m[<<"epoch">>] # m[<<"head">>].epoch
    THEN [m EXCEPT ![<<"head">>] = [epoch |-> m[<<"epoch">>],
                                    consistent_id |-> m[<<"p_consistent_id">>]]]
    ELSE m

consistent_id(m) == Checked(m)[<<"head">>].consistent_id
size(m) == m[<<"size", consistent_id(m)>>]
idxs(m, i) == m[<<"idx", consistent_id(m), i>>]
entry(m, i) == m[<<"entry", idxs(m, i)>>]

\* The keys a reader finds.
Contents(m) == {entry(m, i) : i \in 0..(size(m) - 1)}

Persist(S) == nvm' = [x \in Cell |-> IF x \in S THEN mem[x] ELSE nvm[x]]

\* insert up to the flush of the new entry, which the next persist completes.
\* The position is that of lower_bound; a key that is there changes nothing.
Insert(k) ==
    /\ op = None /\ size(mem) < number_entrys_slots /\ k \notin Contents(mem)
    /\ mem' = [Checked(mem) EXCEPT ![<<"entry", idxs(mem, size(mem))>>] = k]
    /\ op' = [what |-> "insert", at |-> Cardinality({j \in Contents(mem) : j < k}),
              slot |-> idxs(mem, size(mem))]
    /\ before' = Contents(mem) /\ after' = Contents(mem) \cup {k}
    /\ UNCHANGED <<nvm, crashes, repeated>>

Erase(k) ==
    /\ op = None /\ k \in Contents(mem)
    /\ mem' = Checked(mem)
    /\ op' = [what |-> "erase", at |-> Cardinality({j \in Contents(mem) : j < k}), slot |-> 0]
    /\ before' = Contents(mem) /\ after' = Contents(mem) \ {k}
    /\ UNCHANGED <<nvm, crashes, repeated>>

\* Slip: the slot of the removed entry is not put behind those in use.
remove_idx_forgets(i) == IF i < op.at THEN idxs(mem, i) ELSE idxs(mem, i + 1)

\* Slot number i of the working copy; those from Length on are left as they are.
insert_idx(i) ==
    CASE i < op.at -> idxs(mem, i) [] i = op.at -> op.slot [] OTHER -> idxs(mem, i - 1)

remove_idx(i) ==
    CASE i < op.at -> idxs(mem, i)
      [] i < size(mem) - 1 -> idxs(mem, i + 1)
      [] OTHER -> idxs(mem, op.at)

Length == IF op.what = "insert" THEN size(mem) + 1 ELSE size(mem)

WriteIdxs ==
    /\ op.what \in {"insert", "erase"}
    /\ LET w == 1 - consistent_id(mem) IN
         mem' = [x \in Cell |->
             CASE x[1] = "idx" /\ x[2] = w /\ x[3] < Length ->
                    IF op.what = "insert" THEN insert_idx(x[3]) ELSE remove_idx(x[3])
               [] x = <<"size", w>> -> IF op.what = "insert" THEN size(mem) + 1 ELSE size(mem) - 1
               [] OTHER -> mem[x]]
    /\ op' = [op EXCEPT !.what = "persist"]
    /\ UNCHANGED <<nvm, before, after, crashes, repeated>>

\* pop.persist of the working copy; the drain also completes the entry's flush.
PersistIdxs ==
    /\ op.what = "persist"
    /\ Persist({x \in Cell : 
           x[1] = "entry" \/ (x[1] \in {"idx", "size"} /\ x[2] # consistent_id(mem))})
    /\ op' = [op EXCEPT !.what = "switch"]
    /\ UNCHANGED <<mem, before, after, crashes, repeated>>

\* switch_consistent.
Switch ==
    /\ op.what = "switch"
    /\ LET c == 1 - consistent_id(mem) IN
         mem' = [mem EXCEPT ![<<"p_consistent_id">>] = c, ![<<"head">>].consistent_id = c]
    /\ op' = [op EXCEPT !.what = "switched"]
    /\ UNCHANGED <<nvm, before, after, crashes, repeated>>

PersistSwitch ==
    /\ op.what = "switched"
    /\ Persist({<<"p_consistent_id">>})
    /\ op' = None
    /\ before' = after
    /\ UNCHANGED <<mem, after, crashes, repeated>>

-----------------------------------------------------------------------------
\* The cache writes a line back that no code flushes.  The tree's epoch shares
\* one with the pointers to its root and to the node being split.
Evict(x) ==
    /\ x \in {<<"head">>, <<"epoch">>} /\ nvm[x] # mem[x]
    /\ Persist({x})
    /\ UNCHANGED <<mem, op, before, after, crashes, repeated>>

\* A crash, and garbage_collection of the restart: ++epoch, not persisted.
Crash ==
    /\ crashes < MaxCrashes
    /\ crashes' = crashes + 1
    /\ \E S \in SUBSET {x \in Cell : mem[x] # nvm[x]} :
         LET m == [x \in Cell |-> IF x \in S THEN mem[x] ELSE nvm[x]] IN
         /\ nvm' = m
         /\ mem' = [m EXCEPT ![<<"epoch">>] = @ + 1]
    /\ repeated' = (repeated \/ mem'[<<"head">>].epoch = mem'[<<"epoch">>])
    /\ op' = None
    /\ UNCHANGED <<before, after>>

Next ==
    \/ \E k \in Key : Insert(k) \/ Erase(k)
    \/ WriteIdxs \/ PersistIdxs \/ Switch \/ PersistSwitch
    \/ \E x \in Cell : Evict(x)
    \/ Crash

Spec == Init /\ [][Next]_vars

-----------------------------------------------------------------------------
\* Inserts and erases are atomic: whatever reaches memory before a crash, the
\* leaf then holds what it held before the operation or after it, and what it
\* held at the end of one that has returned.  The slot for the next entry is
\* free, as insert asserts, although the end of an array may be left over from
\* an operation that a crash cut off.  The exception is an epoch that repeats
\* after a crash, as ++epoch is not persisted.
LeafIsAtomic ==
    ~repeated =>
        /\ Contents(mem) \in {before, after}
        /\ op = None => \A i, j \in 0..size(mem) :
               i < j /\ j < number_entrys_slots => idxs(mem, i) # idxs(mem, j)
=============================================================================
