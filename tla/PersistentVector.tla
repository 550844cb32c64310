-------------------------- MODULE PersistentVector --------------------------
(***************************************************************************)
(* The persistent vector (pmemds/src/vector/persistent-vector.h).  Every   *)
(* operation is a transaction over the elements' cells and the three       *)
(* fields, and what it stores reaches persistent memory by one of three    *)
(* ways: the cell was snapshotted, it lies in a block the transaction      *)
(* allocated, or it is persisted by hand.                                  *)
(*                                                                         *)
(* An operation is the list of the stores and calls it makes, taken one at *)
(* a time; before any of them it may throw (an allocation, a snapshot or   *)
(* an element's constructor that fails) or the machine may crash.  A block *)
(* that is reallocated or freed, an element that is destroyed and one that *)
(* is moved from hold "junk".  Arguments are values, never references to   *)
(* elements of the vector, and a vector is modelled by itself (no swap and *)
(* no move between two).                                                   *)
(***************************************************************************)
EXTENDS Integers, Sequences, SequencesExt

CONSTANTS
    Value,
    max_size,
    MaxOps, MaxFaults    \* bounds: operations; crashes and exceptions

VARIABLES
    mem, nvm,            \* the cells as the program sees them; as they survive
    v, saved,            \* _data, _size, _capacity; their snapshot
    log,                 \* the cells snapshotted, with their values
    code,                \* what is left of the operation
    contents, result,    \* the elements by the reference; after the operation
    loose, torn,         \* cells of resize not yet durable; some were lost
    ops, faults

vars == <<mem, nvm, v, saved, log, code, contents, result, loose, torn, ops, faults>>

junk == 0
Block == {1, 2}
Cell == Block \X (0..(max_size - 1))

\* vector(): _data = nullptr, which has no block.
Init ==
    /\ mem = [c \in Cell |-> junk] /\ nvm = mem
    /\ v = [data |-> 0, size |-> 0, capacity |-> 0] /\ saved = v
    /\ log = <<>> /\ code = <<>> /\ contents = <<>> /\ result = <<>>
    /\ loose = {} /\ torn = FALSE /\ ops = 0 /\ faults = 0

-----------------------------------------------------------------------------
\* The steps operations are made of.
Each(a, b, Do(_)) == [k \in 1..(IF b > a THEN b - a ELSE 0) |-> Do(a + k - 1)]
Back(a, b, Do(_)) == Reverse(Each(a, b, Do))

snapshot_data(a, b) == <<<<"snapshot", a, b>>>>
SetSize(n) == <<<<"size", n>>>>
destroy(a, b) == Each(a, b, LAMBDA i : <<"store", i, junk>>)
persist(a, b) == <<<<"persist", a, b>>>>

construct(i, count, x) ==
    Each(i, i + count, LAMBDA k : <<"store", k, x>>) \o <<<<"grow", count>>>>

construct_range_copy(i, s) ==
    <<<<"grow", Len(s)>>>> \o Each(i, i + Len(s), LAMBDA k : <<"store", k, s[k - i + 1]>>)

\* Elements a to b - 1 of the block left behind, from i on.
construct_range(i, a, b) ==
    <<<<"grow", IF b > a THEN b - a ELSE 0>>>> \o Each(a, b, LAMBDA k : <<"carry", k, i + k - a>>)

alloc(n) == <<<<"alloc", n>>>>
tx_free == <<<<"free">>>>

shrink(n) == snapshot_data(n, v.size) \o destroy(n, v.size) \o SetSize(n)

dealloc == IF v.data = 0 THEN <<>> ELSE shrink(0) \o <<<<"leave">>>> \o tx_free


realloc(n) ==
    snapshot_data(0, v.size) \o <<<<"leave">>>> \o alloc(n) \o
    construct_range(0, 0, IF n < v.size THEN n ELSE v.size) \o tx_free

get_recommended_capacity(n) ==
    CHOOSE p \in {2 ^ i : i \in 0..n} : n <= p /\ \A q \in {2 ^ i : i \in 0..n} : n <= q => p <= q

insert_gap(i, count) ==
    IF v.capacity >= v.size + count
    THEN snapshot_data(i, v.size + count) \o Back(i, v.size, LAMBDA k : <<"move", k, k + count>>)
    ELSE snapshot_data(0, v.size) \o <<<<"leave">>>> \o
         alloc(get_recommended_capacity(v.size + count)) \o
         construct_range(0, 0, i) \o construct_range(i + count, i, v.size) \o tx_free

-----------------------------------------------------------------------------
\* One transaction, and what it is to make of the contents.
Begin(steps, after) ==
    /\ code = <<>> /\ ops < MaxOps
    /\ ops' = ops + 1
    /\ code' = Append(steps, <<"commit">>) /\ result' = after
    /\ saved' = v
    /\ UNCHANGED <<mem, nvm, v, log, contents, loose, torn, faults>>

Copies(n, x) == [i \in 1..n |-> x]
Prefix(n) == SubSeq(contents, 1, n)
Suffix(n) == SubSeq(contents, n + 1, Len(contents))

insert(i, s) ==
    Begin(insert_gap(i, Len(s)) \o construct_range_copy(i, s), Prefix(i) \o s \o Suffix(i))

insert_count(i, count, x) ==
    Begin(insert_gap(i, count) \o construct(i, count, x), Prefix(i) \o Copies(count, x) \o Suffix(i))

\* emplace and the insertion of one value; its argument is built first.
emplace(i, x) == insert_count(i, 1, x)

emplace_back(x) ==
    Begin((IF v.size = v.capacity THEN realloc(get_recommended_capacity(v.size + 1)) ELSE <<>>) \o
          construct(v.size, 1, x) \o persist(v.size, v.size + 1),
          Append(contents, x))

push_back(x) == emplace_back(x)

erase(first, last) ==
    /\ first < last
    /\ Begin(snapshot_data(first, v.size) \o
             Each(last, v.size, LAMBDA k : <<"move", k, k - (last - first)>>) \o
             SetSize(v.size - (last - first)),
             Prefix(first) \o Suffix(last))

\* An element, or a range of them, written through the reference that at(),
\* operator[], front(), back(), data() and range() give: all snapshot it first.
at(i, x) ==
    /\ i < v.size
    /\ Begin(snapshot_data(i, i + 1) \o <<<<"store", i, x>>>>, [contents EXCEPT ![i + 1] = x])

range(start, n, x) ==
    /\ start + n <= v.size
    /\ Begin(snapshot_data(start, start + n) \o Each(start, start + n, LAMBDA k : <<"store", k, x>>),
             Prefix(start) \o Copies(n, x) \o Suffix(start + n))

pop_back == v.size > 0 /\ Begin(shrink(v.size - 1), Prefix(v.size - 1))
clear == Begin(shrink(0), <<>>)
free_data == v.data # 0 /\ Begin(dealloc, <<>>)
reserve(n) == n > v.capacity /\ Begin(realloc(n), contents)
shrink_to_fit == v.capacity # v.size /\ Begin(realloc(v.size), contents)

\* Both forms of resize; the one with a value returns early when the count is
\* the capacity.
resize(count, x) ==
    Begin(IF count <= v.size THEN shrink(count)
          ELSE (IF v.capacity < count THEN realloc(count) ELSE <<<<"loose", v.size, count>>>>) \o
               construct(v.size, count - v.size, x),
          IF count <= v.size THEN Prefix(count) ELSE contents \o Copies(count - v.size, x))

resize_value(count, x) == v.capacity # count /\ resize(count, x)

\* The two forms of assign differ in how they build elements.
Assigned(s, Construct(_, _)) ==
    LET n == Len(s)
        old == v.size
        common == IF n < old THEN n ELSE old
    IN  Begin(IF n <= v.capacity
              THEN snapshot_data(0, old) \o Each(0, common, LAMBDA k : <<"store", k, s[k + 1]>>) \o
                   (IF n > old
                    THEN Construct(old, SubSeq(s, old + 1, n)) \o persist(old, n)
                    ELSE shrink(n))
              ELSE dealloc \o alloc(n) \o Construct(0, s),
              s)

assign(s) == Assigned(s, construct_range_copy)

assign_count(n, x) == Assigned(Copies(n, x), LAMBDA i, s : construct(i, Len(s), x))

-----------------------------------------------------------------------------
At(i) == <<v.data, i>>
Cells(a, b) == {c \in Cell : c[1] = v.data /\ a <= c[2] /\ c[2] < b}
Fill(m, b) == [c \in Cell |-> IF c[1] = b THEN junk ELSE m[c]]

\* The block that realloc and insert_gap leave behind is that of the snapshot.
Effect(s) ==
    CASE s[1] = "snapshot" ->
           /\ log' = [c \in DOMAIN log \cup Cells(s[2], s[3]) |->
                        IF c \in DOMAIN log THEN log[c] ELSE mem[c]]
           /\ UNCHANGED <<mem, nvm, v, loose>>
      [] s[1] = "store" ->
           mem' = [mem EXCEPT ![At(s[2])] = s[3]] /\ UNCHANGED <<nvm, v, log, loose>>
      [] s[1] = "move" ->
           /\ mem' = [mem EXCEPT ![At(s[3])] = mem[At(s[2])], ![At(s[2])] = junk]
           /\ UNCHANGED <<nvm, v, log, loose>>
      [] s[1] = "carry" ->
           /\ mem' = [mem EXCEPT ![At(s[3])] = mem[<<saved.data, s[2]>>],
                                 ![<<saved.data, s[2]>>] = junk]
           /\ UNCHANGED <<nvm, v, log, loose>>
      [] s[1] = "size" -> v' = [v EXCEPT !.size = s[2]] /\ UNCHANGED <<mem, nvm, log, loose>>
      [] s[1] = "grow" -> v' = [v EXCEPT !.size = @ + s[2]] /\ UNCHANGED <<mem, nvm, log, loose>>
      [] s[1] = "persist" ->
           /\ nvm' = [c \in Cell |-> IF c \in Cells(s[2], s[3]) THEN mem[c] ELSE nvm[c]]
           /\ UNCHANGED <<mem, v, log, loose>>
      [] s[1] = "leave" ->
           /\ v' = [data |-> 0, size |-> 0, capacity |-> 0]
           /\ UNCHANGED <<mem, nvm, log, loose>>
      [] s[1] = "alloc" ->
           /\ v' = [v EXCEPT !.data = IF s[2] = 0 THEN 0 ELSE IF saved.data = 1 THEN 2 ELSE 1,
                             !.capacity = s[2]]
           /\ UNCHANGED <<mem, nvm, log, loose>>
      [] s[1] = "loose" ->
           loose' = loose \cup Cells(s[2], s[3]) /\ UNCHANGED <<mem, nvm, v, log>>
      [] OTHER -> UNCHANGED <<mem, nvm, v, log, loose>>

Step ==
    /\ code # <<>> /\ Head(code)[1] # "commit"
    /\ Head(code)[1] = "alloc" => Head(code)[2] <= max_size
    /\ Effect(Head(code))
    /\ code' = Tail(code)
    /\ UNCHANGED <<saved, contents, result, torn, ops, faults>>

\* A commit makes the snapshotted cells and the new block durable, and frees
\* the old block.
Commit ==
    /\ code # <<>> /\ Head(code)[1] = "commit"
    /\ LET new == v.data # saved.data
           durable == {c \in Cell : c \in DOMAIN log \/ (new /\ c[1] = v.data)}
           m == IF new /\ saved.data # 0 THEN Fill(mem, saved.data) ELSE mem
       IN  /\ nvm' = [c \in Cell |-> IF c \in durable \/ m[c] # mem[c] THEN m[c] ELSE nvm[c]]
           /\ mem' = m
           /\ loose' = {c \in loose : c \notin durable /\ c[1] = v.data}
    /\ saved' = v /\ log' = <<>> /\ code' = <<>>
    /\ contents' = result
    /\ UNCHANGED <<v, result, torn, ops, faults>>

\* The undo log brings back the snapshotted cells and the fields, and what was
\* allocated is gone.
Undo(m) ==
    [c \in Cell |-> IF c \in DOMAIN log THEN log[c]
                    ELSE IF c[1] # saved.data THEN junk ELSE m[c]]

RollBack(m, n) ==
    /\ mem' = Undo(m) /\ nvm' = Undo(n)
    /\ v' = saved /\ log' = <<>> /\ code' = <<>>
    /\ UNCHANGED <<saved, contents, result, ops>>

\* A call throws and transaction::run aborts; one does when the capacity is
\* beyond max_size().
Throw ==
    /\ code # <<>> /\ Head(code)[1] \in {"snapshot", "store", "move", "carry", "alloc"}
    /\ RollBack(mem, nvm)
    /\ \/ Head(code)[1] = "alloc" /\ Head(code)[2] > max_size /\ UNCHANGED faults
       \/ faults < MaxFaults /\ faults' = faults + 1
    /\ UNCHANGED <<loose, torn>>

Crash ==
    /\ faults < MaxFaults /\ faults' = faults + 1
    /\ \E lost \in SUBSET {c \in Cell : mem[c] # nvm[c]} :
         LET m == [c \in Cell |-> IF c \in lost THEN nvm[c] ELSE mem[c]] IN
         /\ RollBack(m, m)
         /\ torn' = (torn \/ ((lost \cap loose) \ DOMAIN log # {}))
    /\ loose' = {}

Operation ==
    \/ \E i \in 0..v.size, x \in Value :
         emplace(i, x) \/ insert(i, <<x, x>>) \/ insert_count(i, 2, x)
    \/ \E x \in Value : push_back(x)
    \/ \E i, n \in 0..v.size, x \in Value : at(i, x) \/ range(i, n, x)
    \/ \E i, j \in 0..v.size : erase(i, j)
    \/ pop_back \/ clear \/ free_data \/ shrink_to_fit
    \/ \E n \in 0..max_size : reserve(n)
    \/ \E n \in 0..max_size, x \in Value : resize(n, x) \/ resize_value(n, x)
    \/ \E n \in 0..max_size, x \in Value : assign(Copies(n, x)) \/ assign_count(n, x)

Next == Operation \/ Step \/ Commit \/ Throw \/ Crash

Spec == Init /\ [][Next]_vars

-----------------------------------------------------------------------------
Elements == [i \in 1..v.size |-> mem[At(i - 1)]]

=============================================================================
