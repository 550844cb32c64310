--------------------------- MODULE PriorityQueue ---------------------------
(***************************************************************************)
(* One partition of the priority queue: the minheap_size elements of the   *)
(* highest priority in a heap with the least at the root, the rest in a    *)
(* heap with the greatest at the root, and keymap from a key to its index  *)
(* over both.  The algorithm is that of volatile_priority_queue.hpp;       *)
(* persistent_priority_queue.hpp runs the same steps in transactions, over *)
(* a persistent vector of pointers to elements on the ordinary heap.       *)
(*                                                                         *)
(* A transaction that is not committed is rolled back: the vectors return  *)
(* to what they were, but keymap's values and the elements' priorities are *)
(* not part of it.                                                         *)
(***************************************************************************)
EXTENDS Integers, Sequences

CONSTANTS
    Id,              \* keys
    minheap_size,
    MaxPrio          \* bound: priorities

VARIABLES
    persistent,      \* which of the two headers
    heap,            \* [min, max, keymap, prio]
    damaged          \* the vectors fell behind keymap, a priority wrapped, or an exception

vars == <<persistent, heap, damaged>>

Init ==
    /\ persistent \in BOOLEAN
    /\ heap = [min |-> <<>>, max |-> <<>>, keymap |-> <<>>, prio |-> <<>>]
    /\ damaged = FALSE

-----------------------------------------------------------------------------
right_child(i) == 2 * i + 1
left_child(i) == 2 * i + 2
parent_of(i) == i \div 2

gtol(g) == IF g < minheap_size THEN g ELSE g - minheap_size
global(t, i) == IF t = "min" THEN i ELSE i + minheap_size

at(h, t, i) == h[t][i + 1]
Prio(h, t, i) == h.prio[at(h, t, i)]

\* Element i of heap t belongs above element j.
Above(h, t, i, j) ==
    IF t = "min" THEN Prio(h, t, i) < Prio(h, t, j) ELSE Prio(h, t, i) > Prio(h, t, j)

Set(f, k, x) == [j \in DOMAIN f \cup {k} |-> IF j = k THEN x ELSE f[j]]

\* Slip: keymap is told of one of the two elements only.
swap_one(h, t, i, j) ==
    [h EXCEPT ![t][i + 1] = at(h, t, j), ![t][j + 1] = at(h, t, i),
              !.keymap = Set(@, at(h, t, i), global(t, j))]

swap(h, t, i, j) ==
    [h EXCEPT ![t][i + 1] = at(h, t, j), ![t][j + 1] = at(h, t, i),
              !.keymap = Set(Set(@, at(h, t, i), global(t, j)), at(h, t, j), global(t, i))]

\* The loop that moves an element towards the root.
RECURSIVE sift_up(_, _, _)
sift_up(h, t, i) ==
    IF i > 0 /\ Above(h, t, i, parent_of(i))
    THEN sift_up(swap(h, t, i, parent_of(i)), t, parent_of(i))
    ELSE h

\* Slip: only one of the two children is looked at.
heapify_one(h, t, i) ==
    IF right_child(i) < Len(h[t]) /\ Above(h, t, right_child(i), i)
    THEN swap(h, t, right_child(i), i) ELSE h

\* max_heapify and min_heapify.
RECURSIVE heapify(_, _, _)
heapify(h, t, i) ==
    LET r == right_child(i)
        l == left_child(i)
        a == IF r < Len(h[t]) /\ Above(h, t, r, i) THEN r ELSE i
        b == IF l < Len(h[t]) /\ Above(h, t, l, a) THEN l ELSE a
    IN  IF b # i THEN heapify(swap(h, t, b, i), t, b) ELSE h

\* The roots of the two heaps change places.
Exchange(h) ==
    LET low == at(h, "min", 0)  high == at(h, "max", 0) IN
    [h EXCEPT !.min[1] = high, !.max[1] = low,
              !.keymap = Set(Set(@, low, global("max", 0)), high, global("min", 0))]

Crossed(h) == Prio(h, "max", 0) > Prio(h, "min", 0)

-----------------------------------------------------------------------------
\* Raised and Lowered: up to the comparison of the roots.
Raised(h, k, d) ==
    LET g == h.keymap[k]  h1 == [h EXCEPT !.prio[k] = @ + d] IN
    IF g < minheap_size THEN heapify(h1, "min", g) ELSE sift_up(h1, "max", gtol(g))

Lowered(h, k, d) ==
    LET g == h.keymap[k]  h1 == [h EXCEPT !.prio[k] = @ - d] IN
    IF g < minheap_size THEN sift_up(h1, "min", g) ELSE heapify(h1, "max", gtol(g))

increase_prio(h, k, d) ==
    LET r == Raised(h, k, d) IN
    IF h.keymap[k] >= minheap_size /\ Crossed(r) THEN heapify(Exchange(r), "min", 0) ELSE r

decrease_prio(h, k, d) ==
    LET r == Lowered(h, k, d) IN
    IF h.keymap[k] < minheap_size /\ Crossed(r) THEN heapify(Exchange(r), "max", 0) ELSE r

insert(h, k, p) ==
    LET h1 == [h EXCEPT !.prio = Set(@, k, p)]
        Push(g, t, x) == LET n == Len(g[t]) IN
            sift_up([g EXCEPT ![t] = Append(@, x), !.keymap = Set(@, x, global(t, n))], t, n)
    IN  IF Len(h.min) < minheap_size THEN Push(h1, "min", k)
        ELSE IF Prio(h, "min", 0) > p THEN Push(h1, "max", k)
        ELSE LET h2 == Push(h1, "max", at(h, "min", 0)) IN
             heapify([h2 EXCEPT !.min[1] = k, !.keymap = Set(@, k, global("min", 0))], "min", 0)

-----------------------------------------------------------------------------
\* Two paths return without commit(): the roots are not exchanged after an
\* element of the one heap rose in it.
Return(new, committed) ==
    /\ heap' = IF committed \/ ~persistent THEN new
               ELSE [new EXCEPT !.min = heap.min, !.max = heap.max]
    /\ damaged' = (heap'.min # new.min \/ heap'.max # new.max)
    /\ UNCHANGED persistent

Known(k) == ~damaged /\ k \in DOMAIN heap.keymap

IncreasePrio(k, d) ==
    /\ Known(k) /\ heap.prio[k] + d <= MaxPrio
    /\ Return(increase_prio(heap, k, d),
              heap.keymap[k] < minheap_size \/ Crossed(Raised(heap, k, d)))

\* A priority is not guarded against zero, and max_elems->at(0) throws when
\* all elements are in the top.
DecreasePrio(k, d) ==
    /\ Known(k)
    /\ \/ /\ d <= heap.prio[k] /\ (heap.keymap[k] < minheap_size => heap.max # <<>>)
          /\ Return(decrease_prio(heap, k, d),
                    heap.keymap[k] >= minheap_size \/ Crossed(Lowered(heap, k, d)))
       \/ /\ d > heap.prio[k] \/ (heap.keymap[k] < minheap_size /\ heap.max = <<>>)
          /\ damaged' = TRUE
          /\ UNCHANGED <<heap, persistent>>

\* A key is inserted once.  Keys are told apart and never compared, so any new
\* one will do.
Insert(p) ==
    LET New == Id \ DOMAIN heap.keymap IN
    /\ ~damaged /\ New # {}
    /\ Return(insert(heap, CHOOSE k \in New : TRUE, p), TRUE)

Next ==
    \/ \E k \in Id, d \in 1..MaxPrio : IncreasePrio(k, d) \/ DecreasePrio(k, d)
    \/ \E p \in 0..MaxPrio : Insert(p)

Spec == Init /\ [][Next]_vars

-----------------------------------------------------------------------------
Places == [t : {"min", "max"}, i : 0..10]
Filled == {p \in Places : p.i < Len(heap[p.t])}

\* Every key that was inserted is in one place of the two heaps, and keymap
\* says which, whatever was moved between and within them.
KeymapIsExact ==
    ~damaged =>
        /\ \A p \in Filled : heap.keymap[at(heap, p.t, p.i)] = global(p.t, p.i)
        /\ \A k \in DOMAIN heap.keymap : \E p \in Filled : at(heap, p.t, p.i) = k

\* read_topK gives the elements of the highest priorities.  This holds while
\* neither heap has more than four elements: parent_of is not the inverse of
\* the two child functions, and from the fifth on a root need not be extreme.
TopK ==
    ~damaged /\ Len(heap.min) <= 4 /\ Len(heap.max) <= 4 =>
        \A i \in 0..(Len(heap.min) - 1), j \in 0..(Len(heap.max) - 1) :
            Prio(heap, "min", i) >= Prio(heap, "max", j)
=============================================================================
