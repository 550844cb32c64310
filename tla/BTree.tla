------------------------------- MODULE BTree -------------------------------
(***************************************************************************)
(* The persistent B-tree (b_tree_base in                                   *)
(* pmemds/include/tree/btree/persistent_b_tree.h) behind BTreeEngine: put  *)
(* with the splits it takes, crashes anywhere, and the repair of a split   *)
(* that a crash interrupted (garbage_collection).                          *)
(*                                                                         *)
(* One action is one durable step: an allocation that sets a persistent    *)
(* pointer, a pointer that is stored and persisted, a transaction.  An     *)
(* insert into a leaf with room is one step, as module LeafNode shows of   *)
(* its pieces.  Only the repair's "split_node = nullptr" is not persisted, *)
(* so split_node also has a durable copy.                                  *)
(*                                                                         *)
(* Entries are their keys.  A node's keys are a set, its middle the key    *)
(* that has half of the others below it.                                   *)
(***************************************************************************)
EXTENDS Integers, FiniteSets, FiniteSetsExt, Sequences

CONSTANTS
    Keys,                \* a set of integers
    slots,               \* number_entrys_slots
    MaxNodes,            \* bound: nodes in the pool at a time
    MaxFailures          \* bound: crashes

VARIABLES
    nodes,               \* the nodes in the pool, by address
    root, split_node, left_child, right_child,
    split_nvm,           \* the durable split_node
    step,                \* the durable step to take next, for which key, at which level
    put, tried,          \* the keys whose put has returned; has begun
    fresh,               \* the children allocated in the split at hand
    misled,              \* repair took another node for one of them
    failures

vars == <<nodes, root, split_node, left_child, right_child, split_nvm, step, put, tried,
          fresh, misled, failures>>

nullptr == 0
Idle == [pc |-> "idle", key |-> 0, level |-> 0, repair |-> FALSE]

Init ==
    /\ nodes = <<>> /\ root = nullptr /\ split_node = nullptr
    /\ left_child = nullptr /\ right_child = nullptr /\ split_nvm = nullptr
    /\ step = Idle /\ put = {} /\ tried = {} /\ fresh = {}
    /\ misled = FALSE /\ failures = 0

-----------------------------------------------------------------------------
leaf(n) == nodes[n].level = 0
full(n) == Cardinality(nodes[n].keys) = slots

\* The number of keys below k: where lower_bound puts it.
lower_bound(S, k) == Cardinality({s \in S : s < k})

get_child(n, k) == nodes[n].kids[1 + lower_bound(nodes[n].keys, k)]

\* The node at level l on the path to the leaf of k (find_leaf_to_insert).
path(k, l) ==
    LET on[i \in l..nodes[root].level] ==
            IF i = nodes[root].level THEN root ELSE get_child(on[i + 1], k)
    IN  on[l]

find(k) == root # nullptr /\ k \in nodes[path(k, 0)].keys

middle(S) == CHOOSE k \in S : lower_bound(S, k) = Cardinality(S) \div 2
Below(S, k) == {s \in S : s < k}

Address == CHOOSE n \in 1..MaxNodes : n \notin DOMAIN nodes /\ \A i \in 1..(n - 1) : i \in DOMAIN nodes
With(n, node) == [i \in DOMAIN nodes \cup {n} |-> IF i = n THEN node ELSE nodes[i]]
Without(n) == [i \in DOMAIN nodes \ {n} |-> nodes[i]]

Leaf(S, p, n) == [level |-> 0, keys |-> S, kids |-> <<>>, prev |-> p, next |-> n]
Inner(l, S, c) == [level |-> l, keys |-> S, kids |-> c, prev |-> nullptr, next |-> nullptr]

Goto(pc) == step' = [step EXCEPT !.pc = pc]

-----------------------------------------------------------------------------
\* BTreeEngine::put, insert and insert_descend up to the first durable step.  A
\* key that is there only has its value replaced, in a transaction.
allocate_root(k) ==
    /\ root = nullptr
    /\ root' = Address /\ nodes' = With(Address, Leaf({}, nullptr, nullptr))
    /\ UNCHANGED <<step, put>>

update(k) ==
    /\ find(k)
    /\ put' = put \cup {k}
    /\ UNCHANGED <<nodes, root, step>>

insert(k) ==
    /\ root # nullptr /\ ~find(k) /\ ~full(path(k, 0))
    /\ nodes' = [nodes EXCEPT ![path(k, 0)].keys = @ \cup {k}]
    /\ put' = put \cup {k}
    /\ UNCHANGED <<root, step>>

\* find_full_node: the highest level to split is the one below the lowest
\* inner node with room, or that of the root.
FirstSplit(k) ==
    LET top == nodes[root].level
        room == {l \in 1..top : ~full(path(k, l))}
    IN  IF room = {} THEN top ELSE Min(room) - 1

insert_descend(k) ==
    /\ root # nullptr /\ ~find(k) /\ full(path(k, 0))
    /\ step' = [pc |-> "assign", key |-> k, level |-> FirstSplit(k), repair |-> FALSE]
    /\ UNCHANGED <<nodes, root, put>>

Put(k) ==
    /\ step = Idle /\ k \notin put
    /\ tried' = tried \cup {k}
    /\ allocate_root(k) \/ update(k) \/ insert(k) \/ insert_descend(k)
    /\ UNCHANGED <<split_node, left_child, right_child, split_nvm, fresh, misled, failures>>

-----------------------------------------------------------------------------
\* split_inner_node and split_leaf_node.
Assign ==
    /\ step.pc = "assign"
    /\ split_node' = path(step.key, step.level) /\ split_nvm' = split_node'
    /\ fresh' = {}
    /\ Goto("left")
    /\ UNCHANGED <<nodes, root, left_child, right_child, put, tried, misled, failures>>

\* The two halves.  The new entry goes into one of the leaves.  An inner node's
\* middle key goes into neither.
LeftHalf ==
    LET s == nodes[split_node]  m == middle(s.keys) IN
    IF s.level = 0
    THEN Leaf(Below(s.keys \cup {step.key}, m), s.prev, nullptr)
    ELSE Inner(s.level, Below(s.keys, m), SubSeq(s.kids, 1, Cardinality(Below(s.keys, m)) + 1))


RightHalf ==
    LET s == nodes[split_node]  m == middle(s.keys) IN
    IF s.level = 0
    THEN Leaf((s.keys \cup {step.key}) \ Below(s.keys \cup {step.key}, m), left_child, s.next)
    ELSE Inner(s.level, s.keys \ (Below(s.keys, m) \cup {m}),
               SubSeq(s.kids, Cardinality(Below(s.keys, m)) + 2, Len(s.kids)))

AllocateLeft ==
    /\ step.pc = "left"
    /\ left_child' = Address /\ nodes' = With(Address, LeftHalf)
    /\ fresh' = {left_child'}
    /\ Goto("right")
    /\ UNCHANGED <<root, split_node, right_child, split_nvm, put, tried, misled, failures>>

AllocateRight ==
    /\ step.pc = "right"
    /\ right_child' = Address /\ nodes' = With(Address, RightHalf)
    /\ fresh' = fresh \cup {right_child'}
    /\ Goto(IF leaf(split_node) THEN "link" ELSE "publish")
    /\ UNCHANGED <<root, split_node, left_child, split_nvm, put, tried, misled, failures>>

\* Slip: the leaf after the split one keeps its link back.
Link_forward ==
    /\ step.pc \in {"link", "link prev", "link next"}
    /\ \/ /\ step.pc = "link" /\ Goto("link prev")
          /\ nodes' = [nodes EXCEPT ![left_child].next = right_child]
       \/ /\ step.pc = "link prev" /\ Goto("publish")
          /\ nodes' = IF nodes[split_node].prev = nullptr THEN nodes
                      ELSE [nodes EXCEPT ![nodes[split_node].prev].next = left_child]
    /\ UNCHANGED <<root, split_node, left_child, right_child, split_nvm, put, tried, fresh,
                   misled, failures>>

\* The left leaf's next, then correct_leaf_node_links.
Link ==
    /\ step.pc \in {"link", "link prev", "link next"}
    /\ LET s == nodes[split_node] IN
       \/ /\ step.pc = "link" /\ Goto("link prev")
          /\ nodes' = [nodes EXCEPT ![left_child].next = right_child]
       \/ /\ step.pc = "link prev" /\ Goto("link next")
          /\ nodes' = IF s.prev = nullptr THEN nodes
                      ELSE [nodes EXCEPT ![s.prev].next = left_child]
       \/ /\ step.pc = "link next" /\ Goto("publish")
          /\ nodes' = IF s.next = nullptr THEN nodes
                      ELSE [nodes EXCEPT ![s.next].prev = right_child]
    /\ UNCHANGED <<root, split_node, left_child, right_child, split_nvm, put, tried, fresh,
                   misled, failures>>

\* The key that will separate the two halves, and the parent on its path.
Separator ==
    IF leaf(split_node) THEN Max(nodes[left_child].keys) ELSE middle(nodes[split_node].keys)

parent_node == path(step.key, step.level + 1)
Place == 1 + lower_bound(nodes[parent_node].keys, Separator)

create_new_root ==
    /\ split_node = root
    /\ root' = Address
    /\ nodes' = With(Address, Inner(nodes[root].level + 1, {Separator}, <<left_child, right_child>>))

update_splitted_child ==
    /\ split_node # root
    /\ LET kids == nodes[parent_node].kids IN
       nodes' = [nodes EXCEPT
           ![parent_node].keys = @ \cup {Separator},
           ![parent_node].kids = SubSeq(kids, 1, Place - 1) \o <<left_child, right_child>> \o
                                 SubSeq(kids, Place + 1, Len(kids))]
    /\ UNCHANGED root

Publish ==
    /\ step.pc = "publish"
    /\ create_new_root \/ update_splitted_child
    /\ Goto("free")
    /\ UNCHANGED <<split_node, left_child, right_child, split_nvm, put, tried, fresh, misled,
                   failures>>

\* deallocate(split_node), a transaction; then the next level's split, or the
\* put returns.
Deallocate ==
    /\ step.pc = "free" /\ ~step.repair
    /\ nodes' = Without(split_node) /\ split_node' = nullptr /\ split_nvm' = nullptr
    /\ IF step.level = 0
       THEN step' = Idle /\ put' = put \cup {step.key}
       ELSE step' = [step EXCEPT !.pc = "assign", !.level = @ - 1] /\ UNCHANGED put
    /\ UNCHANGED <<root, left_child, right_child, tried, fresh, misled, failures>>

-----------------------------------------------------------------------------
Crash ==
    /\ failures < MaxFailures /\ step.pc # "misled"
    /\ failures' = failures + 1
    /\ split_node' \in {split_node, split_nvm} /\ split_nvm' = split_node'
    /\ step' = [Idle EXCEPT !.pc = "recover"]
    /\ UNCHANGED <<nodes, root, left_child, right_child, put, tried, fresh, misled>>

\* Whether split_node is still in the tree.
InTree == path(Max(nodes[split_node].keys), nodes[split_node].level) = split_node

\* is_left_node and is_right_node.  An inner node's bytes read as a leaf give
\* either answer.
is_left_node(b) ==
    IF leaf(left_child)
    THEN b = (Below(nodes[split_node].keys, middle(nodes[split_node].keys))
                \subseteq nodes[left_child].keys)
    ELSE b \in BOOLEAN

is_right_node(b) ==
    IF leaf(right_child)
    THEN b = (nodes[split_node].keys \ Below(nodes[split_node].keys, middle(nodes[split_node].keys))
                \subseteq nodes[right_child].keys)
    ELSE b \in BOOLEAN

\* Repair uses child as one that the interrupted split allocated.  What follows
\* when it is another one is not modelled.
Believe(children, pc) ==
    /\ misled' = ~(children \subseteq fresh)
    /\ step' = [pc |-> IF misled' THEN "misled" ELSE pc, key |-> Max(nodes[split_node].keys),
                level |-> nodes[split_node].level, repair |-> TRUE]

\* split_node = nullptr.
Forget == split_node' = nullptr /\ UNCHANGED split_nvm

\* std::equal on half of an inner node's keys and as many of another's.
Starts(S, n) == \A k \in S :
    \E j \in nodes[n].keys : j = k /\ lower_bound(nodes[n].keys, j) = lower_bound(S, k)

repair_leaf_split ==
    /\ leaf(split_node)
    /\ UNCHANGED <<root, right_child>>
    /\ \/ /\ leaf(root)   \* assert( path[0] == root ) of an empty path
          /\ Goto("aborted")
          /\ UNCHANGED <<nodes, split_node, left_child, split_nvm, misled>>
       \/ /\ InTree /\ left_child # nullptr /\ is_left_node(TRUE)
          /\ right_child # nullptr /\ is_right_node(TRUE)
          /\ Believe({left_child, right_child}, "link")
          /\ UNCHANGED <<nodes, split_node, left_child, split_nvm>>
       \/ /\ InTree /\ left_child # nullptr /\ is_left_node(TRUE)
          /\ right_child # nullptr => is_right_node(FALSE)
          /\ Believe({left_child}, "forget")
          /\ nodes' = Without(left_child) /\ left_child' = nullptr
          /\ UNCHANGED <<split_node, split_nvm>>
       \/ /\ InTree /\ (left_child # nullptr => is_left_node(FALSE))
          /\ Goto("forget")
          /\ UNCHANGED <<nodes, left_child, split_node, split_nvm, misled>>
       \/ /\ ~InTree
          /\ nodes' = Without(split_node) /\ split_node' = nullptr /\ split_nvm' = nullptr
          /\ Goto("forget")
          /\ UNCHANGED <<left_child, misled>>

\* A roll back: the left child first.
repair_inner_split ==
    /\ ~leaf(split_node)
    /\ UNCHANGED <<root, right_child>>
    /\ LET S == nodes[split_node].keys
           isLeft == left_child # nullptr /\ ~leaf(left_child) /\ Starts(Below(S, middle(S)), left_child)
       IN
       \/ /\ InTree /\ isLeft
          /\ Believe({left_child}, "undo right")
          /\ nodes' = Without(left_child) /\ left_child' = nullptr
          /\ UNCHANGED <<split_node, split_nvm>>
       \/ /\ InTree /\ ~isLeft
          /\ Goto("undo right")
          /\ UNCHANGED <<nodes, left_child, split_node, split_nvm, misled>>
       \/ /\ ~InTree
          /\ nodes' = Without(split_node) /\ split_node' = nullptr /\ split_nvm' = nullptr
          /\ Goto("forget")
          /\ UNCHANGED <<left_child, misled>>

garbage_collection ==
    /\ step.pc = "recover"
    /\ \/ split_node = nullptr /\ step' = Idle
          /\ UNCHANGED <<nodes, root, split_node, left_child, right_child, split_nvm, misled>>
       \/ split_node # nullptr /\ (repair_leaf_split \/ repair_inner_split)
    /\ UNCHANGED <<put, tried, fresh, failures>>

UndoRight ==
    /\ step.pc = "undo right"
    /\ LET S == nodes[split_node].keys
           isRight == right_child # nullptr /\ ~leaf(right_child) /\
                      Starts(S \ (Below(S, middle(S)) \cup {middle(S)}), right_child)
       IN
       \/ /\ isRight
          /\ Believe({right_child}, "forget")
          /\ nodes' = Without(right_child) /\ right_child' = nullptr
       \/ /\ ~isRight
          /\ Goto("forget")
          /\ UNCHANGED <<nodes, right_child, misled>>
    /\ UNCHANGED <<root, split_node, left_child, split_nvm, put, tried, fresh, failures>>

\* The end of a repair, one that went on with the split included.
Repaired ==
    /\ step.pc = "forget" \/ (step.pc = "free" /\ step.repair)
    /\ Forget
    /\ step' = Idle
    /\ UNCHANGED <<nodes, root, left_child, right_child, put, tried, fresh, misled, failures>>

Next ==
    \/ \E k \in Keys : Put(k)
    \/ Assign \/ AllocateLeft \/ AllocateRight \/ Link \/ Publish \/ Deallocate
    \/ Crash \/ garbage_collection \/ UndoRight \/ Repaired

Spec == Init /\ [][Next]_vars

-----------------------------------------------------------------------------

\* The leaf of each key, as the tree has them.
LeafOf == [k \in Keys |-> path(k, 0)]

\* Between operations the leaves are chained in the order of their keys, so
\* that an iterator sees each once in either direction.  And a split, run
\* through or repaired, replaces the node it split: its parent has room and has
\* it at the separator's place, as update_splitted_child asserts.
SplitKeepsOrder ==
    /\ step = Idle /\ root # nullptr =>
         LET at == LeafOf
             Leaves == {at[k] : k \in Keys}
             Order(m, n) == m # n /\ \E a, b \in Keys : a < b /\ at[a] = m /\ at[b] = n
             After(n) == {m \in Leaves : Order(n, m)}
         IN  \A n \in Leaves :
               /\ After(n) = {} <=> nodes[n].next = nullptr
               /\ After(n) # {} =>
                    LET s == nodes[n].next IN
                    s \in After(n) /\ nodes[s].prev = n /\ \A m \in After(n) : ~Order(m, s)
    /\ step.pc = "publish" /\ split_node # root =>
         ~full(parent_node) /\ nodes[parent_node].kids[Place] = split_node

\* What the comments of repair_leaf_split say of the nodes it takes: "Both
\* children were allcoated during split before crash", "Only left child was
\* allocated during split before crash".
RepairsItsOwnSplit == ~misled
=============================================================================
