------------------------------ MODULE MCPmemds ------------------------------
(***************************************************************************)
(* The persistent data structures for TLC.  The five modules share no      *)
(* state, so a behaviour is one of one of them: "part" says which, and the *)
(* states of the run are the sum of theirs.                                *)
(***************************************************************************)
EXTENDS Pmemds

CONSTANTS LeafKey, number_entrys_slots, MaxCrashes,
          Keys, slots, MaxNodes, MaxFailures,
          Value, max_size, MaxOps, MaxFaults,
          Id, minheap_size, MaxPrio

VARIABLES
    part,
    mem, nvm, op, before, after, crashes, repeated,
    nodes, root, split_node, left_child, right_child, split_nvm, step, put, tried, fresh, misled,
    failures,
    cells, durable, v, saved, log, code, contents, result, loose, torn, ops, faults,
    persistent, heap, damaged

L == INSTANCE LeafNode WITH Key <- LeafKey
T == INSTANCE BTree
V == INSTANCE PersistentVector WITH mem <- cells, nvm <- durable
Q == INSTANCE PriorityQueue

leafVars == <<mem, nvm, op, before, after, crashes, repeated>>
treeVars == <<nodes, root, split_node, left_child, right_child, split_nvm, step, put, tried, fresh,
              misled, failures>>
vectorVars == <<cells, durable, v, saved, log, code, contents, result, loose, torn, ops, faults>>
queueVars == <<persistent, heap, damaged>>
allVars == <<part, leafVars, treeVars, vectorVars, queueVars, vars>>

\* The queue's choice of header is made where the queue is the part.
MCInit ==
    /\ part \in {"leaf", "tree", "vector", "queue", "lib"}
    /\ L!Init /\ T!Init /\ V!Init /\ Q!Init /\ Init
    /\ persistent => part = "queue"

MCNext ==
    /\ UNCHANGED part
    /\ \/ part = "leaf" /\ L!Next /\ UNCHANGED <<treeVars, vectorVars, queueVars, vars>>
       \/ part = "tree" /\ T!Next /\ UNCHANGED <<leafVars, vectorVars, queueVars, vars>>
       \/ part = "vector" /\ V!Next /\ UNCHANGED <<leafVars, treeVars, queueVars, vars>>
       \/ part = "queue" /\ Q!Next /\ UNCHANGED <<leafVars, treeVars, vectorVars, vars>>
       \/ part = "lib" /\ Next /\ UNCHANGED <<leafVars, treeVars, vectorVars, queueVars>>

MCSpec == MCInit /\ [][MCNext]_allVars

\* LeafNode: an insert or erase of a B-tree leaf is atomic under crashes.
LeafIsAtomic == L!LeafIsAtomic


\* BTree: the leaves stay chained in order, and a split fits its parent.
SplitKeepsOrder == T!SplitKeepsOrder


\* PriorityQueue: keymap gives the place of every key.
KeymapIsExact == Q!KeymapIsExact

\* PriorityQueue: read_topK gives the highest priorities.
TopK == Q!TopK
=============================================================================
