------------------------------- MODULE TreeOps -------------------------------
(* The functions of data_structures/bin_tree.c on a tree t: a record of its  *)
(* root and its nodes, the slots of the array up to tree->end.  A pointer to *)
(* a node is the number of its slot.  rebalance is not modelled: its only    *)
(* call is commented out (bin_tree.c:87).  Nor is bin_tree_rotate, which only *)
(* rebalance and test.c call.  The field level is left out, it is only       *)
(* printed.                                                                  *)
EXTENDS Integers, FiniteSets

NULL == -1

Fault == -2  \* the answer of a lookup that follows a NULL pointer

EndOf(t) == Cardinality(DOMAIN t.nodes) - 1

Nodes(t) == DOMAIN t.nodes

Leaf(val, header, at) == [value |-> val, header |-> header, balance |-> 0,
                          parent |-> at, left |-> NULL, right |-> NULL]

-----------------------------------------------------------------------------
(* Insertion and lookup *)

(* The child to which bin_tree_insert_helper goes on from node n. *)
Toward(t, n, val) == IF t.nodes[n].value < val THEN t.nodes[n].right
                                               ELSE t.nodes[n].left

(* The node below which bin_tree_insert_helper puts the new leaf. *)
InsertionPoint(t, val) ==
    LET from[n \in Nodes(t)] ==
            IF Toward(t, n, val) = NULL THEN n ELSE from[Toward(t, n, val)]
    IN  from[t.root]

(* The parent of a new leaf: a value that is not smaller goes to its right,  *)
(* whatever is there.                                                        *)
WithLeaf(node, val, leaf) ==
    IF val < node.value
    THEN [node EXCEPT !.left  = leaf, !.balance = @ - 1]
    ELSE [node EXCEPT !.right = leaf, !.balance = @ + 1]

PutLeaf(t, at, val, header) ==
    LET leaf == EndOf(t) + 1
    IN  [root  |-> t.root,
         nodes |-> [n \in Nodes(t) \cup {leaf} |->
                      CASE n = leaf -> Leaf(val, header, at)
                        [] n = at   -> WithLeaf(t.nodes[n], val, leaf)
                        [] OTHER    -> t.nodes[n]]]

Inserted(t, val, header) ==
    IF t.root = NULL
    THEN [root  |-> 0,
          nodes |-> [n \in Nodes(t) \cup {EndOf(t) + 1} |->
                       IF n = 0 THEN Leaf(val, header, NULL) ELSE t.nodes[n]]]
    ELSE PutLeaf(t, InsertionPoint(t, val), val, header)

(* A value equal to that of a node that has a right child and no left one    *)
(* becomes the right child itself, and cuts the old one off.                 *)
CutsSubtree(t, val) ==
    /\ t.root # NULL
    /\ LET at == t.nodes[InsertionPoint(t, val)]
       IN  val = at.value /\ at.right # NULL

\* Mutant: a value that fits exactly is passed over.
BestFitLookup_TooLarge(t, val) ==
    LET below[n \in Nodes(t) \cup {NULL}] ==
            IF n = NULL THEN NULL
            ELSE IF t.nodes[n].value > val
                 THEN IF below[t.nodes[n].left] # NULL
                      THEN below[t.nodes[n].left] ELSE n
                 ELSE below[t.nodes[n].right]
    IN  below[t.root]

BestFitLookup(t, val) ==
    LET below[n \in Nodes(t) \cup {NULL}] ==
            IF n = NULL THEN NULL
            ELSE IF t.nodes[n].value >= val
                 THEN IF below[t.nodes[n].left] # NULL
                      THEN below[t.nodes[n].left] ELSE n
                 ELSE below[t.nodes[n].right]
    IN  below[t.root]

(* The exact search tests the nodes it goes on to, and not the root. *)
ExactLookup(t, val) ==
    LET below[n \in Nodes(t) \cup {NULL}] ==
            IF n = NULL \/ t.nodes[n].value = val THEN n
                                                  ELSE below[Toward(t, n, val)]
    IN  IF t.root = NULL THEN Fault ELSE below[t.root]

-----------------------------------------------------------------------------
(* Removal *)

\* Mutant: the header is not copied.
NodeCopy_KeepsHeader(t, source, target) ==
    [root  |-> IF t.root = source THEN target ELSE t.root,
     nodes |-> [t.nodes EXCEPT ![target] =
                  [t.nodes[source] EXCEPT !.header = t.nodes[target].header]]]

NodeCopy(t, source, target) ==
    [root  |-> IF t.root = source THEN target ELSE t.root,
     nodes |-> [t.nodes EXCEPT ![target] = t.nodes[source]]]

\* Mutant: the children of the moved node keep its old slot.
Relinked_ChildrenForgotten(t, end, n) ==
    [t EXCEPT !.nodes = [m \in Nodes(t) |->
        IF m # t.nodes[end].parent THEN t.nodes[m]
        ELSE [t.nodes[m] EXCEPT !.left  = IF @ = end THEN n ELSE @,
                                !.right = IF @ = end THEN n ELSE @]]]

(* The links to a node that has been copied from slot end to slot n. *)
Relinked(t, end, n) ==
    LET node == t.nodes[end]
        Renamed(m) == IF m = end THEN n ELSE m
    IN  [t EXCEPT !.nodes = [m \in Nodes(t) |->
            [t.nodes[m] EXCEPT
               !.left   = IF m = node.parent THEN Renamed(@) ELSE @,
               !.right  = IF m = node.parent THEN Renamed(@) ELSE @,
               !.parent = IF m \in {node.left, node.right} THEN n ELSE @]]]

\* Mutant: the last node is not moved.
Erased_LeavesHole(t, n) ==
    [t EXCEPT !.nodes = [m \in Nodes(t) \ {n} |-> t.nodes[m]]]

(* bin_tree_erase: the last node fills the slot of the one that goes. *)
Erased(t, n) ==
    LET end == EndOf(t)
        u == IF n = end THEN t ELSE Relinked(NodeCopy(t, end, n), end, n)
    IN  [root  |-> u.root,
         nodes |-> [m \in Nodes(t) \ {end} |-> u.nodes[m]]]

(* A node without a left or without a right child gives its place to the     *)
(* other child.                                                              *)
Detached(t, n) ==
    LET node == t.nodes[n]
        replacement == IF node.left = NULL THEN node.right ELSE node.left
    IN  [root  |-> IF node.parent = NULL THEN replacement ELSE t.root,
         nodes |-> [m \in Nodes(t) |->
            LET k == t.nodes[m]
            IN  [k EXCEPT
                   !.parent = IF m = replacement THEN node.parent ELSE @,
                   !.left   = IF m = node.parent /\ @ = n
                              THEN replacement ELSE @,
                   !.right  = IF m = node.parent /\ k.left # n
                              THEN replacement ELSE @]]]

HasTwoChildren(t, n) == t.nodes[n].left # NULL /\ t.nodes[n].right # NULL

\* Mutant: the search goes right on both sides.
Neighbour_FarEnd(t, n) ==
    LET rightmost[m \in Nodes(t)] ==
            IF t.nodes[m].right = NULL THEN m ELSE rightmost[t.nodes[m].right]
    IN  IF t.nodes[n].balance > 0 THEN rightmost[t.nodes[n].right]
                                  ELSE rightmost[t.nodes[n].left]

(* The node next in order on the heavier side. *)
Neighbour(t, n) ==
    LET leftmost[m \in Nodes(t)] ==
            IF t.nodes[m].left = NULL THEN m ELSE leftmost[t.nodes[m].left]
        rightmost[m \in Nodes(t)] ==
            IF t.nodes[m].right = NULL THEN m ELSE rightmost[t.nodes[m].right]
    IN  IF t.nodes[n].balance > 0 THEN leftmost[t.nodes[n].right]
                                  ELSE rightmost[t.nodes[n].left]

\* Mutant: the node that stays keeps its value.
Removed_ValueStays(t, n) ==
    LET m == IF HasTwoChildren(t, n) THEN Neighbour(t, n) ELSE n
    IN  Erased(Detached(t, m), m)

(* A node with two children takes the value of its neighbour, which goes. *)
Removed(t, n) ==
    IF HasTwoChildren(t, n)
    THEN LET m == Neighbour(t, n)
             u == [t EXCEPT !.nodes[n].value = t.nodes[m].value]
         IN  Erased(Detached(u, m), m)
    ELSE Erased(Detached(t, n), n)

=============================================================================
