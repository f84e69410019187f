------------------------------ MODULE BinTree -------------------------------
(* data_structures/bin_tree.c: a binary search tree whose nodes are the      *)
(* first slots of one array.  Inserting takes the next slot; removing moves  *)
(* the node of the last slot into the one that has become free, and mends    *)
(* the links to it.  A header is told by the value it came with.             *)
EXTENDS TreeOps

CONSTANTS
    Values,      \* the keys
    MaxSize,     \* max_size, the slots of the array: no operation tests it
    MaxBalance   \* bound on a node's balance, which no removal brings back

TreeAssumption == /\ Values \subseteq Nat
                  /\ MaxSize \in Nat \ {0}
                  /\ MaxBalance \in Nat \ {0}
ASSUME TreeAssumption

VARIABLES
    tree,    \* root, and the nodes of the slots up to tree->end
    moved,   \* history: a node with two children has been removed
    cut,     \* history: an insertion has cut a subtree off
    request  \* history: the last request, as in KeyBag

treeVars == <<tree, moved, cut, request>>

TreeInit == /\ \E val \in Values :
               /\ tree = [root |-> 0, nodes |-> [n \in {0} |-> Leaf(val, val, NULL)]]
               /\ request = <<"add", val>>
            /\ moved = FALSE
            /\ cut = FALSE

-----------------------------------------------------------------------------
(* heap.c inserts and removes.  What it can do to the nodes lost in          *)
(* CutsSubtree is not followed.                                              *)

Insert(val) ==
    /\ ~ cut
    /\ EndOf(tree) + 1 < MaxSize
    /\ tree' = Inserted(tree, val, val)
    /\ \A n \in Nodes(tree') : tree'.nodes[n].balance \in -MaxBalance .. MaxBalance
    /\ cut' = CutsSubtree(tree, val)
    /\ request' = <<"add", val>>
    /\ UNCHANGED moved

Remove(n) ==
    /\ ~ cut
    /\ tree' = Removed(tree, n)
    /\ request' = <<"drop", tree.nodes[n].value>>
    /\ moved' = (moved \/ HasTwoChildren(tree, n))
    /\ UNCHANGED cut

TreeNext == \/ \E val \in Values : Insert(val)
            \/ \E n \in Nodes(tree) : Remove(n)

TreeSpec == TreeInit /\ [][TreeNext]_treeVars

-----------------------------------------------------------------------------
(* Properties *)

Links == {NULL} \cup (0 .. MaxSize - 1)

(* The nodes fill the first slots of the array, and their links name nodes. *)
TreeTypeOK ==
    /\ Nodes(tree) = 0 .. EndOf(tree)
    /\ EndOf(tree) < MaxSize
    /\ tree.root \in Nodes(tree) \cup {NULL}
    /\ \A n \in Nodes(tree) :
          tree.nodes[n] \in [value : Values, header : Values, balance : Int,
                             parent : Links, left : Links, right : Links]

(* Node n and the nodes below it. *)
Subtree[n \in Nodes(tree) \cup {NULL}] ==
    IF n = NULL THEN {}
    ELSE {n} \cup Subtree[tree.nodes[n].left] \cup Subtree[tree.nodes[n].right]

(* Whatever is removed, and whichever node is moved into its slot: every     *)
(* slot in use is a node of the tree (bin_tree_erase loses none and leaves   *)
(* no link to the old slot), and parent and child links are each other's     *)
(* inverse.  Only the insertion of CutsSubtree loses nodes, and it does.     *)
LinksAgree ==
    /\ cut <=> Subtree[tree.root] # Nodes(tree)
    /\ ~ cut => \A n \in Nodes(tree) :
          LET node == tree.nodes[n] IN
          /\ (node.parent = NULL) <=> (n = tree.root)
          /\ node.left # NULL => tree.nodes[node.left].parent = n
          /\ node.right # NULL => tree.nodes[node.right].parent = n
          /\ node.left = node.right => node.left = NULL

(* The two lookups and the refill of a removed node rest on one order, which *)
(* equal values, removals on either side and moved nodes must all keep.      *)
SearchOrder ==
    \A n \in Nodes(tree) :
       /\ \A m \in Subtree[tree.nodes[n].left] :
             tree.nodes[m].value <= tree.nodes[n].value
       /\ \A m \in Subtree[tree.nodes[n].right] :
             tree.nodes[m].value >= tree.nodes[n].value

(* bin_tree_lookup finds a value that is there, and for a best fit the       *)
(* smallest value that is large enough: what heap_alloc asks for.  In a tree *)
(* that removals have emptied only the best fit may be looked for: the exact *)
(* search reads the value of a NULL root.                                    *)
LookupsFindTheirValue ==
    ~ cut => \A val \in Values :
       LET values == {tree.nodes[n].value : n \in Nodes(tree)}
           large == {v \in values : v >= val}
           fit == BestFitLookup(tree, val)
           exact == ExactLookup(tree, val)
       IN  /\ IF large = {} THEN fit = NULL
              ELSE /\ fit # NULL
                   /\ tree.nodes[fit].value \in large
                   /\ \A v \in large : tree.nodes[fit].value <= v
           /\ tree.root # NULL =>
                 IF val \in values
                 THEN exact \in Nodes(tree) /\ tree.nodes[exact].value = val
                 ELSE exact = NULL

(* A value is found with the header it was inserted with, until a node with  *)
(* two children is removed: bin_tree_remove moves the neighbour's value and  *)
(* not its header.                                                           *)
HeadersStayWithValues ==
    ~ moved => \A n \in Nodes(tree) :
                  tree.nodes[n].header = tree.nodes[n].value

(* The tree keeps a bag of values: an insertion adds one copy of its value,  *)
(* a removal takes one copy of the value of the node it was given, though it *)
(* may be another node that goes, and a third that is moved.                 *)
Bag == INSTANCE KeyBag WITH
          Keys <- Values,
          copies <- [v \in Values |->
                       Cardinality({n \in Nodes(tree) : tree.nodes[n].value = v})]

TreeIsABag == Bag!BagSpec
=============================================================================
