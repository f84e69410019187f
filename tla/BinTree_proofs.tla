--------------------------- MODULE BinTree_proofs ---------------------------
(***************************************************************************)
(* The binary search tree, for any keys and an array of any size: every    *)
(* slot in use is a node of the tree, whatever is removed and moved; the   *)
(* order that the lookups rest on is kept; and the tree keeps a bag.       *)
(*                                                                         *)
(* The nodes below a node are a set that the proof carries along, for the  *)
(* tree is known to be one by it: the set of a node is made of those of    *)
(* its children, which are apart and without it.                           *)
(***************************************************************************)
EXTENDS BinTree, Recursion, FiniteSetTheorems, FunctionTheorems

-----------------------------------------------------------------------------
(* Trees, by the functions of their nodes D: left, right and parent links,   *)
(* values, and the sets of the nodes at and below each.                      *)

Nested(D, left, right, sub) ==
    /\ NULL \notin D
    /\ left \in [D -> D \cup {NULL}] /\ right \in [D -> D \cup {NULL}]
    /\ sub \in [D \cup {NULL} -> SUBSET D]
    /\ sub[NULL] = {}
    /\ \A n \in D : /\ sub[n] = {n} \cup sub[left[n]] \cup sub[right[n]]
                    /\ n \notin sub[left[n]] /\ n \notin sub[right[n]]
                    /\ sub[left[n]] \cap sub[right[n]] = {}

Linked(D, left, right, parent, root) ==
    /\ root \in D \cup {NULL}
    /\ parent \in [D -> D \cup {NULL}]
    /\ \A n \in D :
          /\ (parent[n] = NULL) <=> (n = root)
          /\ left[n] # NULL => parent[left[n]] = n
          /\ right[n] # NULL => parent[right[n]] = n
          /\ left[n] = right[n] => left[n] = NULL
          /\ parent[n] # NULL => left[parent[n]] = n \/ right[parent[n]] = n

Sorted(D, left, right, value, sub) ==
    \A n \in D : /\ \A m \in sub[left[n]] : value[m] <= value[n]
                 /\ \A m \in sub[right[n]] : value[m] >= value[n]

\* The size of what is below a node is a measure of it.
LEMMA NestedIsForest ==
    ASSUME NEW D, IsFiniteSet(D), NEW left, NEW right, NEW sub,
           Nested(D, left, right, sub)
    PROVE  \E rank \in [D -> Nat], top \in Nat :
              IsForest(D, NULL, left, right, rank, top)
<1> DEFINE top == Cardinality(D)
           rank == [n \in D |-> Cardinality(sub[n])]
<1>1. /\ NULL \notin D
      /\ left \in [D -> D \cup {NULL}] /\ right \in [D -> D \cup {NULL}]
      /\ sub \in [D \cup {NULL} -> SUBSET D] /\ sub[NULL] = {}
      /\ \A n \in D : /\ sub[n] = {n} \cup sub[left[n]] \cup sub[right[n]]
                      /\ n \notin sub[left[n]] /\ n \notin sub[right[n]]
                      /\ sub[left[n]] \cap sub[right[n]] = {}
  BY DEF Nested
<1>2. \A n \in D : /\ sub[n] \in SUBSET D /\ IsFiniteSet(sub[n])
                   /\ Cardinality(sub[n]) \in Nat
                   /\ Cardinality(sub[n]) <= Cardinality(D)
  <2> TAKE n \in D
  <2>1. sub[n] \in SUBSET D
    BY <1>1
  <2>2. IsFiniteSet(sub[n]) /\ Cardinality(sub[n]) <= Cardinality(D)
    BY <2>1, FS_Subset
  <2>. QED BY <2>1, <2>2, FS_CardinalityType
<1>3. top \in Nat /\ rank \in [D -> 0 .. top] /\ rank \in [D -> Nat]
  BY <1>2, FS_CardinalityType
<1>4. ASSUME NEW n \in D, NEW m \in D, sub[m] \subseteq sub[n], n \notin sub[m]
      PROVE  rank[m] < rank[n]
  <2>1. sub[m] # sub[n]
    BY <1>1, <1>4
  <2>2. Cardinality(sub[m]) <= Cardinality(sub[n])
    BY <1>2, <1>4, FS_Subset
  <2>3. Cardinality(sub[n]) # Cardinality(sub[m])
    BY <1>2, <1>4, <2>1, FS_Subset
  <2>. QED BY <1>2, <2>2, <2>3
<1>5. \A n \in D : /\ left[n] # NULL => rank[left[n]] < rank[n]
                   /\ right[n] # NULL => rank[right[n]] < rank[n]
  BY <1>1, <1>4
<1>6. IsForest(D, NULL, left, right, rank, top)
  BY <1>1, <1>3, <1>5 DEF IsForest
<1>. QED BY <1>3, <1>6

\* What is below a node that is below another is below that.
LEMMA BelowBelow ==
    ASSUME NEW D, IsFiniteSet(D), NEW left, NEW right, NEW sub,
           Nested(D, left, right, sub), NEW n \in D, NEW m \in sub[n]
    PROVE  /\ m \in D /\ sub[m] \subseteq sub[n]
           /\ m # n => n \notin sub[m]
<1> DEFINE S == {k \in D : \A l \in sub[k] : /\ sub[l] \subseteq sub[k]
                                             /\ l # k => k \notin sub[l]}
<1>1. PICK rank \in [D -> Nat], top \in Nat : IsForest(D, NULL, left, right, rank, top)
  BY NestedIsForest
<1>2. /\ NULL \notin D
      /\ left \in [D -> D \cup {NULL}] /\ right \in [D -> D \cup {NULL}]
      /\ sub \in [D \cup {NULL} -> SUBSET D] /\ sub[NULL] = {}
      /\ \A k \in D : /\ sub[k] = {k} \cup sub[left[k]] \cup sub[right[k]]
                      /\ k \notin sub[left[k]] /\ k \notin sub[right[k]]
  BY DEF Nested
<1>3. ASSUME NEW k \in D, \A l \in D : rank[l] < rank[k] => l \in S PROVE k \in S
  <2>1. /\ left[k] # NULL => left[k] \in S
        /\ right[k] # NULL => right[k] \in S
    BY <1>1, <1>2, <1>3 DEF IsForest
  <2>2. ASSUME NEW l \in sub[k] PROVE sub[l] \subseteq sub[k] /\ (l # k => k \notin sub[l])
    <3>1. CASE l \in sub[left[k]]
      BY <1>2, <2>1, <3>1
    <3>2. CASE l \in sub[right[k]]
      BY <1>2, <2>1, <3>2
    <3>. QED BY <1>2, <3>1, <3>2
  <2>. QED BY <2>2
<1>4. D \subseteq S
  <2>. HIDE DEF S
  <2>. QED BY <1>3, RankInduction
<1>. QED BY <1>2, <1>4

-----------------------------------------------------------------------------
(* Trees that change                                                         *)

\* All the nodes of D are one tree, with that root.
IsTree(D, left, right, parent, root, sub) ==
    /\ Nested(D, left, right, sub)
    /\ Linked(D, left, right, parent, root)
    /\ sub[root] = D

\* A node that has no left or no right child gives its place to the other.
TakenOut(D, left, right, parent, root, m, child, left2, right2, parent2, root2) ==
    LET E == D \ {m}
    IN  /\ m \in D /\ (left[m] = NULL \/ right[m] = NULL)
        /\ child = IF left[m] = NULL THEN right[m] ELSE left[m]
        /\ left2 = [k \in E |-> IF left[k] = m THEN child ELSE left[k]]
        /\ right2 = [k \in E |-> IF right[k] = m THEN child ELSE right[k]]
        /\ parent2 = [k \in E |-> IF k = child THEN parent[m] ELSE parent[k]]
        /\ root2 = IF m = root THEN child ELSE root

LEMMA NodeTakenOut ==
    ASSUME NEW D, NEW left, NEW right, NEW parent, NEW root, NEW sub,
           IsTree(D, left, right, parent, root, sub),
           NEW m, NEW child, NEW left2, NEW right2, NEW parent2, NEW root2,
           TakenOut(D, left, right, parent, root, m, child,
                    left2, right2, parent2, root2),
           NEW value, Sorted(D, left, right, value, sub)
    PROVE  \E sub2 : /\ IsTree(D \ {m}, left2, right2, parent2, root2, sub2)
                     /\ Sorted(D \ {m}, left2, right2, value, sub2)
<1> DEFINE E == D \ {m}
<1>0. /\ m \in D /\ (left[m] = NULL \/ right[m] = NULL)
      /\ child = IF left[m] = NULL THEN right[m] ELSE left[m]
      /\ left2 = [k \in E |-> IF left[k] = m THEN child ELSE left[k]]
      /\ right2 = [k \in E |-> IF right[k] = m THEN child ELSE right[k]]
      /\ parent2 = [k \in E |-> IF k = child THEN parent[m] ELSE parent[k]]
      /\ root2 = IF m = root THEN child ELSE root
  BY DEF TakenOut
<1>. USE <1>0
<1> DEFINE sub2 == [k \in E \cup {NULL} |-> sub[k] \ {m}]
<1>1. /\ NULL \notin D
      /\ left \in [D -> D \cup {NULL}] /\ right \in [D -> D \cup {NULL}]
      /\ sub \in [D \cup {NULL} -> SUBSET D] /\ sub[NULL] = {}
      /\ \A n \in D : /\ sub[n] = {n} \cup sub[left[n]] \cup sub[right[n]]
                      /\ n \notin sub[left[n]] /\ n \notin sub[right[n]]
                      /\ sub[left[n]] \cap sub[right[n]] = {}
  BY DEF IsTree, Nested
<1>2. /\ root \in D \cup {NULL}
      /\ parent \in [D -> D \cup {NULL}]
      /\ \A n \in D :
            /\ (parent[n] = NULL) <=> (n = root)
            /\ left[n] # NULL => parent[left[n]] = n
            /\ right[n] # NULL => parent[right[n]] = n
            /\ left[n] = right[n] => left[n] = NULL
            /\ parent[n] # NULL => left[parent[n]] = n \/ right[parent[n]] = n
      /\ sub[root] = D
  BY DEF IsTree, Linked
<1>3. /\ child \in E \cup {NULL}
      /\ sub[m] = {m} \cup sub[child] /\ m \notin sub[child]
      /\ child # NULL => parent[child] = m
      /\ child # NULL => left[m] = child \/ right[m] = child
  BY <1>1, <1>2
<1>4. /\ \A k \in E : sub2[k] = sub[k] \ {m}
      /\ sub2[NULL] = {} /\ sub2[child] = sub[child]
      /\ sub2 \in [E \cup {NULL} -> SUBSET E]
  <2>1. \A k \in E \cup {NULL} : sub[k] \ {m} \in SUBSET E
    BY <1>1
  <2>2. \A k \in E \cup {NULL} : sub2[k] = sub[k] \ {m}
    OBVIOUS
  <2>3. sub2[NULL] = {} /\ sub2[child] = sub[child]
    <3>1. sub[child] \ {m} = sub[child]
      BY <1>3
    <3>2. sub2[child] = sub[child] \ {m} /\ sub2[NULL] = sub[NULL] \ {m}
      BY <1>3, <2>2
    <3>. QED BY <1>1, <3>1, <3>2
  <2>. QED BY <2>1, <2>2, <2>3
<1>5. /\ \A k \in E : left[k] # m => left[k] \in E \cup {NULL}
      /\ \A k \in E : right[k] # m => right[k] \in E \cup {NULL}
  BY <1>1
<1>. HIDE DEF sub2
<1>6. /\ left2 \in [E -> E \cup {NULL}] /\ right2 \in [E -> E \cup {NULL}]
      /\ \A k \in E : left2[k] = IF left[k] = m THEN child ELSE left[k]
      /\ \A k \in E : right2[k] = IF right[k] = m THEN child ELSE right[k]
  BY <1>3, <1>5
<1>7. ASSUME NEW k \in E
      PROVE  /\ sub2[left2[k]] = sub[left[k]] \ {m}
             /\ sub2[right2[k]] = sub[right[k]] \ {m}
  <2>1. CASE left[k] = m \/ right[k] = m
    BY <1>1, <1>3, <1>4, <1>5, <1>6, <2>1
  <2>2. CASE left[k] # m /\ right[k] # m
    BY <1>1, <1>4, <1>5, <1>6, <2>2
  <2>. QED BY <2>1, <2>2
<1>8. Nested(E, left2, right2, sub2)
  <2>1. ASSUME NEW k \in E
        PROVE  /\ sub2[k] = {k} \cup sub2[left2[k]] \cup sub2[right2[k]]
               /\ k \notin sub2[left2[k]] /\ k \notin sub2[right2[k]]
               /\ sub2[left2[k]] \cap sub2[right2[k]] = {}
    <3>1. k \in D /\ k # m
      OBVIOUS
    <3>. QED BY <1>1, <1>4, <1>7, <3>1
  <2>. QED BY <1>1, <1>4, <1>6, <2>1 DEF Nested
<1>9. Linked(E, left2, right2, parent2, root2)
  <2>1. root2 \in E \cup {NULL}
    BY <1>2, <1>3
  <2>2. \A k \in E : parent[k] = m => k = child
    BY <1>1, <1>2
  <2>3. /\ parent2 \in [E -> E \cup {NULL}]
        /\ \A k \in E : parent2[k] = IF k = child THEN parent[m] ELSE parent[k]
    <3>1. parent[m] # m
      BY <1>1, <1>2
    <3>. QED BY <1>2, <2>2, <3>1
  <2>4. ASSUME NEW k \in E
        PROVE  /\ (parent2[k] = NULL) <=> (k = root2)
               /\ left2[k] # NULL => parent2[left2[k]] = k
               /\ right2[k] # NULL => parent2[right2[k]] = k
               /\ left2[k] = right2[k] => left2[k] = NULL
               /\ parent2[k] # NULL => left2[parent2[k]] = k \/ right2[parent2[k]] = k
    <3>0. k \in D /\ k # m /\ NULL \notin E
      BY <1>1
    <3>1. (parent2[k] = NULL) <=> (k = root2)
      BY <1>2, <1>3, <2>3, <3>0
    <3>2. left2[k] # NULL => parent2[left2[k]] = k
      BY <1>1, <1>2, <1>3, <1>5, <1>6, <2>3, <3>0
    <3>3. right2[k] # NULL => parent2[right2[k]] = k
      BY <1>1, <1>2, <1>3, <1>5, <1>6, <2>3, <3>0
    <3>4. left2[k] = right2[k] => left2[k] = NULL
      BY <1>1, <1>2, <1>3, <1>5, <1>6, <3>0
    <3>5. parent2[k] # NULL => left2[parent2[k]] = k \/ right2[parent2[k]] = k
      <4>1. CASE k = child
        BY <1>1, <1>2, <1>3, <1>5, <1>6, <2>3, <3>0, <4>1
      <4>2. CASE k # child
        BY <1>1, <1>2, <1>3, <1>5, <1>6, <2>2, <2>3, <3>0, <4>2
      <4>. QED BY <4>1, <4>2
    <3>. QED BY <3>1, <3>2, <3>3, <3>4, <3>5
  <2>. QED BY <2>1, <2>3, <2>4 DEF Linked
<1>10. sub2[root2] = E
  BY <1>1, <1>2, <1>3, <1>4
<1>11. Sorted(E, left2, right2, value, sub2)
  BY <1>7 DEF Sorted
<1>. QED BY <1>8, <1>9, <1>10, <1>11 DEF IsTree

\* The nodes E have the names F: is gives the new name of a node, was the old.
Renaming(E, F, was, is) ==
    /\ NULL \notin F
    /\ was \in [F -> E] /\ is \in [E \cup {NULL} -> F \cup {NULL}]
    /\ is[NULL] = NULL
    /\ \A k \in F : is[was[k]] = k
    /\ \A x \in E : is[x] \in F /\ was[is[x]] = x

\* The links of the nodes with the new names.
Renamed(F, was, is, link, link2) == /\ link2 \in [F -> F \cup {NULL}]
                                    /\ \A k \in F : link2[k] = is[link[was[k]]]

LEMMA TreeRenamed ==
    ASSUME NEW E, NEW left, NEW right, NEW parent, NEW root, NEW sub,
           IsTree(E, left, right, parent, root, sub),
           NEW F, NEW was, NEW is, Renaming(E, F, was, is),
           NEW left2, Renamed(F, was, is, left, left2),
           NEW right2, Renamed(F, was, is, right, right2),
           NEW parent2, Renamed(F, was, is, parent, parent2),
           NEW value, Sorted(E, left, right, value, sub),
           NEW value2, \A k \in F : value2[k] = value[was[k]]
    PROVE  \E sub2 : /\ IsTree(F, left2, right2, parent2, is[root], sub2)
                     /\ Sorted(F, left2, right2, value2, sub2)
<1> DEFINE image(S) == {k \in F : was[k] \in S}
           sub2 == [k \in F \cup {NULL} |-> IF k = NULL THEN {} ELSE image(sub[was[k]])]
<1>1. /\ NULL \notin E
      /\ left \in [E -> E \cup {NULL}] /\ right \in [E -> E \cup {NULL}]
      /\ sub \in [E \cup {NULL} -> SUBSET E] /\ sub[NULL] = {}
      /\ \A k \in E : /\ sub[k] = {k} \cup sub[left[k]] \cup sub[right[k]]
                      /\ k \notin sub[left[k]] /\ k \notin sub[right[k]]
                      /\ sub[left[k]] \cap sub[right[k]] = {}
  BY DEF IsTree, Nested
<1>2. /\ root \in E \cup {NULL}
      /\ parent \in [E -> E \cup {NULL}]
      /\ \A k \in E :
            /\ (parent[k] = NULL) <=> (k = root)
            /\ left[k] # NULL => parent[left[k]] = k
            /\ right[k] # NULL => parent[right[k]] = k
            /\ left[k] = right[k] => left[k] = NULL
            /\ parent[k] # NULL => left[parent[k]] = k \/ right[parent[k]] = k
      /\ sub[root] = E
  BY DEF IsTree, Linked
<1>3. /\ \A k \in F : was[k] \in E /\ is[was[k]] = k
      /\ \A x \in E : is[x] \in F /\ was[is[x]] = x
      /\ is[NULL] = NULL /\ NULL \notin F
      /\ \A x \in E \cup {NULL} : is[x] \in F \cup {NULL} /\ (is[x] = NULL => x = NULL)
  BY DEF Renaming
<1>. HIDE DEF image
<1>4. /\ \A k \in F : sub2[k] = image(sub[was[k]])
      /\ sub2[NULL] = {}
  BY <1>3
<1>5. \A x \in E \cup {NULL} : sub2[is[x]] = image(sub[x])
  <2>1. image({}) = {}
    BY DEF image
  <2>. HIDE DEF sub2
  <2>2. \A x \in E : is[x] \in F /\ sub2[is[x]] = image(sub[was[is[x]]])
    BY <1>3, <1>4
  <2>3. \A x \in E : sub2[is[x]] = image(sub[x])
    BY <1>3, <2>2
  <2>. QED BY <1>1, <1>3, <1>4, <2>1, <2>3
<1>6. sub2 \in [F \cup {NULL} -> SUBSET F]
  BY DEF image
<1>. HIDE DEF sub2
<1>7. /\ left2 \in [F -> F \cup {NULL}] /\ right2 \in [F -> F \cup {NULL}]
      /\ parent2 \in [F -> F \cup {NULL}]
      /\ \A k \in F : /\ left2[k] = is[left[was[k]]] /\ right2[k] = is[right[was[k]]]
                      /\ parent2[k] = is[parent[was[k]]]
  BY DEF Renamed
<1>8. ASSUME NEW k \in F
      PROVE  /\ sub2[left2[k]] = image(sub[left[was[k]]])
             /\ sub2[right2[k]] = image(sub[right[was[k]]])
  <2>1. was[k] \in E
    BY <1>3
  <2>2. left[was[k]] \in E \cup {NULL} /\ right[was[k]] \in E \cup {NULL}
    BY <1>1, <2>1
  <2>. QED BY <1>5, <1>7, <2>2
<1>9. Nested(F, left2, right2, sub2)
  <2>1. ASSUME NEW k \in F
        PROVE  /\ sub2[k] = {k} \cup sub2[left2[k]] \cup sub2[right2[k]]
               /\ k \notin sub2[left2[k]] /\ k \notin sub2[right2[k]]
               /\ sub2[left2[k]] \cap sub2[right2[k]] = {}
    <3>0. PICK x \in E : x = was[k]
      BY <1>3
    <3>1. PICK L, R : /\ L = sub[left[x]] /\ R = sub[right[x]]
      OBVIOUS
    <3>2. /\ sub[x] = {x} \cup L \cup R
          /\ x \notin L /\ x \notin R /\ L \cap R = {}
      BY <1>1, <3>1
    <3>3. \A j \in F : was[j] = x <=> j = k
      BY <1>3, <3>0
    <3>4. image(sub[x]) = {k} \cup image(L) \cup image(R)
      BY <3>2, <3>3 DEF image
    <3>5. k \notin image(L) /\ k \notin image(R) /\ image(L) \cap image(R) = {}
      BY <3>0, <3>2 DEF image
    <3>6. sub2[left2[k]] = image(L) /\ sub2[right2[k]] = image(R) /\ sub2[k] = image(sub[x])
      BY <1>4, <1>8, <3>0, <3>1
    <3>. QED BY <3>4, <3>5, <3>6
  <2>. QED BY <1>3, <1>4, <1>6, <1>7, <2>1 DEF Nested
<1>10. Linked(F, left2, right2, parent2, is[root])
  <2>0. \A x, y \in E \cup {NULL} : is[x] = is[y] => x = y
    BY <1>1, <1>3
  <2>1. ASSUME NEW k \in F
        PROVE  /\ (parent2[k] = NULL) <=> (k = is[root])
               /\ left2[k] # NULL => parent2[left2[k]] = k
               /\ right2[k] # NULL => parent2[right2[k]] = k
               /\ left2[k] = right2[k] => left2[k] = NULL
               /\ parent2[k] # NULL => left2[parent2[k]] = k \/ right2[parent2[k]] = k
    <3>1. PICK x \in E : x = was[k] /\ is[x] = k
      BY <1>3
    <3>2. PICK l, r, p \in E \cup {NULL} :
             /\ l = left[x] /\ r = right[x] /\ p = parent[x]
             /\ left2[k] = is[l] /\ right2[k] = is[r] /\ parent2[k] = is[p]
      BY <1>1, <1>2, <1>7, <3>1
    <3>3. (parent2[k] = NULL) <=> (k = is[root])
      <4>1. (p = NULL) <=> (x = root)
        BY <1>2, <3>2
      <4>2. (is[p] = NULL) <=> (p = NULL)
        BY <1>3, <3>2
      <4>3. (k = is[root]) <=> (x = root)
        BY <1>2, <2>0, <3>1
      <4>. QED BY <3>2, <4>1, <4>2, <4>3
    <3>4. \A y \in E : parent2[is[y]] = is[parent[y]] /\ left2[is[y]] = is[left[y]]
                       /\ right2[is[y]] = is[right[y]]
      BY <1>3, <1>7
    <3>5. left2[k] # NULL => parent2[left2[k]] = k
      <4>1. l # NULL => parent[l] = x /\ l \in E
        BY <1>2, <3>2
      <4>. QED BY <1>3, <3>1, <3>2, <3>4, <4>1
    <3>6. right2[k] # NULL => parent2[right2[k]] = k
      <4>1. r # NULL => parent[r] = x /\ r \in E
        BY <1>2, <3>2
      <4>. QED BY <1>3, <3>1, <3>2, <3>4, <4>1
    <3>7. left2[k] = right2[k] => left2[k] = NULL
      <4>1. l = r => l = NULL
        BY <1>2, <3>2
      <4>2. is[l] = is[r] => l = r
        BY <2>0
      <4>. QED BY <1>3, <3>2, <4>1, <4>2
    <3>8. parent2[k] # NULL => left2[parent2[k]] = k \/ right2[parent2[k]] = k
      <4>1. p # NULL => p \in E /\ (left[p] = x \/ right[p] = x)
        BY <1>2, <3>2
      <4>. QED BY <1>3, <3>1, <3>2, <3>4, <4>1
    <3>. QED BY <3>3, <3>5, <3>6, <3>7, <3>8
  <2>. QED BY <1>2, <1>3, <1>7, <2>1 DEF Linked
<1>11. sub2[is[root]] = F
  <2>1. image(E) = F
    BY <1>3 DEF image
  <2>2. sub2[is[root]] = image(sub[root])
    BY <1>2, <1>5
  <2>. QED BY <1>2, <2>1, <2>2
<1>12. Sorted(F, left2, right2, value2, sub2)
  <2>2. ASSUME NEW k \in F
        PROVE  /\ \A j \in sub2[left2[k]] : value2[j] <= value2[k]
               /\ \A j \in sub2[right2[k]] : value2[j] >= value2[k]
    <3>1. was[k] \in E
      BY <1>3
    <3>2. /\ \A m \in sub[left[was[k]]] : value[m] <= value[was[k]]
          /\ \A m \in sub[right[was[k]]] : value[m] >= value[was[k]]
      BY <3>1 DEF Sorted
    <3>3. \A S : \A j \in image(S) : j \in F /\ was[j] \in S
      BY DEF image
    <3>4. /\ \A j \in sub2[left2[k]] : j \in F /\ was[j] \in sub[left[was[k]]]
          /\ \A j \in sub2[right2[k]] : j \in F /\ was[j] \in sub[right[was[k]]]
      BY <1>8, <3>3
    <3>. QED BY <3>2, <3>4
  <2>. QED BY <2>2 DEF Sorted
<1>. QED BY <1>9, <1>10, <1>11, <1>12 DEF IsTree

\* Nothing in these tells left from right.
LEMMA Mirrored ==
    ASSUME NEW D, NEW left, NEW right, NEW parent, NEW root, NEW sub
    PROVE  /\ Nested(D, left, right, sub) => Nested(D, right, left, sub)
           /\ Linked(D, left, right, parent, root) => Linked(D, right, left, parent, root)
<1>1. Nested(D, left, right, sub) => Nested(D, right, left, sub)
  BY Zenon DEF Nested
<1>2. ASSUME Linked(D, left, right, parent, root)
      PROVE  Linked(D, right, left, parent, root)
  BY <1>2 DEF Linked
<1>. QED BY <1>1, <1>2

\* A leaf takes the place of what is right of node at.
LeafAt(D, left, right, at, leaf, left2, right2) ==
    LET F == D \cup {leaf}
    IN  /\ at \in D /\ leaf \notin D /\ leaf # NULL
        /\ left2 \in [F -> F \cup {NULL}] /\ right2 \in [F -> F \cup {NULL}]
        /\ left2[leaf] = NULL /\ right2[leaf] = NULL
        /\ \A k \in D : left2[k] = left[k]
        /\ \A k \in D : right2[k] = IF k = at THEN leaf ELSE right[k]

\* It is below what at was below, and nothing else comes to be below a node.
LeafBelow(D, right, at, leaf, sub, sub2) ==
    /\ sub2[leaf] = {leaf}
    /\ \A k \in D \cup {NULL} :
          sub2[k] = IF at \in sub[k] THEN (sub[k] \ sub[right[at]]) \cup {leaf}
                                   ELSE sub[k]

LEMMA LeafAdded ==
    ASSUME NEW D, IsFiniteSet(D), NEW left, NEW right, NEW sub,
           Nested(D, left, right, sub),
           NEW at, NEW leaf, NEW left2, NEW right2,
           LeafAt(D, left, right, at, leaf, left2, right2)
    PROVE  \E sub2 : /\ Nested(D \cup {leaf}, left2, right2, sub2)
                     /\ LeafBelow(D, right, at, leaf, sub, sub2)
<1> DEFINE F == D \cup {leaf}
           gone == sub[right[at]]
           now(S) == IF at \in S THEN (S \ gone) \cup {leaf} ELSE S
           sub2 == [k \in F \cup {NULL} |-> IF k = leaf THEN {leaf} ELSE now(sub[k])]
<1>1. /\ NULL \notin D
      /\ left \in [D -> D \cup {NULL}] /\ right \in [D -> D \cup {NULL}]
      /\ sub \in [D \cup {NULL} -> SUBSET D] /\ sub[NULL] = {}
      /\ \A n \in D : /\ sub[n] = {n} \cup sub[left[n]] \cup sub[right[n]]
                      /\ n \notin sub[left[n]] /\ n \notin sub[right[n]]
                      /\ sub[left[n]] \cap sub[right[n]] = {}
  BY DEF Nested
<1>2. /\ at \in D /\ leaf \notin D /\ leaf # NULL
      /\ left2 \in [F -> F \cup {NULL}] /\ right2 \in [F -> F \cup {NULL}]
      /\ left2[leaf] = NULL /\ right2[leaf] = NULL
      /\ \A k \in D : left2[k] = left[k]
      /\ \A k \in D : right2[k] = IF k = at THEN leaf ELSE right[k]
  BY DEF LeafAt
<1>3. gone \in SUBSET D /\ at \notin gone /\ leaf \notin gone
  BY <1>1, <1>2
<1>4. /\ sub2 \in [F \cup {NULL} -> SUBSET F]
      /\ sub2[leaf] = {leaf}
      /\ \A k \in D \cup {NULL} : sub2[k] = now(sub[k])
  <2>1. \A k \in F \cup {NULL} : k = leaf \/ k \in D \cup {NULL}
    OBVIOUS
  <2>2. \A k \in D \cup {NULL} : k \in F \cup {NULL} /\ k # leaf
    BY <1>2
  <2>3. \A k \in D \cup {NULL} : now(sub[k]) \in SUBSET F
    BY <1>1
  <2>. HIDE DEF now
  <2>4. \A k \in F \cup {NULL} : (IF k = leaf THEN {leaf} ELSE now(sub[k])) \in SUBSET F
    BY <2>1, <2>3
  <2>5. /\ sub2 \in [F \cup {NULL} -> SUBSET F]
        /\ \A k \in F \cup {NULL} : sub2[k] = IF k = leaf THEN {leaf} ELSE now(sub[k])
    BY <2>4
  <2>. HIDE DEF sub2
  <2>. QED BY <2>2, <2>5
<1>. HIDE DEF sub2
<1>5. sub2[NULL] = {}
  BY <1>1, <1>4
\* What is below at is below what at is below.
<1>6. \A k \in D : at \in sub[k] => gone \subseteq sub[k] /\ (at # k => k \notin gone)
  <2>1. gone \subseteq sub[at]
    BY <1>1, <1>2
  <2>. QED BY <2>1, <1>2, BelowBelow
<1>. HIDE DEF gone
<1>7. ASSUME NEW k \in D
      PROVE  /\ sub2[k] = {k} \cup sub2[left2[k]] \cup sub2[right2[k]]
             /\ k \notin sub2[left2[k]] /\ k \notin sub2[right2[k]]
             /\ sub2[left2[k]] \cap sub2[right2[k]] = {}
  <2> DEFINE L == sub[left[k]]
             R == sub[right[k]]
  <2>1. /\ sub[k] = {k} \cup L \cup R /\ k \notin L /\ k \notin R /\ L \cap R = {}
        /\ L \in SUBSET D /\ R \in SUBSET D
        /\ left[k] \in D \cup {NULL} /\ right[k] \in D \cup {NULL}
    BY <1>1
  <2>2. sub2[left2[k]] = now(L) /\ sub2[k] = now(sub[k])
    BY <1>2, <1>4, <2>1
  <2>3. /\ at \in L => gone \subseteq L
        /\ at \in R => gone \subseteq R
    BY <1>1, <1>6, <2>1
  <2>4. CASE k = at
    <3>1. gone = R
      BY <2>4 DEF gone
    <3>2. sub2[right2[k]] = {leaf}
      BY <1>2, <1>4, <2>4
    <3>. HIDE DEF L, R
    <3>3. now(L) = L /\ now(sub[k]) = {k} \cup L \cup {leaf}
      BY <1>2, <2>1, <2>4, <3>1
    <3>. QED BY <1>2, <2>1, <2>2, <3>2, <3>3
  <2>5. CASE k # at
    <3>1. sub2[right2[k]] = now(R)
      BY <1>2, <1>4, <2>1, <2>5
    <3>2. at \in sub[k] => k \notin gone
      BY <1>6, <2>5
    <3>. HIDE DEF L, R
    <3>3. CASE at \in L
      <4>1. now(R) = R /\ now(L) = (L \ gone) \cup {leaf}
        BY <2>1, <3>3
      <4>2. now(sub[k]) = (sub[k] \ gone) \cup {leaf} /\ k \notin gone
        BY <2>1, <3>2, <3>3
      <4>3. R \cap gone = {}
        BY <2>1, <2>3, <3>3
      <4>. QED BY <1>2, <2>1, <2>2, <3>1, <4>1, <4>2, <4>3
    <3>4. CASE at \in R
      <4>1. now(L) = L /\ now(R) = (R \ gone) \cup {leaf}
        BY <2>1, <3>4
      <4>2. now(sub[k]) = (sub[k] \ gone) \cup {leaf} /\ k \notin gone
        BY <2>1, <3>2, <3>4
      <4>3. L \cap gone = {}
        BY <2>1, <2>3, <3>4
      <4>. QED BY <1>2, <2>1, <2>2, <3>1, <4>1, <4>2, <4>3
    <3>5. CASE at \notin L /\ at \notin R
      <4>1. now(L) = L /\ now(R) = R /\ now(sub[k]) = sub[k]
        BY <2>1, <2>5, <3>5
      <4>. QED BY <2>1, <2>2, <3>1, <4>1
    <3>. QED BY <3>3, <3>4, <3>5
  <2>. QED BY <2>4, <2>5
<1>8. /\ sub2[leaf] = {leaf} \cup sub2[left2[leaf]] \cup sub2[right2[leaf]]
      /\ sub2[left2[leaf]] = {} /\ sub2[right2[leaf]] = {}
  BY <1>2, <1>4, <1>5
<1>9. Nested(F, left2, right2, sub2)
  <2>1. NULL \notin F
    BY <1>1, <1>2
  <2>. QED BY <1>2, <1>4, <1>5, <1>7, <1>8, <2>1 DEF Nested
<1>10. LeafBelow(D, right, at, leaf, sub, sub2)
  BY <1>4 DEF LeafBelow, gone
<1>. QED BY <1>9, <1>10

LEMMA LeafLinked ==
    ASSUME NEW D, NEW left, NEW right, NEW sub, Nested(D, left, right, sub),
           NEW parent, NEW root, root # NULL, Linked(D, left, right, parent, root),
           NEW at, NEW leaf, NEW left2, NEW right2,
           LeafAt(D, left, right, at, leaf, left2, right2), right[at] = NULL,
           NEW F, F = D \cup {leaf},
           NEW parent2 \in [F -> F \cup {NULL}], parent2[leaf] = at,
           \A k \in D : parent2[k] = parent[k]
    PROVE  Linked(F, left2, right2, parent2, root)
<1>1. /\ NULL \notin D
      /\ left \in [D -> D \cup {NULL}] /\ right \in [D -> D \cup {NULL}]
  BY DEF Nested
<1>2. /\ root \in D \cup {NULL}
      /\ parent \in [D -> D \cup {NULL}]
      /\ \A n \in D :
            /\ (parent[n] = NULL) <=> (n = root)
            /\ left[n] # NULL => parent[left[n]] = n
            /\ right[n] # NULL => parent[right[n]] = n
            /\ left[n] = right[n] => left[n] = NULL
            /\ parent[n] # NULL => left[parent[n]] = n \/ right[parent[n]] = n
  BY DEF Linked
<1>3. /\ at \in D /\ leaf \notin D /\ leaf # NULL
      /\ left2[leaf] = NULL /\ right2[leaf] = NULL
      /\ \A k \in D : left2[k] = left[k]
      /\ \A k \in D : right2[k] = IF k = at THEN leaf ELSE right[k]
  BY DEF LeafAt
<1>4. ASSUME NEW k \in D
      PROVE  /\ (parent2[k] = NULL) <=> (k = root)
             /\ left2[k] # NULL => parent2[left2[k]] = k
             /\ right2[k] # NULL => parent2[right2[k]] = k
             /\ left2[k] = right2[k] => left2[k] = NULL
             /\ parent2[k] # NULL => left2[parent2[k]] = k \/ right2[parent2[k]] = k
  <2>1. (parent2[k] = NULL) <=> (k = root)
    BY <1>2
  <2>2. left2[k] # NULL => parent2[left2[k]] = k
    BY <1>1, <1>2, <1>3
  <2>3. right2[k] # NULL => parent2[right2[k]] = k
    BY <1>1, <1>2, <1>3
  <2>4. left2[k] = right2[k] => left2[k] = NULL
    BY <1>1, <1>2, <1>3
  <2>5. parent2[k] # NULL => left2[parent2[k]] = k \/ right2[parent2[k]] = k
    <3>1. parent[k] # NULL => parent[k] \in D
      BY <1>2
    <3>2. parent[k] = at => right[at] # k
      BY <1>1
    <3>. QED BY <1>2, <1>3, <3>1, <3>2
  <2>. QED BY <2>1, <2>2, <2>3, <2>4, <2>5
<1>5. /\ (parent2[leaf] = NULL) <=> (leaf = root)
      /\ left2[leaf] = NULL /\ right2[leaf] = NULL
      /\ parent2[leaf] # NULL =>
            left2[parent2[leaf]] = leaf \/ right2[parent2[leaf]] = leaf
  BY <1>1, <1>2, <1>3
<1>6. root \in F \cup {NULL}
  BY <1>2
<1>. QED BY <1>4, <1>5, <1>6 DEF Linked

\* The order lets val be below node at.
Fits(D, left, right, value, sub, at, val) ==
    \A n \in D : /\ at \in sub[left[n]] => val <= value[n]
                 /\ at \in sub[right[n]] => val >= value[n]

\* The links to a leaf of that value are on the side that the order asks for.
LeafLinks(D, left, right, value, at, val, leaf, left2, right2) ==
    /\ leaf \notin D /\ leaf # NULL
    /\ left2[leaf] = NULL /\ right2[leaf] = NULL
    /\ \A k \in D : \/ left2[k] = left[k]
                    \/ k = at /\ left2[k] = leaf /\ val <= value[at]
    /\ \A k \in D : \/ right2[k] = right[k]
                    \/ k = at /\ right2[k] = leaf /\ val >= value[at]

\* No more than the leaf has come to be below a node, if at is below it.
OnlyLeafBelow(D, at, leaf, sub, sub2) ==
    /\ sub2[leaf] = {leaf} /\ sub2[NULL] = {}
    /\ \A k \in D \cup {NULL} : \A m \in sub2[k] :
          m \in sub[k] \/ (m = leaf /\ at \in sub[k])

LEMMA LeafSorted ==
    ASSUME NEW D, NEW left, NEW right, NEW sub, Nested(D, left, right, sub),
           NEW value, Sorted(D, left, right, value, sub),
           NEW at \in D, NEW val \in Int, Fits(D, left, right, value, sub, at, val),
           NEW leaf, NEW left2, NEW right2, NEW sub2,
           LeafLinks(D, left, right, value, at, val, leaf, left2, right2),
           OnlyLeafBelow(D, at, leaf, sub, sub2),
           NEW value2, value2[leaf] = val, \A k \in D : value2[k] = value[k]
    PROVE  Sorted(D \cup {leaf}, left2, right2, value2, sub2)
<1>0. /\ leaf \notin D /\ leaf # NULL
      /\ left2[leaf] = NULL /\ right2[leaf] = NULL
      /\ \A k \in D : \/ left2[k] = left[k]
                      \/ k = at /\ left2[k] = leaf /\ val <= value[at]
      /\ \A k \in D : \/ right2[k] = right[k]
                      \/ k = at /\ right2[k] = leaf /\ val >= value[at]
      /\ sub2[leaf] = {leaf} /\ sub2[NULL] = {}
      /\ \A k \in D \cup {NULL} : \A m \in sub2[k] :
            m \in sub[k] \/ (m = leaf /\ at \in sub[k])
  BY DEF LeafLinks, OnlyLeafBelow
<1>1. /\ left \in [D -> D \cup {NULL}] /\ right \in [D -> D \cup {NULL}]
      /\ sub \in [D \cup {NULL} -> SUBSET D]
  BY DEF Nested
<1>2. ASSUME NEW k \in D, NEW m \in sub2[left2[k]] PROVE value2[m] <= value2[k]
  <2>1. CASE left2[k] = left[k]
    <3>1. left[k] \in D \cup {NULL} /\ sub[left[k]] \subseteq D
      BY <1>1
    <3>2. m \in sub[left[k]] \/ (m = leaf /\ at \in sub[left[k]])
      BY <1>0, <1>2, <2>1, <3>1
    <3>3. m \in sub[left[k]] => m \in D /\ value[m] <= value[k]
      BY <3>1 DEF Sorted
    <3>4. at \in sub[left[k]] => val <= value[k]
      BY DEF Fits
    <3>. QED BY <1>0, <3>2, <3>3, <3>4
  <2>2. CASE k = at /\ left2[k] = leaf /\ val <= value[at]
    BY <1>0, <1>2, <2>2
  <2>. QED BY <1>0, <2>1, <2>2
<1>3. ASSUME NEW k \in D, NEW m \in sub2[right2[k]] PROVE value2[m] >= value2[k]
  <2>1. CASE right2[k] = right[k]
    <3>1. right[k] \in D \cup {NULL} /\ sub[right[k]] \subseteq D
      BY <1>1
    <3>2. m \in sub[right[k]] \/ (m = leaf /\ at \in sub[right[k]])
      BY <1>0, <1>3, <2>1, <3>1
    <3>3. m \in sub[right[k]] => m \in D /\ value[m] >= value[k]
      BY <3>1 DEF Sorted
    <3>4. at \in sub[right[k]] => val >= value[k]
      BY DEF Fits
    <3>. QED BY <1>0, <3>2, <3>3, <3>4
  <2>2. CASE k = at /\ right2[k] = leaf /\ val >= value[at]
    BY <1>0, <1>3, <2>2
  <2>. QED BY <1>0, <2>1, <2>2
<1>. QED BY <1>0, <1>2, <1>3 DEF Sorted

-----------------------------------------------------------------------------
(* Searches                                                                  *)

\* A search that goes down until there is no next node.
LEMMA Descent ==
    ASSUME NEW D, IsFiniteSet(D), NEW left, NEW right, NEW sub,
           Nested(D, left, right, sub),
           NEW next \in [D -> D \cup {NULL}],
           \A n \in D : next[n] = left[n] \/ next[n] = right[n]
    PROVE  \E g : g = [n \in D |-> IF next[n] = NULL THEN n ELSE g[next[n]]]
<1> DEFINE X == D \cup {NULL}
           step == [x \in D \X X \X X |-> IF next[x[1]] = NULL THEN x[1] ELSE x[2]]
<1>1. PICK rank \in [D -> Nat], top \in Nat : IsForest(D, NULL, left, right, rank, top)
  BY NestedIsForest
<1>2. IsForest(D, NULL, next, next, rank, top)
  BY <1>1 DEF IsForest
<1>3. /\ step \in [D \X X \X X -> X]
      /\ \A n \in D, x \in X, y \in X :
            step[<<n, x, y>>] = IF next[n] = NULL THEN n ELSE x
  OBVIOUS
<1>. HIDE DEF step
<1>4. PICK h \in [D \cup {NULL} -> X] : SolvesTree(h, D, NULL, next, next, NULL, step)
  BY <1>2, <1>3, TreeRecursion
<1> DEFINE g == [n \in D |-> h[n]]
<1>5. \A n \in D : h[n] = IF next[n] = NULL THEN n ELSE h[next[n]]
  <2> TAKE n \in D
  <2>1. h[next[n]] \in X
    OBVIOUS
  <2>2. h[n] = step[<<n, h[next[n]], h[next[n]]>>]
    BY <1>4 DEF SolvesTree
  <2>. HIDE DEF X
  <2>. QED BY <1>3, <2>1, <2>2
<1>6. \A n \in D : g[n] = IF next[n] = NULL THEN n ELSE g[next[n]]
  <2>1. \A n \in D : next[n] # NULL => next[n] \in D
    OBVIOUS
  <2>. QED BY <1>5, <2>1
<1>7. g = [n \in D |-> g[n]]
  OBVIOUS
<1>. HIDE DEF g
<1>8. g = [n \in D |-> IF next[n] = NULL THEN n ELSE g[next[n]]]
  BY <1>6, <1>7
<1>. QED BY <1>8

-----------------------------------------------------------------------------
(* The trees of bin_tree.c                                                   *)

LeftOf(t) == [n \in Nodes(t) |-> t.nodes[n].left]
RightOf(t) == [n \in Nodes(t) |-> t.nodes[n].right]
ParentOf(t) == [n \in Nodes(t) |-> t.nodes[n].parent]
ValueOf(t) == [n \in Nodes(t) |-> t.nodes[n].value]

NodeSet == [value : Int, header : Int, balance : Int,
            parent : Int, left : Int, right : Int]

IsTreeRecord(t) == t = [root |-> t.root, nodes |-> t.nodes]

\* The nodes are the first slots of the array.
WellFormed(t) ==
    /\ IsTreeRecord(t)
    /\ t.nodes \in [Nodes(t) -> NodeSet]
    /\ \E e \in Nat \cup {-1} : Nodes(t) = 0 .. e

\* What sub tells is below each node is the tree that the links make of all.
IsSearchTree(t, sub) ==
    /\ WellFormed(t)
    /\ IsTree(Nodes(t), LeftOf(t), RightOf(t), ParentOf(t), t.root, sub)
    /\ Sorted(Nodes(t), LeftOf(t), RightOf(t), ValueOf(t), sub)

LEMMA Slots ==
    ASSUME NEW t, WellFormed(t)
    PROVE  /\ EndOf(t) \in Nat \cup {-1}
           /\ Nodes(t) = 0 .. EndOf(t)
           /\ IsFiniteSet(Nodes(t))
           /\ DOMAIN t.nodes = Nodes(t)
           /\ NULL \notin Nodes(t)
<1>1. PICK e \in Nat \cup {-1} : Nodes(t) = 0 .. e
  BY DEF WellFormed
<1>2. /\ IsFiniteSet(0 .. e)
      /\ Cardinality(0 .. e) = IF 0 > e THEN 0 ELSE e - 0 + 1
  BY <1>1, FS_Interval
<1>3. Cardinality(0 .. e) - 1 = e
  BY <1>1, <1>2
<1>4. EndOf(t) = e
  BY <1>1, <1>3 DEF EndOf, Nodes
<1>. QED BY <1>1, <1>2, <1>4 DEF Nodes, NULL

LEMMA NodeFields ==
    ASSUME NEW t, WellFormed(t)
    PROVE  \A n \in Nodes(t) :
              /\ t.nodes[n] \in NodeSet
              /\ LeftOf(t)[n] = t.nodes[n].left /\ RightOf(t)[n] = t.nodes[n].right
              /\ ParentOf(t)[n] = t.nodes[n].parent /\ ValueOf(t)[n] = t.nodes[n].value
              /\ ValueOf(t)[n] \in Int
BY DEF WellFormed, LeftOf, RightOf, ParentOf, ValueOf, NodeSet

\* The insertion follows its way down as InsertionPoint says.
LEMMA InsertionSteps ==
    ASSUME NEW t, NEW sub, WellFormed(t),
           Nested(Nodes(t), LeftOf(t), RightOf(t), sub), NEW val
    PROVE  \E from : /\ InsertionPoint(t, val) = from[t.root]
                     /\ \A n \in Nodes(t) :
                           from[n] = IF Toward(t, n, val) = NULL THEN n
                                     ELSE from[Toward(t, n, val)]
<1> DEFINE next == [n \in Nodes(t) |-> Toward(t, n, val)]
           from == CHOOSE g : g = [n \in Nodes(t) |->
                      IF Toward(t, n, val) = NULL THEN n ELSE g[Toward(t, n, val)]]
<1>1. InsertionPoint(t, val) = from[t.root]
  BY Zenon DEF InsertionPoint
<1>2. /\ next \in [Nodes(t) -> Nodes(t) \cup {NULL}]
      /\ \A n \in Nodes(t) : next[n] = LeftOf(t)[n] \/ next[n] = RightOf(t)[n]
      /\ \A n \in Nodes(t) : next[n] = Toward(t, n, val)
  BY NodeFields DEF Toward, Nested
<1>. HIDE DEF next
<1>3. PICK g : g = [n \in Nodes(t) |-> IF next[n] = NULL THEN n ELSE g[next[n]]]
  BY <1>2, Slots, Descent
<1>4. g = [n \in Nodes(t) |-> IF Toward(t, n, val) = NULL THEN n
                              ELSE g[Toward(t, n, val)]]
  BY <1>2, <1>3
<1>5. from = [n \in Nodes(t) |-> IF Toward(t, n, val) = NULL THEN n
                                 ELSE from[Toward(t, n, val)]]
  BY <1>4, Zenon
<1>. HIDE DEF from
<1>6. \A n \in Nodes(t) : from[n] = IF Toward(t, n, val) = NULL THEN n
                                    ELSE from[Toward(t, n, val)]
  BY <1>5
<1>. QED BY <1>1, <1>6

\* It ends at a node with room on the side of val, where the order lets it be.
LEMMA InsertionFits ==
    ASSUME NEW t, NEW sub, WellFormed(t),
           Nested(Nodes(t), LeftOf(t), RightOf(t), sub),
           Sorted(Nodes(t), LeftOf(t), RightOf(t), ValueOf(t), sub),
           t.root \in Nodes(t), sub[t.root] = Nodes(t), NEW val \in Int
    PROVE  LET at == InsertionPoint(t, val)
           IN  /\ at \in Nodes(t)
               /\ Toward(t, at, val) = NULL
               /\ Fits(Nodes(t), LeftOf(t), RightOf(t), ValueOf(t), sub, at, val)
<1> DEFINE D == Nodes(t)
           left == LeftOf(t)
           right == RightOf(t)
           value == ValueOf(t)
<1>1. PICK from : /\ InsertionPoint(t, val) = from[t.root]
                  /\ \A n \in D : from[n] = IF Toward(t, n, val) = NULL THEN n
                                            ELSE from[Toward(t, n, val)]
  BY InsertionSteps
<1>2. /\ NULL \notin D /\ IsFiniteSet(D)
      /\ left \in [D -> D \cup {NULL}] /\ right \in [D -> D \cup {NULL}]
      /\ sub \in [D \cup {NULL} -> SUBSET D] /\ sub[NULL] = {}
      /\ \A n \in D : /\ sub[n] = {n} \cup sub[left[n]] \cup sub[right[n]]
                      /\ n \notin sub[left[n]] /\ n \notin sub[right[n]]
                      /\ sub[left[n]] \cap sub[right[n]] = {}
  BY Slots DEF Nested
<1>3. \A n \in D : /\ value[n] \in Int
                   /\ Toward(t, n, val) = IF value[n] < val THEN right[n] ELSE left[n]
  BY NodeFields DEF Toward
<1>4. \A n \in D : \A m \in sub[n] : /\ m \in D /\ sub[m] \subseteq sub[n]
                                     /\ m # n => n \notin sub[m]
  <2>1. Nested(D, left, right, sub)
    OBVIOUS
  <2>. HIDE DEF D, left, right
  <2>. QED BY <1>2, <2>1, BelowBelow
<1>5. \A n \in D : /\ sub[left[n]] \subseteq sub[n] /\ sub[right[n]] \subseteq sub[n]
                   /\ left[n] \in D => left[n] \in sub[n]
                   /\ right[n] \in D => right[n] \in sub[n]
  BY <1>2
<1> DEFINE Good(k, at) == /\ at \in sub[k]
                          /\ Toward(t, at, val) = NULL
                          /\ \A n \in sub[k] : /\ at \in sub[left[n]] => val <= value[n]
                                               /\ at \in sub[right[n]] => val >= value[n]
           S == {k \in D : Good(k, from[k])}
<1>6. PICK rank \in [D -> Nat], top \in Nat : IsForest(D, NULL, left, right, rank, top)
  BY <1>2, NestedIsForest
<1>. HIDE DEF D, left, right, value
<1>7. ASSUME NEW k \in D, \A l \in D : rank[l] < rank[k] => l \in S PROVE k \in S
  <2> DEFINE c == Toward(t, k, val)
  <2>0. k \in sub[k] /\ left[k] \in D \cup {NULL} /\ right[k] \in D \cup {NULL}
    BY <1>2
  <2>1. CASE c = NULL
    <3>1. from[k] = k
      BY <1>1, <2>1
    <3>2. ASSUME NEW n \in sub[k] PROVE k \notin sub[left[n]] /\ k \notin sub[right[n]]
      <4>1. n \in D /\ (n # k => k \notin sub[n])
        BY <1>4
      <4>. QED BY <1>2, <1>5, <4>1
    <3>3. Good(k, from[k])
      BY <2>0, <2>1, <3>1, <3>2
    <3>. QED BY <3>3
  <2>2. CASE c # NULL
    <3>1. c \in D /\ rank[c] < rank[k]
      BY <1>3, <1>6, <2>0, <2>2 DEF IsForest
    <3>2. Good(c, from[c]) /\ from[k] = from[c]
      BY <1>1, <1>7, <2>2, <3>1
    <3>. HIDE DEF Good
    <3>3. PICK at : at = from[k] /\ Good(c, at)
      BY <3>2
    <3>4. /\ at \in sub[c] /\ Toward(t, at, val) = NULL
          /\ \A n \in sub[c] : /\ at \in sub[left[n]] => val <= value[n]
                               /\ at \in sub[right[n]] => val >= value[n]
      BY <3>3 DEF Good
    <3>5. ASSUME NEW n \in sub[k]
          PROVE  /\ at \in sub[left[n]] => val <= value[n]
                 /\ at \in sub[right[n]] => val >= value[n]
      <4>1. CASE n = k
        BY <1>2, <1>3, <3>4, <4>1
      <4>2. CASE n \in sub[c]
        BY <3>4, <4>2
      <4>3. CASE n # k /\ n \notin sub[c]
        <5>1. PICK o \in {left[k], right[k]} :
                 n \in sub[o] /\ sub[o] \cap sub[c] = {}
          BY <1>2, <1>3, <4>3
        <5>2. o \in D
          BY <1>2, <2>0, <5>1
        <5>3. n \in D /\ sub[n] \subseteq sub[o]
          BY <1>4, <5>1, <5>2
        <5>. QED BY <1>5, <3>4, <5>1, <5>3
      <4>. QED BY <4>1, <4>2, <4>3
    <3>6. at \in sub[k]
      BY <1>3, <1>5, <3>4
    <3>7. Good(k, at)
      BY <3>4, <3>5, <3>6 DEF Good
    <3>. QED BY <3>3, <3>7
  <2>. QED BY <2>1, <2>2
<1>8. D \subseteq S
  <2>. HIDE DEF S
  <2>. QED BY <1>7, RankInduction
<1>9. Good(t.root, from[t.root])
  BY <1>8 DEF D
<1>. QED BY <1>1, <1>9 DEF D, left, right, value, Fits

-----------------------------------------------------------------------------
(* Insertion                                                                 *)

\* The nodes after a leaf has been put below node at.
LeafPut(t, at, val, header, u, leaf) ==
    /\ WellFormed(u) /\ EndOf(u) = leaf
    /\ Nodes(u) = Nodes(t) \cup {leaf} /\ leaf \notin Nodes(t) /\ leaf # NULL
    /\ u.root = t.root
    /\ u.nodes[leaf] = Leaf(val, header, at)
    /\ \A k \in Nodes(t) :
          /\ u.nodes[k].value = t.nodes[k].value
          /\ u.nodes[k].header = t.nodes[k].header
          /\ u.nodes[k].parent = t.nodes[k].parent
          /\ u.nodes[k].left = IF k = at /\ val < t.nodes[k].value THEN leaf
                               ELSE t.nodes[k].left
          /\ u.nodes[k].right = IF k = at /\ ~ val < t.nodes[k].value THEN leaf
                                ELSE t.nodes[k].right

LEMMA WithLeafFields ==
    ASSUME NEW node \in NodeSet, NEW val \in Int, NEW leaf \in Int
    PROVE  LET new == WithLeaf(node, val, leaf)
           IN  /\ new \in NodeSet
               /\ new.value = node.value /\ new.header = node.header
               /\ new.parent = node.parent
               /\ new.left = IF val < node.value THEN leaf ELSE node.left
               /\ new.right = IF ~ val < node.value THEN leaf ELSE node.right
<1> DEFINE new == WithLeaf(node, val, leaf)
<1>0. node.balance - 1 \in Int /\ node.balance + 1 \in Int
  BY DEF NodeSet
<1>1. CASE val < node.value
  <2>1. new = [node EXCEPT !.left = leaf, !.balance = node.balance - 1]
    BY <1>1 DEF WithLeaf
  <2>. HIDE DEF new
  <2>2. /\ new \in NodeSet
        /\ new.value = node.value /\ new.header = node.header
        /\ new.parent = node.parent /\ new.left = leaf /\ new.right = node.right
    BY <1>0, <2>1 DEF NodeSet
  <2>. QED BY <1>1, <2>2 DEF new
<1>2. CASE ~ val < node.value
  <2>1. new = [node EXCEPT !.right = leaf, !.balance = node.balance + 1]
    BY <1>2 DEF WithLeaf
  <2>. HIDE DEF new
  <2>2. /\ new \in NodeSet
        /\ new.value = node.value /\ new.header = node.header
        /\ new.parent = node.parent /\ new.left = node.left /\ new.right = leaf
    BY <1>0, <2>1 DEF NodeSet
  <2>. QED BY <1>2, <2>2 DEF new
<1>. QED BY <1>1, <1>2

LEMMA PutLeafFields ==
    ASSUME NEW t, WellFormed(t), NEW at \in Nodes(t), NEW val \in Int, NEW header \in Int
    PROVE  LeafPut(t, at, val, header, PutLeaf(t, at, val, header), EndOf(t) + 1)
<1> DEFINE leaf == EndOf(t) + 1
           u == PutLeaf(t, at, val, header)
           new == [n \in Nodes(t) \cup {leaf} |->
                      CASE n = leaf -> Leaf(val, header, at)
                        [] n = at   -> WithLeaf(t.nodes[n], val, leaf)
                        [] OTHER    -> t.nodes[n]]
<1>1. /\ EndOf(t) \in Nat \cup {-1} /\ Nodes(t) = 0 .. EndOf(t)
      /\ \A n \in Nodes(t) : t.nodes[n] \in NodeSet
  BY Slots, NodeFields
<1>2. leaf \in Nat /\ leaf \notin Nodes(t) /\ Nodes(t) \cup {leaf} = 0 .. leaf /\ leaf # NULL
  BY <1>1 DEF NULL
<1>3. u = [root |-> t.root, nodes |-> new]
  BY DEF PutLeaf
<1>. HIDE DEF leaf, u
<1>4. /\ new[leaf] = Leaf(val, header, at)
      /\ \A k \in Nodes(t) : new[k] = IF k = at THEN WithLeaf(t.nodes[k], val, leaf)
                                      ELSE t.nodes[k]
  BY <1>2
<1>5. Leaf(val, header, at) \in NodeSet
  BY <1>1 DEF Leaf, NodeSet, NULL
<1>6. ASSUME NEW k \in Nodes(t)
      PROVE  /\ new[k] \in NodeSet
             /\ new[k].value = t.nodes[k].value
             /\ new[k].header = t.nodes[k].header
             /\ new[k].parent = t.nodes[k].parent
             /\ new[k].left = IF k = at /\ val < t.nodes[k].value THEN leaf
                              ELSE t.nodes[k].left
             /\ new[k].right = IF k = at /\ ~ val < t.nodes[k].value THEN leaf
                               ELSE t.nodes[k].right
  <2>1. PICK node \in NodeSet : node = t.nodes[k]
    BY <1>1
  <2>2. new[k] = IF k = at THEN WithLeaf(node, val, leaf) ELSE node
    BY <1>4, <2>1
  <2>. HIDE DEF new
  <2>3. CASE k = at
    <3>1. new[k] = WithLeaf(node, val, leaf) /\ leaf \in Int
      BY <1>2, <2>2, <2>3
    <3>. QED BY <2>1, <2>3, <3>1, WithLeafFields
  <2>4. CASE k # at
    BY <2>1, <2>2, <2>4
  <2>. QED BY <2>3, <2>4
<1>7. DOMAIN new = Nodes(t) \cup {leaf} /\ new = [k \in Nodes(t) \cup {leaf} |-> new[k]]
  OBVIOUS
<1>. HIDE DEF new
<1>8. u.root = t.root /\ u.nodes = new /\ Nodes(u) = Nodes(t) \cup {leaf}
  BY <1>3, <1>7 DEF Nodes
<1>9. WellFormed(u)
  <2>1. new \in [Nodes(t) \cup {leaf} -> NodeSet]
    BY <1>4, <1>5, <1>6, <1>7
  <2>. QED BY <1>2, <1>3, <1>8, <2>1 DEF WellFormed, IsTreeRecord
<1>10. EndOf(u) = leaf
  <2>1. EndOf(u) \in Nat \cup {-1} /\ 0 .. leaf = 0 .. EndOf(u)
    BY <1>2, <1>8, <1>9, Slots
  <2>2. leaf \in 0 .. EndOf(u)
    BY <1>2, <2>1
  <2>3. ASSUME EndOf(u) \in Nat PROVE EndOf(u) \in 0 .. leaf
    <3>1. EndOf(u) \in 0 .. EndOf(u)
      BY <2>3
    <3>. QED BY <2>1, <3>1
  <2>. QED BY <1>2, <2>1, <2>2, <2>3
<1>. QED BY <1>2, <1>4, <1>6, <1>8, <1>9, <1>10 DEF LeafPut, leaf, u

\* What an insertion leaves: a tree of all nodes, or one that has lost some.
InsertedInto(u, cuts, sub) ==
    LET D == Nodes(u)
    IN  /\ u.root \in D /\ ParentOf(u) \in [D -> D \cup {NULL}]
        /\ Nested(D, LeftOf(u), RightOf(u), sub)
        /\ Sorted(D, LeftOf(u), RightOf(u), ValueOf(u), sub)
        /\ cuts <=> sub[u.root] # D
        /\ ~ cuts => Linked(D, LeftOf(u), RightOf(u), ParentOf(u), u.root)

LEMMA PutLeafTree ==
    ASSUME NEW t, NEW sub, IsSearchTree(t, sub), t.root # NULL,
           NEW val \in Int, NEW header \in Int, NEW u, NEW leaf,
           LeafPut(t, InsertionPoint(t, val), val, header, u, leaf)
    PROVE  \E sub2 : InsertedInto(u, CutsSubtree(t, val), sub2)
<1> DEFINE D == Nodes(t)
           F == Nodes(u)
           left == LeftOf(t)
           right == RightOf(t)
           parent == ParentOf(t)
           value == ValueOf(t)
           left2 == LeftOf(u)
           right2 == RightOf(u)
           parent2 == ParentOf(u)
           value2 == ValueOf(u)
           at == InsertionPoint(t, val)
           cuts == CutsSubtree(t, val)
<1>1. /\ Nested(D, left, right, sub) /\ Linked(D, left, right, parent, t.root)
      /\ sub[t.root] = D /\ Sorted(D, left, right, value, sub)
      /\ WellFormed(t) /\ t.root \in D
  BY DEF IsSearchTree, IsTree, Linked
<1>2. /\ NULL \notin D /\ IsFiniteSet(D)
      /\ left \in [D -> D \cup {NULL}] /\ right \in [D -> D \cup {NULL}]
      /\ parent \in [D -> D \cup {NULL}]
      /\ sub \in [D \cup {NULL} -> SUBSET D] /\ sub[NULL] = {}
      /\ \A k \in D : sub[k] = {k} \cup sub[left[k]] \cup sub[right[k]]
  BY <1>1, Slots DEF Nested, Linked
<1>3. at \in D /\ Toward(t, at, val) = NULL /\ Fits(D, left, right, value, sub, at, val)
  BY <1>1, InsertionFits
<1>4. \A k \in D : /\ value[k] \in Int /\ value[k] = t.nodes[k].value
                   /\ left[k] = t.nodes[k].left /\ right[k] = t.nodes[k].right
                   /\ parent[k] = t.nodes[k].parent
  BY <1>1, NodeFields
<1>5. /\ WellFormed(u) /\ F = D \cup {leaf} /\ leaf \notin D /\ leaf # NULL
      /\ u.root = t.root
      /\ value2[leaf] = val /\ parent2[leaf] = at
      /\ left2[leaf] = NULL /\ right2[leaf] = NULL
      /\ \A k \in D :
            /\ value2[k] = value[k] /\ parent2[k] = parent[k]
            /\ left2[k] = IF k = at /\ val < value[k] THEN leaf ELSE left[k]
            /\ right2[k] = IF k = at /\ ~ val < value[k] THEN leaf ELSE right[k]
  <2>1. /\ WellFormed(u) /\ F = D \cup {leaf} /\ leaf \notin D /\ leaf # NULL
        /\ u.root = t.root /\ u.nodes[leaf] = Leaf(val, header, at)
        /\ \A k \in D :
              /\ u.nodes[k].value = t.nodes[k].value
              /\ u.nodes[k].parent = t.nodes[k].parent
              /\ u.nodes[k].left = IF k = at /\ val < t.nodes[k].value THEN leaf
                                   ELSE t.nodes[k].left
              /\ u.nodes[k].right = IF k = at /\ ~ val < t.nodes[k].value THEN leaf
                                    ELSE t.nodes[k].right
    BY DEF LeafPut
  <2>2. \A k \in F : /\ value2[k] = u.nodes[k].value /\ parent2[k] = u.nodes[k].parent
                     /\ left2[k] = u.nodes[k].left /\ right2[k] = u.nodes[k].right
    BY <2>1, NodeFields
  <2>3. /\ u.nodes[leaf].value = val /\ u.nodes[leaf].parent = at
        /\ u.nodes[leaf].left = NULL /\ u.nodes[leaf].right = NULL
    BY <2>1 DEF Leaf
  <2>. HIDE DEF D, F, left, right, parent, value, left2, right2, parent2, value2, at
  <2>. QED BY <1>4, <2>1, <2>2, <2>3
<1>6. DOMAIN left2 = F /\ DOMAIN right2 = F /\ DOMAIN parent2 = F
      /\ left2 = [k \in F |-> left2[k]] /\ right2 = [k \in F |-> right2[k]]
      /\ parent2 = [k \in F |-> parent2[k]]
  BY DEF LeftOf, RightOf, ParentOf
<1>7. IF val < value[at] THEN left[at] = NULL
      ELSE IF value[at] < val THEN right[at] = NULL ELSE left[at] = NULL
  BY <1>3, <1>4 DEF Toward
<1>8. cuts <=> ~ val < value[at] /\ right[at] # NULL
  <2>1. cuts <=> val = value[at] /\ right[at] # NULL
    BY <1>3, <1>4 DEF CutsSubtree
  <2>. HIDE DEF cuts, left, right, value
  <2>. QED BY <1>3, <1>4, <1>7, <2>1
<1>. HIDE DEF D, F, left, right, parent, value, left2, right2, parent2, value2, at, cuts
<1>9. /\ left2 \in [F -> F \cup {NULL}] /\ right2 \in [F -> F \cup {NULL}]
      /\ parent2 \in [F -> F \cup {NULL}]
  <2>1. \A k \in F : /\ left2[k] \in F \cup {NULL} /\ right2[k] \in F \cup {NULL}
                     /\ parent2[k] \in F \cup {NULL}
    BY <1>2, <1>3, <1>5
  <2>. QED BY <1>6, <2>1
<1>10. CASE val < value[at]
  <2>1. LeafAt(D, right, left, at, leaf, right2, left2)
    BY <1>3, <1>5, <1>9, <1>10 DEF LeafAt
  <2>2. Nested(D, right, left, sub) /\ Linked(D, right, left, parent, t.root)
    BY <1>1, Mirrored
  <2>3. PICK sub2 : /\ Nested(F, right2, left2, sub2)
                    /\ LeafBelow(D, left, at, leaf, sub, sub2)
    BY <1>2, <1>5, <2>1, <2>2, LeafAdded
  <2>4. Nested(F, left2, right2, sub2)
    BY <2>3, Mirrored
  <2>5. left[at] = NULL /\ sub[left[at]] = {}
    BY <1>2, <1>7, <1>10
  <2>6. Linked(F, right2, left2, parent2, t.root)
    BY <1>1, <1>2, <1>5, <1>9, <2>1, <2>2, <2>5, LeafLinked
  <2>7. Linked(F, left2, right2, parent2, u.root)
    BY <1>5, <2>6, Mirrored
  <2>8. /\ sub2[leaf] = {leaf} /\ sub2[NULL] = {}
        /\ \A k \in D \cup {NULL} :
              sub2[k] = IF at \in sub[k] THEN sub[k] \cup {leaf} ELSE sub[k]
    BY <1>2, <2>3, <2>5 DEF LeafBelow
  <2>9. Sorted(D \cup {leaf}, left2, right2, value2, sub2)
    <3>1. LeafLinks(D, left, right, value, at, val, leaf, left2, right2)
      BY <1>3, <1>4, <1>5, <1>10 DEF LeafLinks
    <3>2. OnlyLeafBelow(D, at, leaf, sub, sub2)
      BY <2>8 DEF OnlyLeafBelow
    <3>. QED BY <1>1, <1>3, <1>5, <3>1, <3>2, LeafSorted
  <2>10. sub2[u.root] = F
    BY <1>1, <1>3, <1>5, <2>8
  <2>11. ~ cuts
    BY <1>8, <1>10
  <2>. QED BY <1>1, <1>5, <1>9, <2>4, <2>7, <2>9, <2>10, <2>11
           DEF InsertedInto, F, left2, right2, parent2, value2, cuts
<1>11. CASE ~ val < value[at]
  <2>1. LeafAt(D, left, right, at, leaf, left2, right2)
    BY <1>3, <1>5, <1>9, <1>11 DEF LeafAt
  <2>2. PICK sub2 : /\ Nested(F, left2, right2, sub2)
                    /\ LeafBelow(D, right, at, leaf, sub, sub2)
    BY <1>1, <1>2, <1>5, <2>1, LeafAdded
  <2>3. ~ cuts => Linked(F, left2, right2, parent2, u.root)
    <3>1. SUFFICES ASSUME ~ cuts PROVE Linked(F, left2, right2, parent2, t.root)
      BY <1>5
    <3>2. right[at] = NULL
      BY <1>8, <1>11, <3>1
    <3>. QED BY <1>1, <1>2, <1>5, <1>9, <2>1, <3>2, LeafLinked
  <2>4. /\ sub2[leaf] = {leaf} /\ sub2[NULL] = {}
        /\ \A k \in D \cup {NULL} :
              sub2[k] = IF at \in sub[k] THEN (sub[k] \ sub[right[at]]) \cup {leaf}
                                       ELSE sub[k]
    BY <1>2, <2>2 DEF LeafBelow
  <2>5. Sorted(D \cup {leaf}, left2, right2, value2, sub2)
    <3>1. LeafLinks(D, left, right, value, at, val, leaf, left2, right2)
      BY <1>3, <1>4, <1>5, <1>11 DEF LeafLinks
    <3>2. OnlyLeafBelow(D, at, leaf, sub, sub2)
      BY <2>4 DEF OnlyLeafBelow
    <3>. QED BY <1>1, <1>3, <1>5, <3>1, <3>2, LeafSorted
  <2>6. cuts <=> sub2[u.root] # F
    <3>1. sub2[u.root] = (D \ sub[right[at]]) \cup {leaf}
      BY <1>1, <1>3, <1>5, <2>4
    <3>2. IF right[at] = NULL THEN sub[right[at]] = {}
          ELSE right[at] \in D /\ right[at] \in sub[right[at]]
      BY <1>2, <1>3
    <3>. QED BY <1>5, <1>8, <1>11, <3>1, <3>2
  <2>. QED BY <1>1, <1>5, <1>9, <2>2, <2>3, <2>5, <2>6
           DEF InsertedInto, F, left2, right2, parent2, value2, cuts
<1>. QED BY <1>10, <1>11 DEF cuts

\* The tree of one node.
LEMMA OneNode ==
    ASSUME NEW val \in Int, NEW header \in Int, NEW u,
           u = [root |-> 0, nodes |-> [n \in {0} |-> Leaf(val, header, NULL)]]
    PROVE  /\ WellFormed(u) /\ Nodes(u) = {0} /\ EndOf(u) = 0
           /\ u.root = 0 /\ u.nodes[0].value = val /\ u.nodes[0].header = header
           /\ \E sub : IsSearchTree(u, sub)
<1> DEFINE sub == [n \in {0, NULL} |-> IF n = 0 THEN {0} ELSE {}]
<1>1. u.root = 0 /\ u.nodes = [n \in {0} |-> Leaf(val, header, NULL)] /\ Nodes(u) = {0}
  BY DEF Nodes
<1>2. u.nodes[0] = Leaf(val, header, NULL) /\ Leaf(val, header, NULL) \in NodeSet
  BY <1>1 DEF Leaf, NodeSet, NULL
<1>3. /\ u.nodes[0].value = val /\ u.nodes[0].header = header
      /\ u.nodes[0].left = NULL /\ u.nodes[0].right = NULL /\ u.nodes[0].parent = NULL
  BY <1>2 DEF Leaf
<1>4. WellFormed(u)
  <2>1. 0 \in Nat \cup {-1} /\ {0} = 0 .. 0
    OBVIOUS
  <2>2. u.nodes \in [{0} -> NodeSet]
    BY <1>1, <1>2
  <2>. QED BY <1>1, <2>1, <2>2 DEF WellFormed, IsTreeRecord
<1>5. EndOf(u) = 0
  <2>1. Cardinality({0}) = 1
    BY FS_Singleton
  <2>2. EndOf(u) = Cardinality(Nodes(u)) - 1
    BY DEF EndOf, Nodes
  <2>. QED BY <1>1, <2>1, <2>2
<1>6. LeftOf(u)[0] = NULL /\ RightOf(u)[0] = NULL /\ ParentOf(u)[0] = NULL
  BY <1>1, <1>3, <1>4, NodeFields
<1>7. /\ LeftOf(u) \in [{0} -> {0, NULL}] /\ RightOf(u) \in [{0} -> {0, NULL}]
      /\ ParentOf(u) \in [{0} -> {0, NULL}]
  BY <1>1, <1>6 DEF LeftOf, RightOf, ParentOf
<1>8. /\ sub[0] = {0} /\ sub[NULL] = {} /\ sub \in [{0, NULL} -> SUBSET {0}]
      /\ {0} \cup {NULL} = {0, NULL} /\ 0 # NULL
  BY DEF NULL
<1>. HIDE DEF sub
<1>9. Nested({0}, LeftOf(u), RightOf(u), sub)
  BY <1>6, <1>7, <1>8 DEF Nested
<1>10. Linked({0}, LeftOf(u), RightOf(u), ParentOf(u), 0)
  BY <1>6, <1>7, <1>8 DEF Linked
<1>11. Sorted({0}, LeftOf(u), RightOf(u), ValueOf(u), sub)
  BY <1>6, <1>8 DEF Sorted
<1>12. IsSearchTree(u, sub)
  BY <1>1, <1>4, <1>8, <1>9, <1>10, <1>11 DEF IsSearchTree, IsTree
<1>. QED BY <1>1, <1>3, <1>4, <1>5, <1>12

LEMMA InsertedTree ==
    ASSUME NEW t, NEW sub, IsSearchTree(t, sub), NEW val \in Int, NEW header \in Int
    PROVE  LET u == Inserted(t, val, header)
               leaf == EndOf(t) + 1
           IN  /\ WellFormed(u) /\ EndOf(u) = leaf
               /\ Nodes(u) = Nodes(t) \cup {leaf} /\ leaf \notin Nodes(t)
               /\ u.nodes[leaf].value = val /\ u.nodes[leaf].header = header
               /\ \A k \in Nodes(t) : /\ u.nodes[k].value = t.nodes[k].value
                                      /\ u.nodes[k].header = t.nodes[k].header
               /\ \E sub2 : InsertedInto(u, CutsSubtree(t, val), sub2)
<1> DEFINE u == Inserted(t, val, header)
           leaf == EndOf(t) + 1
<1>1. /\ WellFormed(t) /\ t.root \in Nodes(t) \cup {NULL} /\ sub[t.root] = Nodes(t)
      /\ sub[NULL] = {}
      /\ Nested(Nodes(t), LeftOf(t), RightOf(t), sub)
      /\ Sorted(Nodes(t), LeftOf(t), RightOf(t), ValueOf(t), sub)
  BY DEF IsSearchTree, IsTree, Linked, Nested
<1>2. CASE t.root = NULL
  <2>1. Nodes(t) = {}
    BY <1>1, <1>2
  <2>2. leaf = 0
    BY <2>1, FS_EmptySet DEF EndOf, Nodes
  <2>3. u = [root |-> 0, nodes |-> [n \in {0} |-> Leaf(val, header, NULL)]]
    <3>1. u = [root |-> 0, nodes |-> [n \in Nodes(t) \cup {leaf} |->
                  IF n = 0 THEN Leaf(val, header, NULL) ELSE t.nodes[n]]]
      BY <1>2 DEF Inserted
    <3>. HIDE DEF u, leaf
    <3>2. [n \in Nodes(t) \cup {leaf} |-> IF n = 0 THEN Leaf(val, header, NULL) ELSE t.nodes[n]]
          = [n \in {0} |-> Leaf(val, header, NULL)]
      BY <2>1, <2>2
    <3>. QED BY <3>1, <3>2
  <2>4. ~ CutsSubtree(t, val)
    BY <1>2 DEF CutsSubtree
  <2>. HIDE DEF u, leaf
  <2>5. PICK sub2 : IsSearchTree(u, sub2)
    BY <2>3, OneNode
  <2>6. InsertedInto(u, CutsSubtree(t, val), sub2)
    <3>1. u.root \in Nodes(u)
      BY <2>3, OneNode
    <3>. QED BY <2>4, <2>5, <3>1 DEF IsSearchTree, IsTree, Linked, InsertedInto
  <2>. QED BY <2>1, <2>2, <2>3, <2>6, OneNode DEF u, leaf
<1>3. CASE t.root # NULL
  <2>1. u = PutLeaf(t, InsertionPoint(t, val), val, header)
    BY <1>3 DEF Inserted
  <2>2. InsertionPoint(t, val) \in Nodes(t)
    BY <1>1, <1>3, InsertionFits
  <2>. HIDE DEF u, leaf
  <2>3. LeafPut(t, InsertionPoint(t, val), val, header, u, leaf)
    BY <1>1, <2>1, <2>2, PutLeafFields DEF leaf
  <2>4. \E sub2 : InsertedInto(u, CutsSubtree(t, val), sub2)
    BY <1>3, <2>3, PutLeafTree
  <2>5. u.nodes[leaf].value = val /\ u.nodes[leaf].header = header
    BY <2>3 DEF LeafPut, Leaf
  <2>. QED BY <2>3, <2>4, <2>5 DEF LeafPut, u, leaf
<1>. QED BY <1>2, <1>3

-----------------------------------------------------------------------------
(* Removal                                                                   *)

Replacement(t, m) == IF t.nodes[m].left = NULL THEN t.nodes[m].right
                                               ELSE t.nodes[m].left

LEMMA DetachedFields ==
    ASSUME NEW t, NEW sub, IsSearchTree(t, sub), NEW m \in Nodes(t)
    PROVE  LET u == Detached(t, m)
               node == t.nodes[m]
               child == Replacement(t, m)
           IN  /\ IsTreeRecord(u)
               /\ Nodes(u) = Nodes(t) /\ EndOf(u) = EndOf(t)
               /\ u.root = IF node.parent = NULL THEN child ELSE t.root
               /\ \A k \in Nodes(t) :
                     /\ u.nodes[k] \in NodeSet
                     /\ u.nodes[k].value = t.nodes[k].value
                     /\ u.nodes[k].header = t.nodes[k].header
                     /\ u.nodes[k].parent = IF k = child THEN node.parent
                                            ELSE t.nodes[k].parent
                     /\ u.nodes[k].left = IF k = node.parent /\ t.nodes[k].left = m
                                          THEN child ELSE t.nodes[k].left
                     /\ u.nodes[k].right = IF k = node.parent /\ t.nodes[k].left # m
                                           THEN child ELSE t.nodes[k].right
<1> DEFINE u == Detached(t, m)
           node == t.nodes[m]
           child == Replacement(t, m)
           new == [k \in Nodes(t) |->
                     [t.nodes[k] EXCEPT
                        !.parent = IF k = child THEN node.parent ELSE @,
                        !.left   = IF k = node.parent /\ @ = m THEN child ELSE @,
                        !.right  = IF k = node.parent /\ t.nodes[k].left # m
                                   THEN child ELSE @]]
<1>1. \A k \in Nodes(t) : t.nodes[k] \in NodeSet
  BY NodeFields DEF IsSearchTree
<1>2. child \in Int /\ node.parent \in Int
  BY <1>1 DEF NodeSet, Replacement
<1>3. u = [root |-> IF node.parent = NULL THEN child ELSE t.root, nodes |-> new]
  BY DEF Detached, Replacement
<1>4. Nodes(u) = Nodes(t) /\ EndOf(u) = EndOf(t)
  <2>1. DOMAIN new = Nodes(t)
    OBVIOUS
  <2>2. u.nodes = new
    <3>. HIDE DEF u, new
    <3>. QED BY <1>3
  <2>. HIDE DEF u, new
  <2>. QED BY <2>1, <2>2 DEF Nodes, EndOf
<1>. HIDE DEF u, node, child
<1>5. ASSUME NEW k \in Nodes(t)
      PROVE  /\ new[k] \in NodeSet
             /\ new[k].value = t.nodes[k].value
             /\ new[k].header = t.nodes[k].header
             /\ new[k].parent = IF k = child THEN node.parent ELSE t.nodes[k].parent
             /\ new[k].left = IF k = node.parent /\ t.nodes[k].left = m
                              THEN child ELSE t.nodes[k].left
             /\ new[k].right = IF k = node.parent /\ t.nodes[k].left # m
                               THEN child ELSE t.nodes[k].right
  <2>1. PICK o \in NodeSet : o = t.nodes[k]
    BY <1>1
  <2> DEFINE p == IF k = child THEN node.parent ELSE o.parent
             l == IF k = node.parent /\ o.left = m THEN child ELSE o.left
             r == IF k = node.parent /\ o.left # m THEN child ELSE o.right
  <2>2. new[k] = [o EXCEPT !.parent = p, !.left = l, !.right = r]
    BY <2>1
  <2>3. p \in Int /\ l \in Int /\ r \in Int
    BY <1>2 DEF NodeSet
  <2>. HIDE DEF new, p, l, r
  <2>4. /\ new[k] \in NodeSet
        /\ new[k].value = o.value /\ new[k].header = o.header
        /\ new[k].parent = p /\ new[k].left = l /\ new[k].right = r
    BY <2>2, <2>3 DEF NodeSet
  <2>. QED BY <2>1, <2>4 DEF p, l, r
<1>. HIDE DEF new
<1>6. u.nodes = new /\ u.root = IF node.parent = NULL THEN child ELSE t.root
  BY <1>3
<1>7. IsTreeRecord(u)
  BY <1>3 DEF IsTreeRecord
<1>. QED BY <1>4, <1>5, <1>6, <1>7 DEF u, node, child

\* Without node m, the links are those of NodeTakenOut.
LEMMA DetachedTree ==
    ASSUME NEW t, NEW sub, IsSearchTree(t, sub), NEW m \in Nodes(t),
           ~ HasTwoChildren(t, m)
    PROVE  LET u == Detached(t, m)
               E == Nodes(t) \ {m}
               left == [k \in E |-> u.nodes[k].left]
               right == [k \in E |-> u.nodes[k].right]
               parent == [k \in E |-> u.nodes[k].parent]
           IN  \E sub2 : /\ IsTree(E, left, right, parent, u.root, sub2)
                         /\ Sorted(E, left, right, ValueOf(t), sub2)
<1> DEFINE D == Nodes(t)
           E == D \ {m}
           u == Detached(t, m)
           left == LeftOf(t)
           right == RightOf(t)
           parent == ParentOf(t)
           child == Replacement(t, m)
           left2 == [k \in E |-> IF left[k] = m THEN child ELSE left[k]]
           right2 == [k \in E |-> IF right[k] = m THEN child ELSE right[k]]
           parent2 == [k \in E |-> IF k = child THEN parent[m] ELSE parent[k]]
           root2 == IF m = t.root THEN child ELSE t.root
<1>1. /\ IsTree(D, left, right, parent, t.root, sub)
      /\ Sorted(D, left, right, ValueOf(t), sub)
      /\ WellFormed(t)
  BY DEF IsSearchTree
<1>2. /\ NULL \notin D
      /\ left \in [D -> D \cup {NULL}] /\ right \in [D -> D \cup {NULL}]
      /\ parent \in [D -> D \cup {NULL}]
      /\ \A n \in D : /\ (parent[n] = NULL) <=> (n = t.root)
                      /\ left[n] # NULL => parent[left[n]] = n
                      /\ right[n] # NULL => parent[right[n]] = n
                      /\ left[n] = right[n] => left[n] = NULL
                      /\ parent[n] # NULL => left[parent[n]] = n \/ right[parent[n]] = n
  BY <1>1 DEF IsTree, Nested, Linked
<1>3. /\ left[m] = NULL \/ right[m] = NULL
      /\ child = IF left[m] = NULL THEN right[m] ELSE left[m]
      /\ IsFiniteSet(D) /\ m \in D
  BY <1>1, NodeFields, Slots DEF HasTwoChildren, Replacement
<1>4. /\ u.root = root2
      /\ \A k \in E : /\ u.nodes[k].parent = parent2[k]
                      /\ u.nodes[k].left = left2[k]
                      /\ u.nodes[k].right = right2[k]
  <2>1. /\ u.root = IF parent[m] = NULL THEN child ELSE t.root
        /\ \A k \in D :
              /\ u.nodes[k].parent = IF k = child THEN parent[m] ELSE parent[k]
              /\ u.nodes[k].left = IF k = parent[m] /\ left[k] = m
                                   THEN child ELSE left[k]
              /\ u.nodes[k].right = IF k = parent[m] /\ left[k] # m
                                    THEN child ELSE right[k]
    BY <1>1, DetachedFields, NodeFields
  <2>. HIDE DEF u, child, left, right, parent, D
  <2>2. \A k \in E : /\ parent2[k] = IF k = child THEN parent[m] ELSE parent[k]
                     /\ left2[k] = IF left[k] = m THEN child ELSE left[k]
                     /\ right2[k] = IF right[k] = m THEN child ELSE right[k]
    OBVIOUS
  <2>3. \A k \in E : left[k] = m => k = parent[m]
    BY <1>2, <1>3
  <2>4. \A k \in E : right[k] = m <=> k = parent[m] /\ left[k] # m
    BY <1>2, <1>3
  <2>5. u.root = root2
    BY <1>2, <1>3, <2>1
  <2>. HIDE DEF left2, right2, parent2
  <2>. QED BY <2>1, <2>2, <2>3, <2>4, <2>5
<1>5. /\ left2 = [k \in E |-> u.nodes[k].left]
      /\ right2 = [k \in E |-> u.nodes[k].right]
      /\ parent2 = [k \in E |-> u.nodes[k].parent]
  <2>1. /\ left2 = [k \in E |-> left2[k]] /\ right2 = [k \in E |-> right2[k]]
        /\ parent2 = [k \in E |-> parent2[k]]
    OBVIOUS
  <2>. HIDE DEF left2, right2, parent2, u
  <2>. QED BY <1>4, <2>1
<1>6. \E sub2 : /\ IsTree(E, left2, right2, parent2, root2, sub2)
                /\ Sorted(E, left2, right2, ValueOf(t), sub2)
  <2>. HIDE DEF D, left, right, parent, child
  <2>1. TakenOut(D, left, right, parent, t.root, m, child,
                 left2, right2, parent2, root2)
    BY <1>3 DEF TakenOut
  <2>. HIDE DEF left2, right2, parent2, root2
  <2>. QED BY <1>1, <2>1, NodeTakenOut
<1>. HIDE DEF left2, right2, parent2, root2
<1>. QED BY <1>4, <1>5, <1>6

NodeCopied(d, end, m, c) ==
    /\ IsTreeRecord(c)
    /\ c.root = IF d.root = end THEN m ELSE d.root
    /\ Nodes(c) = Nodes(d)
    /\ \A k \in Nodes(d) : c.nodes[k] = d.nodes[IF k = m THEN end ELSE k]

LEMMA NodeCopyFields ==
    ASSUME NEW d, NEW m \in Nodes(d), NEW end \in Nodes(d), m # end
    PROVE  NodeCopied(d, end, m, NodeCopy(d, end, m))
<1> DEFINE c == NodeCopy(d, end, m)
           new == [d.nodes EXCEPT ![m] = d.nodes[end]]
<1>1. c = [root |-> IF d.root = end THEN m ELSE d.root, nodes |-> new]
  BY DEF NodeCopy
<1>2. /\ DOMAIN new = Nodes(d)
      /\ \A k \in Nodes(d) : new[k] = d.nodes[IF k = m THEN end ELSE k]
  BY DEF Nodes
<1>. HIDE DEF c, new
<1>. QED BY <1>1, <1>2 DEF NodeCopied, Nodes, IsTreeRecord, c

LEMMA RelinkedFields ==
    ASSUME NEW c, IsTreeRecord(c),
           NEW m \in Int, NEW end \in Nodes(c),
           \A k \in Nodes(c) : c.nodes[k] \in NodeSet
    PROVE  LET r == Relinked(c, end, m)
               last == c.nodes[end]
           IN  /\ r.root = c.root
               /\ \A k \in Nodes(c) :
                     LET o == c.nodes[k]
                     IN  /\ r.nodes[k] \in NodeSet
                         /\ r.nodes[k].value = o.value
                         /\ r.nodes[k].header = o.header
                         /\ r.nodes[k].left = IF k = last.parent /\ o.left = end
                                              THEN m ELSE o.left
                         /\ r.nodes[k].right = IF k = last.parent /\ o.right = end
                                               THEN m ELSE o.right
                         /\ r.nodes[k].parent = IF k \in {last.left, last.right}
                                                THEN m ELSE o.parent
<1> DEFINE r == Relinked(c, end, m)
           last == c.nodes[end]
           Name(x) == IF x = end THEN m ELSE x
           new == [k \in Nodes(c) |->
                     [c.nodes[k] EXCEPT
                        !.left   = IF k = last.parent THEN Name(@) ELSE @,
                        !.right  = IF k = last.parent THEN Name(@) ELSE @,
                        !.parent = IF k \in {last.left, last.right} THEN m ELSE @]]
<1>1. r = [c EXCEPT !.nodes = new]
  BY DEF Relinked
<1>2. r.root = c.root /\ r.nodes = new
  <2>. HIDE DEF r, new
  <2>. QED BY <1>1 DEF IsTreeRecord
<1>3. ASSUME NEW k \in Nodes(c)
      PROVE  LET o == c.nodes[k]
             IN  /\ new[k] \in NodeSet
                 /\ new[k].value = o.value
                 /\ new[k].header = o.header
                 /\ new[k].left = IF k = last.parent /\ o.left = end THEN m ELSE o.left
                 /\ new[k].right = IF k = last.parent /\ o.right = end THEN m ELSE o.right
                 /\ new[k].parent = IF k \in {last.left, last.right} THEN m ELSE o.parent
  <2>1. PICK o \in NodeSet : o = c.nodes[k]
    OBVIOUS
  <2> DEFINE p == IF k \in {last.left, last.right} THEN m ELSE o.parent
             lft == IF k = last.parent /\ o.left = end THEN m ELSE o.left
             rgt == IF k = last.parent /\ o.right = end THEN m ELSE o.right
  <2>. HIDE DEF last
  <2>2. new[k] = [o EXCEPT !.left = lft, !.right = rgt, !.parent = p]
    <3>1. new[k] = [o EXCEPT !.left = IF k = last.parent THEN Name(o.left) ELSE o.left,
                             !.right = IF k = last.parent THEN Name(o.right) ELSE o.right,
                             !.parent = p]
      BY <2>1
    <3>2. /\ lft = IF k = last.parent THEN Name(o.left) ELSE o.left
          /\ rgt = IF k = last.parent THEN Name(o.right) ELSE o.right
      OBVIOUS
    <3>. HIDE DEF new, p, lft, rgt, Name
    <3>. QED BY <3>1, <3>2
  <2>3. p \in Int /\ lft \in Int /\ rgt \in Int
    BY DEF NodeSet
  <2>. HIDE DEF new, p, lft, rgt
  <2>4. /\ new[k] \in NodeSet
        /\ new[k].value = o.value /\ new[k].header = o.header
        /\ new[k].parent = p /\ new[k].left = lft /\ new[k].right = rgt
    BY <2>2, <2>3 DEF NodeSet
  <2>. QED BY <2>1, <2>4 DEF p, lft, rgt
<1>. HIDE DEF r, new, last
<1>. QED BY <1>2, <1>3 DEF r, last

\* A slot of the array, and the slots without the last.
LEMMA SlotsTaken ==
    ASSUME NEW d, NEW D, IsFiniteSet(D), Nodes(d) = D, EndOf(d) \in Nat, D = 0 .. EndOf(d),
           NEW u, IsTreeRecord(u),
           Nodes(u) = D \ {EndOf(d)},
           \A k \in D \ {EndOf(d)} : u.nodes[k] \in NodeSet,
           u.nodes = [k \in D \ {EndOf(d)} |-> u.nodes[k]]
    PROVE  WellFormed(u) /\ EndOf(u) = EndOf(d) - 1
<1> DEFINE end == EndOf(d)
<1>1. end - 1 \in Nat \cup {-1} /\ D \ {end} = 0 .. end - 1
  OBVIOUS
<1>2. WellFormed(u)
  <2>1. u.nodes \in [D \ {end} -> NodeSet]
    OBVIOUS
  <2>. HIDE DEF end
  <2>. QED BY <1>1, <2>1 DEF WellFormed, end
<1>3. Cardinality(D \ {end}) = Cardinality(D) - 1
  <2>1. end \in D
    OBVIOUS
  <2>. HIDE DEF end
  <2>. QED BY <2>1, FS_RemoveElement
<1>. QED BY <1>2, <1>3 DEF EndOf, Nodes

LEMMA ErasedFields ==
    ASSUME NEW d, IsTreeRecord(d),
           EndOf(d) \in Nat, Nodes(d) = 0 .. EndOf(d),
           \A k \in Nodes(d) : d.nodes[k] \in NodeSet,
           NEW m \in Nodes(d)
    PROVE  LET u == Erased(d, m)
               end == EndOf(d)
               last == d.nodes[end]
           IN  /\ WellFormed(u) /\ Nodes(u) = Nodes(d) \ {end} /\ EndOf(u) = end - 1
               /\ u.root = IF m # end /\ d.root = end THEN m ELSE d.root
               /\ m = end => \A k \in Nodes(u) : u.nodes[k] = d.nodes[k]
               /\ m # end => \A k \in Nodes(u) :
                     LET o == d.nodes[IF k = m THEN end ELSE k]
                     IN  /\ u.nodes[k].value = o.value
                         /\ u.nodes[k].header = o.header
                         /\ u.nodes[k].left = IF k = last.parent /\ o.left = end
                                              THEN m ELSE o.left
                         /\ u.nodes[k].right = IF k = last.parent /\ o.right = end
                                               THEN m ELSE o.right
                         /\ u.nodes[k].parent = IF k \in {last.left, last.right}
                                                THEN m ELSE o.parent
<1> DEFINE u == Erased(d, m)
           D == Nodes(d)
           end == EndOf(d)
           last == d.nodes[end]
           c == NodeCopy(d, end, m)
           r == IF m = end THEN d ELSE Relinked(c, end, m)
<1>1. /\ end \in D /\ end \in Nat /\ m \in Int
      /\ IsFiniteSet(D)
  <2>1. end \in Nat /\ D = 0 .. end
    OBVIOUS
  <2>. HIDE DEF end, D
  <2>2. IsFiniteSet(0 .. end) /\ end \in 0 .. end
    <3>1. 0 \in Int /\ end \in Int /\ end \in 0 .. end
      BY <2>1
    <3>. QED BY <3>1, FS_Interval
  <2>3. m \in 0 .. end
    BY <2>1 DEF D
  <2>. QED BY <2>1, <2>2, <2>3
<1>2. u.root = r.root /\ u.nodes = [k \in D \ {end} |-> r.nodes[k]]
  BY DEF Erased
<1>2a. IsTreeRecord(u)
  BY DEF Erased, IsTreeRecord
<1>3. CASE m = end
  <2>1. r = d
    BY <1>3
  <2>. HIDE DEF u, r
  <2>2. Nodes(u) = D \ {end} /\ \A k \in D \ {end} : u.nodes[k] = d.nodes[k]
    BY <1>2, <2>1 DEF Nodes
  <2>3. WellFormed(u) /\ EndOf(u) = end - 1
    <3>1. u.nodes = [k \in D \ {end} |-> u.nodes[k]]
      BY <1>2
    <3>2. \A k \in D \ {end} : u.nodes[k] \in NodeSet
      BY <2>2
    <3>. HIDE DEF D
    <3>. QED BY <1>1, <1>2a, <2>2, <3>1, <3>2, SlotsTaken DEF D
  <2>. QED BY <1>2, <1>3, <2>1, <2>2, <2>3 DEF u
<1>4. CASE m # end
  <2>0. r = Relinked(c, end, m)
    BY <1>4
  <2>1. /\ IsTreeRecord(c)
        /\ c.root = IF d.root = end THEN m ELSE d.root
        /\ Nodes(c) = D
        /\ \A k \in D : c.nodes[k] = d.nodes[IF k = m THEN end ELSE k]
    <3>1. end \in Nodes(d) /\ m \in Nodes(d) /\ m # end
      BY <1>1, <1>4
    <3>. HIDE DEF end
    <3>2. NodeCopied(d, end, m, c)
      BY <3>1, NodeCopyFields
    <3>. HIDE DEF c
    <3>. QED BY <3>2 DEF NodeCopied
  <2>2. c.nodes[end] = last /\ \A k \in D : c.nodes[k] \in NodeSet
    BY <1>1, <1>4, <2>1
  <2>3. /\ r.root = c.root
        /\ \A k \in D :
              LET o == c.nodes[k]
              IN  /\ r.nodes[k] \in NodeSet
                  /\ r.nodes[k].value = o.value
                  /\ r.nodes[k].header = o.header
                  /\ r.nodes[k].left = IF k = last.parent /\ o.left = end
                                       THEN m ELSE o.left
                  /\ r.nodes[k].right = IF k = last.parent /\ o.right = end
                                        THEN m ELSE o.right
                  /\ r.nodes[k].parent = IF k \in {last.left, last.right}
                                         THEN m ELSE o.parent
    <3>. HIDE DEF c, r
    <3>. QED BY <1>1, <2>0, <2>1, <2>2, RelinkedFields
  <2>. HIDE DEF u, r, c
  <2>4. Nodes(u) = D \ {end} /\ \A k \in D \ {end} : u.nodes[k] = r.nodes[k]
    BY <1>2 DEF Nodes
  <2>5. WellFormed(u) /\ EndOf(u) = end - 1
    <3>1. u.nodes = [k \in D \ {end} |-> u.nodes[k]]
      BY <1>2
    <3>2. \A k \in D \ {end} : u.nodes[k] \in NodeSet
      BY <2>3, <2>4
    <3>. HIDE DEF D
    <3>. QED BY <1>1, <1>2a, <2>4, <3>1, <3>2, SlotsTaken DEF D
  <2>6. u.root = IF d.root = end THEN m ELSE d.root
    BY <1>2, <2>1, <2>3
  <2>. HIDE DEF D, end, last
  <2>. QED BY <1>4, <2>1, <2>3, <2>4, <2>5, <2>6 DEF u, D, end, last
<1>. QED BY <1>3, <1>4

LEMMA SortedBySame ==
    ASSUME NEW D, NEW left, NEW right, NEW value, NEW sub,
           Nested(D, left, right, sub), Sorted(D, left, right, value, sub),
           NEW value2, \A k \in D : value2[k] = value[k]
    PROVE  Sorted(D, left, right, value2, sub)
<1>1. \A n \in D : sub[left[n]] \subseteq D /\ sub[right[n]] \subseteq D
  BY DEF Nested
<1>. QED BY <1>1 DEF Sorted

\* The node in slot k after the removal of node m, by its slot before.
SlotBefore(t, m, k) == IF k = m THEN EndOf(t) ELSE k

LEMMA ErasedTree ==
    ASSUME NEW t, NEW sub, IsSearchTree(t, sub), NEW m \in Nodes(t),
           ~ HasTwoChildren(t, m)
    PROVE  LET u == Erased(Detached(t, m), m)
           IN  /\ Nodes(u) = Nodes(t) \ {EndOf(t)} /\ EndOf(u) = EndOf(t) - 1
               /\ \A k \in Nodes(u) :
                     /\ u.nodes[k].value = t.nodes[SlotBefore(t, m, k)].value
                     /\ u.nodes[k].header = t.nodes[SlotBefore(t, m, k)].header
               /\ \E sub2 : IsSearchTree(u, sub2)
<1> DEFINE D == Nodes(t)
           E == D \ {m}
           end == EndOf(t)
           d == Detached(t, m)
           u == Erased(d, m)
           F == Nodes(u)
           left == [k \in E |-> d.nodes[k].left]
           right == [k \in E |-> d.nodes[k].right]
           parent == [k \in E |-> d.nodes[k].parent]
           value == ValueOf(t)
<1>1. PICK sub1 : /\ IsTree(E, left, right, parent, d.root, sub1)
                  /\ Sorted(E, left, right, value, sub1)
  BY DetachedTree
<1>2. /\ end \in Nat /\ D = 0 .. end /\ NULL \notin D /\ end \in D
      /\ \A k \in D : value[k] = t.nodes[k].value
  <2>1. /\ end \in Nat \cup {-1} /\ D = 0 .. end /\ NULL \notin D
        /\ \A k \in D : value[k] = t.nodes[k].value
    BY Slots, NodeFields DEF IsSearchTree
  <2>2. m \in 0 .. end
    BY <2>1
  <2>. HIDE DEF D, end, value
  <2>. QED BY <2>1, <2>2
<1>3. /\ IsTreeRecord(d) /\ Nodes(d) = D /\ EndOf(d) = end
      /\ \A k \in D : /\ d.nodes[k] \in NodeSet
                      /\ d.nodes[k].value = t.nodes[k].value
                      /\ d.nodes[k].header = t.nodes[k].header
  BY DetachedFields
<1> DEFINE last == d.nodes[end]
<1>. HIDE DEF d
<1>4. /\ WellFormed(u) /\ F = D \ {end} /\ EndOf(u) = end - 1
      /\ u.root = IF m # end /\ d.root = end THEN m ELSE d.root
      /\ m = end => \A k \in F : u.nodes[k] = d.nodes[k]
      /\ m # end => \A k \in F :
            LET o == d.nodes[IF k = m THEN end ELSE k]
            IN  /\ u.nodes[k].value = o.value
                /\ u.nodes[k].header = o.header
                /\ u.nodes[k].left = IF k = last.parent /\ o.left = end
                                     THEN m ELSE o.left
                /\ u.nodes[k].right = IF k = last.parent /\ o.right = end
                                      THEN m ELSE o.right
                /\ u.nodes[k].parent = IF k \in {last.left, last.right}
                                       THEN m ELSE o.parent
  <2>1. Nodes(d) = 0 .. EndOf(d) /\ EndOf(d) \in Nat /\ m \in Nodes(d)
    BY <1>2, <1>3
  <2>2. \A k \in Nodes(d) : d.nodes[k] \in NodeSet
    BY <1>3
  <2>. HIDE DEF D, end
  <2>. QED BY <1>3, <2>1, <2>2, ErasedFields
<1>5. /\ LeftOf(u) = [k \in F |-> u.nodes[k].left]
      /\ RightOf(u) = [k \in F |-> u.nodes[k].right]
      /\ ParentOf(u) = [k \in F |-> u.nodes[k].parent]
      /\ ValueOf(u) = [k \in F |-> u.nodes[k].value]
  BY DEF LeftOf, RightOf, ParentOf, ValueOf
<1>6. \A k \in E : /\ left[k] = d.nodes[k].left /\ right[k] = d.nodes[k].right
                   /\ parent[k] = d.nodes[k].parent
  OBVIOUS
<1>. HIDE DEF u, F, D, end, value
<1>7. \A k \in F : /\ SlotBefore(t, m, k) \in E
                   /\ u.nodes[k].value = t.nodes[SlotBefore(t, m, k)].value
                   /\ u.nodes[k].header = t.nodes[SlotBefore(t, m, k)].header
                   /\ ValueOf(u)[k] = value[SlotBefore(t, m, k)]
  <2>1. SUFFICES ASSUME NEW k \in F
                 PROVE  /\ SlotBefore(t, m, k) \in E
                        /\ u.nodes[k].value = t.nodes[SlotBefore(t, m, k)].value
                        /\ u.nodes[k].header = t.nodes[SlotBefore(t, m, k)].header
    BY <1>2, <1>5
  <2>2. PICK x : x = SlotBefore(t, m, k)
    OBVIOUS
  <2>3. x = IF k = m THEN end ELSE k
    BY <2>2 DEF SlotBefore, end
  <2>4. x \in E /\ x \in D
    BY <1>2, <1>4, <2>3
  <2>5. u.nodes[k].value = d.nodes[x].value /\ u.nodes[k].header = d.nodes[x].header
    BY <1>4, <2>3
  <2>. QED BY <1>3, <2>2, <2>4, <2>5
<1>8. CASE m = end
  <2>1. F = E
    BY <1>4, <1>8
  <2>2. /\ LeftOf(u) = left /\ RightOf(u) = right /\ ParentOf(u) = parent
        /\ \A k \in E : ValueOf(u)[k] = value[k]
    <3>1. \A k \in E : u.nodes[k] = d.nodes[k]
      BY <1>4, <1>8, <2>1
    <3>2. \A k \in E : SlotBefore(t, m, k) = k
      BY DEF SlotBefore
    <3>. HIDE DEF E
    <3>. QED BY <1>5, <1>7, <2>1, <3>1, <3>2
  <2>3. u.root = d.root
    BY <1>4, <1>8
  <2>. HIDE DEF left, right, parent, E
  <2>4. Sorted(E, left, right, ValueOf(u), sub1)
    BY <1>1, <2>2, SortedBySame DEF IsTree
  <2>5. IsSearchTree(u, sub1)
    BY <1>1, <1>4, <2>1, <2>2, <2>3, <2>4 DEF IsSearchTree, F
  <2>. QED BY <1>4, <1>7, <2>5 DEF d, u, F, D, end
<1>9. CASE m # end
  <2> DEFINE was == [k \in F |-> IF k = m THEN end ELSE k]
             is == [x \in E \cup {NULL} |-> IF x = end THEN m ELSE x]
  <2>1. /\ NULL \notin E
        /\ left \in [E -> E \cup {NULL}] /\ right \in [E -> E \cup {NULL}]
        /\ parent \in [E -> E \cup {NULL}] /\ d.root \in E \cup {NULL}
        /\ \A n \in E :
              /\ left[n] # NULL => left[n] # n /\ parent[left[n]] = n
              /\ right[n] # NULL => right[n] # n /\ parent[right[n]] = n
              /\ parent[n] # NULL => left[parent[n]] = n \/ right[parent[n]] = n
    <3>. HIDE DEF E, left, right, parent
    <3>1. Nested(E, left, right, sub1) /\ Linked(E, left, right, parent, d.root)
      BY <1>1 DEF IsTree
    <3>2. \A n \in E : /\ n \in sub1[n]
                       /\ n \notin sub1[left[n]] /\ n \notin sub1[right[n]]
      BY <3>1 DEF Nested
    <3>. QED BY <3>1, <3>2 DEF Nested, Linked
  <2>2. /\ F = D \ {end} /\ m \in D /\ end \in E /\ m \in F
        /\ \A k \in F : k = m \/ k \in E
    BY <1>2, <1>4, <1>9 DEF D
  <2>3. /\ \A k \in F : was[k] = IF k = m THEN end ELSE k
        /\ \A x \in E \cup {NULL} : is[x] = IF x = end THEN m ELSE x
    OBVIOUS
  <2>4. Renaming(E, F, was, is)
    <3>1. /\ was \in [F -> E] /\ is \in [E \cup {NULL} -> F \cup {NULL}]
      BY <1>2, <1>9, <2>2
    <3>. HIDE DEF was, is
    <3>2. NULL \notin F /\ NULL # end /\ end \notin F /\ m \notin E
      BY <1>2, <2>2 DEF E
    <3>3. is[NULL] = NULL
      BY <2>3, <3>2
    <3>4. ASSUME NEW k \in F PROVE is[was[k]] = k
      <4>1. was[k] \in E \cup {NULL}
        BY <3>1
      <4>. QED BY <2>2, <2>3, <3>2, <4>1
    <3>5. ASSUME NEW x \in E PROVE is[x] \in F /\ was[is[x]] = x
      <4>1. is[x] = IF x = end THEN m ELSE x
        BY <2>3
      <4>2. x # end => x \in F /\ x # m
        BY <2>2, <3>2 DEF E
      <4>. QED BY <2>2, <2>3, <4>1, <4>2
    <3>. QED BY <3>1, <3>2, <3>3, <3>4, <3>5 DEF Renaming
  <2>5. last.parent = parent[end] /\ last.left = left[end] /\ last.right = right[end]
    BY <1>6, <2>2
  <2>6. ASSUME NEW k \in F
        PROVE  LET x == was[k]
               IN  /\ x \in E
                   /\ u.nodes[k].left = IF k = parent[end] /\ left[x] = end
                                        THEN m ELSE left[x]
                   /\ u.nodes[k].right = IF k = parent[end] /\ right[x] = end
                                         THEN m ELSE right[x]
                   /\ u.nodes[k].parent = IF k \in {left[end], right[end]}
                                          THEN m ELSE parent[x]
    <3>1. PICK x \in E : x = was[k] /\ x = IF k = m THEN end ELSE k
      BY <2>2, <2>3
    <3>. HIDE DEF left, right, parent, was, is, last
    <3>2. /\ u.nodes[k].left = IF k = last.parent /\ d.nodes[x].left = end
                               THEN m ELSE d.nodes[x].left
          /\ u.nodes[k].right = IF k = last.parent /\ d.nodes[x].right = end
                                THEN m ELSE d.nodes[x].right
          /\ u.nodes[k].parent = IF k \in {last.left, last.right}
                                 THEN m ELSE d.nodes[x].parent
      BY <1>4, <1>9, <3>1
    <3>. QED BY <1>6, <2>5, <3>1, <3>2
  <2>. HIDE DEF left, right, parent, was, is, last, E
  <2>7. ASSUME NEW k \in F
        PROVE  /\ u.nodes[k].left = is[left[was[k]]]
               /\ u.nodes[k].right = is[right[was[k]]]
               /\ u.nodes[k].parent = is[parent[was[k]]]
    <3>1. PICK x \in E : x = was[k]
      BY <2>6
    <3>2. x = IF k = m THEN end ELSE k
      BY <2>3, <3>1
    <3>3. u.nodes[k].left = is[left[x]]
      <4>1. left[x] = end => x = k /\ parent[end] = x
        BY <2>1, <2>2, <3>2, <1>2
      <4>2. is[left[x]] = IF left[x] = end THEN m ELSE left[x]
        BY <2>1, <2>3
      <4>. QED BY <2>6, <3>1, <4>1, <4>2
    <3>4. u.nodes[k].right = is[right[x]]
      <4>1. right[x] = end => x = k /\ parent[end] = x
        BY <2>1, <2>2, <3>2, <1>2
      <4>2. is[right[x]] = IF right[x] = end THEN m ELSE right[x]
        BY <2>1, <2>3
      <4>. QED BY <2>6, <3>1, <4>1, <4>2
    <3>5. u.nodes[k].parent = is[parent[x]]
      <4>1. parent[x] = end => x \in {left[end], right[end]} /\ x # end
        BY <1>2, <2>1, <2>2
      <4>2. k \in {left[end], right[end]} => k = x /\ parent[x] = end
        <5>1. m \notin E /\ m # NULL
          BY <1>2, <2>2 DEF E
        <5>2. k \in F /\ k # NULL
          BY <1>2, <2>2
        <5>3. left[end] \in E \cup {NULL} /\ right[end] \in E \cup {NULL}
          BY <2>1, <2>2
        <5>. QED BY <2>1, <2>2, <3>2, <5>1, <5>2, <5>3
      <4>3. is[parent[x]] = IF parent[x] = end THEN m ELSE parent[x]
        BY <2>1, <2>3
      <4>. QED BY <2>6, <3>1, <3>2, <4>1, <4>2, <4>3
    <3>. QED BY <3>1, <3>3, <3>4, <3>5
  <2>8. /\ Renamed(F, was, is, left, LeftOf(u)) /\ Renamed(F, was, is, right, RightOf(u))
        /\ Renamed(F, was, is, parent, ParentOf(u))
    <3>1. /\ \A k \in F : was[k] \in E
          /\ \A x \in E \cup {NULL} : is[x] \in F \cup {NULL}
      BY <2>4 DEF Renaming
    <3>. QED BY <1>5, <2>1, <2>7, <3>1 DEF Renamed
  <2>9. is[d.root] = u.root
    BY <1>4, <1>9, <2>1, <2>3
  <2>10. \A k \in F : ValueOf(u)[k] = value[was[k]]
    BY <1>7, <2>3 DEF SlotBefore, end
  <2>11. PICK sub2 : /\ IsTree(F, LeftOf(u), RightOf(u), ParentOf(u), is[d.root], sub2)
                     /\ Sorted(F, LeftOf(u), RightOf(u), ValueOf(u), sub2)
    BY <1>1, <2>4, <2>8, <2>10, TreeRenamed
  <2>12. IsSearchTree(u, sub2)
    BY <1>4, <2>9, <2>11 DEF IsSearchTree, F
  <2>. QED BY <1>4, <1>7, <2>12 DEF d, u, F, D, end
<1>. QED BY <1>8, <1>9

\* The leftmost of the nodes at and below each has the least value of them.
LEMMA LeftmostIsLeast ==
    ASSUME NEW D, IsFiniteSet(D), NEW left, NEW right, NEW sub,
           Nested(D, left, right, sub),
           NEW value, \A k \in D : value[k] \in Int,
           Sorted(D, left, right, value, sub),
           NEW g, \A k \in D : g[k] = IF left[k] = NULL THEN k ELSE g[left[k]]
    PROVE  \A k \in D : /\ g[k] \in sub[k] /\ left[g[k]] = NULL
                        /\ \A j \in sub[k] : value[g[k]] <= value[j]
<1>1. /\ NULL \notin D
      /\ left \in [D -> D \cup {NULL}] /\ right \in [D -> D \cup {NULL}]
      /\ sub \in [D \cup {NULL} -> SUBSET D] /\ sub[NULL] = {}
      /\ \A k \in D : sub[k] = {k} \cup sub[left[k]] \cup sub[right[k]]
  BY DEF Nested
<1>2. \A k \in D : /\ \A j \in sub[left[k]] : value[j] <= value[k]
                   /\ \A j \in sub[right[k]] : value[j] >= value[k]
  BY DEF Sorted
<1>3. PICK rank \in [D -> Nat], top \in Nat : IsForest(D, NULL, left, right, rank, top)
  BY NestedIsForest
<1> DEFINE S == {k \in D : /\ g[k] \in sub[k] /\ left[g[k]] = NULL
                           /\ \A j \in sub[k] : value[g[k]] <= value[j]}
<1>4. ASSUME NEW k \in D, \A l \in D : rank[l] < rank[k] => l \in S PROVE k \in S
  <2>0. /\ k \in sub[k] /\ sub[k] \subseteq D
        /\ left[k] \in D \cup {NULL} /\ right[k] \in D \cup {NULL}
        /\ sub[left[k]] \subseteq D /\ sub[right[k]] \subseteq D
    BY <1>1
  <2>1. CASE left[k] = NULL
    <3>1. g[k] = k
      BY <2>1
    <3>2. \A j \in sub[k] : value[k] <= value[j]
      BY <1>1, <1>2, <2>0, <2>1
    <3>. QED BY <2>0, <2>1, <3>1, <3>2
  <2>2. CASE left[k] # NULL
    <3>1. left[k] \in D /\ left[k] \in S
      BY <1>3, <1>4, <2>0, <2>2 DEF IsForest
    <3>2. PICK at : at = g[k] /\ at = g[left[k]]
      BY <2>2
    <3>3. at \in sub[left[k]] /\ left[at] = NULL /\ \A j \in sub[left[k]] : value[at] <= value[j]
      BY <3>1, <3>2
    <3>4. /\ at \in D /\ value[at] \in Int /\ value[at] <= value[k]
          /\ value[k] \in Int /\ \A j \in sub[right[k]] : value[j] \in Int
      BY <1>2, <2>0, <3>3
    <3>5. \A j \in sub[right[k]] : value[at] <= value[j]
      BY <1>2, <3>4
    <3>6. \A j \in sub[k] : value[at] <= value[j]
      BY <1>1, <3>3, <3>4, <3>5
    <3>7. at \in sub[k]
      BY <1>1, <3>3
    <3>. QED BY <3>2, <3>3, <3>6, <3>7
  <2>. QED BY <2>1, <2>2
<1>5. D \subseteq S
  <2>. HIDE DEF S
  <2>. QED BY <1>4, RankInduction
<1>. QED BY <1>5

\* The neighbour is next in order among what is below n, and has room.
NextInOrder(t, sub, n, m) ==
    LET value == ValueOf(t)
    IN  \/ /\ m \in sub[RightOf(t)[n]] /\ LeftOf(t)[m] = NULL
           /\ \A j \in sub[RightOf(t)[n]] : value[m] <= value[j]
        \/ /\ m \in sub[LeftOf(t)[n]] /\ RightOf(t)[m] = NULL
           /\ \A j \in sub[LeftOf(t)[n]] : value[j] <= value[m]

LEMMA NeighbourIsNext ==
    ASSUME NEW t, NEW sub, IsSearchTree(t, sub), NEW n \in Nodes(t),
           HasTwoChildren(t, n)
    PROVE  NextInOrder(t, sub, n, Neighbour(t, n))
<1> DEFINE D == Nodes(t)
           left == LeftOf(t)
           right == RightOf(t)
           value == ValueOf(t)
           minus == [k \in D |-> -value[k]]
           leftmost == CHOOSE g : g = [m \in D |->
                          IF t.nodes[m].left = NULL THEN m ELSE g[t.nodes[m].left]]
           rightmost == CHOOSE g : g = [m \in D |->
                          IF t.nodes[m].right = NULL THEN m ELSE g[t.nodes[m].right]]
<1>1. Neighbour(t, n) = IF t.nodes[n].balance > 0 THEN leftmost[t.nodes[n].right]
                                                  ELSE rightmost[t.nodes[n].left]
  BY Zenon DEF Neighbour
<1>2. /\ WellFormed(t) /\ IsFiniteSet(D)
      /\ Nested(D, left, right, sub) /\ Sorted(D, left, right, value, sub)
      /\ left \in [D -> D \cup {NULL}] /\ right \in [D -> D \cup {NULL}]
      /\ \A k \in D : sub[k] \subseteq D
  BY Slots DEF IsSearchTree, IsTree, Nested
<1>3. \A k \in D : /\ left[k] = t.nodes[k].left /\ right[k] = t.nodes[k].right
                   /\ value[k] \in Int
  BY <1>2, NodeFields
<1>4. right[n] \in D /\ left[n] \in D
  BY <1>2, <1>3 DEF HasTwoChildren
<1>5. ASSUME t.nodes[n].balance > 0
      PROVE  NextInOrder(t, sub, n, leftmost[right[n]])
  <2>1. PICK g : g = [m \in D |-> IF left[m] = NULL THEN m ELSE g[left[m]]]
    <3>. HIDE DEF D, left, right
    <3>. QED BY <1>2, Descent
  <2>2. g = [m \in D |-> IF t.nodes[m].left = NULL THEN m ELSE g[t.nodes[m].left]]
    <3>. HIDE DEF D, left
    <3>. QED BY <1>3, <2>1
  <2>3. leftmost = [m \in D |-> IF t.nodes[m].left = NULL THEN m
                                ELSE leftmost[t.nodes[m].left]]
    BY <2>2, Zenon
  <2>. HIDE DEF leftmost, D, left, right, value
  <2>4. \A k \in D : leftmost[k] = IF left[k] = NULL THEN k ELSE leftmost[left[k]]
    BY <1>3, <2>3
  <2>5. \A k \in D : /\ leftmost[k] \in sub[k] /\ left[leftmost[k]] = NULL
                     /\ \A j \in sub[k] : value[leftmost[k]] <= value[j]
    BY <1>2, <1>3, <2>4, LeftmostIsLeast
  <2>. QED BY <1>4, <2>5 DEF NextInOrder, left, right, value
<1>6. ASSUME ~ t.nodes[n].balance > 0
      PROVE  NextInOrder(t, sub, n, rightmost[left[n]])
  <2>0. Nested(D, right, left, sub)
    BY <1>2, Mirrored
  <2>1. PICK g : g = [m \in D |-> IF right[m] = NULL THEN m ELSE g[right[m]]]
    <3>. HIDE DEF D, left, right
    <3>. QED BY <1>2, Descent
  <2>2. g = [m \in D |-> IF t.nodes[m].right = NULL THEN m ELSE g[t.nodes[m].right]]
    <3>. HIDE DEF D, right
    <3>. QED BY <1>3, <2>1
  <2>3. rightmost = [m \in D |-> IF t.nodes[m].right = NULL THEN m
                                ELSE rightmost[t.nodes[m].right]]
    BY <2>2, Zenon
  <2>. HIDE DEF rightmost, D, left, right, value
  <2>4. \A k \in D : rightmost[k] = IF right[k] = NULL THEN k ELSE rightmost[right[k]]
    BY <1>3, <2>3
  <2>5. \A k \in D : minus[k] = -value[k] /\ minus[k] \in Int
    BY <1>3
  <2>. HIDE DEF minus
  <2>6. Sorted(D, right, left, minus, sub)
    <3>1. \A k \in D : sub[left[k]] \subseteq D /\ sub[right[k]] \subseteq D
      BY <1>2 DEF Nested
    <3>2. ASSUME NEW k \in D
          PROVE  /\ \A m \in sub[right[k]] : minus[m] <= minus[k]
                 /\ \A m \in sub[left[k]] : minus[m] >= minus[k]
      <4>1. /\ \A m \in sub[left[k]] : value[m] <= value[k] /\ value[m] \in Int
                                       /\ minus[m] = -value[m]
            /\ \A m \in sub[right[k]] : value[m] >= value[k] /\ value[m] \in Int
                                        /\ minus[m] = -value[m]
            /\ value[k] \in Int /\ minus[k] = -value[k]
        BY <1>2, <1>3, <2>5, <3>1 DEF Sorted
      <4>. QED BY <4>1
    <3>. QED BY <3>2 DEF Sorted
  <2>7. \A k \in D : /\ rightmost[k] \in sub[k] /\ right[rightmost[k]] = NULL
                     /\ \A j \in sub[k] : minus[rightmost[k]] <= minus[j]
    BY <1>2, <2>0, <2>4, <2>5, <2>6, LeftmostIsLeast
  <2>8. \A k \in D : \A j \in sub[k] : value[j] <= value[rightmost[k]]
    <3>1. ASSUME NEW k \in D, NEW j \in sub[k] PROVE value[j] <= value[rightmost[k]]
      <4>1. j \in D /\ rightmost[k] \in D /\ minus[rightmost[k]] <= minus[j]
        BY <1>2, <2>7
      <4>. QED BY <1>3, <2>5, <4>1
    <3>. QED BY <3>1
  <2>. QED BY <1>4, <2>7, <2>8 DEF NextInOrder, left, right, value
<1>7. t.nodes[n].right = right[n] /\ t.nodes[n].left = left[n]
  BY <1>3
<1>. HIDE DEF leftmost, rightmost, left, right
<1>. QED BY <1>1, <1>5, <1>6, <1>7

\* A node may take the value of its neighbour: the order stays.
LEMMA Revalued ==
    ASSUME NEW t, NEW sub, IsSearchTree(t, sub), NEW n \in Nodes(t), NEW m,
           NextInOrder(t, sub, n, m)
    PROVE  LET v == [t EXCEPT !.nodes[n].value = t.nodes[m].value]
           IN  /\ m \in Nodes(t) /\ m # n
               /\ Nodes(v) = Nodes(t) /\ EndOf(v) = EndOf(t)
               /\ \A k \in Nodes(t) :
                     /\ v.nodes[k].value = t.nodes[IF k = n THEN m ELSE k].value
                     /\ v.nodes[k].header = t.nodes[k].header
               /\ IsSearchTree(v, sub)
               /\ ~ HasTwoChildren(v, m)
<1> DEFINE v == [t EXCEPT !.nodes[n].value = t.nodes[m].value]
           D == Nodes(t)
           left == LeftOf(t)
           right == RightOf(t)
           value == ValueOf(t)
           new == [t.nodes EXCEPT ![n] = [t.nodes[n] EXCEPT !.value = t.nodes[m].value]]
<1>1. /\ WellFormed(t) /\ IsFiniteSet(D)
      /\ IsTree(D, left, right, ParentOf(t), t.root, sub)
      /\ Nested(D, left, right, sub) /\ Sorted(D, left, right, value, sub)
  BY Slots DEF IsSearchTree, IsTree
<1>2. /\ NULL \notin D
      /\ left \in [D -> D \cup {NULL}] /\ right \in [D -> D \cup {NULL}]
      /\ sub \in [D \cup {NULL} -> SUBSET D] /\ sub[NULL] = {}
      /\ \A k \in D : /\ sub[k] = {k} \cup sub[left[k]] \cup sub[right[k]]
                      /\ k \notin sub[left[k]] /\ k \notin sub[right[k]]
                      /\ sub[left[k]] \cap sub[right[k]] = {}
  BY <1>1 DEF Nested
<1>3. \A k \in D : /\ t.nodes[k] \in NodeSet /\ value[k] = t.nodes[k].value
                   /\ left[k] = t.nodes[k].left /\ right[k] = t.nodes[k].right
                   /\ value[k] \in Int
  BY <1>1, NodeFields
<1>4. \/ /\ m \in sub[right[n]] /\ left[m] = NULL
         /\ \A j \in sub[right[n]] : value[m] <= value[j]
      \/ /\ m \in sub[left[n]] /\ right[m] = NULL
         /\ \A j \in sub[left[n]] : value[j] <= value[m]
  BY DEF NextInOrder
<1>5. m \in D /\ m # n /\ m \in sub[n]
  BY <1>2, <1>4
<1>6. v = [root |-> t.root, nodes |-> new]
  <2>1. t = [root |-> t.root, nodes |-> t.nodes]
    BY <1>1 DEF WellFormed, IsTreeRecord
  <2>2. v = [t EXCEPT !.nodes = new]
    OBVIOUS
  <2>. HIDE DEF v, new
  <2>. QED BY <2>1, <2>2
<1>7. /\ DOMAIN new = D
      /\ \A k \in D : /\ new[k] \in NodeSet
                      /\ new[k].value = t.nodes[IF k = n THEN m ELSE k].value
                      /\ new[k].header = t.nodes[k].header
                      /\ new[k].parent = t.nodes[k].parent
                      /\ new[k].left = t.nodes[k].left
                      /\ new[k].right = t.nodes[k].right
  <2>1. DOMAIN new = D
    BY DEF Nodes
  <2>2. PICK o \in NodeSet, val \in Int : o = t.nodes[n] /\ val = t.nodes[m].value
    BY <1>3, <1>5
  <2>3. [o EXCEPT !.value = val] \in NodeSet
    BY DEF NodeSet
  <2>4. \A k \in D : new[k] = IF k = n THEN [o EXCEPT !.value = val] ELSE t.nodes[k]
    BY <2>1, <2>2 DEF Nodes
  <2>. HIDE DEF new
  <2>5. /\ new[n] \in NodeSet /\ new[n].value = val /\ new[n].header = o.header
        /\ new[n].parent = o.parent /\ new[n].left = o.left /\ new[n].right = o.right
    BY <2>3, <2>4 DEF NodeSet
  <2>6. \A k \in D : k # n => new[k] = t.nodes[k]
    BY <2>4
  <2>7. ASSUME NEW k \in D
        PROVE  /\ new[k] \in NodeSet
               /\ new[k].value = t.nodes[IF k = n THEN m ELSE k].value
               /\ new[k].header = t.nodes[k].header
               /\ new[k].parent = t.nodes[k].parent
               /\ new[k].left = t.nodes[k].left
               /\ new[k].right = t.nodes[k].right
    <3>1. CASE k = n
      BY <2>2, <2>5, <3>1
    <3>2. CASE k # n
      BY <1>3, <2>6, <3>2
    <3>. QED BY <3>1, <3>2
  <2>. QED BY <2>1, <2>7
<1>. HIDE DEF v, new
<1>8. v.root = t.root /\ v.nodes = new /\ Nodes(v) = D /\ IsTreeRecord(v)
  BY <1>6, <1>7 DEF Nodes, IsTreeRecord
<1>9. EndOf(v) = EndOf(t)
  BY <1>8 DEF EndOf, Nodes
<1>10. WellFormed(v)
  <2>1. new \in [D -> NodeSet]
    <3>1. new = [k \in D |-> new[k]]
      BY <1>6, <1>7, <1>8 DEF v
    <3>. QED BY <1>7, <3>1
  <2>. QED BY <1>1, <1>8, <2>1 DEF WellFormed
<1>11. /\ LeftOf(v) = left /\ RightOf(v) = right /\ ParentOf(v) = ParentOf(t)
       /\ \A k \in D : ValueOf(v)[k] = IF k = n THEN value[m] ELSE value[k]
  <2>1. /\ \A k \in D : /\ v.nodes[k].left = t.nodes[k].left
                        /\ v.nodes[k].right = t.nodes[k].right
                        /\ v.nodes[k].parent = t.nodes[k].parent
        /\ \A k \in D : v.nodes[k].value = t.nodes[IF k = n THEN m ELSE k].value
    BY <1>7, <1>8
  <2>2. \A k \in D : ValueOf(v)[k] = v.nodes[k].value
    BY <1>8 DEF ValueOf
  <2>. QED BY <1>3, <1>5, <1>8, <2>1, <2>2 DEF LeftOf, RightOf, ParentOf
<1>12. Sorted(D, left, right, ValueOf(v), sub)
  <2>1. \A k \in D : /\ sub[left[k]] \subseteq D /\ sub[right[k]] \subseteq D
                     /\ n \in sub[left[k]] => m \in sub[left[k]]
                     /\ n \in sub[right[k]] => m \in sub[right[k]]
    <3>0. \A o \in D : n \in sub[o] => m \in sub[o]
      BY <1>1, <1>5, BelowBelow
    <3>. QED BY <1>2, <3>0
  <2>2. \A k \in D : /\ \A j \in sub[left[k]] : value[j] <= value[k]
                     /\ \A j \in sub[right[k]] : value[j] >= value[k]
    BY <1>1 DEF Sorted
  <2> DEFINE value2 == ValueOf(v)
  <2>3. \A k \in D : value2[k] = IF k = n THEN value[m] ELSE value[k]
    BY <1>11
  <2>. HIDE DEF value2, D, left, right, value
  <2>4. ASSUME NEW k \in D
        PROVE  /\ \A j \in sub[left[k]] : value2[j] <= value2[k]
               /\ \A j \in sub[right[k]] : value2[j] >= value2[k]
    <3>1. CASE k = n
      <4>1. /\ \A j \in sub[left[n]] : j # n /\ value[j] <= value[m]
            /\ \A j \in sub[right[n]] : j # n /\ value[j] >= value[m]
        <5>1. /\ \A j \in sub[left[n]] : j # n /\ value[j] \in Int /\ value[j] <= value[n]
              /\ \A j \in sub[right[n]] : j # n /\ value[j] \in Int /\ value[j] >= value[n]
              /\ value[n] \in Int /\ value[m] \in Int
          BY <1>2, <1>3, <1>5, <2>1, <2>2, <3>1
        <5>. QED BY <1>4, <5>1
      <4>. QED BY <2>1, <2>3, <3>1, <4>1
    <3>2. CASE k # n
      BY <2>1, <2>2, <2>3, <3>2
    <3>. QED BY <3>1, <3>2
  <2>. QED BY <2>4 DEF Sorted, value2
<1>13. IsSearchTree(v, sub)
  BY <1>1, <1>8, <1>10, <1>11, <1>12 DEF IsSearchTree
<1>14. ~ HasTwoChildren(v, m)
  BY <1>3, <1>4, <1>5, <1>7, <1>8 DEF HasTwoChildren
<1>. QED BY <1>5, <1>7, <1>8, <1>9, <1>13, <1>14 DEF v

\* The slot whose value slot k has after the removal of node n, for which
\* node m is taken out: that of n is gone, every other is in one slot.
ValueFrom(t, n, m, k) == IF SlotBefore(t, m, k) = n THEN m ELSE SlotBefore(t, m, k)

LEMMA ValuesStay ==
    ASSUME NEW t, WellFormed(t), NEW n \in Nodes(t), NEW m \in Nodes(t),
           NEW F, F = Nodes(t) \ {EndOf(t)},
           NEW took, took = [k \in F |-> ValueFrom(t, n, m, k)]
    PROVE  took \in Bijection(F, Nodes(t) \ {n})
<1> DEFINE D == Nodes(t)
           end == EndOf(t)
<1>1. end \in D
  <2>1. end \in Nat \cup {-1} /\ D = 0 .. end
    BY Slots
  <2>. HIDE DEF D, end
  <2>2. n \in 0 .. end
    BY <2>1 DEF D
  <2>. QED BY <2>1, <2>2
<1>2. \A k \in F : took[k] = IF k = m THEN (IF end = n THEN m ELSE end)
                                      ELSE (IF k = n THEN m ELSE k)
  BY DEF ValueFrom, SlotBefore
<1>3. took = [k \in F |-> took[k]]
  OBVIOUS
<1>. HIDE DEF D, end
<1>4. F = D \ {end} /\ n \in D /\ m \in D
  BY DEF D, end
<1>5. took \in [F -> D \ {n}]
  <2>1. \A k \in F : took[k] \in D \ {n}
    BY <1>1, <1>2, <1>4
  <2>. QED BY <1>3, <2>1
<1>6. \A j, k \in F : took[j] = took[k] => j = k
  BY <1>2, <1>4
<1>7. \A d \in D \ {n} : \E k \in F : took[k] = d
  <2> TAKE d \in D \ {n}
  <2>1. CASE d = m /\ n # end
    <3>1. n \in F /\ took[n] = d
      BY <1>2, <1>4, <2>1
    <3>. QED BY <3>1
  <2>2. CASE d = m /\ n = end
    <3>1. m \in F /\ took[m] = d
      BY <1>2, <1>4, <2>2
    <3>. QED BY <3>1
  <2>3. CASE d # m /\ d = end
    <3>1. m \in F /\ took[m] = d
      BY <1>2, <1>4, <2>3
    <3>. QED BY <3>1
  <2>4. CASE d # m /\ d # end
    <3>1. d \in F /\ took[d] = d
      BY <1>2, <1>4, <2>4
    <3>. QED BY <3>1
  <2>. QED BY <2>1, <2>2, <2>3, <2>4
<1>. QED BY <1>5, <1>6, <1>7 DEF Bijection, Injection, Surjection, IsInjective, D

LEMMA RemovedTree ==
    ASSUME NEW t, NEW sub, IsSearchTree(t, sub), NEW n \in Nodes(t)
    PROVE  LET u == Removed(t, n)
           IN  /\ Nodes(u) = Nodes(t) \ {EndOf(t)} /\ EndOf(u) = EndOf(t) - 1
               /\ \E sub2 : IsSearchTree(u, sub2)
               /\ \A k \in Nodes(u) : \E j \in Nodes(t) :
                     u.nodes[k].header = t.nodes[j].header
               /\ \E took \in Bijection(Nodes(u), Nodes(t) \ {n}) :
                     \A k \in Nodes(u) :
                        /\ u.nodes[k].value = t.nodes[took[k]].value
                        /\ ~ HasTwoChildren(t, n) =>
                              u.nodes[k].header = t.nodes[took[k]].header
<1> DEFINE u == Removed(t, n)
           D == Nodes(t)
           F == D \ {EndOf(t)}
<1>0. WellFormed(t) /\ EndOf(t) \in Int
  BY Slots DEF IsSearchTree
<1>1. CASE HasTwoChildren(t, n)
  <2> DEFINE m == Neighbour(t, n)
             v == [t EXCEPT !.nodes[n].value = t.nodes[m].value]
             took == [k \in F |-> ValueFrom(t, n, m, k)]
  <2>1. u = Erased(Detached(v, m), m)
    BY <1>1 DEF Removed
  <2>2. NextInOrder(t, sub, n, m)
    BY <1>1, NeighbourIsNext
  <2>3. /\ m \in D /\ m # n /\ Nodes(v) = D /\ EndOf(v) = EndOf(t)
        /\ \A k \in D : /\ v.nodes[k].value = t.nodes[IF k = n THEN m ELSE k].value
                        /\ v.nodes[k].header = t.nodes[k].header
        /\ IsSearchTree(v, sub) /\ ~ HasTwoChildren(v, m)
    <3>. HIDE DEF m
    <3>. QED BY <2>2, Revalued
  <2>. HIDE DEF v, u, m
  <2>4. /\ Nodes(u) = F /\ EndOf(u) = EndOf(t) - 1
        /\ \A k \in F : /\ u.nodes[k].value = v.nodes[SlotBefore(v, m, k)].value
                        /\ u.nodes[k].header = v.nodes[SlotBefore(v, m, k)].header
        /\ \E sub2 : IsSearchTree(u, sub2)
    BY <2>1, <2>3, ErasedTree
  <2>5. took \in Bijection(F, D \ {n})
    BY <1>0, <2>3, ValuesStay
  <2>6. ASSUME NEW k \in F
        PROVE  /\ u.nodes[k].value = t.nodes[took[k]].value
               /\ \E j \in D : u.nodes[k].header = t.nodes[j].header
    <3>1. SlotBefore(v, m, k) = SlotBefore(t, m, k)
      BY <2>3 DEF SlotBefore
    <3>2. took[k] = IF SlotBefore(t, m, k) = n THEN m ELSE SlotBefore(t, m, k)
      BY DEF ValueFrom
    <3>3. SlotBefore(t, m, k) \in D
      <4>1. EndOf(t) \in D
        <5>1. D = 0 .. EndOf(t) /\ n \in D /\ EndOf(t) \in Nat \cup {-1}
          BY <1>0, Slots
        <5>. QED BY <5>1
      <4>. QED BY <4>1 DEF SlotBefore
    <3>. HIDE DEF took, F, D
    <3>. QED BY <2>3, <2>4, <3>1, <3>2, <3>3
  <2>. QED BY <1>1, <2>4, <2>5, <2>6 DEF u
<1>2. CASE ~ HasTwoChildren(t, n)
  <2> DEFINE took == [k \in F |-> ValueFrom(t, n, n, k)]
  <2>1. u = Erased(Detached(t, n), n)
    BY <1>2 DEF Removed
  <2>. HIDE DEF u
  <2>2. /\ Nodes(u) = F /\ EndOf(u) = EndOf(t) - 1
        /\ \A k \in F : /\ u.nodes[k].value = t.nodes[SlotBefore(t, n, k)].value
                        /\ u.nodes[k].header = t.nodes[SlotBefore(t, n, k)].header
        /\ \E sub2 : IsSearchTree(u, sub2)
    BY <1>2, <2>1, ErasedTree
  <2>3. took \in Bijection(F, D \ {n})
    BY <1>0, ValuesStay
  <2>4. \A k \in F : took[k] = SlotBefore(t, n, k)
    BY DEF ValueFrom
  <2>5. \A k \in F : SlotBefore(t, n, k) \in D
    <3>1. D = 0 .. EndOf(t) /\ n \in D /\ EndOf(t) \in Nat \cup {-1}
      BY <1>0, Slots
    <3>2. EndOf(t) \in D
      BY <3>1
    <3>. QED BY <3>2 DEF SlotBefore
  <2>. HIDE DEF took
  <2>. QED BY <2>2, <2>3, <2>4, <2>5 DEF u
<1>. QED BY <1>1, <1>2

-----------------------------------------------------------------------------
(* Lookups                                                                   *)

\* A function of the nodes that is defined by its values at the children.
LEMMA TreeFunction ==
    ASSUME NEW D, IsFiniteSet(D), NEW left, NEW right, NEW sub,
           Nested(D, left, right, sub),
           NEW X, NEW x0 \in X, NEW step \in [D \X X \X X -> X]
    PROVE  \E g \in [D \cup {NULL} -> X] :
              SolvesTree(g, D, NULL, left, right, x0, step)
<1>1. PICK rank \in [D -> Nat], top \in Nat : IsForest(D, NULL, left, right, rank, top)
  BY NestedIsForest
<1>. QED BY <1>1, TreeRecursion

LEMMA BestFitSteps ==
    ASSUME NEW t, NEW sub, IsSearchTree(t, sub), NEW val
    PROVE  \E below :
              /\ BestFitLookup(t, val) = below[t.root]
              /\ below[NULL] = NULL
              /\ \A n \in Nodes(t) :
                    below[n] = IF ValueOf(t)[n] >= val
                               THEN IF below[LeftOf(t)[n]] # NULL
                                    THEN below[LeftOf(t)[n]] ELSE n
                               ELSE below[RightOf(t)[n]]
<1> DEFINE D == Nodes(t)
           left == LeftOf(t)
           right == RightOf(t)
           value == ValueOf(t)
           X == D \cup {NULL}
           step == [x \in D \X X \X X |-> IF value[x[1]] >= val
                                          THEN IF x[2] # NULL THEN x[2] ELSE x[1]
                                          ELSE x[3]]
           below == CHOOSE g : g = [n \in D \cup {NULL} |->
                       IF n = NULL THEN NULL
                       ELSE IF t.nodes[n].value >= val
                            THEN IF g[t.nodes[n].left] # NULL
                                 THEN g[t.nodes[n].left] ELSE n
                            ELSE g[t.nodes[n].right]]
<1>1. BestFitLookup(t, val) = below[t.root]
  BY Zenon DEF BestFitLookup
<1>2. /\ WellFormed(t) /\ IsFiniteSet(D) /\ NULL \notin D
      /\ Nested(D, left, right, sub)
      /\ left \in [D -> X] /\ right \in [D -> X]
  BY Slots DEF IsSearchTree, IsTree, Nested
<1>3. \A k \in D : /\ left[k] = t.nodes[k].left /\ right[k] = t.nodes[k].right
                   /\ value[k] = t.nodes[k].value
  BY <1>2, NodeFields
<1>4. step \in [D \X X \X X -> X] /\ NULL \in X
  OBVIOUS
<1>5. \A n \in D, x \in X, y \in X :
         step[<<n, x, y>>] = IF value[n] >= val THEN IF x # NULL THEN x ELSE n ELSE y
  OBVIOUS
<1>. HIDE DEF step, D, left, right, value
<1>6. PICK g \in [D \cup {NULL} -> X] :
         SolvesTree(g, D, NULL, left, right, NULL, step)
  <2>. HIDE DEF X
  <2>. QED BY <1>2, <1>4, TreeFunction
<1>6a. g[NULL] = NULL
  BY <1>6 DEF SolvesTree
<1>7. \A n \in D : g[n] = IF value[n] >= val
                          THEN IF g[left[n]] # NULL THEN g[left[n]] ELSE n
                          ELSE g[right[n]]
  <2> TAKE n \in D
  <2>1. PICK x, y \in X : x = g[left[n]] /\ y = g[right[n]]
    BY <1>2
  <2>2. g[n] = step[<<n, x, y>>]
    BY <1>6, <2>1 DEF SolvesTree
  <2>. HIDE DEF X
  <2>. QED BY <1>5, <2>1, <2>2
<1>8. g = [n \in D \cup {NULL} |->
                       IF n = NULL THEN NULL
                       ELSE IF t.nodes[n].value >= val
                            THEN IF g[t.nodes[n].left] # NULL
                                 THEN g[t.nodes[n].left] ELSE n
                            ELSE g[t.nodes[n].right]]
  BY <1>2, <1>3, <1>6a, <1>7
<1>9. below = [n \in D \cup {NULL} |->
                       IF n = NULL THEN NULL
                       ELSE IF t.nodes[n].value >= val
                            THEN IF below[t.nodes[n].left] # NULL
                                 THEN below[t.nodes[n].left] ELSE n
                            ELSE below[t.nodes[n].right]]
  BY <1>8, Zenon
<1>. HIDE DEF below
<1>10. /\ below[NULL] = NULL
       /\ \A n \in D : below[n] = IF value[n] >= val
                                  THEN IF below[left[n]] # NULL
                                       THEN below[left[n]] ELSE n
                                  ELSE below[right[n]]
  BY <1>2, <1>3, <1>9
<1>. QED BY <1>1, <1>10 DEF D, left, right, value

LEMMA ExactSteps ==
    ASSUME NEW t, NEW sub, IsSearchTree(t, sub), NEW val, t.root # NULL
    PROVE  \E below :
              /\ ExactLookup(t, val) = below[t.root]
              /\ below[NULL] = NULL
              /\ \A n \in Nodes(t) :
                    below[n] = IF ValueOf(t)[n] = val THEN n
                               ELSE IF ValueOf(t)[n] < val THEN below[RightOf(t)[n]]
                                                           ELSE below[LeftOf(t)[n]]
<1> DEFINE D == Nodes(t)
           left == LeftOf(t)
           right == RightOf(t)
           value == ValueOf(t)
           X == D \cup {NULL}
           step == [x \in D \X X \X X |-> IF value[x[1]] = val THEN x[1]
                                          ELSE IF value[x[1]] < val THEN x[3] ELSE x[2]]
           below == CHOOSE g : g = [n \in D \cup {NULL} |->
                       IF n = NULL \/ t.nodes[n].value = val THEN n
                       ELSE g[Toward(t, n, val)]]
<1>1. ExactLookup(t, val) = below[t.root]
  BY Zenon DEF ExactLookup
<1>2. /\ WellFormed(t) /\ IsFiniteSet(D) /\ NULL \notin D
      /\ Nested(D, left, right, sub)
      /\ left \in [D -> X] /\ right \in [D -> X]
  BY Slots DEF IsSearchTree, IsTree, Nested
<1>3. \A k \in D : /\ value[k] = t.nodes[k].value
                   /\ Toward(t, k, val) = IF value[k] < val THEN right[k] ELSE left[k]
  BY <1>2, NodeFields DEF Toward
<1>4. step \in [D \X X \X X -> X] /\ NULL \in X
  OBVIOUS
<1>5. \A n \in D, x \in X, y \in X :
         step[<<n, x, y>>] = IF value[n] = val THEN n
                             ELSE IF value[n] < val THEN y ELSE x
  OBVIOUS
<1>. HIDE DEF step, D, left, right, value
<1>6. PICK g \in [D \cup {NULL} -> X] :
         SolvesTree(g, D, NULL, left, right, NULL, step)
  <2>. HIDE DEF X
  <2>. QED BY <1>2, <1>4, TreeFunction
<1>6a. g[NULL] = NULL
  BY <1>6 DEF SolvesTree
<1>7. \A n \in D : g[n] = IF value[n] = val THEN n
                          ELSE IF value[n] < val THEN g[right[n]] ELSE g[left[n]]
  <2> TAKE n \in D
  <2>1. PICK x, y \in X : x = g[left[n]] /\ y = g[right[n]]
    BY <1>2
  <2>2. g[n] = step[<<n, x, y>>]
    BY <1>6, <2>1 DEF SolvesTree
  <2>. HIDE DEF X
  <2>. QED BY <1>5, <2>1, <2>2
<1>8. g = [n \in D \cup {NULL} |->
                       IF n = NULL \/ t.nodes[n].value = val THEN n
                       ELSE g[Toward(t, n, val)]]
  BY <1>2, <1>3, <1>6a, <1>7
<1>9. below = [n \in D \cup {NULL} |->
                       IF n = NULL \/ t.nodes[n].value = val THEN n
                       ELSE below[Toward(t, n, val)]]
  BY <1>8, Zenon
<1>. HIDE DEF below
<1>10. /\ below[NULL] = NULL
       /\ \A n \in D : below[n] = IF value[n] = val THEN n
                                  ELSE IF value[n] < val THEN below[right[n]]
                                                         ELSE below[left[n]]
  BY <1>2, <1>3, <1>9
<1>. QED BY <1>1, <1>10 DEF D, left, right, value

\* What a search tree has is found: the least that is large enough.
LEMMA BestFitFinds ==
    ASSUME NEW t, NEW sub, IsSearchTree(t, sub), NEW val \in Int
    PROVE  LET fit == BestFitLookup(t, val)
               value == ValueOf(t)
           IN  \/ fit = NULL /\ \A j \in Nodes(t) : value[j] < val
               \/ /\ fit \in Nodes(t) /\ value[fit] >= val
                  /\ \A j \in Nodes(t) : value[j] >= val => value[fit] <= value[j]
<1> DEFINE D == Nodes(t)
           left == LeftOf(t)
           right == RightOf(t)
           value == ValueOf(t)
           Found(at, S) == \/ at = NULL /\ \A j \in S : value[j] < val
                           \/ /\ at \in S /\ value[at] >= val
                              /\ \A j \in S : value[j] >= val => value[at] <= value[j]
<1>1. PICK below :
         /\ BestFitLookup(t, val) = below[t.root]
         /\ below[NULL] = NULL
         /\ \A n \in D : below[n] = IF value[n] >= val
                                    THEN IF below[left[n]] # NULL THEN below[left[n]] ELSE n
                                    ELSE below[right[n]]
  BY BestFitSteps
<1>2. /\ WellFormed(t) /\ IsFiniteSet(D) /\ NULL \notin D
      /\ Nested(D, left, right, sub) /\ Sorted(D, left, right, value, sub)
      /\ t.root \in D \cup {NULL} /\ sub[t.root] = D
      /\ left \in [D -> D \cup {NULL}] /\ right \in [D -> D \cup {NULL}]
      /\ sub \in [D \cup {NULL} -> SUBSET D] /\ sub[NULL] = {}
      /\ \A k \in D : sub[k] = {k} \cup sub[left[k]] \cup sub[right[k]]
  BY Slots DEF IsSearchTree, IsTree, Nested, Linked
<1>3. \A k \in D : value[k] \in Int
  BY <1>2, NodeFields
<1>4. PICK rank \in [D -> Nat], top \in Nat : IsForest(D, NULL, left, right, rank, top)
  BY <1>2, NestedIsForest
<1>. HIDE DEF D, left, right, value
<1> DEFINE S == {k \in D : Found(below[k], sub[k])}
<1>5. Found(below[NULL], sub[NULL])
  BY <1>1, <1>2
<1>6. ASSUME NEW k \in D, \A l \in D : rank[l] < rank[k] => l \in S PROVE k \in S
  <2>1. Found(below[left[k]], sub[left[k]]) /\ Found(below[right[k]], sub[right[k]])
    <3>1. /\ left[k] = NULL \/ (left[k] \in D /\ rank[left[k]] < rank[k])
          /\ right[k] = NULL \/ (right[k] \in D /\ rank[right[k]] < rank[k])
      BY <1>2, <1>4 DEF IsForest
    <3>. HIDE DEF Found
    <3>. QED BY <1>5, <1>6, <3>1
  <2>2. /\ sub[k] = {k} \cup sub[left[k]] \cup sub[right[k]]
        /\ \A j \in sub[left[k]] : j \in D /\ value[j] \in Int /\ value[j] <= value[k]
        /\ \A j \in sub[right[k]] : j \in D /\ value[j] \in Int /\ value[j] >= value[k]
        /\ value[k] \in Int
    BY <1>2, <1>3 DEF Sorted
  <2>3. CASE value[k] >= val
    <3>1. PICK l : l = below[left[k]]
      OBVIOUS
    <3>2. Found(l, sub[left[k]])
      BY <2>1, <3>1
    <3>3. CASE l = NULL
      <4>1. below[k] = k
        BY <1>1, <2>3, <3>1, <3>3
      <4>2. \A j \in sub[left[k]] : value[j] < val
        <5>1. NULL \notin sub[left[k]]
          BY <1>2, <2>2
        <5>. QED BY <3>2, <3>3, <5>1
      <4>. QED BY <2>2, <2>3, <4>1, <4>2
    <3>4. CASE l # NULL
      <4>1. below[k] = l
        BY <1>1, <2>3, <3>1, <3>4
      <4>2. /\ l \in sub[left[k]] /\ value[l] >= val /\ value[l] \in Int
            /\ \A j \in sub[left[k]] : value[j] >= val => value[l] <= value[j]
        BY <2>2, <3>2, <3>4
      <4>3. value[l] <= value[k]
        BY <2>2, <4>2
      <4>4. \A j \in sub[right[k]] : value[l] <= value[j]
        BY <2>2, <4>2, <4>3
      <4>. QED BY <2>2, <4>1, <4>2, <4>3, <4>4
    <3>. QED BY <3>3, <3>4
  <2>4. CASE ~ value[k] >= val
    <3>1. below[k] = below[right[k]]
      BY <1>1, <2>4
    <3>2. /\ value[k] < val
          /\ \A j \in sub[left[k]] : value[j] < val
      BY <2>2, <2>4
    <3>3. PICK r : r = below[right[k]] /\ Found(r, sub[right[k]])
      BY <2>1
    <3>4. Found(r, sub[k])
      BY <2>2, <3>2, <3>3
    <3>. QED BY <3>1, <3>3, <3>4
  <2>. QED BY <2>3, <2>4
<1>7. D \subseteq S
  <2>. HIDE DEF S
  <2>. QED BY <1>6, RankInduction
<1>8. Found(below[t.root], sub[t.root])
  <2>. HIDE DEF Found
  <2>. QED BY <1>2, <1>5, <1>7
<1>. QED BY <1>1, <1>2, <1>8 DEF D, value

LEMMA ExactFinds ==
    ASSUME NEW t, NEW sub, IsSearchTree(t, sub), NEW val \in Int, t.root # NULL
    PROVE  LET exact == ExactLookup(t, val)
               value == ValueOf(t)
           IN  \/ exact = NULL /\ \A j \in Nodes(t) : value[j] # val
               \/ exact \in Nodes(t) /\ value[exact] = val
<1> DEFINE D == Nodes(t)
           left == LeftOf(t)
           right == RightOf(t)
           value == ValueOf(t)
           Found(at, S) == \/ at = NULL /\ \A j \in S : value[j] # val
                           \/ at \in S /\ value[at] = val
<1>1. PICK below :
         /\ ExactLookup(t, val) = below[t.root]
         /\ below[NULL] = NULL
         /\ \A n \in D : below[n] = IF value[n] = val THEN n
                                    ELSE IF value[n] < val THEN below[right[n]]
                                                           ELSE below[left[n]]
  BY ExactSteps
<1>2. /\ WellFormed(t) /\ IsFiniteSet(D) /\ NULL \notin D
      /\ Nested(D, left, right, sub) /\ Sorted(D, left, right, value, sub)
      /\ t.root \in D \cup {NULL} /\ sub[t.root] = D
      /\ left \in [D -> D \cup {NULL}] /\ right \in [D -> D \cup {NULL}]
      /\ sub \in [D \cup {NULL} -> SUBSET D] /\ sub[NULL] = {}
      /\ \A k \in D : sub[k] = {k} \cup sub[left[k]] \cup sub[right[k]]
  BY Slots DEF IsSearchTree, IsTree, Nested, Linked
<1>3. \A k \in D : value[k] \in Int
  BY <1>2, NodeFields
<1>4. PICK rank \in [D -> Nat], top \in Nat : IsForest(D, NULL, left, right, rank, top)
  BY <1>2, NestedIsForest
<1>. HIDE DEF D, left, right, value
<1> DEFINE S == {k \in D : Found(below[k], sub[k])}
<1>5. Found(below[NULL], sub[NULL])
  BY <1>1, <1>2
<1>6. ASSUME NEW k \in D, \A l \in D : rank[l] < rank[k] => l \in S PROVE k \in S
  <2>1. Found(below[left[k]], sub[left[k]]) /\ Found(below[right[k]], sub[right[k]])
    <3>1. /\ left[k] = NULL \/ (left[k] \in D /\ rank[left[k]] < rank[k])
          /\ right[k] = NULL \/ (right[k] \in D /\ rank[right[k]] < rank[k])
      BY <1>2, <1>4 DEF IsForest
    <3>. HIDE DEF Found
    <3>. QED BY <1>5, <1>6, <3>1
  <2>2. /\ sub[k] = {k} \cup sub[left[k]] \cup sub[right[k]]
        /\ \A j \in sub[left[k]] : j \in D /\ value[j] \in Int /\ value[j] <= value[k]
        /\ \A j \in sub[right[k]] : j \in D /\ value[j] \in Int /\ value[j] >= value[k]
        /\ value[k] \in Int
    BY <1>2, <1>3 DEF Sorted
  <2>3. CASE value[k] = val
    <3>1. below[k] = k
      BY <1>1, <2>3
    <3>. QED BY <2>2, <2>3, <3>1
  <2>4. CASE value[k] < val
    <3>1. below[k] = below[right[k]]
      BY <1>1, <2>2, <2>4
    <3>2. \A j \in sub[left[k]] : value[j] # val
      BY <2>2, <2>4
    <3>3. PICK r : r = below[right[k]] /\ Found(r, sub[right[k]])
      BY <2>1
    <3>4. Found(r, sub[k])
      BY <2>2, <2>4, <3>2, <3>3
    <3>. QED BY <3>1, <3>3, <3>4
  <2>5. CASE value[k] > val
    <3>1. below[k] = below[left[k]]
      BY <1>1, <2>2, <2>5
    <3>2. \A j \in sub[right[k]] : value[j] # val
      BY <2>2, <2>5
    <3>3. PICK l : l = below[left[k]] /\ Found(l, sub[left[k]])
      BY <2>1
    <3>4. Found(l, sub[k])
      BY <2>2, <2>5, <3>2, <3>3
    <3>. QED BY <3>1, <3>3, <3>4
  <2>. QED BY <2>2, <2>3, <2>4, <2>5
<1>7. D \subseteq S
  <2>. HIDE DEF S
  <2>. QED BY <1>6, RankInduction
<1>8. Found(below[t.root], sub[t.root])
  <2>. HIDE DEF Found
  <2>. QED BY <1>2, <1>5, <1>7
<1>. QED BY <1>1, <1>2, <1>8 DEF D, value

-----------------------------------------------------------------------------
(* The bag of values                                                         *)

Copies(t, v) == Cardinality({n \in Nodes(t) : t.nodes[n].value = v})

LEMMA CopiesFinite ==
    ASSUME NEW t, IsFiniteSet(Nodes(t)), NEW v
    PROVE  /\ IsFiniteSet({n \in Nodes(t) : t.nodes[n].value = v})
           /\ Copies(t, v) \in Nat
<1>1. {n \in Nodes(t) : t.nodes[n].value = v} \subseteq Nodes(t)
  OBVIOUS
<1>. QED BY <1>1, FS_Subset, FS_CardinalityType DEF Copies

LEMMA CopiesAdded ==
    ASSUME NEW t, NEW u, IsFiniteSet(Nodes(t)), NEW leaf, leaf \notin Nodes(t),
           Nodes(u) = Nodes(t) \cup {leaf}, NEW v,
           \A k \in Nodes(t) : u.nodes[k].value = t.nodes[k].value
    PROVE  Copies(u, v) = IF u.nodes[leaf].value = v THEN Copies(t, v) + 1
                                                     ELSE Copies(t, v)
<1> DEFINE S == {n \in Nodes(t) : t.nodes[n].value = v}
           T == {n \in Nodes(u) : u.nodes[n].value = v}
<1>1. IsFiniteSet(S) /\ leaf \notin S
  BY CopiesFinite
<1>2. T = IF u.nodes[leaf].value = v THEN S \cup {leaf} ELSE S
  OBVIOUS
<1>. HIDE DEF S, T
<1>3. Cardinality(S \cup {leaf}) = Cardinality(S) + 1
  BY <1>1, FS_AddElement
<1>4. Copies(u, v) = Cardinality(T) /\ Copies(t, v) = Cardinality(S)
  BY DEF Copies, S, T
<1>. QED BY <1>2, <1>3, <1>4

LEMMA CopiesDropped ==
    ASSUME NEW t, NEW u, IsFiniteSet(Nodes(t)), NEW n \in Nodes(t),
           NEW took \in Bijection(Nodes(u), Nodes(t) \ {n}), NEW v,
           \A k \in Nodes(u) : u.nodes[k].value = t.nodes[took[k]].value
    PROVE  /\ Copies(u, v) = IF t.nodes[n].value = v THEN Copies(t, v) - 1
                                                     ELSE Copies(t, v)
           /\ t.nodes[n].value = v => Copies(t, v) > 0
<1> DEFINE S == {k \in Nodes(t) : t.nodes[k].value = v}
           T == {k \in Nodes(u) : u.nodes[k].value = v}
           R == {k \in Nodes(t) \ {n} : t.nodes[k].value = v}
           took1 == [k \in T |-> took[k]]
<1>1. /\ took \in [Nodes(u) -> Nodes(t) \ {n}]
      /\ \A j, k \in Nodes(u) : took[j] = took[k] => j = k
      /\ \A d \in Nodes(t) \ {n} : \E k \in Nodes(u) : took[k] = d
  BY DEF Bijection, Injection, Surjection, IsInjective
<1>2. took1 \in Bijection(T, R)
  <2>1. took1 \in [T -> R]
    BY <1>1
  <2>2. \A j, k \in T : took1[j] = took1[k] => j = k
    BY <1>1
  <2>3. \A d \in R : \E k \in T : took1[k] = d
    BY <1>1
  <2>. HIDE DEF took1, T, R
  <2>. QED BY <2>1, <2>2, <2>3 DEF Bijection, Injection, Surjection, IsInjective
<1>3. IsFiniteSet(S) /\ IsFiniteSet(R)
  <2>1. IsFiniteSet(S)
    BY CopiesFinite
  <2>2. R \subseteq S
    OBVIOUS
  <2>. QED BY <2>1, <2>2, FS_Subset
<1>4. R = S \ {n} /\ (n \in S <=> t.nodes[n].value = v)
  OBVIOUS
<1>. HIDE DEF S, T, R, took1
<1>5. Cardinality(T) = Cardinality(R)
  <2>1. IsFiniteSet(T)
    <3>1. took1 \in Injection(T, R)
      BY <1>2 DEF Bijection
    <3>. QED BY <1>3, <3>1, FS_Injection
  <2>2. ExistsBijection(T, R)
    BY <1>2 DEF ExistsBijection
  <2>. QED BY <2>1, <2>2, FS_Bijection
<1>6. /\ Cardinality(R) = IF n \in S THEN Cardinality(S) - 1 ELSE Cardinality(S)
      /\ Cardinality(S) \in Nat
      /\ Cardinality(R) \in Nat
  BY <1>3, <1>4, FS_RemoveElement, FS_CardinalityType
<1>7. Copies(u, v) = Cardinality(T) /\ Copies(t, v) = Cardinality(S)
  BY DEF Copies, S, T
<1>. QED BY <1>4, <1>5, <1>6, <1>7

-----------------------------------------------------------------------------
(* The tree of the specification                                             *)

\* The nodes at and below each, as bin_tree.c links them.
TreeKept(sub) ==
    LET D == Nodes(tree)
    IN  /\ tree.root \in D \cup {NULL} /\ ParentOf(tree) \in [D -> D \cup {NULL}]
        /\ Nested(D, LeftOf(tree), RightOf(tree), sub)
        /\ Sorted(D, LeftOf(tree), RightOf(tree), ValueOf(tree), sub)
        /\ cut <=> sub[tree.root] # D
        /\ ~ cut => Linked(D, LeftOf(tree), RightOf(tree), ParentOf(tree), tree.root)

TreeInv ==
    /\ WellFormed(tree)
    /\ EndOf(tree) < MaxSize
    /\ \A n \in Nodes(tree) : /\ tree.nodes[n].value \in Values
                              /\ tree.nodes[n].header \in Values
    /\ \E sub : TreeKept(sub)
    /\ cut \in BOOLEAN
    /\ HeadersStayWithValues

\* Before a cut, what is kept is a search tree.
LEMMA KeptIsSearchTree ==
    ASSUME TreeInv, ~ cut, NEW sub
    PROVE  TreeKept(sub) <=> IsSearchTree(tree, sub)
<1>1. TreeKept(sub) => IsSearchTree(tree, sub)
  BY DEF TreeInv, TreeKept, IsSearchTree, IsTree
<1>2. IsSearchTree(tree, sub) => TreeKept(sub)
  BY DEF TreeKept, IsSearchTree, IsTree, Linked
<1>. QED BY <1>1, <1>2

LEMMA TreeInvAtStart == TreeInit => TreeInv
<1> SUFFICES ASSUME TreeInit PROVE TreeInv
  OBVIOUS
<1>1. PICK val \in Values :
         tree = [root |-> 0, nodes |-> [n \in {0} |-> Leaf(val, val, NULL)]]
  BY DEF TreeInit
<1>2. val \in Int /\ MaxSize \in Nat \ {0}
  BY TreeAssumption DEF TreeAssumption
<1>3. /\ WellFormed(tree) /\ Nodes(tree) = {0} /\ EndOf(tree) = 0
      /\ tree.nodes[0].value = val /\ tree.nodes[0].header = val
      /\ \E sub : IsSearchTree(tree, sub)
  BY <1>1, <1>2, OneNode
<1>4. cut = FALSE
  BY DEF TreeInit
<1>5. PICK sub : IsSearchTree(tree, sub)
  BY <1>3
<1>6. TreeKept(sub)
  BY <1>4, <1>5 DEF TreeKept, IsSearchTree, IsTree, Linked
<1>7. HeadersStayWithValues
  BY <1>3 DEF HeadersStayWithValues
<1>8. EndOf(tree) < MaxSize
  BY <1>2, <1>3
<1>9. \A n \in Nodes(tree) : tree.nodes[n].value \in Values /\ tree.nodes[n].header \in Values
  BY <1>1, <1>3
<1>10. \E sub2 : TreeKept(sub2)
  BY <1>6
<1>11. cut \in BOOLEAN
  BY <1>4
<1>. QED BY <1>3, <1>7, <1>8, <1>9, <1>10, <1>11 DEF TreeInv

LEMMA InsertKeepsTree ==
    ASSUME TreeInv, NEW val \in Values, Insert(val)
    PROVE  TreeInv'
<1>1. val \in Int /\ MaxSize \in Nat
  BY TreeAssumption DEF TreeAssumption
<1>2. /\ ~ cut /\ EndOf(tree) + 1 < MaxSize /\ tree' = Inserted(tree, val, val)
      /\ cut' = CutsSubtree(tree, val) /\ moved' = moved
  BY DEF Insert
<1>3. PICK sub : IsSearchTree(tree, sub)
  BY <1>2, KeptIsSearchTree DEF TreeInv
<1> DEFINE leaf == EndOf(tree) + 1
<1>4. /\ WellFormed(tree') /\ EndOf(tree') = leaf
      /\ Nodes(tree') = Nodes(tree) \cup {leaf}
      /\ tree'.nodes[leaf].value = val /\ tree'.nodes[leaf].header = val
      /\ \A k \in Nodes(tree) : /\ tree'.nodes[k].value = tree.nodes[k].value
                                /\ tree'.nodes[k].header = tree.nodes[k].header
      /\ \E sub2 : InsertedInto(tree', CutsSubtree(tree, val), sub2)
  BY <1>1, <1>2, <1>3, InsertedTree
<1>5. PICK sub2 : InsertedInto(tree', cut', sub2)
  BY <1>2, <1>4
<1>6. TreeKept(sub2)'
  BY <1>5 DEF TreeKept, InsertedInto
<1>7. cut' \in BOOLEAN
  BY <1>2 DEF CutsSubtree
<1>8. \A n \in Nodes(tree') : tree'.nodes[n].value \in Values /\ tree'.nodes[n].header \in Values
  BY <1>4 DEF TreeInv
<1>9. HeadersStayWithValues'
  BY <1>2, <1>4 DEF TreeInv, HeadersStayWithValues
<1>. QED BY <1>2, <1>4, <1>6, <1>7, <1>8, <1>9 DEF TreeInv

LEMMA RemoveKeepsTree ==
    ASSUME TreeInv, NEW n \in Nodes(tree), Remove(n)
    PROVE  TreeInv'
<1>1. MaxSize \in Nat /\ EndOf(tree) \in Int
  BY TreeAssumption, Slots DEF TreeAssumption, TreeInv
<1>2. /\ ~ cut /\ tree' = Removed(tree, n) /\ cut' = cut
      /\ moved' = (moved \/ HasTwoChildren(tree, n))
  BY DEF Remove
<1>3. PICK sub : IsSearchTree(tree, sub)
  BY <1>2, KeptIsSearchTree DEF TreeInv
<1>4. /\ Nodes(tree') = Nodes(tree) \ {EndOf(tree)} /\ EndOf(tree') = EndOf(tree) - 1
      /\ \E sub2 : IsSearchTree(tree', sub2)
      /\ \A k \in Nodes(tree') : \E j \in Nodes(tree) :
            tree'.nodes[k].header = tree.nodes[j].header
      /\ \E took \in Bijection(Nodes(tree'), Nodes(tree) \ {n}) :
            \A k \in Nodes(tree') :
               /\ tree'.nodes[k].value = tree.nodes[took[k]].value
               /\ ~ HasTwoChildren(tree, n) =>
                     tree'.nodes[k].header = tree.nodes[took[k]].header
  BY <1>2, <1>3, RemovedTree
<1>5. PICK sub2 : IsSearchTree(tree', sub2)
  BY <1>4
<1>6. TreeKept(sub2)' /\ WellFormed(tree')
  BY <1>2, <1>5 DEF TreeInv, TreeKept, IsSearchTree, IsTree, Linked
<1>7. PICK took \in Bijection(Nodes(tree'), Nodes(tree) \ {n}) :
         \A k \in Nodes(tree') :
            /\ tree'.nodes[k].value = tree.nodes[took[k]].value
            /\ ~ HasTwoChildren(tree, n) =>
                  tree'.nodes[k].header = tree.nodes[took[k]].header
  BY <1>4
<1>8. \A k \in Nodes(tree') : took[k] \in Nodes(tree)
  BY <1>7 DEF Bijection, Injection
<1>9. \A k \in Nodes(tree') : tree'.nodes[k].value \in Values /\ tree'.nodes[k].header \in Values
  BY <1>4, <1>7, <1>8 DEF TreeInv
<1>10. HeadersStayWithValues'
  BY <1>2, <1>7, <1>8 DEF TreeInv, HeadersStayWithValues
<1>. QED BY <1>1, <1>2, <1>4, <1>6, <1>9, <1>10 DEF TreeInv

\* The invariant of the operations of heap.c: what is in the first slots of
\* the array is one search tree, with the values in order, but for the nodes
\* that an insertion of CutsSubtree has lost.
THEOREM TreeInvariant == TreeSpec => []TreeInv
<1>1. TreeInit => TreeInv
  BY TreeInvAtStart
<1>2. TreeInv /\ [TreeNext]_treeVars => TreeInv'
  <2> SUFFICES ASSUME TreeInv, [TreeNext]_treeVars PROVE TreeInv'
    OBVIOUS
  <2>1. ASSUME NEW val \in Values, Insert(val) PROVE TreeInv'
    BY <2>1, InsertKeepsTree
  <2>2. ASSUME NEW n \in Nodes(tree), Remove(n) PROVE TreeInv'
    BY <2>2, RemoveKeepsTree
  <2>3. CASE UNCHANGED treeVars
    BY <2>3 DEF treeVars, TreeInv, TreeKept, HeadersStayWithValues
  <2>. QED BY <2>1, <2>2, <2>3 DEF TreeNext
<1>. QED BY <1>1, <1>2, PTL DEF TreeSpec

-----------------------------------------------------------------------------
(* Properties                                                                *)

\* Subtree is the set that the invariant carries along.
LEMMA SubtreeIsKept ==
    ASSUME TreeInv, NEW sub, TreeKept(sub)
    PROVE  \A n \in Nodes(tree) \cup {NULL} : Subtree[n] = sub[n]
<1> DEFINE D == Nodes(tree)
           left == LeftOf(tree)
           right == RightOf(tree)
<1>1. /\ WellFormed(tree) /\ Nested(D, left, right, sub) /\ IsFiniteSet(D)
  BY Slots DEF TreeInv, TreeKept
<1>2. /\ NULL \notin D
      /\ left \in [D -> D \cup {NULL}] /\ right \in [D -> D \cup {NULL}]
      /\ sub \in [D \cup {NULL} -> SUBSET D] /\ sub[NULL] = {}
      /\ \A n \in D : sub[n] = {n} \cup sub[left[n]] \cup sub[right[n]]
  BY <1>1 DEF Nested
<1>3. \A n \in D : left[n] = tree.nodes[n].left /\ right[n] = tree.nodes[n].right
  BY <1>1, NodeFields
<1>4. Subtree = CHOOSE g : g = [n \in D \cup {NULL} |->
                   IF n = NULL THEN {}
                   ELSE {n} \cup g[tree.nodes[n].left] \cup g[tree.nodes[n].right]]
  BY Zenon DEF Subtree
<1>. HIDE DEF D, left, right
<1>5. sub = [n \in D \cup {NULL} |->
                   IF n = NULL THEN {}
                   ELSE {n} \cup sub[tree.nodes[n].left] \cup sub[tree.nodes[n].right]]
  BY <1>2, <1>3
<1>6. Subtree = [n \in D \cup {NULL} |->
                   IF n = NULL THEN {}
                   ELSE {n} \cup Subtree[tree.nodes[n].left]
                            \cup Subtree[tree.nodes[n].right]]
  BY <1>4, <1>5, Zenon
<1>7. /\ Subtree[NULL] = {}
      /\ \A n \in D : Subtree[n] = {n} \cup Subtree[left[n]] \cup Subtree[right[n]]
  BY <1>2, <1>3, <1>6
<1>8. PICK rank \in [D -> Nat], top \in Nat : IsForest(D, NULL, left, right, rank, top)
  BY <1>1, NestedIsForest
<1> DEFINE S == {n \in D : Subtree[n] = sub[n]}
<1>9. ASSUME NEW n \in D, \A m \in D : rank[m] < rank[n] => m \in S PROVE n \in S
  <2>1. /\ left[n] = NULL \/ (left[n] \in D /\ rank[left[n]] < rank[n])
        /\ right[n] = NULL \/ (right[n] \in D /\ rank[right[n]] < rank[n])
    BY <1>2, <1>8 DEF IsForest
  <2>2. Subtree[left[n]] = sub[left[n]] /\ Subtree[right[n]] = sub[right[n]]
    BY <1>2, <1>7, <1>9, <2>1
  <2>. QED BY <1>2, <1>7, <2>2
<1>10. D \subseteq S
  <2>. HIDE DEF S
  <2>. QED BY <1>9, RankInduction
<1>. QED BY <1>2, <1>7, <1>10 DEF D

\* The nodes are the first slots, and their links name nodes (bin_tree.c).
THEOREM TreeTypeCorrect == TreeSpec => []TreeTypeOK
<1>1. TreeInv => TreeTypeOK
  <2> SUFFICES ASSUME TreeInv PROVE TreeTypeOK
    OBVIOUS
  <2>1. PICK sub : TreeKept(sub)
    BY DEF TreeInv
  <2>2. /\ EndOf(tree) \in Nat \cup {-1} /\ Nodes(tree) = 0 .. EndOf(tree)
        /\ EndOf(tree) < MaxSize /\ MaxSize \in Nat
    BY Slots, TreeAssumption DEF TreeInv, TreeAssumption
  <2>3. Nodes(tree) \cup {NULL} \subseteq Links
    BY <2>2 DEF Links
  <2>4. ASSUME NEW n \in Nodes(tree)
        PROVE  tree.nodes[n] \in [value : Values, header : Values, balance : Int,
                                  parent : Links, left : Links, right : Links]
    <3>1. /\ tree.nodes[n] \in NodeSet
          /\ LeftOf(tree)[n] = tree.nodes[n].left /\ RightOf(tree)[n] = tree.nodes[n].right
          /\ ParentOf(tree)[n] = tree.nodes[n].parent
      BY NodeFields DEF TreeInv
    <3>2. /\ LeftOf(tree)[n] \in Links /\ RightOf(tree)[n] \in Links
          /\ ParentOf(tree)[n] \in Links
      BY <2>1, <2>3 DEF TreeKept, Nested
    <3>3. tree.nodes[n].value \in Values /\ tree.nodes[n].header \in Values
      BY DEF TreeInv
    <3>. QED BY <3>1, <3>2, <3>3 DEF NodeSet
  <2>. QED BY <2>1, <2>2, <2>4 DEF TreeTypeOK, TreeKept
<1>. QED BY <1>1, TreeInvariant, PTL

\* Every slot in use is a node of the tree, and parents and children agree,
\* whatever is removed and moved; only a cut loses nodes.
THEOREM TreeLinksAgree == TreeSpec => []LinksAgree
<1>1. TreeInv => LinksAgree
  <2> SUFFICES ASSUME TreeInv PROVE LinksAgree
    OBVIOUS
  <2>1. PICK sub : TreeKept(sub)
    BY DEF TreeInv
  <2>2. cut <=> Subtree[tree.root] # Nodes(tree)
    BY <2>1, SubtreeIsKept DEF TreeKept
  <2>3. ASSUME ~ cut, NEW n \in Nodes(tree)
        PROVE  LET node == tree.nodes[n] IN
               /\ (node.parent = NULL) <=> (n = tree.root)
               /\ node.left # NULL => tree.nodes[node.left].parent = n
               /\ node.right # NULL => tree.nodes[node.right].parent = n
               /\ node.left = node.right => node.left = NULL
    <3>1. \A k \in Nodes(tree) :
             /\ LeftOf(tree)[k] = tree.nodes[k].left
             /\ RightOf(tree)[k] = tree.nodes[k].right
             /\ ParentOf(tree)[k] = tree.nodes[k].parent
      BY NodeFields DEF TreeInv
    <3>2. /\ LeftOf(tree)[n] \in Nodes(tree) \cup {NULL}
          /\ RightOf(tree)[n] \in Nodes(tree) \cup {NULL}
      BY <2>1 DEF TreeKept, Nested
    <3>3. /\ (ParentOf(tree)[n] = NULL) <=> (n = tree.root)
          /\ LeftOf(tree)[n] # NULL => ParentOf(tree)[LeftOf(tree)[n]] = n
          /\ RightOf(tree)[n] # NULL => ParentOf(tree)[RightOf(tree)[n]] = n
          /\ LeftOf(tree)[n] = RightOf(tree)[n] => LeftOf(tree)[n] = NULL
      BY <2>1, <2>3 DEF TreeKept, Linked
    <3>. QED BY <3>1, <3>2, <3>3
  <2>. QED BY <2>2, <2>3 DEF LinksAgree
<1>. QED BY <1>1, TreeInvariant, PTL

\* No value to the left of a node is larger than its own, none to the right
\* smaller: what both lookups rest on.
THEOREM TreeStaysSorted == TreeSpec => []SearchOrder
<1>1. TreeInv => SearchOrder
  <2> SUFFICES ASSUME TreeInv PROVE SearchOrder
    OBVIOUS
  <2>1. PICK sub : TreeKept(sub)
    BY DEF TreeInv
  <2>2. ASSUME NEW n \in Nodes(tree)
        PROVE  /\ \A m \in Subtree[tree.nodes[n].left] :
                     tree.nodes[m].value <= tree.nodes[n].value
               /\ \A m \in Subtree[tree.nodes[n].right] :
                     tree.nodes[m].value >= tree.nodes[n].value
    <3>1. \A k \in Nodes(tree) :
             /\ LeftOf(tree)[k] = tree.nodes[k].left
             /\ RightOf(tree)[k] = tree.nodes[k].right
             /\ ValueOf(tree)[k] = tree.nodes[k].value
      BY NodeFields DEF TreeInv
    <3>2. /\ LeftOf(tree)[n] \in Nodes(tree) \cup {NULL}
          /\ RightOf(tree)[n] \in Nodes(tree) \cup {NULL}
          /\ sub[LeftOf(tree)[n]] \subseteq Nodes(tree)
          /\ sub[RightOf(tree)[n]] \subseteq Nodes(tree)
      BY <2>1 DEF TreeKept, Nested
    <3>3. /\ Subtree[LeftOf(tree)[n]] = sub[LeftOf(tree)[n]]
          /\ Subtree[RightOf(tree)[n]] = sub[RightOf(tree)[n]]
      BY <2>1, <3>2, SubtreeIsKept
    <3>4. /\ \A m \in sub[LeftOf(tree)[n]] : ValueOf(tree)[m] <= ValueOf(tree)[n]
          /\ \A m \in sub[RightOf(tree)[n]] : ValueOf(tree)[m] >= ValueOf(tree)[n]
      BY <2>1 DEF TreeKept, Sorted
    <3>. QED BY <3>1, <3>2, <3>3, <3>4
  <2>. QED BY <2>2 DEF SearchOrder
<1>. QED BY <1>1, TreeInvariant, PTL

\* Both lookups find what is there: the value asked for, or the smallest one
\* that is large enough (bin_tree_lookup), in trees of every shape.
THEOREM LookupsFind == TreeSpec => []LookupsFindTheirValue
<1>1. TreeInv => LookupsFindTheirValue
  <2> SUFFICES ASSUME TreeInv, ~ cut, NEW val \in Values
               PROVE  LET values == {tree.nodes[n].value : n \in Nodes(tree)}
                          large == {v \in values : v >= val}
                          fit == BestFitLookup(tree, val)
                          exact == ExactLookup(tree, val)
                      IN  /\ IF large = {} THEN fit = NULL
                             ELSE /\ fit # NULL
                                  /\ tree.nodes[fit].value \in large
                                  /\ \A v \in large : tree.nodes[fit].value <= v
                          /\ tree.root # NULL =>
                                IF val \in values
                                THEN /\ exact \in Nodes(tree)
                                     /\ tree.nodes[exact].value = val
                                ELSE exact = NULL
    BY DEF LookupsFindTheirValue
  <2> DEFINE values == {tree.nodes[n].value : n \in Nodes(tree)}
             large == {v \in values : v >= val}
             fit == BestFitLookup(tree, val)
             exact == ExactLookup(tree, val)
             value == ValueOf(tree)
  <2>1. PICK sub : IsSearchTree(tree, sub)
    BY KeptIsSearchTree DEF TreeInv
  <2>2. val \in Int
    BY TreeAssumption DEF TreeAssumption
  <2>3. /\ \A n \in Nodes(tree) : value[n] = tree.nodes[n].value /\ value[n] \in Int
        /\ NULL \notin Nodes(tree)
    BY NodeFields, Slots DEF TreeInv
  <2>4. \/ fit = NULL /\ \A j \in Nodes(tree) : value[j] < val
        \/ /\ fit \in Nodes(tree) /\ value[fit] >= val
           /\ \A j \in Nodes(tree) : value[j] >= val => value[fit] <= value[j]
    BY <2>1, <2>2, BestFitFinds
  <2>5. ASSUME tree.root # NULL
        PROVE  \/ exact = NULL /\ \A j \in Nodes(tree) : value[j] # val
               \/ exact \in Nodes(tree) /\ value[exact] = val
    BY <2>1, <2>2, <2>5, ExactFinds
  <2>. HIDE DEF fit, exact, value
  <2>6. IF large = {} THEN fit = NULL
        ELSE /\ fit # NULL
             /\ tree.nodes[fit].value \in large
             /\ \A v \in large : tree.nodes[fit].value <= v
    <3>1. CASE fit = NULL
      <4>1. \A j \in Nodes(tree) : value[j] < val
        BY <2>3, <2>4, <3>1
      <4>2. \A j \in Nodes(tree) : ~ (tree.nodes[j].value >= val)
        BY <2>2, <2>3, <4>1
      <4>. QED BY <3>1, <4>2
    <3>2. CASE fit # NULL
      <4>1. /\ fit \in Nodes(tree) /\ value[fit] >= val
            /\ \A j \in Nodes(tree) : value[j] >= val => value[fit] <= value[j]
        BY <2>4, <3>2
      <4>2. tree.nodes[fit].value \in large
        BY <2>3, <4>1
      <4>3. \A v \in large : tree.nodes[fit].value <= v
        BY <2>3, <4>1
      <4>. QED BY <3>2, <4>2, <4>3
    <3>. QED BY <3>1, <3>2
  <2>7. ASSUME tree.root # NULL
        PROVE  IF val \in values
               THEN exact \in Nodes(tree) /\ tree.nodes[exact].value = val
               ELSE exact = NULL
    <3>1. CASE exact = NULL
      <4>1. \A j \in Nodes(tree) : tree.nodes[j].value # val
        BY <2>3, <2>5, <2>7, <3>1
      <4>. QED BY <3>1, <4>1
    <3>2. CASE exact # NULL
      BY <2>3, <2>5, <2>7, <3>2
    <3>. QED BY <3>1, <3>2
  <2>. QED BY <2>6, <2>7 DEF fit, exact
<1>. QED BY <1>1, TreeInvariant, PTL

\* A value keeps its header while no node with two children is removed
\* (bin_tree_remove moves the neighbour's value without its header).
THEOREM HeadersStay == TreeSpec => []HeadersStayWithValues
<1>1. TreeInv => HeadersStayWithValues
  BY DEF TreeInv
<1>. QED BY <1>1, TreeInvariant, PTL

-----------------------------------------------------------------------------
(* The tree is a bag                                                         *)

copiesNow == [v \in Values |->
                Cardinality({n \in Nodes(tree) : tree.nodes[n].value = v})]

LEMMA CopiesNow ==
    /\ copiesNow = [v \in Values |-> Copies(tree, v)]
    /\ copiesNow' = [v \in Values |-> Copies(tree', v)]
BY DEF copiesNow, Copies

LEMMA StartIsBagStart == TreeInit => Bag!BagInit
<1> SUFFICES ASSUME TreeInit PROVE Bag!BagInit
  OBVIOUS
<1>1. PICK val \in Values :
         /\ tree = [root |-> 0, nodes |-> [n \in {0} |-> Leaf(val, val, NULL)]]
         /\ request = <<"add", val>>
  BY DEF TreeInit
<1>2. val \in Int
  BY TreeAssumption DEF TreeAssumption
<1>3. Nodes(tree) = {0} /\ tree.nodes[0].value = val
  BY <1>1, <1>2, OneNode
<1>4. ASSUME NEW v \in Values PROVE Copies(tree, v) = IF v = val THEN 1 ELSE 0
  <2>1. {n \in Nodes(tree) : tree.nodes[n].value = v} = IF v = val THEN {0} ELSE {}
    BY <1>3
  <2>2. Cardinality({0}) = 1 /\ Cardinality({}) = 0
    BY FS_Singleton, FS_EmptySet
  <2>. QED BY <2>1, <2>2 DEF Copies
<1>5. copiesNow = [v \in Values |-> IF v = val THEN 1 ELSE 0]
  BY <1>4, CopiesNow
<1>. QED BY <1>1, <1>5 DEF Bag!BagInit, copiesNow

LEMMA InsertAddsToBag ==
    ASSUME TreeInv, NEW val \in Values, Insert(val)
    PROVE  Bag!Add(val)
<1>1. val \in Int
  BY TreeAssumption DEF TreeAssumption
<1>2. ~ cut /\ tree' = Inserted(tree, val, val) /\ request' = <<"add", val>>
  BY DEF Insert
<1>3. PICK sub : IsSearchTree(tree, sub)
  BY <1>2, KeptIsSearchTree DEF TreeInv
<1> DEFINE leaf == EndOf(tree) + 1
<1>4. /\ Nodes(tree') = Nodes(tree) \cup {leaf} /\ leaf \notin Nodes(tree)
      /\ tree'.nodes[leaf].value = val
      /\ \A k \in Nodes(tree) : tree'.nodes[k].value = tree.nodes[k].value
  BY <1>1, <1>2, <1>3, InsertedTree
<1>5. IsFiniteSet(Nodes(tree))
  BY Slots DEF TreeInv
<1>. HIDE DEF leaf
<1>6. \A v \in Values : Copies(tree', v) = IF val = v THEN Copies(tree, v) + 1
                                                      ELSE Copies(tree, v)
  BY <1>4, <1>5, CopiesAdded
<1>7. copiesNow' = [copiesNow EXCEPT ![val] = @ + 1]
  BY <1>6, CopiesNow
<1>. QED BY <1>2, <1>7 DEF Bag!Add, copiesNow

LEMMA RemoveDropsFromBag ==
    ASSUME TreeInv, NEW n \in Nodes(tree), Remove(n)
    PROVE  Bag!Drop(tree.nodes[n].value)
<1> DEFINE val == tree.nodes[n].value
<1>1. val \in Values
  BY DEF TreeInv
<1>2. ~ cut /\ tree' = Removed(tree, n) /\ request' = <<"drop", val>>
  BY DEF Remove
<1>3. PICK sub : IsSearchTree(tree, sub)
  BY <1>2, KeptIsSearchTree DEF TreeInv
<1>4. PICK took \in Bijection(Nodes(tree'), Nodes(tree) \ {n}) :
         \A k \in Nodes(tree') : tree'.nodes[k].value = tree.nodes[took[k]].value
  BY <1>2, <1>3, RemovedTree
<1>5. IsFiniteSet(Nodes(tree))
  BY Slots DEF TreeInv
<1>6. \A v \in Values : /\ Copies(tree', v) = IF val = v THEN Copies(tree, v) - 1
                                                         ELSE Copies(tree, v)
                        /\ val = v => Copies(tree, v) > 0
  BY <1>4, <1>5, CopiesDropped
<1>. HIDE DEF val
<1>7. copiesNow' = [copiesNow EXCEPT ![val] = @ - 1] /\ copiesNow[val] > 0
  BY <1>1, <1>6, CopiesNow
<1>8. Bag!Drop(val)
  BY <1>2, <1>7 DEF Bag!Drop, copiesNow
<1>. QED BY <1>8 DEF val

\* bin_tree_insert adds one copy of its value and bin_tree_remove takes one of
\* the value of the node it is given, and no other, though the node that goes
\* and the one that is moved into its slot may be others.
THEOREM TreeImplementsBag == TreeSpec => TreeIsABag
<1>1. TreeInit => Bag!BagInit
  BY StartIsBagStart
<1>2. TreeInv /\ [TreeNext]_treeVars => [Bag!BagNext]_(Bag!bagVars)
  <2> SUFFICES ASSUME TreeInv, [TreeNext]_treeVars PROVE [Bag!BagNext]_(Bag!bagVars)
    OBVIOUS
  <2>1. ASSUME NEW val \in Values, Insert(val) PROVE Bag!BagNext
    BY <2>1, InsertAddsToBag DEF Bag!BagNext
  <2>2. ASSUME NEW n \in Nodes(tree), Remove(n) PROVE Bag!BagNext
    <3>1. tree.nodes[n].value \in Values
      BY DEF TreeInv
    <3>. QED BY <2>2, <3>1, RemoveDropsFromBag DEF Bag!BagNext
  <2>3. CASE UNCHANGED treeVars
    BY <2>3 DEF treeVars, Bag!bagVars
  <2>. QED BY <2>1, <2>2, <2>3 DEF TreeNext
<1>. QED BY <1>1, <1>2, TreeInvariant, PTL DEF TreeSpec, TreeIsABag, Bag!BagSpec
=============================================================================
