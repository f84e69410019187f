------------------------------ MODULE Recursion -----------------------------
(* Lemmas for the recursive functions of the models: induction over the      *)
(* numbers, stated about sets, and that a function defined by recursion over *)
(* a binary tree, or down to a number, satisfies its equation.               *)
EXTENDS Integers, WellFoundedInduction, TLAPS

(* A set of numbers that is not empty has a least element.                   *)
LEMMA LeastElement ==
    ASSUME NEW S \in SUBSET Nat, S # {}
    PROVE  \E o \in S : \A p \in S : o <= p
<1>1. IsWellFoundedOn(OpToRel(<, Nat), Nat)
  BY NatLessThanWellFounded
<1>2. PICK o \in S : \A p \in S : ~ (<<p, o>> \in OpToRel(<, Nat))
  BY <1>1, WFMin
<1>3. \A p \in S : ~ (p < o)
  BY <1>2 DEF OpToRel
<1>4. \A p \in S : o <= p
  <2> TAKE p \in S
  <2>1. p \in Nat /\ o \in Nat /\ ~ (p < o)
    BY <1>3
  <2>2. QED
    BY <2>1
<1>5. QED
  BY <1>4

(* A set that has 0, and the successor of each number it has, has them all.  *)
LEMMA SetInduction ==
    ASSUME NEW S, 0 \in S, \A n \in Nat : n \in S => n + 1 \in S
    PROVE  Nat \subseteq S
<1> SUFFICES ASSUME Nat \ S # {} PROVE FALSE
  OBVIOUS
<1>1. PICK o \in Nat \ S : \A p \in Nat \ S : o <= p
  BY LeastElement, Nat \ S \in SUBSET Nat
<1>2. o # 0 /\ o - 1 \in Nat
  BY <1>1
<1>3. o - 1 \in S
  BY <1>1, <1>2
<1>. QED BY <1>1, <1>2, <1>3

(* The same of the elements of a set that are measured by numbers: one for   *)
(* whose smaller ones it holds is one for which it holds.                    *)
LEMMA RankInduction ==
    ASSUME NEW D, NEW rank \in [D -> Nat], NEW S,
           \A n \in D : (\A m \in D : rank[m] < rank[n] => m \in S) => n \in S
    PROVE  D \subseteq S
<1> SUFFICES ASSUME D \ S # {} PROVE FALSE
  OBVIOUS
<1> DEFINE R == {rank[n] : n \in D \ S}
<1>1. R \in SUBSET Nat /\ R # {}
  OBVIOUS
<1>2. PICK o \in R : \A p \in R : o <= p
  BY <1>1, LeastElement
<1>3. PICK n \in D \ S : rank[n] = o
  BY <1>2
<1>4. ASSUME NEW m \in D, rank[m] < rank[n] PROVE m \in S
  <2>1. rank[m] \in Nat /\ rank[n] \in Nat
    OBVIOUS
  <2>2. m \notin S => rank[m] \in R
    OBVIOUS
  <2>3. m \notin S => o <= rank[m]
    BY <1>2, <2>2
  <2>. HIDE DEF R
  <2>. QED BY <1>3, <1>4, <2>1, <2>3
<1>. QED BY <1>3, <1>4

-----------------------------------------------------------------------------

(* The nodes D of binary trees: children have a smaller rank, nil is none.   *)
IsForest(D, nil, left, right, rank, top) ==
    /\ nil \notin D
    /\ left \in [D -> D \cup {nil}] /\ right \in [D -> D \cup {nil}]
    /\ top \in Nat /\ rank \in [D -> 0 .. top]
    /\ \A n \in D : /\ left[n] # nil => rank[left[n]] < rank[n]
                    /\ right[n] # nil => rank[right[n]] < rank[n]

(* The value of g at a node is made from those at its children; x0 is nil's. *)
SolvesTree(g, D, nil, left, right, x0, step) ==
    /\ g[nil] = x0
    /\ \A n \in D : g[n] = step[<<n, g[left[n]], g[right[n]]>>]

LEMMA TreeRecursion ==
    ASSUME NEW D, NEW nil, NEW left, NEW right, NEW rank, NEW top,
           IsForest(D, nil, left, right, rank, top),
           NEW X, NEW x0 \in X, NEW step \in [D \X X \X X -> X]
    PROVE  \E g \in [D \cup {nil} -> X] : SolvesTree(g, D, nil, left, right, x0, step)
<1>0. /\ nil \notin D
      /\ left \in [D -> D \cup {nil}] /\ right \in [D -> D \cup {nil}]
      /\ top \in Nat /\ rank \in [D -> 0 .. top]
      /\ \A n \in D : /\ left[n] # nil => rank[left[n]] < rank[n]
                      /\ right[n] # nil => rank[right[n]] < rank[n]
  BY DEF IsForest
<1> DEFINE Right(g, k) ==
              /\ g[nil] = x0
              /\ \A n \in D : rank[n] < k => g[n] = step[<<n, g[left[n]], g[right[n]]>>]
           S == {k \in Nat : \E g \in [D \cup {nil} -> X] : Right(g, k)}
<1>1. 0 \in S
  <2>1. [n \in D \cup {nil} |-> x0] \in [D \cup {nil} -> X]
    BY <1>0
  <2>2. \A n \in D : ~ rank[n] < 0
    BY <1>0
  <2>3. Right([n \in D \cup {nil} |-> x0], 0)
    BY <2>2
  <2>. QED BY <2>1, <2>3
<1>2. ASSUME NEW k \in Nat, k \in S PROVE k + 1 \in S
  <2>1. PICK g \in [D \cup {nil} -> X] : Right(g, k)
    BY <1>2
  <2> DEFINE h == [n \in D \cup {nil} |->
                     IF n = nil THEN x0 ELSE step[<<n, g[left[n]], g[right[n]]>>]]
  <2>2. h \in [D \cup {nil} -> X]
    BY <1>0
  <2>3. \A n \in D : h[n] = step[<<n, g[left[n]], g[right[n]]>>]
    BY <1>0
  <2>4. h[nil] = x0
    BY <1>0
  <2>. HIDE DEF h
  <2>5. \A n \in D : rank[n] < k => h[n] = g[n]
    BY <2>1, <2>3
  <2>6. ASSUME NEW n \in D, rank[n] < k + 1
        PROVE  h[left[n]] = g[left[n]] /\ h[right[n]] = g[right[n]]
    <3>1. g[nil] = h[nil]
      BY <2>1, <2>4
    <3>2. ASSUME NEW m \in D, rank[m] < rank[n] PROVE h[m] = g[m]
      <4>1. rank[m] \in Int /\ rank[n] \in Int
        BY <1>0
      <4>2. rank[m] < k
        BY <2>6, <3>2, <4>1
      <4>. QED BY <2>5, <4>2
    <3>3. /\ left[n] = nil \/ (left[n] \in D /\ rank[left[n]] < rank[n])
          /\ right[n] = nil \/ (right[n] \in D /\ rank[right[n]] < rank[n])
      BY <1>0
    <3>. QED BY <3>1, <3>2, <3>3
  <2>7. Right(h, k + 1)
    BY <2>3, <2>4, <2>6
  <2>. QED BY <2>2, <2>7
<1>3. top + 1 \in S
  <2>. HIDE DEF S
  <2>1. Nat \subseteq S
    BY <1>1, <1>2, SetInduction
  <2>. QED BY <1>0, <2>1
<1>4. PICK g \in [D \cup {nil} -> X] : Right(g, top + 1)
  BY <1>3
<1>5. \A n \in D : rank[n] < top + 1
  BY <1>0
<1>. QED BY <1>4, <1>5 DEF SolvesTree

(* Recursion down to 0.                                                      *)
SolvesDown(g, top, x0, step) ==
    /\ g[0] = x0
    /\ \A n \in 1 .. top : g[n] = step[<<n, g[n - 1]>>]

LEMMA DownRecursion ==
    ASSUME NEW top \in Nat, NEW X, NEW x0 \in X,
           NEW step \in [(1 .. top) \X X -> X]
    PROVE  \E g \in [0 .. top -> X] : SolvesDown(g, top, x0, step)
<1> DEFINE D == 1 .. top
           down == [n \in D |-> n - 1]
           rank == [n \in D |-> n]
           twice == [t \in D \X X \X X |-> step[<<t[1], t[2]>>]]
<1>1. D \cup {0} = 0 .. top
  OBVIOUS
<1>2. IsForest(D, 0, down, down, rank, top)
  BY <1>1 DEF IsForest
<1>3. twice \in [D \X X \X X -> X]
  OBVIOUS
<1>4. /\ \A n \in D : down[n] = n - 1 /\ down[n] \in 0 .. top
      /\ \A n \in D, x \in X, y \in X : twice[<<n, x, y>>] = step[<<n, x>>]
  OBVIOUS
<1>. HIDE DEF D, down, rank, twice
<1>5. PICK g \in [D \cup {0} -> X] : SolvesTree(g, D, 0, down, down, x0, twice)
  BY <1>2, <1>3, TreeRecursion
<1>6. g[0] = x0 /\ \A n \in D : g[n] = twice[<<n, g[down[n]], g[down[n]]>>]
  BY <1>5 DEF SolvesTree
<1>7. ASSUME NEW n \in D PROVE g[n] = step[<<n, g[n - 1]>>]
  <2>1. down[n] = n - 1 /\ g[down[n]] \in X
    BY <1>1, <1>4
  <2>2. g[n] = step[<<n, g[down[n]]>>]
    BY <1>4, <1>6, <2>1
  <2>. QED BY <2>1, <2>2
<1>. QED BY <1>1, <1>6, <1>7 DEF D, SolvesDown
=============================================================================
