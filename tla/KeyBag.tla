------------------------------- MODULE KeyBag -------------------------------
(* What a search tree keeps: a bag of keys.  A request adds a copy of the    *)
(* key it names, or takes away one that is there, and no other key.          *)
EXTENDS Naturals

CONSTANT Keys

VARIABLES
    copies,    \* how many copies of each key there are
    request    \* the last request: <<operation, key>>

bagVars == <<copies, request>>

BagInit == \E k \in Keys : /\ copies = [j \in Keys |-> IF j = k THEN 1 ELSE 0]
                           /\ request = <<"add", k>>

Add(k) == /\ request' = <<"add", k>>
          /\ copies' = [copies EXCEPT ![k] = @ + 1]

Drop(k) == /\ copies[k] > 0
           /\ request' = <<"drop", k>>
           /\ copies' = [copies EXCEPT ![k] = @ - 1]

BagNext == \E k \in Keys : Add(k) \/ Drop(k)

BagSpec == BagInit /\ [][BagNext]_bagVars
=============================================================================
