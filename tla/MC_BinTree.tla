----------------------------- MODULE MC_BinTree -----------------------------
(* Four slots and three values, so that values meet their equals: nodes with *)
(* two children, whose neighbour is their child or lies deeper, and removals *)
(* of and around the node of the last slot.                                  *)
EXTENDS BinTree
=============================================================================
