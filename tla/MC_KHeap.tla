----------------------------- MODULE MC_KHeap ------------------------------
(* A slab of six blocks: frees of several blocks, in every order, between    *)
(* any two requests, down to the last descriptor of the list.                *)
EXTENDS KHeap
=============================================================================
