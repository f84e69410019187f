---------------------------- MODULE MC_HoleHeap -----------------------------
(* An instance of HoleHeap: 36 words hold one large block and two of the     *)
(* others with the words between them.  A split may leave a hole of length   *)
(* 0, a fit may be exact, and the footer it leaves may outlast the hole that *)
(* it tells of.                                                              *)
EXTENDS HoleHeap
=============================================================================
