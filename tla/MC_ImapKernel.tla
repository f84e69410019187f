--------------------------- MODULE MC_ImapKernel ---------------------------
(* Words of 2 bits stand for words of 32: NoBit is 3 * WordBits - 1, so that *)
(* the answer of a full word falls, as 255 does with words of 32 bits, into  *)
(* a later word of the bitmap.  Two slots of the stack lie under the claims  *)
(* of the video memory.                                                      *)
EXTENDS Imap

MCVideoSlots == {1}
MCClaimable == {1, 3, 6, 7, 8, 9}
=============================================================================
