------------------------------ MODULE MC_Boot -------------------------------
(* The real layout, up to two sectors that cannot be read, and video memory  *)
(* at 0xE0000000 and 0xF8000000, where it takes an entry of its own; at      *)
(* 0xE0100000, no multiple of 4 MB; at 0xC0000000, whose entry is the        *)
(* kernel's; at 0xBFD00000 and 0xC1100000, written across that of the kernel *)
(* or of its data and a neighbour; and at 0x100000, across the first.        *)
EXTENDS Boot
=============================================================================
