---------------------------- MODULE MC_Startup ------------------------------
(* Up to two files with names of one or two characters, one a prefix of      *)
(* another; contents that are empty, or begin like a name; an image that may *)
(* be longer than what is loaded; offsets beyond a byte.  Five slots are     *)
(* scanned, two to a bus, and three cards may be on the first three buses.   *)
EXTENDS Startup

MCNames == {<<1>>, <<2>>, <<1, 2>>}

MCContents == {<<>>, <<1, 0>>, <<1, 2, 0>>, <<2, 1, 1, 2>>}

MCCardPlaces == {<<0, 1>>, <<1, 1>>, <<2, 0>>}
=============================================================================
