----------------------------- MODULE MC_Console -----------------------------
(* Four columns with a tab stop every third, so that, as with 100 and 8, the *)
(* last stop of a line lies beyond its end; three lines; glyphs of two pixel *)
(* rows; tabs up to twice as far.                                      *)
EXTENDS Console
=============================================================================
