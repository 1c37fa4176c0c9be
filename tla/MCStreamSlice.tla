---- MODULE MCStreamSlice ----
(***************************************************************************)
(* A stream over three blocks of two bytes, and a slice of it that begins  *)
(* and ends in the middle of a block.  The middle block may fail.          *)
(***************************************************************************)
EXTENDS StreamSlice, TLC

MCSymmetry == Permutations(Byte)
====
