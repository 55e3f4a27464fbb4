----------------------------- MODULE MCFipsModule ------------------------------
(***************************************************************************)
(* FipsModule for TLC.  One parameter set of each kind: two of a kind take *)
(* the same path.  An interval of two makes a reseed fall before the seed  *)
(* draw of a key generation as well as between it and the draw of the      *)
(* pairwise test; a buffer of three units is filled by one, two or three   *)
(* reads.                                                                  *)
(***************************************************************************)
EXTENDS FipsModule

===============================================================================
