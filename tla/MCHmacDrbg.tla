------------------------------ MODULE MCHmacDrbg ------------------------------
(***************************************************************************)
(* HmacDrbg for TLC: two input values, which are interchangeable, and      *)
(* lengths of zero to three blocks.                                        *)
(***************************************************************************)
EXTENDS HmacDrbg, TLC

Interchangeable == Permutations(Inputs)

===============================================================================
