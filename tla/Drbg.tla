--------------------------------- MODULE Drbg ---------------------------------
(***************************************************************************)
(* What a deterministic random bit generator promises its caller, whatever *)
(* it computes inside (SP 800-90A, the contract HmacDrbg in                *)
(* src/fips/drbg.js is written to): it serves only while it is keyed, one  *)
(* seed serves ReseedInterval requests, and it says that a new seed is     *)
(* needed once they are used up, neither earlier nor later.                *)
(*                                                                         *)
(* A refused call is not a step of this specification.  A component that   *)
(* implements it therefore also shows that a call it refuses, and every    *)
(* step of a call that is still running, leaves the promise untouched.     *)
(***************************************************************************)
EXTENDS Naturals

CONSTANT ReseedInterval    \* requests one seed may serve

VARIABLES
  keyed,      \* holds a seed
  requests,   \* requests served from the present seed
  usedUp      \* says that the next request needs a new seed

drbgVars == <<keyed, requests, usedUp>>

DrbgTypeOK ==
  /\ keyed \in BOOLEAN
  /\ requests \in 0..ReseedInterval
  /\ usedUp \in BOOLEAN

DrbgInit ==
  /\ keyed = FALSE
  /\ requests = 0
  /\ usedUp = FALSE

Instantiate ==
  /\ ~keyed
  /\ keyed' = TRUE
  /\ requests' = 0
  /\ usedUp' = FALSE

Reseed ==
  /\ keyed
  /\ requests' = 0
  /\ usedUp' = FALSE
  /\ UNCHANGED keyed

Serve ==
  /\ keyed
  /\ requests < ReseedInterval
  /\ requests' = requests + 1
  /\ usedUp' = (requests + 1 = ReseedInterval)
  /\ UNCHANGED keyed

Uninstantiate ==
  /\ keyed' = FALSE
  /\ requests' = 0
  /\ usedUp' = FALSE

DrbgNext ==
  \/ Instantiate
  \/ Reseed
  \/ Serve
  \/ Uninstantiate

DrbgSpec == DrbgInit /\ [][DrbgNext]_drbgVars

===============================================================================
