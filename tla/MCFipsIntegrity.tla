----------------------------- MODULE MCFipsIntegrity ----------------------------
(***************************************************************************)
(* Two releases: index.js and module.js change, a vendored file does not,  *)
(* one licence file goes and another comes.                                *)
(***************************************************************************)
EXTENDS FipsIntegrity

MCContent ==
  [r1 |-> [index |-> "index 1", vendored |-> "vendored", module |-> "module 1",
           licence |-> "licence", notice |-> "absent"],
   r2 |-> [index |-> "index 2", vendored |-> "vendored", module |-> "module 2",
           licence |-> "absent", notice |-> "notice"]]

===============================================================================
