------------------------------- MODULE MCBackend -------------------------------
(***************************************************************************)
(* One signature set keyed by PKCS8, one keyed by a JWK, one KEM and the   *)
(* set contexts are probed with, on runtimes from a browser and an old     *)
(* Node to one that does everything; the ones between generate only some   *)
(* sets, refuse the JWK or the expanded keys, or reject or ignore a        *)
(* context.                                                                *)
(***************************************************************************)
EXTENDS Backend

MCAlgorithms == {"ML-DSA-44", "ML-DSA-87", "SLH-DSA-SHA2-192s", "ML-KEM-1024"}
MCJwk == {"SLH-DSA-SHA2-192s"}

MCRuntimes ==
  [node : {TRUE},
   generates : {MCAlgorithms, MCAlgorithms \ {"ML-DSA-44"}, MCAlgorithms \ MCJwk},
   imports : {MCAlgorithms, MCAlgorithms \ MCJwk, MCJwk}, context : {"honours", "ignores", "rejects"}]
  \cup [node : BOOLEAN, generates : {{}}, imports : {{}}, context : {"rejects"}]

MCDemands == {{}, {"ML-DSA-87"}, {"SLH-DSA-SHA2-192s", "ML-KEM-1024"}}

================================================================================
