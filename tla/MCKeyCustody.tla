----------------------------- MODULE MCKeyCustody -----------------------------
(* One master under two labels, and another issuer. *)
EXTENDS KeyCustody

MCInfos == {"ml-dsa-65-v1", "ml-dsa-87-v1", "ml-kem-768-v1", "ml-kem-1024-v1", "own"}

\* Among the bytes that stand for seeds are DER tags and lengths.
MCStream ==
  LET byte(info) == CASE info = "ml-dsa-65-v1" -> 4 [] info = "ml-dsa-87-v1" -> 128
                      [] info = "ml-kem-768-v1" -> 48 [] info = "ml-kem-1024-v1" -> 32 [] OTHER -> 6 IN
  [x \in {"m", "other"} \X MCInfos |-> byte(x[2]) + IF x[1] = "m" THEN 0 ELSE 1]

MCOthers == {Store!KeypairFromMaster("ML-DSA-65", "other", None)}
MCKeys ==
  MCOthers \cup {Store!KeypairFromMaster(alg, "m", info) : alg \in Store!SeedAlgorithms, info \in {None, "own"}}
MCSetOf == [k \in MCKeys |-> IF k.alg \in Algorithms THEN k.alg ELSE "other"]
===============================================================================
