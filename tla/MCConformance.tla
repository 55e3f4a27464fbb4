----------------------------- MODULE MCConformance -----------------------------
(* Two sets, of which the second commit changes the results of one; one group per *)
(* way the programs treat a group.                                                *)
EXTENDS Conformance

MCSets == <<"ML-DSA", "ML-KEM">>
MCChanged == {<<"ML-KEM", "expectedResults">>}

T(wants, h) == [i \in DOMAIN wants |-> [want |-> wants[i], hash |-> h]]
G(ps, family, fn, iface, pre, mu, tests) ==
  [ps |-> ps, family |-> family, fn |-> fn, iface |-> iface, pre |-> pre, mu |-> mu, tests |-> tests]

AR == T(<<"accept", "reject">>, "none")
RA == T(<<"reject", "accept">>, "none")
VV == T(<<"value", "value">>, "none")

\* The sample files: hashes of any strength in one group, results that are missing.
MCSample ==
  <<G("ML-KEM-768", "ML-KEM", "keyGen", "external", "pure", "absent", VV),
    G("ML-KEM-768", "ML-KEM", "decapsulation", "external", "pure", "absent", VV),
    G("ML-KEM-768", "ML-KEM", "keyCheck", "external", "pure", "absent", RA),
    G("ML-DSA-65", "ML-DSA", "sigGen", "internal", "pure", "true", VV),
    G("ML-DSA-65", "ML-DSA", "sigGen", "external", "preHash", "false",
      T(<<"value">>, "SHA2-256") \o T(<<"value", "value">>, "SHA3-384")),
    G("ML-DSA-44", "ML-DSA", "sigVer", "external", "preHash", "false", T(<<"accept", "reject">>, "SHAKE-128")),
    G("ML-DSA-44", "ML-DSA", "sigVer", "internal", "pure", "true", AR),
    G("SLH-DSA-SHA2-192s", "SLH-DSA", "sigVer", "internal", "pure", "absent", RA),
    G("SLH-DSA-SHA2-192s", "SLH-DSA", "sigVer", "external", "pure", "absent", RA),
    G("SLH-DSA-SHA2-128s", "SLH-DSA", "sigVer", "external", "pure", "absent", AR),
    G("SLH-DSA-SHAKE-256f", "SLH-DSA", "sigGen", "external", "preHash", "absent", T(<<"value">>, "SHA2-512/256")),
    G("ML-DSA-87", "ML-DSA", "sigVer", "external", "preHash", "false", T(<<"reject">>, "MD5")),
    G("unknown", "ML-KEM", "encapsulation", "external", "pure", "absent", VV)>>

\* The same, and at the end a test for which NIST published no result.
MCWithGap ==
  MCSample \o <<G("ML-KEM-512", "ML-KEM", "encapsulation", "external", "pure", "absent", T(<<"value", "none">>, "none")),
                G("SLH-DSA-SHA2-128f", "SLH-DSA", "sigVer", "internal", "pure", "absent", T(<<"accept", "none">>, "none"))>>

MCPrompts == {MCSample, MCWithGap}
================================================================================
