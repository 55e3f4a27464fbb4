------------------------------- MODULE SeedForm -------------------------------
(***************************************************************************)
(* seed.js and derive.js: the seed of a key, derived from a master secret, *)
(* kept as PKCS#8 or as a JWK, and expanded again.  PKCS#8 is modelled byte *)
(* by byte.  Between export and import the store may cut a file short, or  *)
(* append to it, or mix the members of two JWKs.  HKDF and key generation  *)
(* are ideal: the same input gives the same output, another one another.   *)
(***************************************************************************)
EXTENDS Naturals, Sequences

CONSTANTS
  Masters,       \* master secrets
  Labels,        \* info strings a caller chooses
  Stream,        \* [master, info] -> the byte that stands for HKDF's output
  ExpandedSizes, \* sizes of the expanded keys that other programs store
  None, Error    \* nothing; what throws

Sigs == {"ML-DSA-65", "ML-DSA-87"}
Kems == {"ML-KEM-768", "ML-KEM-1024"}
SeedAlgorithms == Sigs \cup Kems

\* The parameter sets: seed size, OID and the label of the set.
SeedBytes(alg) == IF alg \in Sigs THEN 32 ELSE 64
Oid(alg) ==
  <<96, 134, 72, 1, 101, 3, 4>> \o
    (CASE alg = "ML-DSA-65" -> <<3, 18>> [] alg = "ML-DSA-87" -> <<3, 19>>
       [] alg = "ML-KEM-768" -> <<4, 2>> [] alg = "ML-KEM-1024" -> <<4, 3>>)
Info(alg) ==
  CASE alg = "ML-DSA-65" -> "ml-dsa-65-v1" [] alg = "ML-DSA-87" -> "ml-dsa-87-v1"
    [] alg = "ML-KEM-768" -> "ml-kem-768-v1" [] alg = "ML-KEM-1024" -> "ml-kem-1024-v1"

VARIABLES
  stored,  \* [form, content, key: the key it was made for, intact], or None
  loaded   \* what a process has made of it: a key, Error, or None

vars == <<stored, loaded>>

Init == stored = None /\ loaded = None

--------------------------------------------------------------------------------
(* Derivation. *)

\* HKDF: a longer output begins with the shorter one.
DeriveSeed(master, info, length) == [i \in 1..length |-> Stream[master, info]]

\* Key generation: a key is its set and its seed.
Key(alg, seed) == [alg |-> alg, seed |-> seed, pub |-> <<alg, seed>>]

\* Mutant of KeypairFromSeed: a seed that is too short is padded.
KeypairFromSeedShort(alg, seed) == IF Len(seed) > SeedBytes(alg) THEN Error ELSE Key(alg, seed)

\* A seed of another size throws.
KeypairFromSeed(alg, seed) == IF Len(seed) # SeedBytes(alg) THEN Error ELSE Key(alg, seed)

SeedFromMaster(alg, master, info) ==
  DeriveSeed(master, IF info = None THEN Info(alg) ELSE info, SeedBytes(alg))

\* keypairFromMaster of the algorithm's own module, with its own default.
KeypairFromMaster(alg, master, info) ==
  Key(alg, DeriveSeed(master, IF info # None THEN info ELSE
             CASE alg = "ML-DSA-65" -> "ml-dsa-65-v1" [] alg = "ML-DSA-87" -> "ml-dsa-87-v1"
               [] alg = "ML-KEM-768" -> "ml-kem-768-v1" [] alg = "ML-KEM-1024" -> "ml-kem-1024-v1",
             IF alg \in Sigs THEN 32 ELSE 64))

--------------------------------------------------------------------------------
(* PKCS#8. *)

Byte == {n \in Nat : n < 256}
Bytes == Seq(Byte)

Sequence == 48
Integer == 2
OctetString == 4
ObjectId == 6
SeedChoice == 128

DerLength(length) ==
  IF length < 128 THEN <<length>>
  ELSE IF length < 256 THEN <<129, length>>
  ELSE <<130, length \div 256, length % 256>>

Der(tag, payload) == <<tag>> \o DerLength(Len(payload)) \o payload

\* The frame of a private key of a set, around what its OCTET STRING holds.
Pkcs8(alg, inner) ==
  Der(Sequence, Der(Integer, <<0>>) \o Der(Sequence, Der(ObjectId, Oid(alg))) \o Der(OctetString, inner))

ExportSeedPkcs8(alg, seed) ==
  IF Len(seed) # SeedBytes(alg) THEN Error ELSE Pkcs8(alg, Der(SeedChoice, seed))

\* The reader is a position in a buffer; it is Error once something has thrown.
\* Past the end there is no byte, and no tag.
ExpectTag(buf, i, tag) ==
  IF i = Error THEN Error ELSE IF i \in DOMAIN buf /\ buf[i] = tag THEN i + 1 ELSE Error

\* The number that count bytes after the i-th make; absent ones count as 0.
LongLength(buf, i, count) ==
  LET byte(j) == IF j \in DOMAIN buf THEN buf[j] ELSE 0 IN
  CASE count = 1 -> byte(i + 1)
    [] count = 2 -> 256 * byte(i + 1) + byte(i + 2)
    [] count = 3 -> 256 * (256 * byte(i + 1) + byte(i + 2)) + byte(i + 3)

\* [length, next]; the long form has one to three bytes.
ReadLength(buf, i) ==
  IF i = Error \/ i \notin DOMAIN buf THEN Error
  ELSE IF buf[i] < 128 THEN [length |-> buf[i], next |-> i + 1]
  ELSE LET count == buf[i] - 128 IN
       IF count \notin 1..3 THEN Error
       ELSE [length |-> LongLength(buf, i, count), next |-> i + 1 + count]

\* The position after a length, and after what it measures.
Inside(l) == IF l = Error THEN Error ELSE l.next

Beyond(l) == IF l = Error THEN Error ELSE l.next + l.length

\* subarray: what there is of the length bytes from i on.
Subarray(buf, i, length) ==
  SubSeq(buf, i, IF i + length - 1 < Len(buf) THEN i + length - 1 ELSE Len(buf))

\* The lengths a file is read for, one after the other.  Those of the outer
\* SEQUENCE and of privateKey are not used.
OuterLength(buf) == ReadLength(buf, ExpectTag(buf, 1, Sequence))
VersionLength(buf) == ReadLength(buf, ExpectTag(buf, Inside(OuterLength(buf)), Integer))
AlgIdLength(buf) == ReadLength(buf, ExpectTag(buf, Beyond(VersionLength(buf)), Sequence))
OidLength(buf) == ReadLength(buf, ExpectTag(buf, Inside(AlgIdLength(buf)), ObjectId))
OctetsLength(buf) == ReadLength(buf, ExpectTag(buf, Beyond(AlgIdLength(buf)), OctetString))
SeedLength(buf) == ReadLength(buf, ExpectTag(buf, Inside(OctetsLength(buf)), SeedChoice))

ImportSeedPkcs8(buf) ==
  LET oid == OidLength(buf)
      seed == SeedLength(buf)
      algs == IF oid = Error THEN {}
              ELSE {a \in SeedAlgorithms : Oid(a) = Subarray(buf, oid.next, oid.length)} IN
  IF algs = {} \/ seed = Error THEN Error
  ELSE LET alg == CHOOSE a \in algs : TRUE IN
       IF seed.length # SeedBytes(alg) THEN Error
       ELSE [alg |-> alg, seed |-> Subarray(buf, seed.next, seed.length)]

--------------------------------------------------------------------------------
(* JWK. *)

\* A private key's JWK has its seed, a public one None; sizes are checked.
ExportJwk(alg, key, private) ==
  IF private /\ Len(key.seed) # SeedBytes(alg) THEN Error
  ELSE [alg |-> alg, pub |-> key.pub, priv |-> IF private THEN key.seed ELSE None]

Consistent(key, pub) == key.pub = pub

\* The size of pub tells its set.
ImportJwk(jwk) ==
  IF jwk.pub[1] # jwk.alg THEN Error
  ELSE IF jwk.priv = None THEN [alg |-> jwk.alg, seed |-> None, pub |-> jwk.pub]
  ELSE IF Len(jwk.priv) # SeedBytes(jwk.alg) THEN Error
  ELSE LET key == Key(jwk.alg, jwk.priv) IN IF Consistent(key, jwk.pub) THEN key ELSE Error

--------------------------------------------------------------------------------
(* Custody. *)

Forms == {"pkcs8", "public jwk", "private jwk"}

\* A seed is derived and put away, for the key that its own module makes of the master.
Keep(form, alg, master, info) ==
  LET seed == SeedFromMaster(alg, master, info) IN
  /\ stored = None /\ UNCHANGED loaded
  /\ stored' = [form |-> form, key |-> KeypairFromMaster(alg, master, info), intact |-> TRUE,
                content |-> IF form = "pkcs8" THEN ExportSeedPkcs8(alg, seed)
                            ELSE ExportJwk(alg, KeypairFromSeed(alg, seed), form = "private jwk")]

\* Another program stores an expanded key, which has no seed.
KeepExpanded(alg, size) ==
  /\ stored = None /\ UNCHANGED loaded
  /\ stored' = [form |-> "pkcs8", key |-> None, intact |-> TRUE,
                content |-> Pkcs8(alg, Der(OctetString, [i \in 1..size |-> 0]))]

\* The store damages a file, or mixes the members of two JWKs.
Damaged(content) == stored' = [stored EXCEPT !.content = content, !.intact = FALSE] /\ UNCHANGED loaded
Damageable == stored # None /\ stored.intact /\ loaded = None
Cut(n) ==
  /\ Damageable /\ stored.form = "pkcs8" /\ n < Len(stored.content)
  /\ Damaged(SubSeq(stored.content, 1, n))
AppendTo(byte) == Damageable /\ stored.form = "pkcs8" /\ Damaged(Append(stored.content, byte))
Mix(alg, key) ==
  /\ Damageable /\ stored.form # "pkcs8"
  /\ \/ Damaged([stored.content EXCEPT !.alg = alg])
     \/ Damaged([stored.content EXCEPT !.pub = key.pub])
     \/ Damaged([stored.content EXCEPT !.priv = key.seed])

Load ==
  /\ stored # None /\ loaded = None /\ UNCHANGED stored
  /\ loaded' = IF stored.form # "pkcs8" THEN ImportJwk(stored.content)
               ELSE LET read == ImportSeedPkcs8(stored.content) IN
                    IF read = Error THEN Error ELSE KeypairFromSeed(read.alg, read.seed)

Next ==
  \/ \E alg \in SeedAlgorithms, master \in Masters, info \in Labels \cup {None} :
       \/ \E form \in Forms : Keep(form, alg, master, info)
       \/ Mix(alg, KeypairFromMaster(alg, master, info))
  \/ \E alg \in SeedAlgorithms, size \in ExpandedSizes : KeepExpanded(alg, size)
  \/ stored # None /\ stored.form = "pkcs8" /\ \E n \in 0..Len(stored.content) : Cut(n)
  \/ \E byte \in {0, SeedChoice} : AppendTo(byte)
  \/ Load

Spec == Init /\ [][Next]_vars

--------------------------------------------------------------------------------
(* Properties. *)

\* Types; PKCS#8 is bytes.
TypeOK ==
  /\ stored # None =>
       /\ stored.form \in Forms /\ stored.intact \in BOOLEAN
       /\ stored.form = "pkcs8" => \A i \in DOMAIN stored.content : stored.content[i] \in Byte
  /\ loaded \notin {None, Error} => loaded.alg \in SeedAlgorithms

\* A PKCS#8 file that loads, cut short or appended to, gives the key that
\* keypairFromMaster has always made of the master (145-148), and an expanded key
\* gives none (328-330); so does a JWK as it was written.
LoadedIsTheKeptKey ==
  loaded \notin {None, Error} /\ (stored.intact \/ stored.form = "pkcs8") =>
    IF stored.form = "public jwk" THEN loaded.pub = stored.key.pub ELSE loaded = stored.key

\* A private key that is loaded from a JWK, however mixed, is the key of its pub
\* and of its seed: neither is preferred (219-221).
JwkIsOfOneKey ==
  loaded \notin {None, Error} /\ loaded.seed # None /\ stored.form # "pkcs8" =>
    stored.content.pub = Key(loaded.alg, loaded.seed).pub /\ stored.content.priv = loaded.seed

\* What was exported, and nobody damaged, loads.
IntactLoads ==
  stored # None /\ stored.intact /\ loaded = Error => stored.key = None

\* What importSeedPkcs8 returns is a whole seed: anything else "must be 32 bytes,
\* got ..." (376-377).
ImportedSeedIsWhole ==
  stored # None /\ stored.form = "pkcs8" =>
    LET read == ImportSeedPkcs8(stored.content) IN read # Error => Len(read.seed) = SeedBytes(read.alg)
===============================================================================
