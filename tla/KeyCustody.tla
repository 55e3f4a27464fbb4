------------------------------ MODULE KeyCustody ------------------------------
(***************************************************************************)
(* An issuer of tokens: its key is derived from a master secret and kept   *)
(* in a file (SeedForm), a process loads the file and signs tokens with    *)
(* what it has loaded (Jws), and verifiers hold the public half that was   *)
(* published when the key was derived.  Other issuers sign as well.        *)
(***************************************************************************)
EXTENDS Jws

CONSTANTS
  Masters, Labels, Stream, ExpandedSizes, Error,  \* of SeedForm
  Others      \* keys of other issuers

VARIABLES stored, loaded

Store == INSTANCE SeedForm

\* The key pairs are those of the issuers; a seed is bytes, and no set has an
\* expanded key of more than the 4896 bytes of ML-DSA-87's; what throws and what
\* is absent is told from what is there.
ASSUME CustodyAssumption ==
  /\ Others \subseteq Keys
  /\ \A alg \in Store!SeedAlgorithms, master \in Masters, info \in Labels \cup {None} :
       /\ Store!KeypairFromMaster(alg, master, info) \in Keys
       /\ Store!SeedFromMaster(alg, master, info) \in Store!Bytes
  /\ ExpandedSizes \subseteq {n \in Nat : n <= 4896}
  /\ None \notin Store!Bytes /\ None # Error
  /\ Error \notin Nat \cup [length : Nat, next : Nat] \cup [alg : Store!SeedAlgorithms, seed : Store!Bytes]
  /\ Error \notin [alg : Store!SeedAlgorithms, seed : {None} \cup Store!Bytes,
                   pub : Store!SeedAlgorithms \X Store!Bytes]

custody == <<vars, stored, loaded>>

CustodyInit == Init /\ Store!Init

Keeping == Store!Next /\ UNCHANGED vars

\* What was loaded can sign if it has a secret half.
Signing == loaded \notin {None, Error} /\ loaded.seed # None

\* The loaded key signs, or another issuer; tokens of the others commute with
\* everything that happens to the file, and so come last.
Issue ==
  /\ Signing
  /\ \E payload \in Payloads, key \in Others \cup {loaded}, alg \in Algorithms \cup {None, "none"},
        kid \in Kids \cup {None}, extra \in Extras : SignJws(payload, key, alg, kid, extra)
  /\ UNCHANGED <<stored, loaded>>

CustodyNext == Keeping \/ Issue

CustodySpec == CustodyInit /\ [][CustodyNext]_custody

--------------------------------------------------------------------------------
(* Properties. *)

StoreTypeOK == Store!TypeOK
LoadedIsTheKeptKey == Store!LoadedIsTheKeptKey
JwkIsOfOneKey == Store!JwkIsOfOneKey
IntactLoads == Store!IntactLoads
ImportedSeedIsWhole == Store!ImportedSeedIsWhole

\* What the file and the process that loads it know of each other (seed.js): what
\* nobody damaged loads, a PKCS#8 file that loads is of the key that was kept, and
\* a JWK is of one key, whatever it was mixed of.
CustodyInv ==
  /\ TypeOK
  /\ StoreTypeOK
  /\ LoadedIsTheKeptKey
  /\ JwkIsOfOneKey
  /\ IntactLoads

\* Whatever has happened to the file in between, a token that is signed with what
\* was loaded from it verifies under the public half that was published for the
\* key (stored.key), or under another issuer's, for every verifier who pins what
\* the signer was asked for: a damaged file makes no issuer of tokens that nobody
\* can verify.
PublishedKeyVerifies ==
  \A i \in issued : i.payload # Empty /\ i.header.extra = "plain" =>
    \E key \in Others \cup {stored.key} :
      \A alg \in {None, i.asked.alg}, kid \in {None, i.asked.kid} : Valid(i.token, key, alg, kid)
===============================================================================
