---------------------------------- MODULE Jws ----------------------------------
(***************************************************************************)
(* jws.js: compact tokens that signJws issues and verifyJws judges.        *)
(* Between the two anything may happen to a token: segments of different   *)
(* tokens are put together, re-encoded, or written anew.                   *)
(*                                                                         *)
(* A segment is [value, form]: what it decodes to, and whether the text is *)
(* the canonical encoding of it.  ML-DSA is ideal: the only signatures     *)
(* that verify are those sign() has made.                                  *)
(***************************************************************************)
EXTENDS Naturals, FiniteSets

CONSTANTS
  Keys,       \* key pairs
  SetOf,      \* key -> the parameter set its size belongs to
  Payloads, Empty,  \* payloads, and the empty one
  Kids, None, \* key ids, and no key id, or no algorithm asked for
  Junk,       \* signature bytes of the right size that no key has made
  NotAnObject, \* a header that is no JSON, or no JSON object
  MaxTokens   \* bound: tokens issued

Algorithms == {"ML-DSA-65", "ML-DSA-87"}

\* Members of the header beside alg and kid: none that matters, an extension to
\* be understood (crit, b64), or one of those signJws sets itself.
Extras == {"plain", "extension", "reserved"}
Headers == [alg : Algorithms \cup {"none"}, kid : Kids \cup {None}, extra : Extras]

Forms == {"canonical", "padded"}
Texts == [value : Headers \cup Payloads \cup {NotAnObject}, form : Forms]
Signatures == [key : Keys, alg : Algorithms, input : Texts \X Texts]

ASSUME JwsAssumption ==
  /\ SetOf \in [Keys -> Algorithms \cup {"other"}]
  /\ None \notin Algorithms \cup Kids /\ MaxTokens \in Nat
  /\ Junk \notin Signatures /\ Empty \notin Headers \cup Signatures /\ NotAnObject \notin Headers

VARIABLES
  signatures,  \* what sign() has made: [key, alg, input]
  issued       \* what signJws has returned: [token, key, header, payload, asked]

vars == <<signatures, issued>>

Canonical(v) == [value |-> v, form |-> "canonical"]
Segment(v) == {[value |-> v, form |-> f] : f \in Forms}

Init == signatures = {} /\ issued = {}

--------------------------------------------------------------------------------
(* signJws. *)

DefaultAlg == "ML-DSA-87"

\* Without opts.alg the key decides, and the default for a key of neither size.
AlgFor(key, alg) ==
  IF alg # None THEN alg ELSE IF SetOf[key] \in Algorithms THEN SetOf[key] ELSE DefaultAlg

\* Mutant of HeaderOf: the key id is looked for in opts.header.
HeaderOfNoKid(alg, kid, extra) == [alg |-> alg, kid |-> None, extra |-> extra]

HeaderOf(alg, kid, extra) == [alg |-> alg, kid |-> kid, extra |-> extra]

\* sign() throws for a key of another size than its set's.
Fits(key, alg) == SetOf[key] = alg

\* A signature is made for the two texts; the token carries its canonical form.
\* An unsupported alg, a reserved member and a key of another size throw.
SignJws(payload, key, alg, kid, extra) ==
  LET a == AlgFor(key, alg)
      header == HeaderOf(a, kid, extra)
      input == <<Canonical(header), Canonical(payload)>>
      sig == [key |-> key, alg |-> a, input |-> input] IN
  /\ a \in Algorithms /\ extra # "reserved" /\ Fits(key, a)
  /\ Cardinality(issued) < MaxTokens
  /\ signatures' = signatures \cup {sig}
  /\ issued' = issued \cup {[token |-> <<input[1], input[2], Canonical(sig)>>, key |-> key,
                             header |-> HeaderOf(a, kid, extra), payload |-> payload,
                             asked |-> [alg |-> a, kid |-> kid]]}

--------------------------------------------------------------------------------
(* verifyJws. *)

\* Mutant of Strict: a segment is whatever can be decoded.
StrictDecodes(seg) == seg.value # Empty

\* strictB64url: neither empty nor encoded otherwise than b64url would.
Strict(seg) == seg.value # Empty /\ seg.form = "canonical"

\* The size in bytes of a signature tells its set.
SizeOf(sig) == IF sig = Junk THEN "ML-DSA-65" ELSE sig.alg

\* Mutant of Pinned: a token without a kid is of any key.
PinnedIfThere(header, alg, kid) ==
  (alg # None => header.alg = alg) /\ (kid # None => header.kid \in {kid, None})

\* What the caller requires of the header.
Pinned(header, alg, kid) ==
  (alg # None => header.alg = alg) /\ (kid # None => header.kid = kid)

\* verifyJws, for a caller who requires alg and kid of the header, or does not (None).
Valid(token, key, alg, kid) ==
  LET header == token[1].value IN
  /\ \A i \in 1..3 : Strict(token[i])
  /\ header # NotAnObject /\ header.alg \in Algorithms
  /\ Pinned(header, alg, kid)
  /\ header.extra # "extension"
  /\ SetOf[key] = header.alg /\ SizeOf(token[3].value) = header.alg
  /\ token[3].value = [key |-> key, alg |-> header.alg, input |-> <<token[1], token[2]>>]

\* A token is made of any header, of payloads that were issued, and of signatures
\* that were made or are junk.
HeaderSegments == UNION {Segment(h) : h \in Headers \cup {NotAnObject}}
PayloadSegments == UNION {Segment(i.payload) : i \in issued}
SignatureSegments == UNION {Segment(s) : s \in signatures \cup {Junk}}

Tokens == HeaderSegments \X PayloadSegments \X SignatureSegments

Next ==
  \E payload \in Payloads, key \in Keys, alg \in Algorithms \cup {None, "none"},
     kid \in Kids \cup {None}, extra \in Extras : SignJws(payload, key, alg, kid, extra)

Spec == Init /\ [][Next]_vars

--------------------------------------------------------------------------------
(* Properties. *)

\* Types; a signature is made under the set of its key.
TypeOK ==
  /\ signatures \subseteq Signatures /\ \A s \in signatures : s.alg = SetOf[s.key]
  /\ \A i \in issued : i.key \in Keys /\ i.header \in Headers /\ i.payload \in Payloads

\* A token that verifies is, character for character, one that signJws issued
\* with the secret half of the key it verifies under: nothing put together,
\* re-encoded or relabelled is ever valid, so that a verifier and a downstream
\* parser "cannot be shown two different payloads for one signature" (76-80).
ValidIsAsIssued ==
  \A token \in Tokens, key \in Keys :
    Valid(token, key, None, None) => \E i \in issued : i.token = token /\ i.key = key

\* A caller who pins an algorithm or a key id gets only tokens whose signer was
\* asked for them: the declaration and the key cannot part (131-136, 211-219).
ValidIsAsPinned ==
  \A token \in Tokens, key \in Keys, alg \in Algorithms \cup {None}, kid \in Kids \cup {None} :
    Valid(token, key, alg, kid) =>
      \E i \in issued : /\ i.token = token
                        /\ alg # None => i.asked.alg = alg
                        /\ kid # None => i.asked.kid = kid

Verifies(i) ==
  \A alg \in {None, i.asked.alg}, kid \in {None, i.asked.kid} : Valid(i.token, i.key, alg, kid)

\* A token that was issued verifies with its key, for every caller who pins what
\* the signer was asked for, unless it is empty or has crit or b64.
IssuedVerifies ==
  \A i \in issued : i.payload # Empty /\ i.header.extra = "plain" => Verifies(i)
=================================================================================
