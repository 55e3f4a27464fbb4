----------------------------- MODULE Signing_proofs -----------------------------
(***************************************************************************)
(* What the two programs promise that sign for others to verify: jws.js,   *)
(* for any keys, payloads and tokens, and webhook.js, for any keys, bodies,*)
(* clocks and window; and what seed.js promises an issuer who signs with   *)
(* what is loaded from a file, for any seeds, files and damage to them.    *)
(***************************************************************************)
EXTENDS KeyCustody, WebhookDelivery, SequenceTheorems, TLAPS

--------------------------------------------------------------------------------
(* jws.js. *)

\* The signature a token carries, and the token around it.
SigOf(i) == [key |-> i.key, alg |-> i.header.alg,
             input |-> <<Canonical(i.header), Canonical(i.payload)>>]
TokenOf(s) == <<s.input[1], s.input[2], Canonical(s)>>

\* What signJws returned is what it was asked for, and what it signed.
AsAsked(i) ==
  /\ i.token = TokenOf(SigOf(i))
  /\ i.header.alg = SetOf[i.key] /\ i.header.alg \in Algorithms
  /\ i.asked.alg = i.header.alg /\ i.asked.kid = i.header.kid

\* The log: tokens and signatures belong together.
Log ==
  /\ \A i \in issued : AsAsked(i)
  /\ \A s \in signatures : \E i \in issued : i.token = TokenOf(s) /\ i.key = s.key

IInv == TypeOK /\ Log

\* A header that signJws makes is a header.
LEMMA HeaderOfType ==
  ASSUME NEW a \in Algorithms, NEW kid \in Kids \cup {None}, NEW extra \in Extras
  PROVE  HeaderOf(a, kid, extra) \in Headers
  BY DEF HeaderOf, Headers

\* A header and a payload, encoded, are texts that can be signed.
LEMMA CanonicalType ==
  ASSUME NEW v \in Headers \cup Payloads
  PROVE  Canonical(v) \in Texts
  BY DEF Canonical, Texts, Forms

LEMMA InitInv == Init => IInv
  BY DEF Init, IInv, TypeOK, Log

\* signJws keeps the log.
LEMMA NextInv == IInv /\ [Next]_vars => IInv'
<1> SUFFICES ASSUME IInv, [Next]_vars PROVE IInv'
  OBVIOUS
<1>1. CASE UNCHANGED vars
  BY <1>1 DEF vars, IInv, TypeOK, Log
<1>2. CASE Next
  <2>1. PICK payload \in Payloads, key \in Keys, alg \in Algorithms \cup {None, "none"},
             kid \in Kids \cup {None}, extra \in Extras : SignJws(payload, key, alg, kid, extra)
    BY <1>2 DEF Next
  <2> DEFINE a == AlgFor(key, alg)
             header == HeaderOf(a, kid, extra)
             input == <<Canonical(header), Canonical(payload)>>
             sig == [key |-> key, alg |-> a, input |-> input]
             new == [token |-> <<input[1], input[2], Canonical(sig)>>, key |-> key,
                     header |-> header, payload |-> payload, asked |-> [alg |-> a, kid |-> kid]]
  <2>2. /\ a \in Algorithms /\ SetOf[key] = a
        /\ signatures' = signatures \cup {sig} /\ issued' = issued \cup {new}
    BY <2>1 DEF SignJws, Fits
  <2> HIDE DEF a
  <2>3. header \in Headers /\ header.alg = a /\ header.kid = kid
    BY <2>2, HeaderOfType DEF HeaderOf
  <2> HIDE DEF header
  <2>4. sig \in Signatures
    BY <2>2, <2>3, CanonicalType DEF Signatures
  <2>5. AsAsked(new) /\ new.token = TokenOf(sig) /\ new.key = sig.key
    BY <2>2, <2>3 DEF AsAsked, TokenOf, SigOf
  <2>6. TypeOK'
    <3>1. sig.alg = SetOf[sig.key] /\ new.key \in Keys /\ new.header \in Headers /\ new.payload \in Payloads
      BY <2>2, <2>3
    <3> HIDE DEF sig, new
    <3> QED
      BY <2>2, <2>4, <3>1 DEF IInv, TypeOK
  <2>7. Log'
    <3> HIDE DEF sig, new
    <3>1. \A i \in issued' : AsAsked(i)
      BY <2>2, <2>5 DEF IInv, Log
    <3>2. \A s \in signatures' : \E i \in issued' : i.token = TokenOf(s) /\ i.key = s.key
      BY <2>2, <2>5 DEF IInv, Log
    <3> QED
      BY <3>1, <3>2 DEF Log, AsAsked, TokenOf, SigOf, Canonical
  <2> QED
    BY <2>6, <2>7 DEF IInv
<1> QED
  BY <1>1, <1>2

\* The inductive invariant holds of every run.
THEOREM InvHolds == Spec => []IInv
<1> QED
  BY InitInv, NextInv, PTL DEF Spec

\* A valid token is one of the log's, whatever the caller requires of it.
LEMMA ValidIsLogged ==
  ASSUME IInv, NEW token \in Tokens, NEW key \in Keys, NEW alg, NEW kid, Valid(token, key, alg, kid)
  PROVE  \E i \in issued : i.token = token /\ i.key = key
<1> DEFINE sig == [key |-> key, alg |-> token[1].value.alg, input |-> <<token[1], token[2]>>]
<1>1. token = <<token[1], token[2], token[3]>> /\ token[1] \in HeaderSegments
      /\ token[2] \in PayloadSegments /\ token[3] \in SignatureSegments
  BY DEF Tokens
<1>2. token[3].value = sig /\ token[1].value.alg \in Algorithms /\ token[1].value # NotAnObject
      /\ token[3].form = "canonical"
  BY DEF Valid, Strict
<1>3. token[1] \in Texts
  <2>1. PICK h \in Headers \cup {NotAnObject} : token[1] \in Segment(h)
    BY <1>1 DEF HeaderSegments
  <2> QED
    BY <2>1 DEF Segment, Texts
<1>4. token[2] \in Texts
  BY <1>1 DEF PayloadSegments, Segment, Texts, IInv, TypeOK
<1>5. sig \in Signatures
  BY <1>2, <1>3, <1>4 DEF Signatures
<1>6. sig \in signatures
  <2>1. PICK s \in signatures \cup {Junk} : token[3] \in Segment(s)
    BY <1>1 DEF SignatureSegments
  <2>2. s = sig
    BY <1>2, <2>1 DEF Segment
  <2> QED
    BY <2>1, <2>2, <1>5, JwsAssumption
<1>7. token[3] = Canonical(sig)
  <2>1. PICK s \in signatures \cup {Junk} : token[3] \in Segment(s)
    BY <1>1 DEF SignatureSegments
  <2> QED
    BY <1>2, <2>1 DEF Segment, Canonical
<1>8. token = TokenOf(sig)
  BY <1>1, <1>7 DEF TokenOf
<1> QED
  BY <1>6, <1>8 DEF IInv, Log

\* Keys, headers and payloads keep their types.
THEOREM TypeCorrect == Spec => []TypeOK
<1> QED
  BY InvHolds, PTL DEF IInv

\* Nothing that is put together, relabelled or re-encoded ever verifies.
THEOREM ValidTokensAreIssued == Spec => []ValidIsAsIssued
<1>1. IInv => ValidIsAsIssued
  BY ValidIsLogged DEF ValidIsAsIssued
<1> QED
  BY InvHolds, <1>1, PTL

\* A caller's pins are those of the signer.
THEOREM ValidTokensAreAsPinned == Spec => []ValidIsAsPinned
<1>1. IInv => ValidIsAsPinned
  <2> SUFFICES ASSUME IInv, NEW token \in Tokens, NEW key \in Keys,
                      NEW alg \in Algorithms \cup {None}, NEW kid \in Kids \cup {None},
                      Valid(token, key, alg, kid)
               PROVE  \E i \in issued : /\ i.token = token
                                        /\ alg # None => i.asked.alg = alg
                                        /\ kid # None => i.asked.kid = kid
    BY DEF ValidIsAsPinned
  <2>1. PICK i \in issued : i.token = token /\ i.key = key
    BY ValidIsLogged
  <2>2. token[1].value = i.header /\ i.asked.alg = i.header.alg /\ i.asked.kid = i.header.kid
    <3>1. AsAsked(i)
      BY DEF IInv, Log
    <3>2. token[1] = Canonical(i.header)
      BY <2>1, <3>1 DEF AsAsked, TokenOf, SigOf
    <3> QED
      BY <3>1, <3>2 DEF AsAsked, Canonical
  <2>3. (alg # None => token[1].value.alg = alg) /\ (kid # None => token[1].value.kid = kid)
    BY DEF Valid, Pinned
  <2> QED
    BY <2>1, <2>2, <2>3
<1> QED
  BY InvHolds, <1>1, PTL

\* What the log holds verifies, for every caller whose pins are the signer's.
LEMMA LoggedVerifies == IInv => IssuedVerifies
<1> SUFFICES ASSUME IInv, NEW i \in issued, i.payload # Empty, i.header.extra = "plain",
                    NEW alg \in {None, i.asked.alg}, NEW kid \in {None, i.asked.kid}
             PROVE  Valid(i.token, i.key, alg, kid)
  BY DEF IssuedVerifies, Verifies
<1>1. i.key \in Keys /\ i.header \in Headers /\ i.payload \in Payloads /\ AsAsked(i)
  BY DEF IInv, TypeOK, Log
<1> DEFINE sig == SigOf(i)
<1>2. sig \in Signatures
  BY <1>1, CanonicalType DEF SigOf, AsAsked, Signatures
<1>3. sig # Junk /\ sig # Empty /\ i.header # Empty /\ i.header # NotAnObject
  BY <1>1, <1>2, JwsAssumption
<1>4. i.token = <<Canonical(i.header), Canonical(i.payload), Canonical(sig)>>
  BY <1>1 DEF AsAsked, TokenOf, SigOf
<1>5. \A n \in 1..3 : Strict(i.token[n])
  <2>1. Strict(Canonical(i.header)) /\ Strict(Canonical(i.payload)) /\ Strict(Canonical(sig))
    BY <1>3 DEF Strict, Canonical
  <2> HIDE DEF sig
  <2>2. 1..3 = {1, 2, 3}
    OBVIOUS
  <2> QED
    BY <1>4, <2>1, <2>2
<1>6. i.token[1].value = i.header /\ i.token[3].value = sig
      /\ sig.input = <<i.token[1], i.token[2]>> /\ sig.key = i.key /\ sig.alg = i.header.alg
  BY <1>4 DEF Canonical, SigOf
<1>7. Pinned(i.header, alg, kid)
  BY <1>1 DEF Pinned, AsAsked
<1>8. SizeOf(sig) = i.header.alg
  BY <1>3, <1>6 DEF SizeOf
<1>9. sig = [key |-> i.key, alg |-> i.header.alg, input |-> <<i.token[1], i.token[2]>>]
  BY <1>4 DEF Canonical, SigOf
<1>10. SetOf[i.key] = i.header.alg /\ i.header.alg \in Algorithms
  BY <1>1 DEF AsAsked
<1> HIDE DEF sig
<1> QED
  BY <1>3, <1>5, <1>6, <1>7, <1>8, <1>9, <1>10 DEF Valid

\* What was issued verifies.
THEOREM IssuedTokensVerify == Spec => []IssuedVerifies
<1> QED
  BY InvHolds, LoggedVerifies, PTL

--------------------------------------------------------------------------------
(* seed.js: texts and their parts. *)

\* Tuples are sequences.
LEMMA OneIs ==
  ASSUME NEW S, NEW a \in S
  PROVE  <<a>> \in Seq(S) /\ Len(<<a>>) = 1 /\ <<a>>[1] = a
OBVIOUS

LEMMA TwoIs ==
  ASSUME NEW S, NEW a \in S, NEW b \in S
  PROVE  <<a, b>> \in Seq(S) /\ Len(<<a, b>>) = 2 /\ <<a, b>>[1] = a /\ <<a, b>>[2] = b
OBVIOUS

LEMMA ThreeIs ==
  ASSUME NEW S, NEW a \in S, NEW b \in S, NEW c \in S
  PROVE  <<a, b, c>> \in Seq(S) /\ Len(<<a, b, c>>) = 3 /\ <<a, b, c>>[1] = a /\ <<a, b, c>>[2] = b
OBVIOUS

LEMMA SevenIs ==
  ASSUME NEW S, NEW a \in S, NEW b \in S, NEW c \in S, NEW d \in S, NEW e \in S, NEW f \in S, NEW g \in S
  PROVE  <<a, b, c, d, e, f, g>> \in Seq(S) /\ Len(<<a, b, c, d, e, f, g>>) = 7
OBVIOUS

\* The n elements of a text after its k-th are the first n of v.
Part(f, k, v, n) == \A j \in Nat : 1 <= j /\ j <= n => f[k + j] = v[j]

\* One element of a part.
LEMMA PartAt ==
  ASSUME NEW f, NEW k \in Nat, NEW v, NEW n \in Nat, NEW i \in Nat, NEW q, Part(f, k, v, n), 1 <= i,
         i <= n, q = k + i
  PROVE  f[q] = v[i]
BY DEF Part

\* A part of a part, counted from the start of the whole.
LEMMA PartOfPart ==
  ASSUME NEW f, NEW k \in Nat, NEW b, NEW n \in Nat, NEW m \in Nat, NEW v, NEW l \in Nat, NEW q,
         Part(f, k, b, n), Part(b, m, v, l), m + l <= n, q = k + m
  PROVE  Part(f, q, v, l)
<1> SUFFICES ASSUME NEW j \in Nat, 1 <= j, j <= l
             PROVE  f[q + j] = v[j]
  BY DEF Part
<1>1. PICK i \in Nat : i = m + j
  OBVIOUS
<1>2. f[k + i] = b[i]
  BY <1>1 DEF Part
<1>3. b[m + j] = v[j]
  BY DEF Part
<1>4. q + j = k + i
  BY <1>1
<1> QED BY <1>1, <1>2, <1>3, <1>4

IsFrame(e, tag, d, payload) == e = <<tag>> \o d \o payload
IsJoin(e, s, t) == e = s \o t
IsThree(e, a, b, c) == e = a \o b \o c

\* A tag, a length and a payload in a row, element by element.
LEMMA FrameIs ==
  ASSUME NEW S, NEW tag \in S, NEW d \in Seq(S), NEW payload \in Seq(S), NEW e,
         e = <<tag>> \o d \o payload
  PROVE  /\ e \in Seq(S) /\ Len(e) = 1 + Len(d) + Len(payload) /\ e[1] = tag
         /\ \A j \in Nat : 1 <= j /\ j <= Len(d) => e[1 + j] = d[j]
         /\ \A j \in Nat : 1 <= j /\ j <= Len(payload) => e[(1 + Len(d)) + j] = payload[j]
OBVIOUS

\* Three texts in a row, element by element.
LEMMA ThreeFrames ==
  ASSUME NEW S, NEW a \in Seq(S), NEW b \in Seq(S), NEW c \in Seq(S), NEW e, e = a \o b \o c
  PROVE  /\ e \in Seq(S) /\ Len(e) = Len(a) + Len(b) + Len(c)
         /\ \A j \in Nat : 1 <= j /\ j <= Len(a) => e[0 + j] = a[j]
         /\ \A j \in Nat : 1 <= j /\ j <= Len(b) => e[Len(a) + j] = b[j]
         /\ \A j \in Nat : 1 <= j /\ j <= Len(c) => e[(Len(a) + Len(b)) + j] = c[j]
OBVIOUS

\* The parts of a frame, and of three texts in a row.
LEMMA FrameParts ==
  ASSUME NEW S, NEW tag \in S, NEW d \in Seq(S), NEW payload \in Seq(S), NEW e,
         IsFrame(e, tag, d, payload)
  PROVE  /\ e \in Seq(S) /\ Len(e) = 1 + Len(d) + Len(payload) /\ e[1] = tag
         /\ Part(e, 1, d, Len(d)) /\ Part(e, 1 + Len(d), payload, Len(payload))
BY FrameIs DEF Part, IsFrame

LEMMA ThreeParts ==
  ASSUME NEW S, NEW a \in Seq(S), NEW b \in Seq(S), NEW c \in Seq(S), NEW e, IsThree(e, a, b, c)
  PROVE  /\ e \in Seq(S) /\ Len(e) = Len(a) + Len(b) + Len(c)
         /\ Part(e, 0, a, Len(a)) /\ Part(e, Len(a), b, Len(b)) /\ Part(e, Len(a) + Len(b), c, Len(c))
BY ThreeFrames DEF Part, IsThree

\* A number of two bytes, taken apart.
LEMMA BytesOf ==
  ASSUME NEW n \in Nat, n < 65536
  PROVE  n \div 256 \in Store!Byte /\ n % 256 \in Store!Byte
<1>1. n \in Int /\ n >= 0 /\ n < 65536
  OBVIOUS
<1>2. n % 256 \in Int /\ n % 256 >= 0 /\ n % 256 < 256
  BY <1>1
<1>3. n \div 256 \in Int /\ n \div 256 >= 0 /\ n \div 256 < 256
  BY <1>1
<1> QED BY <1>2, <1>3 DEF Store!Byte

\* derLength takes one byte for less than 128, and two or three for more, of which the
\* first says how many.
LEMMA DerLengthIs ==
  ASSUME NEW n \in Nat, n < 65536
  PROVE  \E h \in 1..3 :
           /\ Store!DerLength(n) \in Seq(Store!Byte) /\ Len(Store!DerLength(n)) = h
           /\ Store!DerLength(n)[1] = IF h = 1 THEN n ELSE 127 + h
           /\ h = 1 <=> n < 128
<1>1. CASE n < 128
  <2>1. n \in Store!Byte
    BY <1>1 DEF Store!Byte
  <2>2. Store!DerLength(n) = <<n>>
    BY <1>1 DEF Store!DerLength
  <2>3. Store!DerLength(n) \in Seq(Store!Byte) /\ Len(Store!DerLength(n)) = 1 /\ Store!DerLength(n)[1] = n
    BY <2>1, <2>2, OneIs
  <2> QED BY <1>1, <2>3
<1>2. CASE n >= 128 /\ n < 256
  <2>1. n \in Store!Byte
    BY <1>2 DEF Store!Byte
  <2>2. PICK a \in Store!Byte : a = 129
    BY DEF Store!Byte
  <2>3. Store!DerLength(n) = <<a, n>>
    BY <1>2, <2>2 DEF Store!DerLength
  <2>4. Store!DerLength(n) \in Seq(Store!Byte) /\ Len(Store!DerLength(n)) = 2 /\ Store!DerLength(n)[1] = a
    BY <2>1, <2>3, TwoIs
  <2> QED BY <1>2, <2>2, <2>4
<1>3. CASE n >= 256
  <2>1. n \div 256 \in Store!Byte /\ n % 256 \in Store!Byte
    BY BytesOf
  <2>2. PICK a \in Store!Byte, b \in Store!Byte, c \in Store!Byte : a = n \div 256 /\ b = n % 256 /\ c = 130
    BY <2>1 DEF Store!Byte
  <2>3. Store!DerLength(n) = <<c, a, b>>
    BY <1>3, <2>2 DEF Store!DerLength
  <2>4. Store!DerLength(n) \in Seq(Store!Byte) /\ Len(Store!DerLength(n)) = 3 /\ Store!DerLength(n)[1] = c
    BY <2>3, ThreeIs
  <2> QED BY <1>3, <2>2, <2>4
<1> QED BY <1>1, <1>2, <1>3

\* A tag, h bytes that tell a length, and a payload.
IsDer(e, tag, payload, h) ==
  /\ e \in Seq(Store!Byte) /\ Len(e) = 1 + h + Len(payload)
  /\ e[1] = tag /\ e[2] = (IF h = 1 THEN Len(payload) ELSE 127 + h)
  /\ Part(e, 1 + h, payload, Len(payload))

\* der makes a frame.
LEMMA DerFrame ==
  ASSUME NEW tag, NEW payload
  PROVE  IsFrame(Store!Der(tag, payload), tag, Store!DerLength(Len(payload)), payload)
BY DEF IsFrame, Store!Der

\* What der makes, where the length takes h bytes.
LEMMA DerIs ==
  ASSUME NEW tag \in Store!Byte, NEW payload \in Seq(Store!Byte), Len(payload) < 65536
  PROVE  \E h \in 1..3 : IsDer(Store!Der(tag, payload), tag, payload, h) /\ (h = 1 <=> Len(payload) < 128)
<1>1. PICK n \in Nat : n = Len(payload) /\ n < 65536
  OBVIOUS
<1>2. PICK h \in 1..3 :
        /\ Store!DerLength(n) \in Seq(Store!Byte) /\ Len(Store!DerLength(n)) = h
        /\ Store!DerLength(n)[1] = IF h = 1 THEN n ELSE 127 + h
        /\ h = 1 <=> n < 128
  BY <1>1, DerLengthIs
<1>d. PICK d \in Seq(Store!Byte), e \in {Store!Der(tag, payload)} : d = Store!DerLength(n) /\ e = Store!Der(tag, payload)
  BY <1>2
<1>3. IsFrame(e, tag, d, payload)
  BY <1>1, <1>d, DerFrame
<1>4. /\ e \in Seq(Store!Byte) /\ Len(e) = 1 + Len(d) + Len(payload) /\ e[1] = tag
      /\ Part(e, 1, d, Len(d)) /\ Part(e, 1 + Len(d), payload, Len(payload))
  BY <1>3, FrameParts
<1>6. Len(d) = h
  BY <1>2, <1>d
<1>5. e[2] = d[1]
  BY <1>4, <1>6, PartAt
<1>7. e[2] = IF h = 1 THEN Len(payload) ELSE 127 + h
  BY <1>1, <1>2, <1>d, <1>5
<1>8. IsDer(e, tag, payload, h)
  BY <1>4, <1>6, <1>7 DEF IsDer
<1> QED BY <1>1, <1>2, <1>d, <1>8

\* A payload of less than 128 bytes has a length of one byte.
LEMMA ShortDerIs ==
  ASSUME NEW tag \in Store!Byte, NEW payload \in Seq(Store!Byte), Len(payload) < 128
  PROVE  IsDer(Store!Der(tag, payload), tag, payload, 1)
BY DerIs

\* Two texts in a row.
LEMMA JoinIs ==
  ASSUME NEW S, NEW s \in Seq(S), NEW t \in Seq(S), NEW e, e = s \o t
  PROVE  /\ e \in Seq(S) /\ Len(e) = Len(s) + Len(t)
         /\ \A j \in Nat : 1 <= j /\ j <= Len(t) => e[Len(s) + j] = t[j]
OBVIOUS

LEMMA JoinParts ==
  ASSUME NEW S, NEW s \in Seq(S), NEW t \in Seq(S), NEW e, IsJoin(e, s, t)
  PROVE  e \in Seq(S) /\ Len(e) = Len(s) + Len(t) /\ Part(e, Len(s), t, Len(t))
BY JoinIs DEF Part, IsJoin

\* Seven bytes and two more.
LEMMA NineIs ==
  ASSUME NEW S, NEW s \in Seq(S), Len(s) = 7, NEW t \in Seq(S), Len(t) = 2
  PROVE  s \o t \in Seq(S) /\ Len(s \o t) = 9 /\ (s \o t)[8] = t[1] /\ (s \o t)[9] = t[2]
<1>1. PICK e : IsJoin(e, s, t)
  BY DEF IsJoin
<1>2. e \in Seq(S) /\ Len(e) = Len(s) + Len(t) /\ Part(e, Len(s), t, Len(t))
  BY <1>1, JoinParts
<1>3. Len(e) = 9 /\ Part(e, 7, t, 2)
  BY <1>2
<1>4. e[8] = t[1] /\ e[9] = t[2]
  BY <1>3, PartAt
<1> QED BY <1>1, <1>2, <1>3, <1>4 DEF IsJoin

\* The OIDs are bytes, and no two sets have the same.
LEMMA OidIs ==
  ASSUME NEW alg \in Store!SeedAlgorithms
  PROVE  /\ Store!Oid(alg) \in Seq(Store!Byte) /\ Len(Store!Oid(alg)) = 9
         /\ \A other \in Store!SeedAlgorithms : Store!Oid(other) = Store!Oid(alg) => other = alg
<1> DEFINE q == <<96, 134, 72, 1, 101, 3, 4>>
<1>1. Store!SeedAlgorithms = {"ML-DSA-65", "ML-DSA-87", "ML-KEM-768", "ML-KEM-1024"}
  BY DEF Store!SeedAlgorithms, Store!Sigs, Store!Kems
<1>2. /\ Store!Oid("ML-DSA-65") = q \o <<3, 18>> /\ Store!Oid("ML-DSA-87") = q \o <<3, 19>>
      /\ Store!Oid("ML-KEM-768") = q \o <<4, 2>> /\ Store!Oid("ML-KEM-1024") = q \o <<4, 3>>
  BY DEF Store!Oid
<1>3. q \in Seq(Store!Byte) /\ Len(q) = 7
  <2>1. 96 \in Store!Byte /\ 134 \in Store!Byte /\ 72 \in Store!Byte /\ 1 \in Store!Byte /\ 101 \in Store!Byte /\ 3 \in Store!Byte /\ 4 \in Store!Byte
    BY DEF Store!Byte
  <2> QED BY <2>1, SevenIs
<1> HIDE DEF q
<1>4. ASSUME NEW a \in Store!Byte, NEW b \in Store!Byte
      PROVE  /\ q \o <<a, b>> \in Seq(Store!Byte) /\ Len(q \o <<a, b>>) = 9
             /\ (q \o <<a, b>>)[8] = a /\ (q \o <<a, b>>)[9] = b
  <2>1. <<a, b>> \in Seq(Store!Byte) /\ Len(<<a, b>>) = 2 /\ <<a, b>>[1] = a /\ <<a, b>>[2] = b
    BY TwoIs
  <2>2. /\ q \o <<a, b>> \in Seq(Store!Byte) /\ Len(q \o <<a, b>>) = 9
        /\ (q \o <<a, b>>)[8] = <<a, b>>[1] /\ (q \o <<a, b>>)[9] = <<a, b>>[2]
    BY <1>3, <2>1, NineIs
  <2> QED BY <2>1, <2>2
<1>5. 3 \in Store!Byte /\ 18 \in Store!Byte /\ 19 \in Store!Byte /\ 4 \in Store!Byte /\ 2 \in Store!Byte
  BY DEF Store!Byte
<1>6. /\ Store!Oid("ML-DSA-65") \in Seq(Store!Byte) /\ Len(Store!Oid("ML-DSA-65")) = 9
      /\ Store!Oid("ML-DSA-65")[8] = 3 /\ Store!Oid("ML-DSA-65")[9] = 18
  <2>1. PICK a \in Store!Byte, b \in Store!Byte : a = 3 /\ b = 18
    BY DEF Store!Byte
  <2>2. Store!Oid("ML-DSA-65") = q \o <<a, b>>
    BY <1>2, <2>1
  <2>3. /\ q \o <<a, b>> \in Seq(Store!Byte) /\ Len(q \o <<a, b>>) = 9
        /\ (q \o <<a, b>>)[8] = a /\ (q \o <<a, b>>)[9] = b
    BY <1>4
  <2> QED BY <2>1, <2>2, <2>3
<1>7. /\ Store!Oid("ML-DSA-87") \in Seq(Store!Byte) /\ Len(Store!Oid("ML-DSA-87")) = 9
      /\ Store!Oid("ML-DSA-87")[8] = 3 /\ Store!Oid("ML-DSA-87")[9] = 19
  <2>1. PICK a \in Store!Byte, b \in Store!Byte : a = 3 /\ b = 19
    BY DEF Store!Byte
  <2>2. Store!Oid("ML-DSA-87") = q \o <<a, b>>
    BY <1>2, <2>1
  <2>3. /\ q \o <<a, b>> \in Seq(Store!Byte) /\ Len(q \o <<a, b>>) = 9
        /\ (q \o <<a, b>>)[8] = a /\ (q \o <<a, b>>)[9] = b
    BY <1>4
  <2> QED BY <2>1, <2>2, <2>3
<1>8. /\ Store!Oid("ML-KEM-768") \in Seq(Store!Byte) /\ Len(Store!Oid("ML-KEM-768")) = 9
      /\ Store!Oid("ML-KEM-768")[8] = 4 /\ Store!Oid("ML-KEM-768")[9] = 2
  <2>1. PICK a \in Store!Byte, b \in Store!Byte : a = 4 /\ b = 2
    BY DEF Store!Byte
  <2>2. Store!Oid("ML-KEM-768") = q \o <<a, b>>
    BY <1>2, <2>1
  <2>3. /\ q \o <<a, b>> \in Seq(Store!Byte) /\ Len(q \o <<a, b>>) = 9
        /\ (q \o <<a, b>>)[8] = a /\ (q \o <<a, b>>)[9] = b
    BY <1>4
  <2> QED BY <2>1, <2>2, <2>3
<1>9. /\ Store!Oid("ML-KEM-1024") \in Seq(Store!Byte) /\ Len(Store!Oid("ML-KEM-1024")) = 9
      /\ Store!Oid("ML-KEM-1024")[8] = 4 /\ Store!Oid("ML-KEM-1024")[9] = 3
  <2>1. PICK a \in Store!Byte, b \in Store!Byte : a = 4 /\ b = 3
    BY DEF Store!Byte
  <2>2. Store!Oid("ML-KEM-1024") = q \o <<a, b>>
    BY <1>2, <2>1
  <2>3. /\ q \o <<a, b>> \in Seq(Store!Byte) /\ Len(q \o <<a, b>>) = 9
        /\ (q \o <<a, b>>)[8] = a /\ (q \o <<a, b>>)[9] = b
    BY <1>4
  <2> QED BY <2>1, <2>2, <2>3
<1> QED BY <1>1, <1>6, <1>7, <1>8, <1>9

\* The frame of a private key.  What is in front of the OCTET STRING takes 17
\* bytes after the outer length, which takes h; the inner length takes g.
Framed(f, o, inner, h, g) ==
  /\ f \in Seq(Store!Byte) /\ Len(f) = 18 + h + g + Len(inner)
  /\ f[1] = Store!Sequence /\ (h # 1 => f[2] = 127 + h)
  /\ f[2 + h] = Store!Integer /\ f[3 + h] = 1
  /\ f[5 + h] = Store!Sequence /\ f[6 + h] = 11
  /\ f[7 + h] = Store!ObjectId /\ f[8 + h] = 9 /\ Part(f, 8 + h, o, 9)
  /\ f[18 + h] = Store!OctetString /\ (g # 1 => f[19 + h] = 127 + g)
  /\ h = 1 => f[2] < 128
  /\ g = 1 => f[19 + h] < 128
  /\ Part(f, 18 + h + g, inner, Len(inner))

\* Where the parts of a frame are.
LEMMA Offsets ==
  ASSUME NEW h \in Nat, NEW g \in Nat, NEW l \in Nat, NEW f, NEW body, NEW version, NEW algId, NEW oid,
         NEW octets, NEW o, NEW inner,
         Part(f, 1 + h, body, 17 + g + l), Part(body, 0, version, 3), Part(body, 3, algId, 13),
         Part(body, 16, octets, 1 + g + l), Part(algId, 2, oid, 11), Part(oid, 2, o, 9),
         Part(octets, 1 + g, inner, l),
         g >= 1
  PROVE  /\ f[2 + h] = version[1] /\ f[3 + h] = version[2] /\ f[5 + h] = algId[1] /\ f[6 + h] = algId[2]
         /\ f[7 + h] = oid[1] /\ f[8 + h] = oid[2] /\ f[18 + h] = octets[1] /\ f[19 + h] = octets[2]
         /\ Part(f, 8 + h, o, 9) /\ Part(f, 18 + h + g, inner, l)
<1>k. PICK k \in Nat, k4 \in Nat, k6 \in Nat, k8 \in Nat, k17 \in Nat, m \in Nat, k18 \in Nat, n \in Nat, i \in Nat :
        /\ k = 1 + h /\ k4 = k + 3 /\ k6 = k4 + 2 /\ k8 = k6 + 2 /\ k17 = k + 16 /\ m = 1 + g /\ k18 = k17 + m
        /\ n = 17 + g + l /\ i = 1 + g + l
  OBVIOUS
<1>b. Part(f, k, body, n) /\ Part(body, 16, octets, i) /\ Part(octets, m, inner, l)
  BY <1>k
<1>8. Part(f, k, version, 3)
  BY <1>k, <1>b, PartOfPart
<1>9. Part(f, k4, algId, 13)
  BY <1>k, <1>b, PartOfPart
<1>10. Part(f, k17, octets, i)
  BY <1>k, <1>b, PartOfPart
<1>11. Part(f, k6, oid, 11)
  BY <1>k, <1>9, PartOfPart
<1>12. Part(f, k8, o, 9)
  BY <1>k, <1>11, PartOfPart
<1>13. Part(f, k18, inner, l)
  BY <1>k, <1>b, <1>10, PartOfPart
<1>14. f[2 + h] = version[1] /\ f[3 + h] = version[2]
  BY <1>k, <1>8, PartAt
<1>15. f[5 + h] = algId[1] /\ f[6 + h] = algId[2]
  BY <1>k, <1>9, PartAt
<1>16. f[7 + h] = oid[1] /\ f[8 + h] = oid[2]
  BY <1>k, <1>11, PartAt
<1>17. f[18 + h] = octets[1] /\ f[19 + h] = octets[2]
  BY <1>k, <1>10, PartAt
<1>18. k8 = 8 + h /\ k18 = 18 + h + g
  BY <1>k
<1> QED BY <1>12, <1>13, <1>14, <1>15, <1>16, <1>17, <1>18

\* der of der: the whole frame, from its parts.
LEMMA FrameOf ==
  ASSUME NEW h \in Nat, NEW g \in Nat, h >= 1, g >= 1, NEW one \in Seq(Store!Byte), Len(one) = 1,
         NEW o \in Seq(Store!Byte), Len(o) = 9,
         NEW inner \in Seq(Store!Byte), NEW version, NEW oid, NEW algId, NEW octets, NEW body, NEW f,
         IsDer(version, Store!Integer, one, 1), IsDer(oid, Store!ObjectId, o, 1),
         IsDer(algId, Store!Sequence, oid, 1), IsDer(octets, Store!OctetString, inner, g), g = 1 => Len(inner) < 128,
         IsThree(body, version, algId, octets), IsDer(f, Store!Sequence, body, h), h = 1 => Len(body) < 128
  PROVE  Framed(f, o, inner, h, g)
<1>1. version \in Seq(Store!Byte) /\ Len(version) = 3 /\ version[1] = Store!Integer /\ version[2] = 1
  BY DEF IsDer
<1>2. /\ oid \in Seq(Store!Byte) /\ Len(oid) = 11 /\ oid[1] = Store!ObjectId /\ oid[2] = 9
      /\ Part(oid, 2, o, 9)
  BY DEF IsDer
<1>3. /\ algId \in Seq(Store!Byte) /\ Len(algId) = 13 /\ algId[1] = Store!Sequence /\ algId[2] = 11
      /\ Part(algId, 2, oid, 11)
  BY <1>2 DEF IsDer
<1>4. /\ octets \in Seq(Store!Byte) /\ Len(octets) = 1 + g + Len(inner) /\ Len(inner) \in Nat
      /\ octets[1] = Store!OctetString
      /\ g # 1 => octets[2] = 127 + g
      /\ g = 1 => octets[2] < 128
      /\ Part(octets, 1 + g, inner, Len(inner))
  BY DEF IsDer
<1>5. /\ body \in Seq(Store!Byte) /\ Len(body) = Len(version) + Len(algId) + Len(octets)
      /\ Part(body, 0, version, Len(version)) /\ Part(body, Len(version), algId, Len(algId))
      /\ Part(body, Len(version) + Len(algId), octets, Len(octets))
  BY <1>1, <1>3, <1>4, ThreeParts
<1>6. /\ Len(body) = 17 + g + Len(inner)
      /\ Part(body, 0, version, 3) /\ Part(body, 3, algId, 13) /\ Part(body, 16, octets, 1 + g + Len(inner))
  BY <1>1, <1>3, <1>4, <1>5
<1>7. /\ f \in Seq(Store!Byte) /\ Len(f) = 1 + h + Len(body)
      /\ f[1] = Store!Sequence /\ (h # 1 => f[2] = 127 + h) /\ (h = 1 => f[2] < 128)
      /\ Part(f, 1 + h, body, Len(body))
  BY DEF IsDer
<1>l. PICK l \in Nat : l = Len(inner)
  BY <1>4
<1>8. /\ Part(f, 1 + h, body, 17 + g + l) /\ Part(body, 16, octets, 1 + g + l) /\ Part(octets, 1 + g, inner, l)
      /\ Part(body, 0, version, 3) /\ Part(body, 3, algId, 13) /\ Part(algId, 2, oid, 11) /\ Part(oid, 2, o, 9)
  BY <1>2, <1>3, <1>4, <1>6, <1>7, <1>l
<1>9. /\ f[2 + h] = version[1] /\ f[3 + h] = version[2] /\ f[5 + h] = algId[1] /\ f[6 + h] = algId[2]
      /\ f[7 + h] = oid[1] /\ f[8 + h] = oid[2] /\ f[18 + h] = octets[1] /\ f[19 + h] = octets[2]
      /\ Part(f, 8 + h, o, 9) /\ Part(f, 18 + h + g, inner, l)
  BY <1>8, Offsets
<1>10. Len(f) = 18 + h + g + l
  BY <1>6, <1>7, <1>l
<1> QED BY <1>1, <1>2, <1>3, <1>4, <1>7, <1>9, <1>10, <1>l DEF Framed

\* The parts of a frame.
Version == Store!Der(Store!Integer, <<0>>)
ObjectOf(alg) == Store!Der(Store!ObjectId, Store!Oid(alg))
AlgId(alg) == Store!Der(Store!Sequence, ObjectOf(alg))
Octets(inner) == Store!Der(Store!OctetString, inner)
Body(alg, inner) == Version \o AlgId(alg) \o Octets(inner)

\* The tags are bytes.
LEMMA TagsAre ==
  /\ Store!Sequence \in Store!Byte /\ Store!Integer \in Store!Byte /\ Store!ObjectId \in Store!Byte
  /\ Store!OctetString \in Store!Byte /\ Store!SeedChoice \in Store!Byte /\ 0 \in Store!Byte
BY DEF Store!Sequence, Store!Integer, Store!ObjectId, Store!OctetString, Store!SeedChoice, Store!Byte

\* The version, the AlgorithmIdentifier and the body of a file.
LEMMA VersionIs == \E one \in Seq(Store!Byte) : Len(one) = 1 /\ IsDer(Version, Store!Integer, one, 1)
<1>1. PICK zero \in Store!Byte : zero = 0
  BY TagsAre
<1>2. PICK one \in Seq(Store!Byte) : one = <<zero>> /\ Len(one) = 1
  BY OneIs
<1>3. Version = Store!Der(Store!Integer, one)
  BY <1>1, <1>2 DEF Version
<1>4. IsDer(Store!Der(Store!Integer, one), Store!Integer, one, 1)
  <2>1. Len(one) < 128 /\ Store!Integer \in Store!Byte
    BY <1>2, TagsAre
  <2> QED BY <2>1, ShortDerIs
<1> QED BY <1>2, <1>3, <1>4

LEMMA AlgIdIs ==
  ASSUME NEW alg \in Store!SeedAlgorithms
  PROVE  /\ IsDer(ObjectOf(alg), Store!ObjectId, Store!Oid(alg), 1)
         /\ IsDer(AlgId(alg), Store!Sequence, ObjectOf(alg), 1)
<1>1. Store!Oid(alg) \in Seq(Store!Byte) /\ Len(Store!Oid(alg)) = 9
  BY OidIs
<1>2. IsDer(ObjectOf(alg), Store!ObjectId, Store!Oid(alg), 1)
  <2>1. Len(Store!Oid(alg)) < 128 /\ Store!Oid(alg) \in Seq(Store!Byte) /\ Store!ObjectId \in Store!Byte
    BY <1>1, TagsAre
  <2>2. IsDer(Store!Der(Store!ObjectId, Store!Oid(alg)), Store!ObjectId, Store!Oid(alg), 1)
    BY <2>1, ShortDerIs
  <2> QED BY <2>2 DEF ObjectOf
<1>3. ObjectOf(alg) \in Seq(Store!Byte) /\ Len(ObjectOf(alg)) = 11
  BY <1>1, <1>2 DEF IsDer
<1>4. IsDer(AlgId(alg), Store!Sequence, ObjectOf(alg), 1)
  <2>1. Len(ObjectOf(alg)) < 128 /\ ObjectOf(alg) \in Seq(Store!Byte) /\ Store!Sequence \in Store!Byte
    BY <1>3, TagsAre
  <2>2. IsDer(Store!Der(Store!Sequence, ObjectOf(alg)), Store!Sequence, ObjectOf(alg), 1)
    BY <2>1, ShortDerIs
  <2> QED BY <2>2 DEF AlgId
<1> QED BY <1>2, <1>4

LEMMA Pkcs8Body ==
  ASSUME NEW alg, NEW inner
  PROVE  /\ Store!Pkcs8(alg, inner) = Store!Der(Store!Sequence, Body(alg, inner))
         /\ IsThree(Body(alg, inner), Version, AlgId(alg), Octets(inner))
BY DEF Store!Pkcs8, Body, Version, AlgId, Octets, ObjectOf, IsThree

LEMMA BodyIs ==
  ASSUME NEW v \in Seq(Store!Byte), NEW a \in Seq(Store!Byte), NEW c \in Seq(Store!Byte), NEW body,
         IsThree(body, v, a, c)
  PROVE  body \in Seq(Store!Byte) /\ Len(body) = Len(v) + Len(a) + Len(c)
BY ThreeParts

\* exportSeedPkcs8 and its like make such a frame; that of a seed has short lengths only.
LEMMA Pkcs8Is ==
  ASSUME NEW alg \in Store!SeedAlgorithms, NEW inner \in Seq(Store!Byte), Len(inner) < 60000
  PROVE  \E h \in 1..3, g \in 1..3 :
           /\ Framed(Store!Pkcs8(alg, inner), Store!Oid(alg), inner, h, g)
           /\ Len(inner) < 100 => h = 1 /\ g = 1
<1>1. PICK one \in Seq(Store!Byte) : Len(one) = 1 /\ IsDer(Version, Store!Integer, one, 1)
  BY VersionIs
<1>2. PICK o \in Seq(Store!Byte) : o = Store!Oid(alg) /\ Len(o) = 9
  BY OidIs
<1>3. IsDer(ObjectOf(alg), Store!ObjectId, o, 1) /\ IsDer(AlgId(alg), Store!Sequence, ObjectOf(alg), 1)
  BY <1>2, AlgIdIs
<1>4. PICK g \in 1..3 : IsDer(Octets(inner), Store!OctetString, inner, g) /\ (g = 1 <=> Len(inner) < 128)
  <2>1. Len(inner) < 65536
    OBVIOUS
  <2> QED BY <2>1, TagsAre, DerIs DEF Octets
<1>5. /\ Version \in Seq(Store!Byte) /\ AlgId(alg) \in Seq(Store!Byte) /\ Octets(inner) \in Seq(Store!Byte)
      /\ Len(Version) = 3 /\ Len(AlgId(alg)) = 13 /\ Len(Octets(inner)) = 1 + g + Len(inner)
  BY <1>1, <1>2, <1>3, <1>4 DEF IsDer
<1>6. IsThree(Body(alg, inner), Version, AlgId(alg), Octets(inner))
  BY Pkcs8Body
<1>7. Body(alg, inner) \in Seq(Store!Byte) /\ Len(Body(alg, inner)) = 17 + g + Len(inner)
  <2>1. /\ Body(alg, inner) \in Seq(Store!Byte)
        /\ Len(Body(alg, inner)) = Len(Version) + Len(AlgId(alg)) + Len(Octets(inner))
    <3>1. Version \in Seq(Store!Byte) /\ AlgId(alg) \in Seq(Store!Byte) /\ Octets(inner) \in Seq(Store!Byte)
      BY <1>5
    <3> QED BY <1>6, <3>1, BodyIs
  <2> QED BY <1>5, <2>1
<1>8. PICK f : f = Store!Pkcs8(alg, inner) /\ f = Store!Der(Store!Sequence, Body(alg, inner))
  BY Pkcs8Body
<1>9. PICK h \in 1..3 : IsDer(f, Store!Sequence, Body(alg, inner), h) /\ (h = 1 <=> Len(Body(alg, inner)) < 128)
  <2>1. Len(Body(alg, inner)) < 65536
    BY <1>7
  <2> QED BY <1>7, <1>8, <2>1, TagsAre, DerIs
<1>10. Framed(f, o, inner, h, g)
  <2>1. h \in Nat /\ g \in Nat /\ h >= 1 /\ g >= 1 /\ (g = 1 => Len(inner) < 128) /\ (h = 1 => Len(Body(alg, inner)) < 128)
    BY <1>4, <1>9
  <2>2. Len(one) = 1 /\ Len(o) = 9
    BY <1>1, <1>2
  <2> QED BY <1>1, <1>3, <1>4, <1>6, <1>9, <2>1, <2>2, FrameOf
<1>11. Len(inner) < 100 => h = 1 /\ g = 1
  BY <1>4, <1>7, <1>9
<1> QED BY <1>2, <1>8, <1>10, <1>11

--------------------------------------------------------------------------------
(* seed.js: the reader of PKCS#8. *)

\* What there is of a file, and perhaps something else after its end.
Agrees(buf, f) ==
  /\ buf \in Seq(Store!Byte) /\ f \in Seq(Store!Byte)
  /\ \A i \in Nat : 1 <= i /\ i <= Len(buf) /\ i <= Len(f) => buf[i] = f[i]

\* A reader that needed the byte at last: it is at p, or has thrown.
At(x, p, buf, last) == x = IF last <= Len(buf) THEN p ELSE Error

\* A position, and a length that was read, is not what throws.
LEMMA ErrorIs ==
  /\ Error \notin Nat
  /\ \A n, m \in Nat : [length |-> n, next |-> m] # Error
<1>1. Error \notin Nat /\ Error \notin [length : Nat, next : Nat]
  BY CustodyAssumption
<1> QED BY <1>1

\* The byte at a position.
LEMMA ByteAt ==
  ASSUME NEW buf, NEW f, Agrees(buf, f), NEW p \in Nat, 1 <= p, p <= Len(f)
  PROVE  /\ p \in DOMAIN buf <=> p <= Len(buf)
         /\ p <= Len(buf) => buf[p] = f[p]
         /\ Len(buf) \in Nat
BY DEF Agrees

\* The reader at the tag it expects, at another one, and once something has thrown.
LEMMA TagAt ==
  ASSUME NEW buf, NEW f, Agrees(buf, f), NEW p \in Nat, NEW last \in Nat, NEW x, NEW tag, NEW q,
         1 <= p, p <= Len(f), last < p, At(x, p, buf, last), f[p] = tag, q = p + 1
  PROVE  At(Store!ExpectTag(buf, x, tag), q, buf, p)
<1>1. /\ p \in DOMAIN buf <=> p <= Len(buf)
      /\ p <= Len(buf) => buf[p] = f[p]
      /\ Len(buf) \in Nat
  BY ByteAt
<1>2. p # Error
  BY ErrorIs
<1>3. CASE p <= Len(buf)
  <2>1. x = p /\ x # Error
    BY <1>1, <1>2, <1>3 DEF At
  <2> QED BY <1>1, <1>3, <2>1 DEF At, Store!ExpectTag
<1>4. CASE ~(p <= Len(buf))
  <2>1. x = p \/ x = Error
    BY DEF At
  <2>2. Store!ExpectTag(buf, x, tag) = Error
    BY <1>1, <1>4, <2>1 DEF Store!ExpectTag
  <2> QED BY <1>4, <2>2 DEF At
<1> QED BY <1>3, <1>4

LEMMA OtherTag ==
  ASSUME NEW buf, NEW f, Agrees(buf, f), NEW p \in Nat, NEW last \in Nat, NEW x, NEW tag,
         1 <= p, p <= Len(f), At(x, p, buf, last), f[p] # tag
  PROVE  Store!ExpectTag(buf, x, tag) = Error
<1>1. /\ p \in DOMAIN buf <=> p <= Len(buf)
      /\ p <= Len(buf) => buf[p] = f[p]
  BY ByteAt
<1>2. x = p \/ x = Error
  BY DEF At
<1> QED BY <1>1, <1>2 DEF Store!ExpectTag

LEMMA ErrorReads ==
  ASSUME NEW buf, NEW tag
  PROVE  /\ Store!ExpectTag(buf, Error, tag) = Error /\ Store!ReadLength(buf, Error) = Error
         /\ Store!Inside(Error) = Error /\ Store!Beyond(Error) = Error
BY DEF Store!ExpectTag, Store!ReadLength, Store!Inside, Store!Beyond

\* At a length of one byte: what is read, and where what it measures ends.
LEMMA ShortAt ==
  ASSUME NEW buf, NEW f, Agrees(buf, f), NEW p \in Nat, NEW last \in Nat, NEW x, NEW n \in Nat,
         1 <= p, p <= Len(f), last < p, At(x, p, buf, last), f[p] = n, n < 128
  PROVE  Store!ReadLength(buf, x) = IF p <= Len(buf) THEN [length |-> n, next |-> p + 1] ELSE Error
<1>1. /\ p \in DOMAIN buf <=> p <= Len(buf)
      /\ p <= Len(buf) => buf[p] = f[p]
      /\ Len(buf) \in Nat
  BY ByteAt
<1>2. p # Error
  BY ErrorIs
<1>3. CASE p <= Len(buf)
  <2>1. x = p /\ x # Error
    BY <1>1, <1>2, <1>3 DEF At
  <2> QED BY <1>1, <1>3, <2>1 DEF Store!ReadLength
<1>4. CASE ~(p <= Len(buf))
  <2>1. x = p \/ x = Error
    BY DEF At
  <2>2. Store!ReadLength(buf, x) = Error
    BY <1>1, <1>4, <2>1 DEF Store!ReadLength
  <2> QED BY <1>4, <2>2
<1> QED BY <1>3, <1>4

LEMMA BeyondAt ==
  ASSUME NEW buf, NEW f, Agrees(buf, f), NEW p \in Nat, NEW last \in Nat, NEW x, NEW n \in Nat, NEW q,
         1 <= p, p <= Len(f), last < p, At(x, p, buf, last), f[p] = n, n < 128, q = p + 1 + n
  PROVE  At(Store!Beyond(Store!ReadLength(buf, x)), q, buf, p)
<1>1. Store!ReadLength(buf, x) = IF p <= Len(buf) THEN [length |-> n, next |-> p + 1] ELSE Error
  BY ShortAt
<1>2. [length |-> n, next |-> p + 1] # Error
  BY ErrorIs
<1> QED BY <1>1, <1>2 DEF At, Store!Beyond

\* The bytes of a long length, those there are, make a number.
LEMMA LongLengthIs ==
  ASSUME NEW buf \in Seq(Store!Byte), NEW i \in Nat, NEW c \in 1..3
  PROVE  Store!LongLength(buf, i, c) \in Nat
<1> DEFINE byte(j) == IF j \in DOMAIN buf THEN buf[j] ELSE 0
<1>1. \A j : byte(j) \in Nat
  BY DEF Store!Byte
<1>2. PICK a \in Nat, b \in Nat, d \in Nat : a = byte(i + 1) /\ b = byte(i + 2) /\ d = byte(i + 3)
  BY <1>1
<1>3. Store!LongLength(buf, i, c) = CASE c = 1 -> a [] c = 2 -> 256 * a + b [] c = 3 -> 256 * (256 * a + b) + d
  BY <1>2 DEF Store!LongLength
<1> QED BY <1>3

\* At a length of two or three.
LEMMA LongAt ==
  ASSUME NEW buf, NEW f, Agrees(buf, f), NEW p \in Nat, NEW h \in 2..3,
         1 <= p, p <= Len(f), p <= Len(buf), f[p] = 127 + h
  PROVE  \E n \in Nat : Store!ReadLength(buf, p) = [length |-> n, next |-> p + h]
<1>1. p \in DOMAIN buf /\ buf[p] = 127 + h /\ p # Error
  BY ByteAt, ErrorIs
<1>2. PICK c \in 1..3 : c = h - 1
  OBVIOUS
<1>3. PICK n \in Nat : n = Store!LongLength(buf, p, c)
  BY LongLengthIs DEF Agrees
<1>4. buf[p] - 128 = c /\ ~(buf[p] < 128) /\ p + 1 + c = p + h
  BY <1>1, <1>2
<1>5. Store!ReadLength(buf, p) = [length |-> n, next |-> p + 1 + c]
  BY <1>1, <1>3, <1>4 DEF Store!ReadLength
<1> QED BY <1>4, <1>5

\* At any length: where what it measures begins.
LEMMA InsideAt ==
  ASSUME NEW buf, NEW f, Agrees(buf, f), NEW p \in Nat, NEW last \in Nat, NEW x, NEW h \in 1..3, NEW q,
         1 <= p, p <= Len(f), last < p, At(x, p, buf, last), h = 1 => f[p] < 128, h # 1 => f[p] = 127 + h, q = p + h
  PROVE  At(Store!Inside(Store!ReadLength(buf, x)), q, buf, p)
<1>f. f[p] \in Nat
  BY DEF Agrees, Store!Byte
<1>1. CASE h = 1
  <2>1. Store!ReadLength(buf, x) = IF p <= Len(buf) THEN [length |-> f[p], next |-> p + 1] ELSE Error
    BY <1>1, <1>f, ShortAt
  <2>2. [length |-> f[p], next |-> p + 1] # Error
    BY ErrorIs, <1>f
  <2> QED BY <1>1, <2>1, <2>2 DEF At, Store!Inside
<1>2. CASE h # 1 /\ p <= Len(buf)
  <2>1. x = p
    BY <1>2, ByteAt DEF At
  <2>2. PICK n \in Nat : Store!ReadLength(buf, p) = [length |-> n, next |-> p + h]
    BY <1>2, LongAt
  <2>3. [length |-> n, next |-> p + h] # Error
    BY ErrorIs
  <2> QED BY <1>2, <2>1, <2>2, <2>3 DEF At, Store!Inside
<1>3. CASE ~(p <= Len(buf))
  <2>1. x = p \/ x = Error
    BY DEF At
  <2>2. Store!ReadLength(buf, x) = Error
    BY <1>3, <2>1, ByteAt DEF Store!ReadLength
  <2> QED BY <1>3, <2>2 DEF At, Store!Inside
<1> QED BY <1>1, <1>2, <1>3

\* The read of a file that is cut or longer, up to its privateKey: where the
\* reader is, and the last byte it has needed.
LEMMA ReaderAt ==
  ASSUME NEW buf, NEW f, Agrees(buf, f), NEW o, NEW inner \in Seq(Store!Byte), NEW h \in 1..3,
         NEW g \in 1..3,
         Framed(f, o, inner, h, g), Len(inner) >= 2
  PROVE  /\ Store!OidLength(buf) = IF 8 + h <= Len(buf) THEN [length |-> 9, next |-> 9 + h] ELSE Error
         /\ At(Store!Inside(Store!OctetsLength(buf)), 19 + h + g, buf, 19 + h)
<1>f. /\ Len(f) = 18 + h + g + Len(inner)
      /\ f[1] = Store!Sequence /\ (h # 1 => f[2] = 127 + h) /\ (h = 1 => f[2] < 128)
      /\ f[2 + h] = Store!Integer /\ f[3 + h] = 1
      /\ f[5 + h] = Store!Sequence /\ f[6 + h] = 11
      /\ f[7 + h] = Store!ObjectId /\ f[8 + h] = 9
      /\ f[18 + h] = Store!OctetString /\ (g # 1 => f[19 + h] = 127 + g) /\ (g = 1 => f[19 + h] < 128)
  BY DEF Framed
<1>p. PICK p1 \in Nat, p2 \in Nat, p3 \in Nat, p5 \in Nat, p6 \in Nat, p7 \in Nat, p8 \in Nat,
           p18 \in Nat, p19 \in Nat, q \in Nat :
        /\ p1 = 2 /\ p2 = 2 + h /\ p3 = 3 + h /\ p5 = 5 + h /\ p6 = 6 + h /\ p7 = 7 + h /\ p8 = 8 + h
        /\ p18 = 18 + h /\ p19 = 19 + h /\ q = 19 + h + g
        /\ p19 <= Len(f)
  BY <1>f
<1>1. At(Store!ExpectTag(buf, 1, Store!Sequence), p1, buf, 1)
  <2>1. PICK one \in Nat, zero \in Nat : one = 1 /\ zero = 0
    OBVIOUS
  <2>2. At(one, one, buf, zero)
    BY <2>1 DEF At, Agrees
  <2>3. 1 <= one /\ one <= Len(f) /\ zero < one /\ p1 = one + 1
    BY <1>p, <2>1
  <2>4. f[one] = Store!Sequence
    BY <1>f, <2>1
  <2>5. At(Store!ExpectTag(buf, one, Store!Sequence), p1, buf, one)
    BY <2>2, <2>3, <2>4, TagAt
  <2> QED BY <2>1, <2>5
<1>2. At(Store!Inside(Store!OuterLength(buf)), p2, buf, p1)
  <2>1. p1 <= Len(f) /\ 1 < p1 /\ 1 <= p1 /\ p2 = p1 + h
    BY <1>p
  <2>2. (h = 1 => f[p1] < 128) /\ (h # 1 => f[p1] = 127 + h)
    BY <1>f, <1>p
  <2> QED BY <1>1, <2>1, <2>2, InsideAt DEF Store!OuterLength
<1>3. At(Store!ExpectTag(buf, Store!Inside(Store!OuterLength(buf)), Store!Integer), p3, buf, p2)
  <2>1. p2 <= Len(f) /\ p1 < p2 /\ 1 <= p2 /\ p3 = p2 + 1 /\ f[p2] = Store!Integer
    BY <1>f, <1>p
  <2> QED BY <1>2, <2>1, TagAt
<1>4. At(Store!Beyond(Store!VersionLength(buf)), p5, buf, p3)
  <2>1. p3 <= Len(f) /\ p2 < p3 /\ 1 <= p3 /\ p5 = p3 + 1 + 1 /\ f[p3] = 1 /\ 1 < 128
    BY <1>f, <1>p
  <2> QED BY <1>3, <2>1, BeyondAt DEF Store!VersionLength
<1>5. At(Store!ExpectTag(buf, Store!Beyond(Store!VersionLength(buf)), Store!Sequence), p6, buf, p5)
  <2>1. p5 <= Len(f) /\ p3 < p5 /\ 1 <= p5 /\ p6 = p5 + 1 /\ f[p5] = Store!Sequence
    BY <1>f, <1>p
  <2> QED BY <1>4, <2>1, TagAt
<1>6. At(Store!Inside(Store!AlgIdLength(buf)), p7, buf, p6)
  <2>1. p6 <= Len(f) /\ p5 < p6 /\ 1 <= p6 /\ p7 = p6 + 1 /\ f[p6] = 11 /\ f[p6] < 128 /\ 1 \in 1..3
    BY <1>f, <1>p
  <2> QED BY <1>5, <2>1, InsideAt DEF Store!AlgIdLength
<1>7. At(Store!Beyond(Store!AlgIdLength(buf)), p18, buf, p6)
  <2>1. p6 <= Len(f) /\ p5 < p6 /\ 1 <= p6 /\ p18 = p6 + 1 + 11 /\ f[p6] = 11 /\ 11 < 128
    BY <1>f, <1>p
  <2> QED BY <1>5, <2>1, BeyondAt DEF Store!AlgIdLength
<1>8. At(Store!ExpectTag(buf, Store!Inside(Store!AlgIdLength(buf)), Store!ObjectId), p8, buf, p7)
  <2>1. p7 <= Len(f) /\ p6 < p7 /\ 1 <= p7 /\ p8 = p7 + 1 /\ f[p7] = Store!ObjectId
    BY <1>f, <1>p
  <2> QED BY <1>6, <2>1, TagAt
<1>9. Store!OidLength(buf) = IF p8 <= Len(buf) THEN [length |-> 9, next |-> p8 + 1] ELSE Error
  <2>1. p8 <= Len(f) /\ p7 < p8 /\ 1 <= p8 /\ f[p8] = 9 /\ 9 < 128 /\ 9 \in Nat
    BY <1>f, <1>p
  <2> QED BY <1>8, <2>1, ShortAt DEF Store!OidLength
<1>10. At(Store!ExpectTag(buf, Store!Beyond(Store!AlgIdLength(buf)), Store!OctetString), p19, buf, p18)
  <2>1. p18 <= Len(f) /\ p6 < p18 /\ 1 <= p18 /\ p19 = p18 + 1 /\ f[p18] = Store!OctetString
    BY <1>f, <1>p
  <2> QED BY <1>7, <2>1, TagAt
<1>11. At(Store!Inside(Store!OctetsLength(buf)), q, buf, p19)
  <2>1. p19 <= Len(f) /\ p18 < p19 /\ 1 <= p19 /\ q = p19 + g
    BY <1>p
  <2>2. (g = 1 => f[p19] < 128) /\ (g # 1 => f[p19] = 127 + g)
    BY <1>f, <1>p
  <2> QED BY <1>10, <2>1, <2>2, InsideAt DEF Store!OctetsLength
<1>12. 8 + h = p8 /\ 9 + h = p8 + 1
  BY <1>p
<1> QED BY <1>p, <1>9, <1>11, <1>12

\* A file that holds an expanded key, cut or longer, has no seed.
LEMMA NoSeed ==
  ASSUME NEW buf, NEW f, Agrees(buf, f), NEW o, NEW inner \in Seq(Store!Byte), NEW h \in 1..3,
         NEW g \in 1..3,
         Framed(f, o, inner, h, g), Len(inner) >= 2, inner[1] # Store!SeedChoice
  PROVE  Store!SeedLength(buf) = Error
<1>1. At(Store!Inside(Store!OctetsLength(buf)), 19 + h + g, buf, 19 + h)
  BY ReaderAt
<1>2. Part(f, 18 + h + g, inner, Len(inner)) /\ Len(f) = 18 + h + g + Len(inner)
  BY DEF Framed
<1>3. PICK p \in Nat, last \in Nat, k \in Nat : p = 19 + h + g /\ last = 19 + h /\ k = 18 + h + g
  OBVIOUS
<1>4. f[p] = inner[1]
  <2>1. PICK m \in Nat, i \in Nat : m = Len(inner) /\ i = 1 /\ p = k + i /\ i <= m /\ 1 <= i
    BY <1>2, <1>3
  <2>2. Part(f, k, inner, m)
    BY <1>2, <1>3, <2>1
  <2>3. f[p] = inner[i]
    BY <2>1, <2>2, PartAt
  <2> QED BY <2>1, <2>3
<1>5. 1 <= p /\ p <= Len(f) /\ At(Store!Inside(Store!OctetsLength(buf)), p, buf, last)
  BY <1>1, <1>2, <1>3
<1>6. Store!ExpectTag(buf, Store!Inside(Store!OctetsLength(buf)), Store!SeedChoice) = Error
  BY <1>4, <1>5, OtherTag
<1> QED BY <1>6, ErrorReads DEF Store!SeedLength

\* One that holds a seed tells its length, if that byte is there.
LEMMA SeedAt ==
  ASSUME NEW buf, NEW f, Agrees(buf, f), NEW o, NEW inner \in Seq(Store!Byte), NEW n \in Nat,
         Framed(f, o, inner, 1, 1), Len(inner) >= 2, inner[1] = Store!SeedChoice, inner[2] = n, n < 128
  PROVE  Store!SeedLength(buf) = IF 22 <= Len(buf) THEN [length |-> n, next |-> 23] ELSE Error
<1>0. 1 \in 1..3
  OBVIOUS
<1>1. At(Store!Inside(Store!OctetsLength(buf)), 19 + 1 + 1, buf, 19 + 1)
  BY <1>0, ReaderAt
<1>2. Part(f, 18 + 1 + 1, inner, Len(inner)) /\ Len(f) = 18 + 1 + 1 + Len(inner)
  BY DEF Framed
<1>3. PICK p \in Nat, last \in Nat, k \in Nat, q \in Nat : p = 21 /\ last = 20 /\ k = 20 /\ q = 22
  OBVIOUS
<1>4. f[p] = inner[1] /\ f[q] = inner[2]
  <2>1. p = k + 1 /\ q = k + 2 /\ 1 <= Len(inner) /\ 2 <= Len(inner) /\ Part(f, k, inner, Len(inner)) /\ Len(inner) \in Nat
    BY <1>2, <1>3
  <2> QED BY <2>1, PartAt
<1>5. /\ 1 <= p /\ p <= Len(f) /\ last < p /\ q = p + 1 /\ q <= Len(f) /\ p < q /\ 1 <= q
      /\ At(Store!Inside(Store!OctetsLength(buf)), p, buf, last)
  BY <1>1, <1>2, <1>3
<1>6. At(Store!ExpectTag(buf, Store!Inside(Store!OctetsLength(buf)), Store!SeedChoice), q, buf, p)
  BY <1>4, <1>5, TagAt
<1>7. Store!SeedLength(buf) = IF q <= Len(buf) THEN [length |-> n, next |-> q + 1] ELSE Error
  BY <1>4, <1>5, <1>6, ShortAt DEF Store!SeedLength
<1> QED BY <1>3, <1>7

\* The elements of a text after its k-th are v.
LEMMA SubIs ==
  ASSUME NEW S, NEW s \in Seq(S), NEW v \in Seq(S), NEW k \in Nat, NEW n \in Nat, n = Len(v),
         k + n <= Len(s), Part(s, k, v, n)
  PROVE  SubSeq(s, k + 1, k + n) = v
<1>1. PICK t : t = SubSeq(s, k + 1, k + n)
  OBVIOUS
<1>2. t \in Seq(S) /\ Len(t) = n
  BY <1>1
<1>3. \A j \in 1..n : t[j] = s[k + j]
  BY <1>1
<1>4. \A j \in 1..n : t[j] = v[j]
  BY <1>3 DEF Part
<1>5. t = v
  BY <1>2, <1>4, SeqEqual
<1> QED BY <1>1, <1>5

\* What a file has from its frame, a cut or longer one has as well.
LEMMA AgreesPart ==
  ASSUME NEW buf, NEW f, Agrees(buf, f), NEW k \in Nat, NEW v, NEW n \in Nat, Part(f, k, v, n),
         k + n <= Len(f), k + n <= Len(buf)
  PROVE  Part(buf, k, v, n)
<1> SUFFICES ASSUME NEW j \in Nat, 1 <= j, j <= n PROVE buf[k + j] = v[j]
  BY DEF Part
<1>1. PICK q \in Nat : q = k + j /\ 1 <= q /\ q <= Len(f) /\ q <= Len(buf)
  BY DEF Agrees
<1>2. buf[q] = f[q]
  BY <1>1 DEF Agrees
<1>3. f[k + j] = v[j]
  BY DEF Part
<1> QED BY <1>1, <1>2, <1>3

\* The bytes from k + 1 on, of which there are enough, or too few.
LEMMA SubarrayIs ==
  ASSUME NEW buf \in Seq(Store!Byte), NEW v \in Seq(Store!Byte), NEW k \in Nat, NEW n \in Nat,
         n = Len(v), k <= Len(buf),
         k + n <= Len(buf) => Part(buf, k, v, n)
  PROVE  /\ k + n <= Len(buf) => Store!Subarray(buf, k + 1, n) = v
         /\ k + n > Len(buf) => Len(Store!Subarray(buf, k + 1, n)) # n
         /\ Store!Subarray(buf, k + 1, n) \in Seq(Store!Byte)
<1>l. PICK l \in Nat, q \in Nat, sub \in {Store!Subarray(buf, k + 1, n)} :
        l = Len(buf) /\ q = k + n /\ sub = Store!Subarray(buf, k + 1, n)
  OBVIOUS
<1>s. sub = SubSeq(buf, k + 1, IF k + 1 + n - 1 < l THEN k + 1 + n - 1 ELSE l)
  BY <1>l DEF Store!Subarray
<1>1. CASE q <= l
  <2>1. sub = SubSeq(buf, k + 1, q)
    <3>1. (IF k + 1 + n - 1 < l THEN k + 1 + n - 1 ELSE l) = q
      BY <1>1, <1>l
    <3> QED BY <1>s, <3>1
  <2>2. SubSeq(buf, k + 1, q) = v
    <3>1. k + n <= Len(buf)
      BY <1>1, <1>l
    <3>2. Part(buf, k, v, n)
      BY <3>1
    <3>3. SubSeq(buf, k + 1, k + n) = v
      BY <3>1, <3>2, SubIs
    <3> QED BY <1>l, <3>3
  <2>3. sub = v /\ ~(q > l)
    BY <1>1, <2>1, <2>2
  <2> QED BY <1>1, <1>l, <2>3
<1>2. CASE q > l
  <2>1. sub = SubSeq(buf, k + 1, l)
    <3>1. (IF k + 1 + n - 1 < l THEN k + 1 + n - 1 ELSE l) = l
      BY <1>2, <1>l
    <3> QED BY <1>s, <3>1
  <2>2. sub \in Seq(Store!Byte) /\ Len(sub) = l - k
    <3>1. k + 1 \in Nat /\ l \in Nat /\ k <= l /\ \A i \in (k + 1)..l : i \in 1..l
      BY <1>l
    <3>2. SubSeq(buf, k + 1, l) \in Seq(Store!Byte) /\ Len(SubSeq(buf, k + 1, l)) = IF k + 1 <= l THEN l - (k + 1) + 1 ELSE 0
      BY <1>l, <3>1, SubSeqProperties
    <3> QED BY <2>1, <3>1, <3>2
  <2>3. Len(sub) # n /\ ~(q <= l)
    BY <1>2, <1>l, <2>2
  <2> QED BY <1>2, <1>l, <2>2, <2>3
<1> QED BY <1>1, <1>2, <1>l

\* The algorithm a file names, as long as its seed is measured.
LEMMA AlgsAre ==
  ASSUME NEW alg \in Store!SeedAlgorithms, NEW sub, sub = Store!Oid(alg)
  PROVE  {a \in Store!SeedAlgorithms : Store!Oid(a) = sub} = {alg}
BY OidIs

\* The whole frame of a seed.
Inner(inner, f, alg, seed, n) ==
  /\ Framed(f, Store!Oid(alg), inner, 1, 1) /\ Len(inner) = 2 + n
  /\ inner[1] = Store!SeedChoice /\ inner[2] = n /\ Part(inner, 2, seed, n)

\* exportSeedPkcs8 of a seed.
LEMMA SeedFile ==
  ASSUME NEW alg \in Store!SeedAlgorithms, NEW seed \in Seq(Store!Byte), NEW n \in Nat, n = Len(seed),
         n < 98, NEW f,
         f = Store!Pkcs8(alg, Store!Der(Store!SeedChoice, seed))
  PROVE  /\ f \in Seq(Store!Byte) /\ Len(f) = 22 + n
         /\ \E inner \in Seq(Store!Byte) : Inner(inner, f, alg, seed, n)
<1>1. PICK inner : inner = Store!Der(Store!SeedChoice, seed)
  OBVIOUS
<1>2. IsDer(inner, Store!SeedChoice, seed, 1)
  <2>1. Len(seed) < 128 /\ Store!SeedChoice \in Store!Byte
    BY TagsAre
  <2> QED BY <1>1, <2>1, ShortDerIs
<1>a. /\ inner \in Seq(Store!Byte) /\ Len(inner) = 1 + 1 + Len(seed)
      /\ inner[1] = Store!SeedChoice /\ inner[2] = Len(seed) /\ Part(inner, 1 + 1, seed, Len(seed))
  BY <1>2 DEF IsDer
<1>b. Len(inner) = 2 + n /\ 1 + 1 = 2
  BY <1>a
<1>3. /\ inner \in Seq(Store!Byte) /\ Len(inner) = 2 + n
      /\ inner[1] = Store!SeedChoice /\ inner[2] = n /\ Part(inner, 2, seed, n)
  BY <1>a, <1>b
<1>4. PICK h \in 1..3, g \in 1..3 :
        Framed(Store!Pkcs8(alg, inner), Store!Oid(alg), inner, h, g) /\ (Len(inner) < 100 => h = 1 /\ g = 1)
  <2>1. Len(inner) < 60000
    BY <1>3
  <2> QED BY <1>3, <2>1, Pkcs8Is
<1>5. Framed(f, Store!Oid(alg), inner, 1, 1)
  BY <1>1, <1>3, <1>4
<1>6. f \in Seq(Store!Byte) /\ Len(f) = 18 + 1 + 1 + Len(inner)
  BY <1>5 DEF Framed
<1>7. Inner(inner, f, alg, seed, n)
  BY <1>3, <1>5 DEF Inner
<1>8. f \in Seq(Store!Byte) /\ Len(f) = 22 + n
  BY <1>3, <1>6
<1> QED BY <1>3, <1>7, <1>8

\* What importSeedPkcs8 makes of the file of a seed, cut or longer: the seed, or
\* what there is of it.
LEMMA ImportKept ==
  ASSUME NEW alg \in Store!SeedAlgorithms, NEW seed \in Seq(Store!Byte), NEW n \in Nat, n = Len(seed),
         n < 98,
         n = Store!SeedBytes(alg), NEW f, f = Store!Pkcs8(alg, Store!Der(Store!SeedChoice, seed)),
         NEW buf, Agrees(buf, f)
  PROVE  Store!ImportSeedPkcs8(buf) =
           IF 22 <= Len(buf) THEN [alg |-> alg, seed |-> Store!Subarray(buf, 23, n)] ELSE Error
<1>0. PICK inner \in Seq(Store!Byte) : Inner(inner, f, alg, seed, n)
  BY SeedFile
<1>1. /\ Framed(f, Store!Oid(alg), inner, 1, 1) /\ Len(inner) = 2 + n
      /\ inner[1] = Store!SeedChoice /\ inner[2] = n /\ Part(inner, 2, seed, n)
  BY <1>0 DEF Inner
<1>a. f \in Seq(Store!Byte) /\ Len(f) = 18 + 1 + 1 + Len(inner)
  BY <1>1 DEF Framed
<1>2. f \in Seq(Store!Byte) /\ Len(f) = 22 + n
  BY <1>1, <1>a
<1>l. PICK l \in Nat : l = Len(buf) /\ buf \in Seq(Store!Byte)
  BY DEF Agrees
<1>3. Store!SeedLength(buf) = IF 22 <= l THEN [length |-> n, next |-> 23] ELSE Error
  <2>1. Len(inner) >= 2 /\ n < 128
    BY <1>1
  <2> QED BY <1>1, <1>l, <2>1, SeedAt
<1>4. CASE ~(22 <= l)
  <2>1. Store!SeedLength(buf) = Error
    BY <1>3, <1>4
  <2>2. Store!ImportSeedPkcs8(buf) = Error
    BY <2>1 DEF Store!ImportSeedPkcs8
  <2> QED BY <1>4, <1>l, <2>2
<1>5. CASE 22 <= l
  <2>1. Store!OidLength(buf) = [length |-> 9, next |-> 10]
    <3>1. Store!OidLength(buf) = IF 8 + 1 <= Len(buf) THEN [length |-> 9, next |-> 9 + 1] ELSE Error
      <4>1. Len(inner) >= 2 /\ 1 \in 1..3
        BY <1>1
      <4> QED BY <1>1, <4>1, ReaderAt
    <3> QED BY <1>5, <1>l, <3>1
  <2>2. Store!Subarray(buf, 10, 9) = Store!Oid(alg)
    <3>1. PICK k \in Nat, m \in Nat : k = 9 /\ m = 9
      OBVIOUS
    <3>2. PICK o \in Seq(Store!Byte) : o = Store!Oid(alg) /\ m = Len(o)
      BY <3>1, OidIs
    <3>3. Part(f, k, o, m)
      BY <1>1, <3>1, <3>2 DEF Framed
    <3>4. k + m <= Len(f) /\ k + m <= Len(buf) /\ k <= Len(buf)
      BY <1>2, <1>5, <1>l, <3>1
    <3>5. Part(buf, k, o, m)
      BY <3>3, <3>4, AgreesPart
    <3>6. Store!Subarray(buf, k + 1, m) = o
      BY <1>l, <3>2, <3>4, <3>5, SubarrayIs
    <3> QED BY <3>1, <3>2, <3>6
  <2>3. /\ Store!OidLength(buf) # Error
        /\ Store!OidLength(buf).next = 10 /\ Store!OidLength(buf).length = 9
    <3>1. [length |-> 9, next |-> 10] # Error
      BY ErrorIs
    <3> QED BY <2>1, <3>1
  <2>4. /\ Store!SeedLength(buf) # Error
        /\ Store!SeedLength(buf).next = 23 /\ Store!SeedLength(buf).length = n
    <3>1. [length |-> n, next |-> 23] # Error
      BY ErrorIs
    <3> QED BY <1>3, <1>5, <3>1
  <2>5. {a \in Store!SeedAlgorithms : Store!Oid(a) = Store!Subarray(buf, 10, 9)} = {alg}
    BY <2>2, AlgsAre
  <2>6. Store!ImportSeedPkcs8(buf) = [alg |-> alg, seed |-> Store!Subarray(buf, 23, n)]
    <3>1. (CHOOSE a \in {alg} : TRUE) = alg
      OBVIOUS
    <3> QED BY <2>3, <2>4, <2>5, <3>1 DEF Store!ImportSeedPkcs8
  <2> QED BY <1>5, <1>l, <2>6
<1> QED BY <1>4, <1>5

\* The seed is the last part of its file.
LEMMA SeedPart ==
  ASSUME NEW alg \in Store!SeedAlgorithms, NEW seed \in Seq(Store!Byte), NEW n \in Nat, n = Len(seed),
         n < 98, NEW f, f = Store!Pkcs8(alg, Store!Der(Store!SeedChoice, seed)), NEW j \in Nat, j = 22
  PROVE  Part(f, j, seed, n)
<1>1. PICK inner \in Seq(Store!Byte) : Inner(inner, f, alg, seed, n)
  BY SeedFile
<1>2. Part(f, 18 + 1 + 1, inner, Len(inner)) /\ Len(inner) = 2 + n /\ Part(inner, 2, seed, n)
  BY <1>1 DEF Inner, Framed
<1>3. PICK p \in Nat, m \in Nat, t \in Nat : p = 20 /\ m = 2 + n /\ t = 2
  OBVIOUS
<1>4. Part(f, p, inner, m) /\ Part(inner, t, seed, n) /\ t + n <= m /\ j = p + t
  BY <1>2, <1>3
<1> QED BY <1>4, PartOfPart

\* The sizes of seeds.
LEMMA SizesAre ==
  ASSUME NEW alg \in Store!SeedAlgorithms
  PROVE  Store!SeedBytes(alg) \in {32, 64}
BY DEF Store!SeedBytes

\* The elements of a part.
LEMMA SubseqIs ==
  ASSUME NEW S, NEW s \in Seq(S), NEW k \in Nat, NEW n \in Nat, k + n <= Len(s)
  PROVE  /\ SubSeq(s, k + 1, k + n) \in Seq(S) /\ Len(SubSeq(s, k + 1, k + n)) = n
         /\ \A i \in 1..n : SubSeq(s, k + 1, k + n)[i] = s[k + i]
OBVIOUS

\* importSeedPkcs8 (seed.js) gives back what exportSeedPkcs8 wrote, with whatever
\* bytes after it.
THEOREM SeedsRoundTrip ==
  ASSUME NEW alg \in Store!SeedAlgorithms, NEW seed \in Seq(Store!Byte), Len(seed) = Store!SeedBytes(alg),
         NEW more \in Seq(Store!Byte)
  PROVE  Store!ImportSeedPkcs8(Store!ExportSeedPkcs8(alg, seed) \o more) = [alg |-> alg, seed |-> seed]
<1>0. PICK n \in Nat, j \in Nat : n = Len(seed) /\ n = Store!SeedBytes(alg) /\ n < 98 /\ j = 22
  BY SizesAre
<1>1. PICK f : /\ n = Len(seed) /\ n = Store!SeedBytes(alg) /\ n < 98 /\ j = 22
               /\ f = Store!Pkcs8(alg, Store!Der(Store!SeedChoice, seed))
  BY <1>0
<1>2. Store!ExportSeedPkcs8(alg, seed) = f
  BY <1>1 DEF Store!ExportSeedPkcs8
<1>3. f \in Seq(Store!Byte) /\ Len(f) = j + n
  BY <1>1, SeedFile
<1>4. PICK buf : buf = f \o more
  OBVIOUS
<1>5. /\ buf \in Seq(Store!Byte) /\ Len(buf) = Len(f) + Len(more) /\ Len(more) \in Nat
      /\ \A i \in 1..Len(f) : buf[i] = f[i]
  <2>1. /\ f \o more \in Seq(Store!Byte) /\ Len(f \o more) = Len(f) + Len(more)
        /\ \A i \in 1..(Len(f) + Len(more)) :
             (f \o more)[i] = IF i <= Len(f) THEN f[i] ELSE more[i - Len(f)]
    BY <1>3, ConcatProperties, Zenon
  <2>2. Len(f) \in Nat /\ Len(more) \in Nat
    BY <1>3
  <2> QED BY <1>4, <2>1, <2>2
<1>6. Agrees(buf, f)
  BY <1>3, <1>5 DEF Agrees
<1>7. Store!ImportSeedPkcs8(buf) =
        IF 22 <= Len(buf) THEN [alg |-> alg, seed |-> Store!Subarray(buf, 23, n)] ELSE Error
  BY <1>1, <1>6, ImportKept
<1>8. Part(f, j, seed, n)
  BY <1>1, SeedPart
<1>9. j + n <= Len(f) /\ j + n <= Len(buf) /\ j <= Len(buf)
  BY <1>3, <1>5
<1>10. Part(buf, j, seed, n)
  BY <1>6, <1>8, <1>9, AgreesPart
<1>11. Store!Subarray(buf, j + 1, n) = seed
  BY <1>1, <1>5, <1>9, <1>10, SubarrayIs
<1> QED BY <1>1, <1>2, <1>4, <1>7, <1>9, <1>11

\* And of a file cut in the seed or right before it, what is left of the seed: it
\* is never refused, and never whole (ImportedSeedIsWhole).
THEOREM CutSeedsImport ==
  ASSUME NEW alg \in Store!SeedAlgorithms, NEW seed \in Seq(Store!Byte), Len(seed) = Store!SeedBytes(alg),
         NEW kept \in Nat, kept < Len(seed)
  PROVE  Store!ImportSeedPkcs8(SubSeq(Store!ExportSeedPkcs8(alg, seed), 1, 22 + kept))
           = [alg |-> alg, seed |-> SubSeq(seed, 1, kept)]
<1>0. PICK n \in Nat, j \in Nat : n = Len(seed) /\ n = Store!SeedBytes(alg) /\ n < 98 /\ j = 22
  BY SizesAre
<1>1. PICK f : /\ n = Len(seed) /\ n = Store!SeedBytes(alg) /\ n < 98 /\ j = 22
               /\ f = Store!Pkcs8(alg, Store!Der(Store!SeedChoice, seed))
  BY <1>0
<1>2. Store!ExportSeedPkcs8(alg, seed) = f
  BY <1>1 DEF Store!ExportSeedPkcs8
<1>3. f \in Seq(Store!Byte) /\ Len(f) = j + n
  BY <1>1, SeedFile
<1>4. PICK l \in Nat, buf \in {SubSeq(f, 1, j + kept)} :
        l = j + kept /\ l < j + n /\ buf = SubSeq(f, 1, l)
  <2>1. j + kept \in Nat /\ j + kept < j + n
    BY <1>1
  <2> QED BY <2>1
<1>5. buf \in Seq(Store!Byte) /\ Len(buf) = l /\ \A i \in 1..l : buf[i] = f[i]
  BY <1>3, <1>4
<1>6. Agrees(buf, f)
  BY <1>3, <1>4, <1>5 DEF Agrees
<1>7. Store!ImportSeedPkcs8(buf) =
        IF 22 <= Len(buf) THEN [alg |-> alg, seed |-> Store!Subarray(buf, 23, n)] ELSE Error
  BY <1>1, <1>6, ImportKept
<1>8. 22 <= Len(buf)
  BY <1>1, <1>4, <1>5
<1>9. PICK part : part = SubSeq(seed, 1, kept)
  OBVIOUS
<1>10. part \in Seq(Store!Byte) /\ Len(part) = kept /\ \A i \in 1..kept : part[i] = seed[i]
  BY <1>1, <1>9
<1>11. Part(f, j, part, kept)
  <2>1. Part(f, j, seed, n)
    BY <1>1, SeedPart
  <2>2. \A i \in Nat : 1 <= i /\ i <= kept => i <= n /\ i \in 1..kept
    BY <1>1
  <2> QED BY <1>10, <2>1, <2>2 DEF Part
<1>12. Part(buf, j, part, kept)
  <2>1. j + kept <= Len(f) /\ j + kept <= Len(buf)
    BY <1>3, <1>4, <1>5
  <2> QED BY <1>6, <1>11, <2>1, AgreesPart
<1>13. SubSeq(buf, j + 1, j + kept) = part
  <2>1. PICK t : t = SubSeq(buf, j + 1, j + kept)
    OBVIOUS
  <2>2. t \in Seq(Store!Byte) /\ Len(t) = kept /\ \A i \in 1..kept : t[i] = buf[j + i]
    <3>1. j + kept <= Len(buf) /\ buf \in Seq(Store!Byte)
      BY <1>4, <1>5
    <3>2. j \in Nat /\ kept \in Nat
      OBVIOUS
    <3>3. /\ SubSeq(buf, j + 1, j + kept) \in Seq(Store!Byte) /\ Len(SubSeq(buf, j + 1, j + kept)) = kept
          /\ \A i \in 1..kept : SubSeq(buf, j + 1, j + kept)[i] = buf[j + i]
      BY <3>1, <3>2, SubseqIs, Zenon
    <3> QED BY <2>1, <3>3, Zenon
  <2>3. \A i \in 1..kept : t[i] = part[i]
    BY <1>12, <2>2 DEF Part
  <2>4. t = part
    BY <1>10, <2>2, <2>3, SeqEqual
  <2> QED BY <2>1, <2>4
<1>14. Store!Subarray(buf, 23, n) = part
  <2>1. (IF 23 + n - 1 < Len(buf) THEN 23 + n - 1 ELSE Len(buf)) = j + kept
    BY <1>1, <1>4, <1>5
  <2>2. j + 1 = 23
    BY <1>1
  <2> QED BY <1>13, <2>1, <2>2 DEF Store!Subarray
<1>15. l = 22 + kept
  BY <1>1, <1>4
<1> QED BY <1>2, <1>4, <1>7, <1>8, <1>9, <1>14, <1>15

\* Of the file of an expanded key it makes nothing, as it makes of no seed.
LEMMA ImportExpanded ==
  ASSUME NEW alg \in Store!SeedAlgorithms, NEW payload \in Seq(Store!Byte), Len(payload) <= 4896, NEW f,
         f = Store!Pkcs8(alg, Store!Der(Store!OctetString, payload)), NEW buf, Agrees(buf, f)
  PROVE  Store!ImportSeedPkcs8(buf) = Error
<1>1. PICK inner : inner = Store!Der(Store!OctetString, payload)
  OBVIOUS
<1>2. PICK d \in 1..3 : IsDer(inner, Store!OctetString, payload, d)
  <2>1. Len(payload) < 65536 /\ Store!OctetString \in Store!Byte
    BY TagsAre
  <2> QED BY <1>1, <2>1, DerIs
<1>3. inner \in Seq(Store!Byte) /\ Len(inner) >= 2 /\ Len(inner) < 60000 /\ inner[1] = Store!OctetString
  BY <1>2 DEF IsDer
<1>4. PICK h \in 1..3, g \in 1..3 : Framed(f, Store!Oid(alg), inner, h, g)
  BY <1>1, <1>3, Pkcs8Is
<1>5. inner[1] # Store!SeedChoice
  BY <1>3 DEF Store!OctetString, Store!SeedChoice
<1>6. Store!SeedLength(buf) = Error
  BY <1>3, <1>4, <1>5, NoSeed
<1> QED BY <1>6 DEF Store!ImportSeedPkcs8

--------------------------------------------------------------------------------
(* seed.js: what is kept, and what is loaded. *)

\* A key that an issuer may have derived: it is its set and a whole seed.
Derived(k) ==
  /\ k.alg \in Store!SeedAlgorithms /\ k.seed \in Seq(Store!Byte) /\ Len(k.seed) = Store!SeedBytes(k.alg)
  /\ k = Store!Key(k.alg, k.seed) /\ k \in Keys

SeedFileOf(k) == Store!Pkcs8(k.alg, Store!Der(Store!SeedChoice, k.seed))
ExpandedFile(alg, payload) == Store!Pkcs8(alg, Store!Der(Store!OctetString, payload))

\* What a JWK of a key has become, if one member at most has been exchanged.
JwkOf(c, k) ==
  c.alg \in Store!SeedAlgorithms /\ (c.pub = k.pub \/ (c.alg = k.alg /\ c.priv \in {None, k.seed}))

\* What a key is.
LEMMA KeyIs ==
  ASSUME NEW alg, NEW seed, NEW k, k = Store!Key(alg, seed)
  PROVE  k.alg = alg /\ k.seed = seed /\ k.pub = <<alg, seed>> /\ k = Store!Key(k.alg, k.seed)
BY DEF Store!Key

\* keypairFromMaster is keypairFromSeed of the seed, with the same defaults.
LEMMA DerivedKey ==
  ASSUME NEW alg \in Store!SeedAlgorithms, NEW master \in Masters, NEW info \in Labels \cup {None}
  PROVE  /\ Derived(Store!KeypairFromMaster(alg, master, info))
         /\ Store!KeypairFromMaster(alg, master, info) = Store!Key(alg, Store!SeedFromMaster(alg, master, info))
<1>1. PICK seed, k : seed = Store!SeedFromMaster(alg, master, info) /\ k = Store!KeypairFromMaster(alg, master, info)
  OBVIOUS
<1>2. seed \in Seq(Store!Byte) /\ k \in Keys
  BY <1>1, CustodyAssumption DEF Store!Bytes
<1>3. alg \in {"ML-DSA-65", "ML-DSA-87", "ML-KEM-768", "ML-KEM-1024"}
  BY DEF Store!SeedAlgorithms, Store!Sigs, Store!Kems
<1>4. k = Store!Key(alg, seed)
  <2>1. k = Store!Key(alg, Store!DeriveSeed(master, IF info = None THEN Store!Info(alg) ELSE info, Store!SeedBytes(alg)))
    BY <1>1, <1>3 DEF Store!KeypairFromMaster, Store!Info, Store!SeedBytes
  <2> QED BY <1>1, <2>1 DEF Store!SeedFromMaster
<1>5. Len(seed) = Store!SeedBytes(alg)
  <2>1. PICK n \in Nat : n = Store!SeedBytes(alg)
    BY SizesAre
  <2>2. PICK label : label = IF info = None THEN Store!Info(alg) ELSE info
    OBVIOUS
  <2>3. PICK b : b = Stream[master, label]
    BY Zenon
  <2>4. seed = Store!DeriveSeed(master, label, n)
    BY <1>1, <2>1, <2>2 DEF Store!SeedFromMaster
  <2>5. seed = [i \in 1..n |-> b]
    BY <2>3, <2>4, Zenon DEF Store!DeriveSeed
  <2>6. DOMAIN seed = 1..n
    BY <2>5
  <2> QED BY <1>2, <2>1, <2>6
<1>6. k.alg = alg /\ k.seed = seed /\ k = Store!Key(k.alg, k.seed)
  BY <1>4, KeyIs
<1> QED BY <1>1, <1>2, <1>4, <1>5, <1>6 DEF Derived

\* A key is told from what throws.
LEMMA KeyIsNoError ==
  ASSUME NEW alg \in Store!SeedAlgorithms, NEW seed \in Seq(Store!Byte) \cup {None},
         NEW s \in Seq(Store!Byte),
         NEW a \in Store!SeedAlgorithms
  PROVE  [alg |-> alg, seed |-> seed, pub |-> <<a, s>>] # Error
<1>1. <<a, s>> \in Store!SeedAlgorithms \X Store!Bytes
  BY DEF Store!Bytes
<1>2. [alg |-> alg, seed |-> seed, pub |-> <<a, s>>] \in
        [alg : Store!SeedAlgorithms, seed : {None} \cup Store!Bytes, pub : Store!SeedAlgorithms \X Store!Bytes]
  BY <1>1 DEF Store!Bytes
<1> QED BY <1>2, CustodyAssumption

\* What a process makes of a file.
LoadOf(form, content) ==
  IF form # "pkcs8" THEN Store!ImportJwk(content)
  ELSE LET read == Store!ImportSeedPkcs8(content) IN
       IF read = Error THEN Error ELSE Store!KeypairFromSeed(read.alg, read.seed)

\* The file of a seed, cut or longer, loads as the key or not at all.
LEMMA LoadKept ==
  ASSUME NEW k, Derived(k), NEW buf, Agrees(buf, SeedFileOf(k))
  PROVE  /\ LoadOf("pkcs8", buf) \in {Error, k}
         /\ buf = SeedFileOf(k) => LoadOf("pkcs8", buf) = k
<1>1. PICK alg \in Store!SeedAlgorithms, seed \in Seq(Store!Byte), n \in Nat, f \in {SeedFileOf(k)} :
        /\ alg = k.alg /\ seed = k.seed /\ n = Len(seed) /\ n < 98 /\ n = Store!SeedBytes(alg)
        /\ f = SeedFileOf(k) /\ f = Store!Pkcs8(alg, Store!Der(Store!SeedChoice, seed))
  <2>1. Len(k.seed) \in {32, 64}
    BY SizesAre DEF Derived
  <2> QED BY <2>1 DEF Derived, SeedFileOf
<1>2. Agrees(buf, f)
  BY <1>1
<1>3. Store!ImportSeedPkcs8(buf) =
        IF 22 <= Len(buf) THEN [alg |-> alg, seed |-> Store!Subarray(buf, 23, n)] ELSE Error
  BY <1>1, <1>2, ImportKept
<1>4. f \in Seq(Store!Byte) /\ Len(f) = 22 + n /\ buf \in Seq(Store!Byte)
  BY <1>1, <1>2, SeedFile DEF Agrees
<1>5. CASE ~(22 <= Len(buf))
  <2>1. LoadOf("pkcs8", buf) = Error
    BY <1>3, <1>5 DEF LoadOf
  <2>2. buf # f
    BY <1>4, <1>5
  <2> QED BY <1>1, <2>1, <2>2
<1>6. CASE 22 <= Len(buf)
  <2>1. PICK sub : sub = Store!Subarray(buf, 23, n)
    OBVIOUS
  <2>2. PICK j \in Nat : j = 22 /\ j <= Len(buf)
    BY <1>6
  <2>3. /\ j + n <= Len(buf) => sub = seed
        /\ j + n > Len(buf) => Len(sub) # n
        /\ sub \in Seq(Store!Byte)
    <3>1. j + n <= Len(buf) => Part(buf, j, seed, n)
      <4>1. Part(f, j, seed, n)
        BY <1>1, <2>2, SeedPart
      <4>2. j + n <= Len(f)
        BY <1>4, <2>2
      <4> QED BY <1>2, <4>1, <4>2, AgreesPart
    <3>2. sub = Store!Subarray(buf, j + 1, n)
      BY <2>1, <2>2
    <3>3. /\ j + n <= Len(buf) => Store!Subarray(buf, j + 1, n) = seed
          /\ j + n > Len(buf) => Len(Store!Subarray(buf, j + 1, n)) # n
          /\ Store!Subarray(buf, j + 1, n) \in Seq(Store!Byte)
      <4>1. n = Len(seed) /\ j <= Len(buf) /\ buf \in Seq(Store!Byte)
        BY <1>1, <1>4, <2>2
      <4> QED BY <3>1, <4>1, SubarrayIs
    <3> QED BY <3>2, <3>3
  <2>4. [alg |-> alg, seed |-> sub] # Error
    BY <2>3, CustodyAssumption DEF Store!Bytes
  <2>5. LoadOf("pkcs8", buf) = Store!KeypairFromSeed(alg, sub)
    BY <1>3, <1>6, <2>1, <2>4 DEF LoadOf
  <2>6. k = Store!Key(alg, seed)
    BY <1>1 DEF Derived
  <2>7. CASE j + n <= Len(buf)
    <3>1. LoadOf("pkcs8", buf) = k
      BY <1>1, <2>3, <2>5, <2>6, <2>7 DEF Store!KeypairFromSeed
    <3> QED BY <3>1
  <2>8. CASE j + n > Len(buf)
    <3>1. LoadOf("pkcs8", buf) = Error
      BY <1>1, <2>3, <2>5, <2>8 DEF Store!KeypairFromSeed
    <3>2. buf # f
      BY <1>4, <2>2, <2>8
    <3> QED BY <1>1, <3>1, <3>2
  <2>9. Len(buf) \in Nat
    BY <1>4
  <2> QED BY <2>7, <2>8, <2>9
<1> QED BY <1>5, <1>6

\* That of an expanded key does not load.
LEMMA LoadExpanded ==
  ASSUME NEW alg \in Store!SeedAlgorithms, NEW payload \in Seq(Store!Byte), Len(payload) <= 4896,
         NEW buf,
         Agrees(buf, ExpandedFile(alg, payload))
  PROVE  LoadOf("pkcs8", buf) = Error
<1>1. PICK f : f = ExpandedFile(alg, payload) /\ f = Store!Pkcs8(alg, Store!Der(Store!OctetString, payload))
  BY DEF ExpandedFile
<1>2. Store!ImportSeedPkcs8(buf) = Error
  BY <1>1, ImportExpanded
<1> QED BY <1>2 DEF LoadOf

\* A key's JWK as it is written.
Jwk(k, form) == [alg |-> k.alg, pub |-> k.pub, priv |-> IF form = "private jwk" THEN k.seed ELSE None]

\* A private key that a JWK gives is the key it was written for, and the JWK's own.
LEMMA LoadJwk ==
  ASSUME NEW k, Derived(k), NEW c, JwkOf(c, k), NEW form, form # "pkcs8", NEW l, l = LoadOf(form, c),
         l # Error
  PROVE  /\ l.alg \in Store!SeedAlgorithms
         /\ l.seed # None => l = k /\ c.pub = Store!Key(l.alg, l.seed).pub /\ c.priv = l.seed
<1>1. l = Store!ImportJwk(c) /\ c.alg \in Store!SeedAlgorithms
  BY DEF LoadOf, JwkOf
<1>2. CASE c.priv = None
  <2>1. l = [alg |-> c.alg, seed |-> None, pub |-> c.pub]
    BY <1>1, <1>2 DEF Store!ImportJwk
  <2> QED BY <1>1, <2>1
<1>3. CASE c.priv # None
  <2>1. PICK key : key = Store!Key(c.alg, c.priv)
    OBVIOUS
  <2>2. l = key /\ key.pub = c.pub
    BY <1>1, <1>3, <2>1 DEF Store!ImportJwk, Store!Consistent
  <2>3. key.alg = c.alg /\ key.seed = c.priv /\ key.pub = <<c.alg, c.priv>>
    BY <2>1, KeyIs
  <2>4. k = Store!Key(k.alg, k.seed) /\ k.pub = <<k.alg, k.seed>>
    BY KeyIs DEF Derived
  <2>5. c.alg = k.alg /\ c.priv = k.seed
    BY <1>3, <2>2, <2>3, <2>4 DEF JwkOf
  <2> QED BY <1>1, <2>1, <2>2, <2>3, <2>4, <2>5
<1> QED BY <1>2, <1>3

\* A key that was derived is told from what throws, and has a seed.
LEMMA DerivedIsNoError ==
  ASSUME NEW k, Derived(k)
  PROVE  k # Error /\ k.seed # None /\ k.alg \in Store!SeedAlgorithms
<1>1. PICK alg \in Store!SeedAlgorithms, seed \in Seq(Store!Byte) : alg = k.alg /\ seed = k.seed
  BY DEF Derived
<1>2. k = [alg |-> alg, seed |-> seed, pub |-> <<alg, seed>>]
  BY <1>1 DEF Derived, Store!Key
<1>3. k # Error
  BY <1>2, KeyIsNoError
<1> QED BY <1>1, <1>3, CustodyAssumption DEF Store!Bytes

\* A JWK as it was written loads.
LEMMA LoadIntactJwk ==
  ASSUME NEW k, Derived(k), NEW form, form # "pkcs8", NEW l, l = LoadOf(form, Jwk(k, form))
  PROVE  l # Error /\ (IF form = "private jwk" THEN l = k ELSE l.pub = k.pub)
<1>1. PICK c : c = Jwk(k, form) /\ l = Store!ImportJwk(c)
  BY DEF LoadOf
<1>2. k = Store!Key(k.alg, k.seed) /\ k.pub = <<k.alg, k.seed>>
  BY KeyIs DEF Derived
<1>a. /\ c.alg = k.alg /\ c.pub = k.pub
      /\ c.priv = IF form = "private jwk" THEN k.seed ELSE None
  BY <1>1 DEF Jwk
<1>b. <<k.alg, k.seed>>[1] = k.alg
  OBVIOUS
<1>3. /\ c.alg = k.alg /\ c.pub = k.pub /\ c.pub[1] = c.alg
      /\ c.priv = IF form = "private jwk" THEN k.seed ELSE None
  BY <1>2, <1>a, <1>b
<1>4. k.seed # None
  BY CustodyAssumption DEF Derived, Store!Bytes
<1>5. CASE form = "private jwk"
  <2>1. l = IF Store!Consistent(k, c.pub) THEN k ELSE Error
    BY <1>1, <1>2, <1>3, <1>4, <1>5 DEF Store!ImportJwk, Derived
  <2>2. l = k
    BY <1>3, <2>1 DEF Store!Consistent
  <2>3. k # Error
    BY DerivedIsNoError
  <2> QED BY <1>5, <2>2, <2>3
<1>6. CASE form # "private jwk"
  <2>1. l = [alg |-> k.alg, seed |-> None, pub |-> k.pub]
    BY <1>1, <1>3, <1>6 DEF Store!ImportJwk
  <2>2. [alg |-> k.alg, seed |-> None, pub |-> <<k.alg, k.seed>>] # Error
    BY KeyIsNoError DEF Derived
  <2>3. l.pub = k.pub
    BY <2>1
  <2>4. l # Error
    BY <1>2, <2>1, <2>2
  <2> QED BY <1>6, <2>3, <2>4
<1> QED BY <1>5, <1>6

\* What may be in the store: the file of a seed or of an expanded key, cut or
\* longer once it is damaged, or a JWK with a member exchanged.
Seeded(key, intact, content) ==
  Derived(key) /\ Agrees(content, SeedFileOf(key)) /\ (intact => content = SeedFileOf(key))
Expanded(key, intact, content) ==
  /\ key = None
  /\ \E alg \in Store!SeedAlgorithms, payload \in Seq(Store!Byte) :
       /\ Len(payload) <= 4896 /\ Agrees(content, ExpandedFile(alg, payload))
       /\ intact => content = ExpandedFile(alg, payload)
Exchanged(form, key, intact, content) ==
  Derived(key) /\ JwkOf(content, key) /\ (intact => content = Jwk(key, form))
Kept(form, key, intact, content) ==
  /\ form \in Store!Forms /\ intact \in BOOLEAN
  /\ form = "pkcs8" => Seeded(key, intact, content) \/ Expanded(key, intact, content)
  /\ form # "pkcs8" => Exchanged(form, key, intact, content)

\* What it loads as.
Faithful(form, key, intact, content, l) ==
  /\ l # Error => l.alg \in Store!SeedAlgorithms
  /\ l # Error /\ l.seed # None => l = key /\ Derived(key)
  /\ l # Error /\ form = "pkcs8" => l = key
  /\ l # Error /\ l.seed # None /\ form # "pkcs8" => content.pub = Store!Key(l.alg, l.seed).pub /\ content.priv = l.seed
  /\ intact /\ form # "pkcs8" => IF form = "public jwk" THEN l.pub = key.pub ELSE l = key
  /\ intact /\ l = Error => key = None

\* Whatever is kept, however damaged, is loaded faithfully.
LEMMA LoadedIs ==
  ASSUME NEW form, NEW key, NEW intact, NEW content, Kept(form, key, intact, content),
         NEW l, l = LoadOf(form, content)
  PROVE  Faithful(form, key, intact, content, l)
<1>1. CASE form = "pkcs8" /\ Seeded(key, intact, content)
  <2>1. l \in {Error, key} /\ (intact => l = key) /\ Derived(key)
    BY <1>1, LoadKept DEF Seeded
  <2> QED BY <1>1, <2>1, DerivedIsNoError DEF Faithful
<1>2. CASE form = "pkcs8" /\ Expanded(key, intact, content)
  <2>1. l = Error /\ key = None
    BY <1>2, LoadExpanded DEF Expanded
  <2> QED BY <1>2, <2>1 DEF Faithful
<1>3. CASE form # "pkcs8"
  <2>1. Derived(key) /\ JwkOf(content, key) /\ (intact => content = Jwk(key, form)) /\ form \in {"public jwk", "private jwk"}
    BY <1>3 DEF Kept, Exchanged, Store!Forms
  <2>2. l # Error => /\ l.alg \in Store!SeedAlgorithms
                     /\ l.seed # None => l = key /\ content.pub = Store!Key(l.alg, l.seed).pub /\ content.priv = l.seed
    <3> SUFFICES ASSUME l # Error
                 PROVE  /\ l.alg \in Store!SeedAlgorithms
                        /\ l.seed # None =>
                             l = key /\ content.pub = Store!Key(l.alg, l.seed).pub /\ content.priv = l.seed
      OBVIOUS
    <3>1. Derived(key) /\ JwkOf(content, key)
      BY <2>1
    <3> QED BY <1>3, <3>1, LoadJwk
  <2>3. intact => l # Error /\ (IF form = "private jwk" THEN l = key ELSE l.pub = key.pub)
    BY <1>3, <2>1, LoadIntactJwk
  <2>4. form = "public jwk" <=> form # "private jwk"
    BY <2>1
  <2>5. intact => IF form = "public jwk" THEN l.pub = key.pub ELSE l = key
    BY <2>3, <2>4
  <2>6. intact => l # Error
    BY <2>3
  <2> QED BY <1>3, <2>1, <2>2, <2>5, <2>6 DEF Faithful
<1> QED BY <1>1, <1>2, <1>3 DEF Kept

File(s) ==
  \E form, key, intact, content :
    s = [form |-> form, key |-> key, intact |-> intact, content |-> content] /\ Kept(form, key, intact, content)

\* What is kept, and what was loaded from it.
StoreInv ==
  /\ stored # None => File(stored)
  /\ loaded # None => stored # None /\ loaded = LoadOf(stored.form, stored.content)

\* So the invariants of seed.js hold.
LEMMA StoreInvHolds ==
  ASSUME StoreInv
  PROVE  StoreTypeOK /\ LoadedIsTheKeptKey /\ JwkIsOfOneKey /\ IntactLoads
<1>1. CASE stored = None
  <2>1. loaded = None
    BY <1>1 DEF StoreInv
  <2> QED
    BY <1>1, <2>1, CustodyAssumption DEF StoreTypeOK, LoadedIsTheKeptKey, JwkIsOfOneKey, IntactLoads,
       Store!TypeOK, Store!LoadedIsTheKeptKey, Store!JwkIsOfOneKey, Store!IntactLoads
<1>2. CASE stored # None
  <2>1. PICK form, key, intact, content :
          /\ stored = [form |-> form, key |-> key, intact |-> intact, content |-> content]
          /\ Kept(form, key, intact, content)
    BY <1>2 DEF StoreInv, File
  <2>2. stored.form = form /\ stored.key = key /\ stored.intact = intact /\ stored.content = content
    BY <2>1
  <2>3. loaded # None => Faithful(form, key, intact, content, loaded)
    BY <2>1, <2>2, LoadedIs DEF StoreInv
  <2>4. /\ form \in Store!Forms /\ intact \in BOOLEAN
        /\ form = "pkcs8" => content \in Seq(Store!Byte)
    BY <2>1 DEF Kept, Seeded, Expanded, Agrees
  <2>5. form = "pkcs8" => \A i \in DOMAIN content : content[i] \in Store!Byte
    BY <2>4, ElementOfSeq
  <2>6. StoreTypeOK
    BY <1>2, <2>2, <2>3, <2>4, <2>5 DEF StoreTypeOK, Store!TypeOK, Faithful
  <2>7. LoadedIsTheKeptKey
    BY <2>2, <2>3 DEF LoadedIsTheKeptKey, Store!LoadedIsTheKeptKey, Faithful
  <2>8. JwkIsOfOneKey
    BY <2>2, <2>3 DEF JwkIsOfOneKey, Store!JwkIsOfOneKey, Faithful
  <2>9. IntactLoads
    <3>1. None # Error
      BY CustodyAssumption
    <3> QED BY <2>2, <2>3, <3>1 DEF IntactLoads, Store!IntactLoads, Faithful
  <2> QED BY <2>6, <2>7, <2>8, <2>9
<1> QED BY <1>1, <1>2

\* Files are bytes.
LEMMA SeedFileAgrees ==
  ASSUME NEW k, Derived(k)
  PROVE  Agrees(SeedFileOf(k), SeedFileOf(k))
<1>1. PICK alg \in Store!SeedAlgorithms, seed \in Seq(Store!Byte), n \in Nat, f \in {SeedFileOf(k)} :
        /\ n = Len(seed) /\ n < 98
        /\ f = SeedFileOf(k) /\ f = Store!Pkcs8(alg, Store!Der(Store!SeedChoice, seed))
  <2>1. Len(k.seed) \in {32, 64}
    BY SizesAre DEF Derived
  <2> QED BY <2>1 DEF Derived, SeedFileOf
<1>2. f \in Seq(Store!Byte)
  BY <1>1, SeedFile
<1> QED BY <1>1, <1>2 DEF Agrees

LEMMA ExpandedFileAgrees ==
  ASSUME NEW alg \in Store!SeedAlgorithms, NEW payload \in Seq(Store!Byte), Len(payload) <= 4896
  PROVE  Agrees(ExpandedFile(alg, payload), ExpandedFile(alg, payload))
<1>1. PICK inner, f : inner = Store!Der(Store!OctetString, payload) /\ f = Store!Pkcs8(alg, inner) /\ f = ExpandedFile(alg, payload)
  BY DEF ExpandedFile
<1>2. PICK d \in 1..3 : IsDer(inner, Store!OctetString, payload, d)
  <2>1. Len(payload) < 65536 /\ Store!OctetString \in Store!Byte
    BY TagsAre
  <2> QED BY <1>1, <2>1, DerIs
<1>3. inner \in Seq(Store!Byte) /\ Len(inner) < 60000
  <2>1. PICK l \in Nat : l = Len(payload) /\ l <= 4896
    OBVIOUS
  <2>2. inner \in Seq(Store!Byte) /\ Len(inner) = 1 + d + l
    BY <1>2, <2>1 DEF IsDer
  <2> QED BY <2>1, <2>2
<1>4. PICK h \in 1..3, g \in 1..3 : Framed(Store!Pkcs8(alg, inner), Store!Oid(alg), inner, h, g)
  BY <1>3, Pkcs8Is
<1>5. Store!Pkcs8(alg, inner) \in Seq(Store!Byte)
  BY <1>4 DEF Framed
<1>6. f \in Seq(Store!Byte)
  BY <1>1, <1>5
<1> QED BY <1>1, <1>6 DEF Agrees

\* A file that is cut short, and one with a byte appended.
LEMMA CutAgrees ==
  ASSUME NEW f, Agrees(f, f), NEW n \in Nat, n < Len(f)
  PROVE  Agrees(SubSeq(f, 1, n), f)
<1>1. f \in Seq(Store!Byte) /\ Len(f) \in Nat
  BY DEF Agrees
<1>2. PICK c : c = SubSeq(f, 1, n)
  OBVIOUS
<1>3. c \in Seq(Store!Byte) /\ Len(c) = n /\ \A i \in 1..n : c[i] = f[i]
  BY <1>1, <1>2
<1> QED BY <1>1, <1>2, <1>3 DEF Agrees

LEMMA AppendAgrees ==
  ASSUME NEW f, Agrees(f, f), NEW byte \in Store!Byte
  PROVE  Agrees(Append(f, byte), f)
<1>1. f \in Seq(Store!Byte) /\ Len(f) \in Nat
  BY DEF Agrees
<1>2. PICK c : c = Append(f, byte)
  OBVIOUS
<1>3. c \in Seq(Store!Byte) /\ \A i \in 1..Len(f) : c[i] = f[i]
  BY <1>1, <1>2
<1> QED BY <1>1, <1>2, <1>3 DEF Agrees

\* What is put away.
LEMMA SeededIsKept ==
  ASSUME NEW k, Derived(k)
  PROVE  Kept("pkcs8", k, TRUE, SeedFileOf(k))
<1>1. Seeded(k, TRUE, SeedFileOf(k))
  BY SeedFileAgrees DEF Seeded
<1> QED BY <1>1 DEF Kept, Store!Forms

LEMMA JwkIsKept ==
  ASSUME NEW k, Derived(k), NEW form \in Store!Forms, form # "pkcs8"
  PROVE  Kept(form, k, TRUE, Jwk(k, form))
<1>1. JwkOf(Jwk(k, form), k)
  BY DEF JwkOf, Jwk, Derived
<1> QED BY <1>1 DEF Kept, Exchanged

\* Whatever is put away may be in the store.
LEMMA KeepIs ==
  ASSUME NEW form \in Store!Forms, NEW alg \in Store!SeedAlgorithms, NEW master \in Masters,
         NEW info \in Labels \cup {None}
  PROVE  Kept(form, Store!KeypairFromMaster(alg, master, info), TRUE,
              IF form = "pkcs8" THEN Store!ExportSeedPkcs8(alg, Store!SeedFromMaster(alg, master, info))
              ELSE Store!ExportJwk(alg, Store!KeypairFromSeed(alg, Store!SeedFromMaster(alg, master, info)),
                                   form = "private jwk"))
<1>1. PICK k, seed : k = Store!KeypairFromMaster(alg, master, info) /\ seed = Store!SeedFromMaster(alg, master, info)
  OBVIOUS
<1>2. Derived(k) /\ k = Store!Key(alg, seed)
  BY <1>1, DerivedKey
<1>3. k.alg = alg /\ k.seed = seed
  BY <1>2 DEF Store!Key
<1>4. Len(k.seed) = Store!SeedBytes(alg) /\ k = Store!Key(alg, k.seed)
  BY <1>2, <1>3 DEF Derived
<1>5. /\ Store!ExportSeedPkcs8(alg, seed) = SeedFileOf(k)
      /\ Store!ExportJwk(alg, Store!KeypairFromSeed(alg, seed), form = "private jwk") = Jwk(k, form)
  <2>1. Store!ExportSeedPkcs8(alg, seed) = SeedFileOf(k)
    BY <1>3, <1>4 DEF Store!ExportSeedPkcs8, SeedFileOf
  <2>2. Store!KeypairFromSeed(alg, seed) = k
    BY <1>2, <1>3, <1>4 DEF Store!KeypairFromSeed
  <2>3. Store!ExportJwk(alg, k, form = "private jwk") = Jwk(k, form)
    <3>1. CASE form = "private jwk"
      BY <1>3, <1>4, <3>1 DEF Store!ExportJwk, Jwk
    <3>2. CASE form # "private jwk"
      BY <1>3, <3>2 DEF Store!ExportJwk, Jwk
    <3> QED BY <3>1, <3>2
  <2> QED BY <2>1, <2>2, <2>3
<1>6. CASE form = "pkcs8"
  <2>1. Kept(form, k, TRUE, SeedFileOf(k))
    BY <1>2, <1>6, SeededIsKept
  <2> QED BY <1>1, <1>5, <1>6, <2>1
<1>7. CASE form # "pkcs8"
  <2>1. Kept(form, k, TRUE, Jwk(k, form))
    BY <1>2, <1>7, JwkIsKept
  <2> QED BY <1>1, <1>5, <1>7, <2>1
<1> QED BY <1>6, <1>7

LEMMA KeepExpandedIs ==
  ASSUME NEW alg \in Store!SeedAlgorithms, NEW size \in ExpandedSizes,
         NEW content, content = Store!Pkcs8(alg, Store!Der(Store!OctetString, [i \in 1..size |-> 0]))
  PROVE  Kept("pkcs8", None, TRUE, content)
<1>1. size \in Nat /\ size <= 4896
  BY CustodyAssumption
<1>2. PICK payload \in Seq(Store!Byte) : payload = [i \in 1..size |-> 0] /\ Len(payload) = size
  <2>1. PICK zero \in Store!Byte : zero = 0
    BY TagsAre
  <2>2. [i \in 1..size |-> zero] \in Seq(Store!Byte) /\ Len([i \in 1..size |-> zero]) = size
    BY <1>1, IsASeq
  <2> QED BY <2>1, <2>2
<1>3. content = ExpandedFile(alg, payload)
  BY <1>2 DEF ExpandedFile
<1>4. Len(payload) <= 4896
  BY <1>1, <1>2
<1>5. Agrees(content, ExpandedFile(alg, payload))
  BY <1>3, <1>4, ExpandedFileAgrees
<1>6. Expanded(None, TRUE, content)
  BY <1>3, <1>4, <1>5 DEF Expanded
<1> QED BY <1>6 DEF Kept, Store!Forms

\* What damage makes of it.
LEMMA CutIs ==
  ASSUME NEW key, NEW content, Kept("pkcs8", key, TRUE, content), NEW n \in Nat, n < Len(content)
  PROVE  Kept("pkcs8", key, FALSE, SubSeq(content, 1, n))
<1>1. CASE Seeded(key, TRUE, content)
  <2>1. Agrees(SubSeq(content, 1, n), SeedFileOf(key))
    BY <1>1, CutAgrees DEF Seeded
  <2> QED BY <1>1, <2>1 DEF Kept, Seeded
<1>2. CASE Expanded(key, TRUE, content)
  <2>1. PICK alg \in Store!SeedAlgorithms, payload \in Seq(Store!Byte) :
          Len(payload) <= 4896 /\ Agrees(content, content) /\ content = ExpandedFile(alg, payload)
    BY <1>2 DEF Expanded
  <2>2. Agrees(SubSeq(content, 1, n), ExpandedFile(alg, payload))
    BY <2>1, CutAgrees
  <2>3. Expanded(key, FALSE, SubSeq(content, 1, n))
    BY <1>2, <2>1, <2>2 DEF Expanded
  <2> QED BY <2>3 DEF Kept
<1> QED BY <1>1, <1>2 DEF Kept

LEMMA AppendIs ==
  ASSUME NEW key, NEW content, Kept("pkcs8", key, TRUE, content), NEW byte \in Store!Byte
  PROVE  Kept("pkcs8", key, FALSE, Append(content, byte))
<1>1. CASE Seeded(key, TRUE, content)
  <2>1. Agrees(Append(content, byte), SeedFileOf(key))
    BY <1>1, AppendAgrees DEF Seeded
  <2> QED BY <1>1, <2>1 DEF Kept, Seeded
<1>2. CASE Expanded(key, TRUE, content)
  <2>1. PICK alg \in Store!SeedAlgorithms, payload \in Seq(Store!Byte) :
          Len(payload) <= 4896 /\ Agrees(content, content) /\ content = ExpandedFile(alg, payload)
    BY <1>2 DEF Expanded
  <2>2. Agrees(Append(content, byte), ExpandedFile(alg, payload))
    BY <2>1, AppendAgrees
  <2>3. Expanded(key, FALSE, Append(content, byte))
    BY <1>2, <2>1, <2>2 DEF Expanded
  <2> QED BY <2>3 DEF Kept
<1> QED BY <1>1, <1>2 DEF Kept

LEMMA MixIs ==
  ASSUME NEW form, form # "pkcs8", NEW key, NEW content, Kept(form, key, TRUE, content),
         NEW alg \in Store!SeedAlgorithms, NEW other, NEW mixed,
         \/ mixed = [content EXCEPT !.alg = alg]
         \/ mixed = [content EXCEPT !.pub = other.pub]
         \/ mixed = [content EXCEPT !.priv = other.seed]
  PROVE  Kept(form, key, FALSE, mixed)
<1>1. Derived(key) /\ content = Jwk(key, form) /\ JwkOf(content, key) /\ form \in Store!Forms
  BY DEF Kept, Exchanged
<1>2. PICK a, u, v : content = [alg |-> a, pub |-> u, priv |-> v] /\ a = key.alg /\ u = key.pub /\ v \in {None, key.seed}
  BY <1>1 DEF Jwk
<1>3. a \in Store!SeedAlgorithms
  BY <1>1, <1>2 DEF Derived
<1>4. JwkOf(mixed, key)
  <2>1. CASE mixed = [content EXCEPT !.alg = alg]
    <3>1. mixed = [alg |-> alg, pub |-> u, priv |-> v]
      BY <1>2, <2>1
    <3> QED BY <1>2, <3>1 DEF JwkOf
  <2>2. CASE mixed = [content EXCEPT !.pub = other.pub]
    <3>1. mixed = [alg |-> a, pub |-> other.pub, priv |-> v]
      BY <1>2, <2>2
    <3> QED BY <1>2, <1>3, <3>1 DEF JwkOf
  <2>3. CASE mixed = [content EXCEPT !.priv = other.seed]
    <3>1. mixed = [alg |-> a, pub |-> u, priv |-> other.seed]
      BY <1>2, <2>3
    <3> QED BY <1>2, <1>3, <3>1 DEF JwkOf
  <2> QED BY <2>1, <2>2, <2>3
<1> QED BY <1>1, <1>4 DEF Kept, Exchanged

storeVars == <<stored, loaded>>

\* A record of what is kept.
LEMMA FileIs ==
  ASSUME NEW form, NEW key, NEW intact, NEW content, Kept(form, key, intact, content), NEW s,
         s = [form |-> form, key |-> key, intact |-> intact, content |-> content]
  PROVE  File(s)
BY DEF File

\* What the store becomes, and that nothing has been loaded from it.
LEMMA PutAway ==
  ASSUME NEW s, stored' = s, File(s), loaded = None, loaded' = loaded
  PROVE  StoreInv'
BY DEF StoreInv

\* Each operation on the store keeps the invariant.
LEMMA KeepStep ==
  ASSUME StoreInv, NEW form \in Store!Forms, NEW alg \in Store!SeedAlgorithms, NEW master \in Masters,
         NEW info \in Labels \cup {None}, Store!Keep(form, alg, master, info)
  PROVE  StoreInv'
<1>1. stored = None /\ loaded' = loaded
  BY DEF Store!Keep
<1>2. loaded = None
  BY <1>1 DEF StoreInv
<1> DEFINE k == Store!KeypairFromMaster(alg, master, info)
           content == IF form = "pkcs8" THEN Store!ExportSeedPkcs8(alg, Store!SeedFromMaster(alg, master, info))
                      ELSE Store!ExportJwk(alg, Store!KeypairFromSeed(alg, Store!SeedFromMaster(alg, master, info)),
                                           form = "private jwk")
<1>3. stored' = [form |-> form, key |-> k, intact |-> TRUE, content |-> content]
  BY DEF Store!Keep
<1>4. Kept(form, k, TRUE, content)
  BY KeepIs
<1> HIDE DEF k, content
<1>5. PICK s : s = [form |-> form, key |-> k, intact |-> TRUE, content |-> content]
  OBVIOUS
<1>6. File(s)
  BY <1>4, <1>5, FileIs
<1>7. stored' = s
  BY <1>3, <1>5
<1> QED BY <1>1, <1>2, <1>6, <1>7, PutAway

LEMMA KeepExpandedStep ==
  ASSUME StoreInv, NEW alg \in Store!SeedAlgorithms, NEW size \in ExpandedSizes,
         Store!KeepExpanded(alg, size)
  PROVE  StoreInv'
<1>1. stored = None /\ loaded' = loaded
  BY DEF Store!KeepExpanded
<1>2. loaded = None
  BY <1>1 DEF StoreInv
<1> DEFINE content == Store!Pkcs8(alg, Store!Der(Store!OctetString, [i \in 1..size |-> 0]))
<1>3. stored' = [form |-> "pkcs8", key |-> None, intact |-> TRUE, content |-> content]
  BY Zenon DEF Store!KeepExpanded
<1>4. Kept("pkcs8", None, TRUE, content)
  BY KeepExpandedIs
<1> HIDE DEF content
<1>5. PICK s : s = [form |-> "pkcs8", key |-> None, intact |-> TRUE, content |-> content]
  OBVIOUS
<1>6. File(s)
  BY <1>4, <1>5, FileIs
<1>7. stored' = s
  BY <1>3, <1>5
<1> QED BY <1>1, <1>2, <1>6, <1>7, PutAway

\* A file that can be damaged is as it was written.
LEMMA DamageIs ==
  ASSUME StoreInv, Store!Damageable
  PROVE  /\ loaded = None
         /\ \E form, key, content :
              /\ stored = [form |-> form, key |-> key, intact |-> TRUE, content |-> content]
              /\ Kept(form, key, TRUE, content)
<1>1. stored # None /\ stored.intact /\ loaded = None
  BY DEF Store!Damageable
<1>2. PICK form, key, intact, content :
        /\ stored = [form |-> form, key |-> key, intact |-> intact, content |-> content]
        /\ Kept(form, key, intact, content)
  BY <1>1 DEF StoreInv, File
<1>3. intact = TRUE
  BY <1>1, <1>2 DEF Kept
<1> QED BY <1>1, <1>2, <1>3

\* Damage exchanges the content.
LEMMA DamagedRecord ==
  ASSUME NEW form, NEW key, NEW content, NEW damaged, NEW s, NEW t,
         s = [form |-> form, key |-> key, intact |-> TRUE, content |-> content],
         t = [s EXCEPT !.content = damaged, !.intact = FALSE]
  PROVE  t = [form |-> form, key |-> key, intact |-> FALSE, content |-> damaged]
OBVIOUS

LEMMA DamagedStep ==
  ASSUME NEW form, NEW key, NEW content, NEW damaged,
         stored = [form |-> form, key |-> key, intact |-> TRUE, content |-> content],
         Kept(form, key, FALSE, damaged), loaded = None, Store!Damaged(damaged)
  PROVE  StoreInv'
<1>1. stored' = [stored EXCEPT !.content = damaged, !.intact = FALSE] /\ loaded' = loaded
  BY DEF Store!Damaged
<1>2. PICK s, t : s = stored /\ t = [s EXCEPT !.content = damaged, !.intact = FALSE]
  OBVIOUS
<1>a. stored' = t
  BY <1>1, <1>2
<1>b. t = [form |-> form, key |-> key, intact |-> FALSE, content |-> damaged]
  BY <1>2, DamagedRecord
<1>4. File(t)
  BY <1>b, FileIs
<1> QED BY <1>1, <1>a, <1>4, PutAway

LEMMA CutStep ==
  ASSUME StoreInv, NEW n \in Nat, Store!Cut(n)
  PROVE  StoreInv'
<1>1. Store!Damageable /\ stored.form = "pkcs8" /\ n < Len(stored.content) /\ Store!Damaged(SubSeq(stored.content, 1, n))
  BY DEF Store!Cut
<1>2. PICK form, key, content :
        stored = [form |-> form, key |-> key, intact |-> TRUE, content |-> content] /\ Kept(form, key, TRUE, content)
  BY <1>1, DamageIs
<1>3. loaded = None
  BY <1>1, DamageIs
<1>4. form = "pkcs8" /\ n < Len(content) /\ Store!Damaged(SubSeq(content, 1, n))
  BY <1>1, <1>2
<1>5. Kept(form, key, FALSE, SubSeq(content, 1, n))
  BY <1>2, <1>4, CutIs
<1> QED BY <1>2, <1>3, <1>4, <1>5, DamagedStep

LEMMA AppendStep ==
  ASSUME StoreInv, NEW byte \in Store!Byte, Store!AppendTo(byte)
  PROVE  StoreInv'
<1>1. Store!Damageable /\ stored.form = "pkcs8" /\ Store!Damaged(Append(stored.content, byte))
  BY DEF Store!AppendTo
<1>2. PICK form, key, content :
        stored = [form |-> form, key |-> key, intact |-> TRUE, content |-> content] /\ Kept(form, key, TRUE, content)
  BY <1>1, DamageIs
<1>3. loaded = None
  BY <1>1, DamageIs
<1>4. form = "pkcs8" /\ Store!Damaged(Append(content, byte))
  BY <1>1, <1>2
<1>5. Kept(form, key, FALSE, Append(content, byte))
  BY <1>2, <1>4, AppendIs
<1> QED BY <1>2, <1>3, <1>4, <1>5, DamagedStep

LEMMA MixStep ==
  ASSUME StoreInv, NEW alg \in Store!SeedAlgorithms, NEW other, Store!Mix(alg, other)
  PROVE  StoreInv'
<1>1. Store!Damageable /\ stored.form # "pkcs8"
  BY DEF Store!Mix
<1>2. PICK form, key, content :
        stored = [form |-> form, key |-> key, intact |-> TRUE, content |-> content] /\ Kept(form, key, TRUE, content)
  BY <1>1, DamageIs
<1>3. loaded = None
  BY <1>1, DamageIs
<1>4. form # "pkcs8" /\ stored.content = content
  BY <1>1, <1>2
<1>5. PICK mixed :
        /\ Store!Damaged(mixed)
        /\ \/ mixed = [content EXCEPT !.alg = alg]
           \/ mixed = [content EXCEPT !.pub = other.pub]
           \/ mixed = [content EXCEPT !.priv = other.seed]
  BY <1>4 DEF Store!Mix
<1>6. Kept(form, key, FALSE, mixed)
  BY <1>2, <1>4, <1>5, MixIs
<1> QED BY <1>2, <1>3, <1>5, <1>6, DamagedStep

LEMMA LoadStep ==
  ASSUME StoreInv, Store!Load
  PROVE  StoreInv'
<1>1. stored # None /\ stored' = stored
  BY DEF Store!Load
<1>2. loaded' = LoadOf(stored.form, stored.content)
  BY DEF Store!Load, LoadOf
<1>3. File(stored)
  BY <1>1 DEF StoreInv
<1>4. PICK s : s = stored /\ File(s) /\ s # None
  BY <1>1, <1>3
<1>5. stored' = s /\ loaded' = LoadOf(s.form, s.content)
  BY <1>1, <1>2, <1>4
<1> QED BY <1>4, <1>5 DEF StoreInv

\* The invariant of the store is inductive.
LEMMA StoreNextInv == StoreInv /\ [Store!Next]_storeVars => StoreInv'
<1> SUFFICES ASSUME StoreInv, [Store!Next]_storeVars PROVE StoreInv'
  OBVIOUS
<1>1. CASE UNCHANGED storeVars
  <2>1. PICK s, l : s = stored /\ l = loaded
    OBVIOUS
  <2>2. stored' = s /\ loaded' = l
    BY <1>1, <2>1 DEF storeVars
  <2>3. (s # None => File(s)) /\ (l # None => s # None /\ l = LoadOf(s.form, s.content))
    BY <2>1 DEF StoreInv
  <2> QED BY <2>2, <2>3 DEF StoreInv
<1>2. CASE \E alg \in Store!SeedAlgorithms, master \in Masters, info \in Labels \cup {None}, form \in Store!Forms :
             Store!Keep(form, alg, master, info)
  BY <1>2, KeepStep
<1>3. CASE \E alg \in Store!SeedAlgorithms, master \in Masters, info \in Labels \cup {None} :
             Store!Mix(alg, Store!KeypairFromMaster(alg, master, info))
  BY <1>3, MixStep
<1>4. CASE \E alg \in Store!SeedAlgorithms, size \in ExpandedSizes : Store!KeepExpanded(alg, size)
  BY <1>4, KeepExpandedStep
<1>5. CASE \E n \in Nat : Store!Cut(n)
  BY <1>5, CutStep
<1>6. CASE \E byte \in {0, Store!SeedChoice} : Store!AppendTo(byte)
  BY <1>6, TagsAre, AppendStep
<1>7. CASE Store!Load
  BY <1>7, LoadStep
<1>8. (\E n \in 0..Len(stored.content) : Store!Cut(n)) => \E n \in Nat : Store!Cut(n)
  OBVIOUS
<1> QED BY <1>1, <1>2, <1>3, <1>4, <1>5, <1>6, <1>7, <1>8 DEF Store!Next

LEMMA StoreInitInv == Store!Init => StoreInv
BY DEF Store!Init, StoreInv

--------------------------------------------------------------------------------
(* An issuer of tokens. *)

\* Tokens are signed with what has been loaded, which is the key that was kept.
TokensInv ==
  /\ issued # {} => loaded # None
  /\ \A i \in issued : i.key \in Others \cup {stored.key}

CustodyIInv == IInv /\ StoreInv /\ TokensInv

\* Once a process has loaded it, nothing happens to the file.
LEMMA LoadedStays ==
  ASSUME StoreInv, Store!Next
  PROVE  loaded = None
<1>1. stored = None => loaded = None
  BY DEF StoreInv
<1> QED
  BY <1>1 DEF Store!Next, Store!Keep, Store!KeepExpanded, Store!Mix, Store!Cut, Store!AppendTo, Store!Load,
     Store!Damageable

\* A key that can sign is the one that was kept.
LEMMA SigningKey ==
  ASSUME StoreInv, Signing
  PROVE  loaded = stored.key /\ loaded \in Keys /\ loaded # None
<1>1. loaded # None /\ loaded # Error /\ loaded.seed # None
  BY DEF Signing
<1>2. stored # None /\ File(stored) /\ loaded = LoadOf(stored.form, stored.content)
  BY <1>1 DEF StoreInv
<1>3. PICK form, key, intact, content :
        /\ stored = [form |-> form, key |-> key, intact |-> intact, content |-> content]
        /\ Kept(form, key, intact, content)
  BY <1>2 DEF File
<1>4. stored.key = key /\ loaded = LoadOf(form, content)
  BY <1>2, <1>3
<1>5. Faithful(form, key, intact, content, loaded)
  BY <1>3, <1>4, LoadedIs
<1> QED
  BY <1>1, <1>4, <1>5 DEF Faithful, Derived

\* Nothing is kept or issued in the beginning.
LEMMA CustodyInitInv == CustodyInit => CustodyIInv
  BY InitInv, StoreInitInv DEF CustodyInit, CustodyIInv, TokensInv, Init

\* What happens to the file keeps the tokens, and a token keeps the file.
LEMMA CustodyNextInv == CustodyIInv /\ [CustodyNext]_custody => CustodyIInv'
<1> SUFFICES ASSUME CustodyIInv, [CustodyNext]_custody PROVE CustodyIInv'
  OBVIOUS
<1> USE DEF CustodyIInv
<1>1. CASE UNCHANGED custody
  <2>1. IInv'
    <3>1. UNCHANGED vars
      BY <1>1 DEF custody
    <3> QED
      BY <3>1, NextInv
  <2>2. StoreInv'
    <3>1. UNCHANGED storeVars
      BY <1>1 DEF custody, storeVars
    <3> QED
      BY <3>1, StoreNextInv
  <2>3. TokensInv'
    BY <1>1 DEF custody, vars, TokensInv
  <2> QED
    BY <2>1, <2>2, <2>3
<1>2. CASE Keeping
  <2>1. Store!Next /\ UNCHANGED vars
    BY <1>2 DEF Keeping
  <2>2. IInv'
    BY <2>1, NextInv
  <2>3. StoreInv'
    BY <2>1, StoreNextInv
  <2>4. TokensInv'
    <3>1. issued = {}
      BY <2>1, LoadedStays DEF TokensInv
    <3> QED
      BY <2>1, <3>1 DEF vars, TokensInv
  <2> QED
    BY <2>2, <2>3, <2>4
<1>3. CASE Issue
  <2>1. Signing /\ UNCHANGED storeVars
    BY <1>3 DEF Issue, storeVars
  <2>2. PICK payload \in Payloads, key \in Others \cup {loaded}, alg \in Algorithms \cup {None, "none"},
             kid \in Kids \cup {None}, extra \in Extras : SignJws(payload, key, alg, kid, extra)
    BY <1>3 DEF Issue
  <2>3. loaded = stored.key /\ loaded \in Keys /\ loaded # None
    BY <2>1, SigningKey
  <2>4. key \in Keys
    BY <2>3, CustodyAssumption
  <2>5. IInv'
    <3>1. Next
      BY <2>2, <2>4 DEF Next
    <3> QED
      BY <3>1, NextInv
  <2>6. StoreInv'
    BY <2>1, StoreNextInv
  <2>7. TokensInv'
    <3> DEFINE a == AlgFor(key, alg)
               header == HeaderOf(a, kid, extra)
               input == <<Canonical(header), Canonical(payload)>>
               sig == [key |-> key, alg |-> a, input |-> input]
               new == [token |-> <<input[1], input[2], Canonical(sig)>>, key |-> key, header |-> header,
                       payload |-> payload, asked |-> [alg |-> a, kid |-> kid]]
    <3>1. issued' = issued \cup {new} /\ new.key = key
      <4>1. issued' = issued \cup {new}
        BY <2>2 DEF SignJws
      <4> HIDE DEF a, header, input, sig
      <4> QED
        BY <4>1
    <3> HIDE DEF new
    <3>2. stored' = stored /\ loaded' = loaded
      BY <2>1 DEF storeVars
    <3> QED
      BY <2>3, <3>1, <3>2 DEF TokensInv
  <2> QED
    BY <2>5, <2>6, <2>7
<1> QED
  BY <1>1, <1>2, <1>3 DEF CustodyNext

\* The inductive invariant: the log of the tokens, what the file has become of what
\* was written, and that the key that signs is the one it was written for.
THEOREM CustodyInductive == CustodySpec => []CustodyIInv
<1> QED
  BY CustodyInitInv, CustodyNextInv, PTL DEF CustodySpec

\* For any seeds, labels and expanded keys: what nobody damaged loads; a PKCS#8
\* file, cut anywhere or appended to, loads as the key that was kept or not at
\* all; and a JWK, whichever member was exchanged, gives no key of two.
THEOREM CustodyInvHolds == CustodySpec => []CustodyInv
<1>1. CustodyIInv => CustodyInv
  BY StoreInvHolds DEF CustodyIInv, CustodyInv, IInv
<1> QED
  BY CustodyInductive, <1>1, PTL

\* Whatever happened to the file, what is signed with what was loaded from it
\* verifies under the published key.
THEOREM PublishedVerifies == CustodySpec => []PublishedKeyVerifies
<1>1. CustodyIInv => PublishedKeyVerifies
  <2> SUFFICES ASSUME CustodyIInv, NEW i \in issued, i.payload # Empty, i.header.extra = "plain"
               PROVE  \E key \in Others \cup {stored.key} :
                        \A alg \in {None, i.asked.alg}, kid \in {None, i.asked.kid} :
                          Valid(i.token, key, alg, kid)
    BY DEF PublishedKeyVerifies
  <2>1. i.key \in Others \cup {stored.key}
    BY DEF CustodyIInv, TokensInv
  <2>2. Verifies(i)
    BY LoggedVerifies DEF CustodyIInv, IssuedVerifies
  <2>3. \A alg \in {None, i.asked.alg}, kid \in {None, i.asked.kid} : Valid(i.token, i.key, alg, kid)
    BY <2>2 DEF Verifies
  <2> QED
    BY <2>1, <2>3
<1> QED
  BY CustodyInductive, <1>1, PTL

\* Nor does what nobody issued verify, for the issuer's key or another's.
THEOREM CustodyTokensAreIssued == CustodySpec => []ValidIsAsIssued
<1>1. IInv => ValidIsAsIssued
  BY ValidIsLogged DEF ValidIsAsIssued
<1> QED
  BY CustodyInductive, <1>1, PTL DEF CustodyIInv

--------------------------------------------------------------------------------
(* webhook.js. *)

Digital == Seq(Digits)

\* An envelope tells its timestamp: the first dot ends it, whatever the body is.
THEOREM EnvelopeIsInjective ==
  ASSUME NEW ts1, NEW ts2, NEW body1, NEW body2,
         ts1 \in Digital, ts2 \in Digital, NEW S, body1 \in Seq(S), body2 \in Seq(S),
         envelope(ts1, body1) = envelope(ts2, body2)
  PROVE  ts1 = ts2 /\ body1 = body2
<1> DEFINE e1 == ts1 \o <<Dot>> \o body1
           e2 == ts2 \o <<Dot>> \o body2
           T == S \cup Digits \cup {Dot}
<1>1. e1 = e2
  BY DEF envelope
<1>2. /\ ts1 \in Seq(T) /\ ts2 \in Seq(T) /\ body1 \in Seq(T) /\ body2 \in Seq(T)
      /\ Len(ts1) \in Nat /\ Len(ts2) \in Nat /\ Len(body1) \in Nat /\ Len(body2) \in Nat
  BY DEF Digital
<1>3. /\ Len(e1) = Len(ts1) + 1 + Len(body1) /\ Len(e2) = Len(ts2) + 1 + Len(body2)
      /\ \A i \in 1..Len(ts1) : e1[i] = ts1[i]
      /\ \A i \in 1..Len(ts2) : e2[i] = ts2[i]
      /\ e1[Len(ts1) + 1] = Dot /\ e2[Len(ts2) + 1] = Dot
      /\ \A i \in 1..Len(body1) : e1[Len(ts1) + 1 + i] = body1[i]
      /\ \A i \in 1..Len(body2) : e2[Len(ts2) + 1 + i] = body2[i]
  BY <1>2
<1> HIDE DEF e1, e2
<1>4. (\A i \in 1..Len(ts1) : ts1[i] # Dot) /\ (\A i \in 1..Len(ts2) : ts2[i] # Dot)
  BY WebhookAssumption DEF Digital
<1>5. Len(ts1) = Len(ts2)
  <2>1. ~(Len(ts1) < Len(ts2))
    BY <1>1, <1>2, <1>3, <1>4
  <2>2. ~(Len(ts2) < Len(ts1))
    <3> SUFFICES ASSUME Len(ts2) < Len(ts1) PROVE FALSE
      OBVIOUS
    <3>1. Len(ts2) + 1 \in 1..Len(ts1)
      BY <1>2
    <3>2. ts1[Len(ts2) + 1] = Dot
      BY <1>1, <1>3, <3>1
    <3> QED
      BY <1>4, <3>1, <3>2
  <2> QED
    BY <2>1, <2>2, <1>2
<1>6. ts1 = ts2
  <2>1. \A i \in 1..Len(ts1) : ts1[i] = ts2[i]
    BY <1>1, <1>3, <1>5
  <2> QED
    BY <2>1, <1>2, <1>5
<1>7. body1 = body2
  <2>1. Len(body1) = Len(body2)
    BY <1>1, <1>2, <1>3, <1>5
  <2>2. \A i \in 1..Len(body1) : body1[i] = body2[i]
    BY <1>1, <1>3, <1>5, <2>1
  <2> QED
    BY <2>1, <2>2, <1>2
<1> QED
  BY <1>6, <1>7

\* The headers of a delivery as it is sent.
Signed(s) ==
  /\ \E n \in DOMAIN Decimal : s.ts = Decimal[n]
  /\ s.mac.prefix = "sha256" /\ s.sig.prefix = SetFor[s.sig.key]

\* An acceptance was fresh, and what it took had been signed.
WebhookIInv ==
  /\ WebhookTypeOK /\ AcceptedIsAsSent
  /\ \A s \in sent : Signed(s)
  /\ \A a \in accepted : TsNum(a.ts) \in Int /\ a.at \in Nat /\ Fresh(TsNum(a.ts), a.at)

LEMMA WebhookInitInv == WebhookInit => WebhookIInv
  BY WebhookAssumption DEF WebhookInit, WebhookIInv, WebhookTypeOK, AcceptedIsAsSent

\* A timestamp that is a number is digits.
LEMMA NumbersAreDigits ==
  ASSUME NEW S, NEW ts \in Seq(S), TsNum(ts) \in Int
  PROVE  ts \in Digital
  BY WebhookAssumption DEF TsNum, Digital

\* What a delivery's timestamp and body can be.
LEMMA DeliveryType ==
  ASSUME WebhookTypeOK, NEW d \in Deliveries
  PROVE  \E T : d.ts \in Seq(T) /\ d.body \in Seq(T)
<1>1. PICK t \in UNION {Splits(s) : s \in sent} : d.ts = t.ts /\ d.body = t.body
  BY DEF Deliveries
<1>2. PICK s \in sent : t \in Splits(s)
  BY <1>1, Zenon
<1> DEFINE T == Chars \cup Digits \cup {Dot}
           e == envelope(s.ts, s.body)
<1>3. e \in Seq(T)
  <2>1. s.ts \in Seq(T) /\ s.body \in Seq(T) /\ <<Dot>> \in Seq(T)
    BY WebhookAssumption DEF WebhookTypeOK
  <2> QED
    BY <2>1 DEF envelope
<1>4. PICK i \in {j \in 1..Len(e) : e[j] = Dot} :
        t = [ts |-> SubSeq(e, 1, i - 1), body |-> SubSeq(e, i + 1, Len(e))]
  BY <1>2 DEF Splits
<1> HIDE DEF e
<1>5. SubSeq(e, 1, i - 1) \in Seq(T) /\ SubSeq(e, i + 1, Len(e)) \in Seq(T)
  BY <1>3, <1>4
<1> QED
  BY <1>1, <1>4, <1>5

\* What a verified signature covers was sent.
LEMMA CoveredWasSent ==
  ASSUME WebhookTypeOK, NEW d \in Deliveries, NEW s \in sent, TsNum(d.ts) \in Int,
         envelope(s.ts, s.body) = envelope(d.ts, d.body)
  PROVE  s.ts = d.ts /\ s.body = d.body
<1>1. PICK T : d.ts \in Seq(T) /\ d.body \in Seq(T)
  BY DeliveryType
<1>2. d.ts \in Digital
  BY <1>1, NumbersAreDigits
<1>3. s.ts \in Digital /\ s.body \in Seq(Chars)
  BY WebhookAssumption DEF WebhookTypeOK, Digital
<1>4. d.body \in Seq(T \cup Chars) /\ s.body \in Seq(T \cup Chars)
  BY <1>1, <1>3
<1> QED
  BY <1>2, <1>3, <1>4, EnvelopeIsInjective

\* Every acceptance rests on a signature that a sender made.
LEMMA AcceptedWasSigned ==
  ASSUME WebhookTypeOK, NEW c \in Configs, NEW d \in Deliveries, Accepts(c, d, now)
  PROVE  \E s \in sent : s.ts = d.ts /\ s.body = d.body /\ (pqOk(c, d, now) => s.sig.key = c.key)
<1>1. TsNum(d.ts) \in Int
  BY DEF Accepts, timestampOk
<1>2. CASE pqOk(c, d, now)
  <2>1. d.sig.key = c.key /\ d.sig.input = envelope(d.ts, d.body)
    BY <1>2 DEF pqOk, verifyPq
  <2>2. d.sig \in Sigs
    BY DEF Deliveries
  <2>3. PICK s \in sent, p \in Sets \cup {"bare", "missing"} : d.sig = [s.sig EXCEPT !.prefix = p]
    BY <2>1, <2>2 DEF Sigs
  <2>4. s.sig.key = c.key /\ s.sig.input = envelope(d.ts, d.body)
    BY <2>1, <2>3 DEF WebhookTypeOK
  <2> QED
    BY <1>1, <2>4, CoveredWasSent DEF WebhookTypeOK
<1>3. CASE ~pqOk(c, d, now)
  <2>1. d.mac.input = envelope(d.ts, d.body)
    BY <1>3 DEF Accepts, hmacOk, verifyHmac
  <2>2. d.mac \in Macs
    BY DEF Deliveries
  <2>3. PICK s \in sent : d.mac.input = s.mac.input
    BY <2>2 DEF Macs
  <2>4. s.mac.input = envelope(d.ts, d.body)
    BY <2>1, <2>3 DEF WebhookTypeOK
  <2> QED
    BY <1>1, <1>3, <2>4, CoveredWasSent DEF WebhookTypeOK
<1> QED
  BY <1>2, <1>3

LEMMA WebhookNextInv == WebhookIInv /\ [WebhookNext]_webhookVars => WebhookIInv'
<1> SUFFICES ASSUME WebhookIInv, [WebhookNext]_webhookVars PROVE WebhookIInv'
  OBVIOUS
<1>1. CASE UNCHANGED webhookVars
  BY <1>1 DEF webhookVars, WebhookIInv, WebhookTypeOK, AcceptedIsAsSent
<1>2. CASE Tick
  BY <1>2, WebhookAssumption DEF Tick, WebhookIInv, WebhookTypeOK, AcceptedIsAsSent
<1>3. ASSUME NEW body \in Bodies, NEW key \in SenderKeys, signDelivery(body, key)
      PROVE  WebhookIInv'
  <2> DEFINE ts == TsOf(now + skew)
             new == [ts |-> ts, body |-> body, mac |-> hmac(envelope(ts, body)),
                     sig |-> pqSign(key, envelope(ts, body)), kid |-> KidOf[key]]
  <2>1. sent' = sent \cup {new} /\ UNCHANGED <<now, skew, accepted>>
    BY <1>3 DEF signDelivery
  <2>2. ts \in Seq(Digits) /\ ts # <<>>
    BY WebhookAssumption DEF TsOf, WebhookIInv, WebhookTypeOK
  <2>3. /\ new.ts \in Seq(Digits) /\ new.ts # <<>> /\ new.body \in Bodies
        /\ new.sig.key \in SenderKeys
        /\ new.mac.input = envelope(new.ts, new.body) /\ new.sig.input = envelope(new.ts, new.body)
    BY <2>2 DEF hmac, pqSign
  <2>4. Signed(new)
    <3>1. now + skew \in DOMAIN Decimal
      BY WebhookAssumption DEF WebhookIInv, WebhookTypeOK
    <3>2. Prefix(key) = SetFor[key]
      BY DEF Prefix, SenderKeys, Sets
    <3> QED
      BY <3>1, <3>2 DEF Signed, TsOf, hmac, pqSign
  <2> HIDE DEF new
  <2>5. WebhookTypeOK'
    BY <2>1, <2>3 DEF WebhookIInv, WebhookTypeOK, envelope
  <2>6. AcceptedIsAsSent'
    BY <2>1 DEF WebhookIInv, AcceptedIsAsSent
  <2> QED
    BY <2>1, <2>4, <2>5, <2>6 DEF WebhookIInv
<1>4. ASSUME NEW c \in Configs, NEW d \in Deliveries, Receive(c, d)
      PROVE  WebhookIInv'
  <2> DEFINE new == [ts |-> d.ts, body |-> d.body, hmacOk |-> hmacOk(c, d, now),
                     pqOk |-> pqOk(c, d, now), key |-> c.key, at |-> now]
  <2>1. accepted' = accepted \cup {new} /\ UNCHANGED <<now, skew, sent>> /\ Accepts(c, d, now)
    BY <1>4 DEF Receive
  <2>2. TsNum(new.ts) \in Int /\ new.at \in Nat /\ Fresh(TsNum(new.ts), new.at)
    BY <2>1, WebhookAssumption DEF Accepts, timestampOk, WebhookIInv, WebhookTypeOK
  <2>3. \E s \in sent : s.ts = new.ts /\ s.body = new.body /\ (new.pqOk => s.sig.key = new.key)
    BY <2>1, AcceptedWasSigned DEF WebhookIInv
  <2> HIDE DEF new
  <2>4. AcceptedIsAsSent'
    BY <2>1, <2>3 DEF WebhookIInv, AcceptedIsAsSent
  <2>5. WebhookTypeOK'
    BY <2>1 DEF WebhookIInv, WebhookTypeOK
  <2> QED
    BY <2>1, <2>2, <2>4, <2>5 DEF WebhookIInv
<1> QED
  BY <1>1, <1>2, <1>3, <1>4 DEF WebhookNext

\* The inductive invariant holds of every run.
THEOREM WebhookInductive == WebhookSpec => []WebhookIInv
<1> QED
  BY WebhookInitInv, WebhookNextInv, PTL DEF WebhookSpec

\* Times and deliveries keep their types, and timestamps are digits.
THEOREM WebhookTypes == WebhookSpec => []WebhookTypeOK
<1> QED
  BY WebhookInductive, PTL DEF WebhookIInv

\* Whatever is accepted was sent, and signed by the configured key where pqOk says so.
THEOREM AcceptedWasSent == WebhookSpec => []AcceptedIsAsSent
<1> QED
  BY WebhookInductive, PTL DEF WebhookIInv

\* A delivery that nothing disturbed verifies in its window, on both sides.
THEOREM HonestIsAccepted == WebhookSpec => []UndisturbedIsAccepted
<1>1. WebhookIInv => UndisturbedIsAccepted
  <2> SUFFICES ASSUME WebhookIInv, NEW s \in sent, NEW kid \in {Missing, s.kid}, Fresh(TsNum(s.ts), now)
               PROVE  LET c == [secret |-> TRUE, key |-> s.sig.key, kid |-> kid] IN
                      hmacOk(c, s, now) /\ pqOk(c, s, now)
    BY DEF UndisturbedIsAccepted
  <2>1. /\ s.sig.key \in SenderKeys /\ Signed(s)
        /\ s.mac.input = envelope(s.ts, s.body) /\ s.sig.input = envelope(s.ts, s.body)
    BY DEF WebhookIInv, WebhookTypeOK
  <2>2. s.sig.key # Missing /\ SetFor[s.sig.key] \in Sets
    BY <2>1, WebhookAssumption DEF SenderKeys
  <2>3. timestampOk(s, now)
    BY <2>1, WebhookAssumption, DecimalAssumption DEF Signed, timestampOk
  <2>4. verifyHmac(s) /\ verifyPq(s.sig.key, s)
    BY <2>1, <2>2 DEF Signed, verifyHmac, verifyPq
  <2> QED
    BY <2>2, <2>3, <2>4 DEF hmacOk, pqOk, kidOk
<1> QED
  BY WebhookInductive, <1>1, PTL

\* Acceptances of one delivery lie within twice the window.
THEOREM ReplaysEnd == WebhookSpec => []ReplayEndsWithTheWindow
<1>1. WebhookIInv => ReplayEndsWithTheWindow
  BY WebhookAssumption DEF WebhookIInv, ReplayEndsWithTheWindow, Fresh
<1> QED
  BY WebhookInductive, <1>1, PTL
================================================================================
