--------------------------- MODULE WebhookDelivery ---------------------------
(***************************************************************************)
(* webhook.js between a sender and the receiver of examples/webhook-server *)
(* .js: each delivery is signed twice over "<timestamp>.<body>", and is    *)
(* accepted when either signature verifies in the window of its timestamp. *)
(*                                                                         *)
(* Texts are sequences of digits, dots and other characters.  The network  *)
(* loses, repeats and delays deliveries, moves the boundary between        *)
(* timestamp and body, and exchanges headers.  HMAC and ML-DSA are ideal:  *)
(* what verifies has been made by the holder of the key, for that text.    *)
(***************************************************************************)
EXTENDS Integers, Sequences, FiniteSets

CONSTANTS
  KeyPairs,   \* ML-DSA key pairs, and others that could be configured
  SetFor,     \* key -> the parameter set its size belongs to
  KidOf,      \* key -> what the sender sends as its key id
  Chars, Bodies,  \* characters of a body, and the bodies the sender sends
  Missing,    \* a key id or a setting that is missing
  Dot, NaN,   \* the character between timestamp and body; no number
  Window,     \* windowSeconds
  Skews,      \* by how much the sender's clock may be ahead
  Decimal,    \* number -> its decimal digits, as toString writes them
  Start, MaxNow, MaxSent, MaxAccepted  \* bounds: time, deliveries, acceptances

Sets == {"ml-dsa-65", "ml-dsa-87"}
Digits == 0..9

ASSUME WebhookAssumption ==
  /\ SetFor \in [KeyPairs -> Sets \cup {"other"}]
  /\ Window \in Nat /\ MaxNow \in Nat /\ Start \in 0..MaxNow /\ Skews \subseteq Int
  /\ \A s \in Skews, n \in Start..MaxNow : n + s \in DOMAIN Decimal
  /\ DOMAIN Decimal \subseteq Nat
  /\ \A n \in DOMAIN Decimal : Decimal[n] \in Seq(Digits) /\ Decimal[n] # <<>>
  /\ Bodies \subseteq Seq(Chars)
  /\ Dot \notin Digits /\ NaN \notin Int /\ Missing \notin KeyPairs

VARIABLES
  now,       \* the receiver's clock, in seconds
  skew,      \* the sender's clock is now + skew
  sent,      \* deliveries made: [ts, body, mac, sig, kid]
  accepted   \* what a receiver took: [ts, body, hmacOk, pqOk, key, at]

webhookVars == <<now, skew, sent, accepted>>

\* The sender signs with a key of one of the sets, and with another after a rotation;
\* the settings of a receiver are whatever its environment says.
SenderKeys == {k \in KeyPairs : SetFor[k] \in Sets}
Configs == [secret : BOOLEAN, key : KeyPairs \cup {Missing}, kid : {KidOf[k] : k \in KeyPairs} \cup {Missing}]

WebhookInit == now = Start /\ skew \in Skews /\ sent = {} /\ accepted = {}

--------------------------------------------------------------------------------
(* The sender: signDelivery. *)

envelope(ts, body) == ts \o <<Dot>> \o body

\* A signature header is a prefix, "bare" when there is none, and what it covers;
\* a header that is missing, or repeated, has the prefix "missing".
hmac(input) == [prefix |-> "sha256", input |-> input]

\* Mutant of Prefix: the prefix is ml-dsa-65 whatever the key.
PrefixAlways65(k) == "ml-dsa-65"

\* The prefix names the set of the key, ml-dsa-65 unless it is an 87.
Prefix(k) == IF SetFor[k] = "ml-dsa-87" THEN "ml-dsa-87" ELSE "ml-dsa-65"
pqSign(k, input) == [prefix |-> Prefix(k), key |-> k, input |-> input]

\* Whole seconds.
TsOf(clock) == Decimal[clock]

signDelivery(body, key) ==
  /\ Cardinality(sent) < MaxSent
  /\ LET ts == TsOf(now + skew)
         input == envelope(ts, body) IN
     sent' = sent \cup {[ts |-> ts, body |-> body, mac |-> hmac(input),
                         sig |-> pqSign(key, input), kid |-> KidOf[key]]}
  /\ UNCHANGED <<now, skew, accepted>>

Tick == now < MaxNow /\ now' = now + 1 /\ UNCHANGED <<skew, sent, accepted>>

--------------------------------------------------------------------------------
(* The receiver: verifyDelivery, and the example's answer to it. *)

\* The number that the first n digits of a text denote.
Number(ts, n) ==
  LET f[i \in 0..n] == IF i = 0 THEN 0 ELSE 10 * f[i - 1] + ts[i] IN f[n]

\* Mutant of TsNum: parseInt takes the leading digits.
TsNumLeading(ts) ==
  LET leading == {n \in 1..Len(ts) : \A i \in 1..n : ts[i] \in Digits} IN
  IF leading = {} THEN NaN ELSE Number(ts, Cardinality(leading))

TsNum(ts) ==
  IF ts # <<>> /\ \A i \in 1..Len(ts) : ts[i] \in Digits THEN Number(ts, Len(ts)) ELSE NaN

ASSUME DecimalAssumption == \A n \in DOMAIN Decimal : TsNum(Decimal[n]) = n

\* Mutant of Fresh: a timestamp from the future is not stale.
FreshOrFuture(num, clock) == clock - num <= Window

\* The distance to either side counts.
Fresh(num, clock) == clock - num <= Window /\ num - clock <= Window

timestampOk(d, clock) == TsNum(d.ts) \in Int /\ Fresh(TsNum(d.ts), clock)

\* A bare MAC is taken as one with its prefix.
verifyHmac(d) ==
  d.mac.prefix \in {"sha256", "bare"} /\ d.mac.input = envelope(d.ts, d.body)

\* The key's own prefix, or bare hex for an ml-dsa-65 key; a key of neither set
\* verifies nothing.
verifyPq(k, d) ==
  /\ SetFor[k] \in Sets
  /\ d.sig.prefix \in {SetFor[k]} \cup (IF SetFor[k] = "ml-dsa-65" THEN {"bare"} ELSE {})
  /\ d.sig.key = k /\ d.sig.input = envelope(d.ts, d.body)

kidOk(c, d) == c.kid # Missing => d.kid = c.kid
hmacOk(c, d, clock) == c.secret /\ timestampOk(d, clock) /\ verifyHmac(d)
pqOk(c, d, clock) ==
  c.key # Missing /\ timestampOk(d, clock) /\ kidOk(c, d) /\ verifyPq(c.key, d)

\* The boundary of an envelope that was sent, at any of its dots.
Splits(s) ==
  LET e == envelope(s.ts, s.body) IN
  {[ts |-> SubSeq(e, 1, i - 1), body |-> SubSeq(e, i + 1, Len(e))] : i \in {j \in 1..Len(e) : e[j] = Dot}}

Macs == [prefix : {"sha256", "bare", "missing"}, input : {s.mac.input : s \in sent}]
Sigs == {[s.sig EXCEPT !.prefix = p] : s \in sent, p \in Sets \cup {"bare", "missing"}}

\* Any boundary of anything sent, with any signatures and any key id.
Deliveries ==
  {[ts |-> t.ts, body |-> t.body, mac |-> m, sig |-> g, kid |-> k] :
     t \in UNION {Splits(s) : s \in sent}, m \in Macs, g \in Sigs,
     k \in {Missing} \cup {KidOf[x] : x \in KeyPairs}}

Accepts(c, d, clock) ==
  timestampOk(d, clock) /\ kidOk(c, d) /\ (hmacOk(c, d, clock) \/ pqOk(c, d, clock))

Receive(c, d) ==
  /\ Cardinality(accepted) < MaxAccepted
  /\ Accepts(c, d, now)
  /\ accepted' = accepted \cup {[ts |-> d.ts, body |-> d.body, hmacOk |-> hmacOk(c, d, now),
                                 pqOk |-> pqOk(c, d, now), key |-> c.key, at |-> now]}
  /\ UNCHANGED <<now, skew, sent>>

WebhookNext ==
  \/ Tick
  \/ \E body \in Bodies, key \in SenderKeys : signDelivery(body, key)
  \/ \E c \in Configs, d \in Deliveries : Receive(c, d)

WebhookSpec == WebhookInit /\ [][WebhookNext]_webhookVars

--------------------------------------------------------------------------------
(* Properties. *)

\* Types; a timestamp is sent as digits, with no dot in it that could end it.
WebhookTypeOK ==
  /\ now \in Start..MaxNow /\ skew \in Skews
  /\ \A s \in sent :
       /\ s.ts \in Seq(Digits) /\ s.ts # <<>> /\ s.body \in Bodies /\ s.sig.key \in SenderKeys
       /\ s.mac.input = envelope(s.ts, s.body) /\ s.sig.input = envelope(s.ts, s.body)

\* What is accepted was sent with this timestamp and this body: the start of a
\* body cannot move into the header, nor back (153-157). Where pqOk is reported,
\* the holder of the key that was configured signed it, whatever else is known
\* of the HMAC secret (7-9).
AcceptedIsAsSent ==
  \A a \in accepted :
    \E s \in sent : s.ts = a.ts /\ s.body = a.body /\ (a.pqOk => s.sig.key = a.key)

\* However far the sender's clock is off, and however long the network keeps a
\* delivery, all acceptances of it lie within twice the window (158-159).
ReplayEndsWithTheWindow ==
  \A a, b \in accepted : a.ts = b.ts /\ a.body = b.body => a.at - b.at <= 2 * Window

\* A delivery that arrives undisturbed in its window verifies on both sides, under
\* the settings that belong to the sender's key, before a rotation and after it.
UndisturbedIsAccepted ==
  \A s \in sent : \A kid \in {Missing, s.kid} :
    Fresh(TsNum(s.ts), now) =>
      LET c == [secret |-> TRUE, key |-> s.sig.key, kid |-> kid] IN
      hmacOk(c, s, now) /\ pqOk(c, s, now)
================================================================================
