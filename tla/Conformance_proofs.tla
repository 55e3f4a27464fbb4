-------------------------- MODULE Conformance_proofs --------------------------
(***************************************************************************)
(* What the programs promise that say whether an implementation conforms:  *)
(* the interoperability matrix, the evidence bundle, and the vectors with  *)
(* the three graders of them, for any peers, plans, steps, vector sets and *)
(* prompts.  They share no state: the three models stand side by side.     *)
(***************************************************************************)
EXTENDS Conformance, Interop, Evidence,
        SequenceTheorems, FiniteSetTheorems, WellFoundedInduction, TLAPS

--------------------------------------------------------------------------------
(* Interop: the inductive invariant. *)

StepWords == {"keys", "verify", "sign", "tamper", "verify/ctx", "sign/ctx", "tamper/ctx",
              "decapsulate", "encapsulate", "reject"}
AnswerWords == {"agrees", "disagrees", "malformed", "unsupported", "error"}
Question == [row : Nat, step : StepWords \cup {"identify", "stop"}]
Ask == [id : Nat, about : Question]
Message == [id : Nat, about : Question, says : AnswerWords]
CheckRecord == [step : StepWords \cup {"bytes"}, ok : {"true", "false", "null"}, about : Question \cup {None}]

InteropTypes ==
  /\ turn \in 0..Len(Peers) /\ nextId \in Nat \ {0} /\ awaiting \in 0..(nextId - 1)
  /\ pending \subseteq 1..(nextId - 1)
  /\ proc \in {"none", "up", "hung", "down"} /\ closed \in BOOLEAN
  /\ exit \in {None, "0", "1", "thrown"} /\ failures \in Nat
  /\ asked \in Question /\ stdin \in Seq(Ask)
  /\ stdout \in Seq({NL, Noise, JsonNull} \cup Message) /\ buffer \in Seq({NL, Noise, JsonNull} \cup Message)
  /\ checks \in Seq(CheckRecord) /\ available \subseteq DOMAIN Rows
  /\ \A r \in rows : r.peer \in DOMAIN Rows /\ r.row \in 1..Len(Rows[r.peer]) /\ r.checks \in Seq(CheckRecord)

\* The question is one of the plan of the peer whose turn it is.
Asking ==
  /\ Stopping => asked.row = 0
  /\ ~Stopping =>
       /\ turn > 0
       /\ \/ asked = Identify
          \/ /\ asked.row \in 1..Len(Rows[Peer])
             /\ \E k \in 1..Len(Steps(Row(asked).kind)) : asked.step = Steps(Row(asked).kind)[k]

\* A message was asked for by now; the one awaited is about the question.
Fits(m) == m.id < nextId /\ (m.id = awaiting /\ ~Stopping => m.about = asked)

\* A message says what the peer answers to what the message is about.
Honest(m) == m.says = Says(behaviour[Peer], m.about.step)

Genuine(text) == \A i \in 1..Len(text) : text[i] \notin {NL, Noise, JsonNull} => Fits(text[i]) /\ Honest(text[i])

TheAnswer == [about |-> asked, says |-> Says(behaviour[Peer], asked.step)]

\* What is in the pipes of a peer that is being run.
Clean ==
  /\ turn > 0
  /\ \A i \in 1..Len(stdin) : Fits(stdin[i])
  /\ Genuine(stdout) /\ Genuine(buffer)

TransportInv ==
  /\ InteropTypes
  /\ Asking
  /\ closed => pending = {}
  /\ exit \notin {None, "thrown"} => Stopping
  /\ ~closed => Clean
  /\ ~Stopping => /\ reply = None \/ reply = TheAnswer \/ (reply = Failure /\ Peer \in troubled)
                  /\ closed \/ proc = "down" => Peer \in troubled

Bad(cs) == \E i \in 1..Len(cs) : cs[i].ok = "false"

\* A check of a row is decided by the answer to its own question, or by none.
Decided(c, row) ==
  c.about = None \/ /\ c.about.row = row
                    /\ c.about.step = c.step \/ (c.step = "bytes" /\ c.about.step \in Signs)

\* A step a peer that answers it fails.
Fails(p, row, s) ==
  \/ Says(behaviour[p], s) \in {"disagrees", "malformed"}
  \/ s \in Signs /\ behaviour[p] = "hedged" /\ row.path = "backend" /\ p \in Deterministic

FailsBefore(p, row, k) == \E j \in 1..(k - 1) : Fails(p, row, Steps(row.kind)[j])

InMatrix(p, n) == \E r \in rows : r.peer = p /\ r.row = n

RowsInv ==
  /\ \A i \in 1..Len(checks) : Decided(checks[i], asked.row)
  /\ Stopping \/ asked.row = 0 => checks = <<>>
  /\ ~Stopping /\ asked.row > 0 /\ Peer \notin troubled =>
       \A k \in 1..Len(Steps(Row(asked).kind)) :
         asked.step = Steps(Row(asked).kind)[k] => (Bad(checks) <=> FailsBefore(Peer, Row(asked), k))
  /\ AnswersAreToTheQuestion /\ RowsTellThePeer
  /\ \A p \in available : (p = Peer /\ ~Stopping) \/ \A n \in 1..Len(Rows[p]) : InMatrix(p, n)
  /\ ~Stopping => \A n \in 1..(asked.row - 1) : InMatrix(Peer, n)
  /\ failures > 0 <=> \E r \in rows : Bad(r.checks)
  /\ exit \notin {None, "thrown"} => (exit = "1" <=> failures > 0)

InteropIInv == TransportInv /\ RowsInv

(* Interop: the operators. *)

Seven(i) == i = 1 \/ i = 2 \/ i = 3 \/ i = 4 \/ i = 5 \/ i = 6 \/ i = 7

\* The steps of a row, each of them once.
LEMMA StepsAre ==
  ASSUME NEW kind \in {"sig", "kem"}
  PROVE  /\ Len(Steps(kind)) \in {4, 7} /\ Steps(kind)[1] = "keys"
         /\ \A i \in 1..Len(Steps(kind)) : Steps(kind)[i] \in StepWords
         /\ \A i, j \in 1..Len(Steps(kind)) : Steps(kind)[i] = Steps(kind)[j] => i = j
         /\ DOMAIN Steps(kind) = 1..Len(Steps(kind))
<1>1. \A i \in 1..7 : Seven(i)
  BY DEF Seven
<1>2. CASE kind = "sig"
  <2>1. Len(Steps(kind)) = 7 /\ DOMAIN Steps(kind) = 1..7 /\ Steps(kind)[1] = "keys"
    BY <1>2 DEF Steps
  <2>2. \A i \in 1..7 : Steps(kind)[i] \in StepWords
    BY <1>1, <1>2 DEF Steps, Seven, StepWords
  <2>3. \A i, j \in 1..7 : Steps(kind)[i] = Steps(kind)[j] => i = j
    BY <1>1, <1>2 DEF Steps, Seven
  <2> QED BY <2>1, <2>2, <2>3
<1>3. CASE kind = "kem"
  <2>1. Len(Steps(kind)) = 4 /\ DOMAIN Steps(kind) = 1..4 /\ Steps(kind)[1] = "keys"
    BY <1>3 DEF Steps
  <2>2. \A i \in 1..4 : Steps(kind)[i] \in StepWords
    BY <1>1, <1>3 DEF Steps, Seven, StepWords
  <2>3. \A i, j \in 1..4 : Steps(kind)[i] = Steps(kind)[j] => i = j
    BY <1>1, <1>3 DEF Steps, Seven
  <2> QED BY <2>1, <2>2, <2>3
<1> QED BY <1>2, <1>3

LEMMA PositionIs ==
  ASSUME NEW kind \in {"sig", "kem"}, NEW k \in 1..Len(Steps(kind))
  PROVE  Position(Steps(kind), Steps(kind)[k]) = k
BY StepsAre DEF Position

\* What is parsed from a text is one of its elements.
LEMMA MessagesAre ==
  ASSUME NEW S, NEW text \in Seq(S), NEW m \in Messages(text)
  PROVE  \E i \in 1..Len(text) : m = text[i] /\ text[i] \notin {NL, Noise, JsonNull}
<1>l. PICK l \in Lines(text) : m \in Parsed(SubSeq(text, l[1] + 1, l[2] - 1))
  BY DEF Messages
<1>1. PICK a \in {0} \cup LineEnds(text), b \in LineEnds(text) :
        /\ a < b /\ \A i \in LineEnds(text) : ~(a < i /\ i < b)
        /\ m \in Parsed(SubSeq(text, a + 1, b - 1))
  BY <1>l DEF Lines
<1>2. a \in Nat /\ b \in 1..Len(text) /\ LineEnds(text) = {i \in 1..Len(text) : text[i] = NL}
  BY DEF LineEnds
<1> DEFINE line == SubSeq(text, a + 1, b - 1)
<1>3. Len(line) = 2 /\ m = line[1] /\ line[1] \notin {Noise, JsonNull}
  <2>1. m \in Parsed(line)
    BY <1>1
  <2> HIDE DEF line
  <2> QED BY <2>1 DEF Parsed
<1>4. line[1] = text[a + 1] /\ a + 1 \in 1..Len(text) /\ a + 1 < b
  BY <1>1, <1>2, <1>3
<1>5. text[a + 1] # NL
  BY <1>1, <1>2, <1>4
<1> QED BY <1>3, <1>4, <1>5

\* A finite set of positions has a last one.
LEMMA LastPosition ==
  ASSUME NEW n \in Nat, NEW T \in SUBSET (0..n), T # {}
  PROVE  \E e \in T : \A i \in T : i <= e
<1> DEFINE U == {n - e : e \in T}
           R == OpToRel(<, Nat)
<1>1. U \subseteq Nat /\ U # {}
  <2>1. \A e \in T : e \in 0..n /\ n - e \in Nat
    OBVIOUS
  <2> QED BY <2>1
<1>2. IsWellFoundedOn(R, Nat)
  BY NatLessThanWellFounded
<1>3. \A x, y \in Nat : y < x => <<y, x>> \in R
  BY DEF OpToRel
<1> HIDE DEF R
<1>4. PICK x \in U : \A y \in U : ~ (<<y, x>> \in R)
  BY <1>1, <1>2, WFMin
<1>5. PICK e \in T : x = n - e
  OBVIOUS
<1>6. \A i \in T : ~ (n - i < n - e)
  BY <1>1, <1>3, <1>4, <1>5
<1>7. \A i \in T : i \in 0..n
  OBVIOUS
<1> QED BY <1>6, <1>7

\* What is left of a text is the end of it.
LEMMA RestIs ==
  ASSUME NEW S, NEW text \in Seq(S)
  PROVE  Rest(text) \in Seq(S) /\ \A i \in 1..Len(Rest(text)) : \E j \in 1..Len(text) : Rest(text)[i] = text[j]
<1> DEFINE T == {0} \cup LineEnds(text)
           e == CHOOSE e \in T : \A i \in LineEnds(text) : i <= e
<1>1. T \in SUBSET (0..Len(text)) /\ T # {} /\ Len(text) \in Nat
  BY DEF LineEnds
<1>2. \E x \in T : \A i \in LineEnds(text) : i <= x
  BY <1>1, LastPosition
<1>3. e \in 0..Len(text)
  BY <1>1, <1>2
<1>4. Rest(text) = SubSeq(text, 1 + e, Len(text))
  BY DEF Rest
<1> HIDE DEF e
<1> QED BY <1>3, <1>4

LEMMA SaysIs == \A b, s : Says(b, s) \in AnswerWords
BY DEF Says, AnswerWords

LEMMA CheckIs == \A s, r : Check(s, r) \in {"true", "false", "null"}
BY DEF Check

LEMMA BytesIs == \A r, p : Bytes(r, p) \in {"true", "false", "null"}
BY DEF Bytes

\* A row counts towards the failures if a check of it failed.
LEMMA FailedCounts ==
  ASSUME NEW cs \in Seq(CheckRecord)
  PROVE  Failed(cs) \in Nat /\ (Failed(cs) > 0 <=> Bad(cs))
<1> DEFINE F == {i \in DOMAIN cs : cs[i].ok = "false"}
<1>1. IsFiniteSet(F)
  <2>1. IsFiniteSet(1..Len(cs)) /\ F \subseteq 1..Len(cs)
    BY FS_Interval
  <2> QED BY <2>1, FS_Subset
<1>2. Cardinality(F) \in Nat /\ (Cardinality(F) = 0 <=> F = {})
  BY <1>1, FS_CardinalityType, FS_EmptySet
<1>3. Bad(cs) <=> F # {}
  BY DEF Bad
<1> QED BY <1>2, <1>3 DEF Failed

(* Interop: the transport. *)

LEMMA SameQuestion ==
  ASSUME UNCHANGED <<turn, asked, awaiting, nextId, behaviour>>
  PROVE  /\ \A m : Fits(m)' = Fits(m) /\ Honest(m)' = Honest(m)
         /\ Peer' = Peer /\ Stopping' = Stopping /\ TheAnswer' = TheAnswer /\ Asking' = Asking
<1>1. Peer' = Peer /\ Stopping' = Stopping
  BY DEF Peer, Stopping
<1> QED BY <1>1 DEF Fits, Honest, TheAnswer, Asking, Row

\* Nothing but the transport has moved, and peers are only ever added to the troubled.
LEMMA RowsStay ==
  ASSUME RowsInv, UNCHANGED <<turn, asked, checks, rows, failures, available, behaviour>>,
         exit' \in {exit, "thrown"}, troubled \subseteq troubled'
  PROVE  RowsInv'
<1>1. Peer' = Peer /\ Stopping' = Stopping
  BY DEF Peer, Stopping
<1>2. AnswersAreToTheQuestion'
  BY DEF RowsInv, AnswersAreToTheQuestion
<1>3. \A p, r : Disagrees(p, r)' = Disagrees(p, r)
  BY DEF Disagrees
<1>4. RowsTellThePeer'
  BY <1>3 DEF RowsInv, RowsTellThePeer
<1>5. \A p, n : InMatrix(p, n)' = InMatrix(p, n)
  BY DEF InMatrix
<1>6. ~Stopping' /\ asked'.row > 0 /\ Peer' \notin troubled' =>
        \A k \in 1..Len(Steps(Row(asked)'.kind)) :
          asked'.step = Steps(Row(asked)'.kind)[k] => (Bad(checks)' <=> FailsBefore(Peer, Row(asked), k)')
  <2>1. Row(asked)' = Row(asked) /\ (Bad(checks)' <=> Bad(checks)) /\ asked' = asked
    BY <1>1 DEF Row, Bad
  <2>2. \A k : FailsBefore(Peer, Row(asked), k)' <=> FailsBefore(Peer, Row(asked), k)
    <3>1. \A p, r, s : Fails(p, r, s)' <=> Fails(p, r, s)
      BY DEF Fails
    <3>2. \A p, r, k : FailsBefore(p, r, k)' <=> FailsBefore(p, r, k)
      BY <3>1 DEF FailsBefore
    <3> QED BY <1>1, <2>1, <3>2
  <2>3. ~Stopping /\ asked.row > 0 /\ Peer \notin troubled =>
          \A k \in 1..Len(Steps(Row(asked).kind)) :
            asked.step = Steps(Row(asked).kind)[k] => (Bad(checks) <=> FailsBefore(Peer, Row(asked), k))
    BY DEF RowsInv
  <2>4. Peer' \notin troubled' => Peer \notin troubled
    BY <1>1
  <2> QED BY <1>1, <2>1, <2>2, <2>3, <2>4
<1>7. /\ \A i \in 1..Len(checks') : Decided(checks'[i], asked'.row)
      /\ Stopping' \/ asked'.row = 0 => checks' = <<>>
  BY <1>1 DEF RowsInv
<1>8. /\ \A p \in available' : (p = Peer' /\ ~Stopping') \/ \A n \in 1..Len(Rows[p]) : InMatrix(p, n)'
      /\ ~Stopping' => \A n \in 1..(asked'.row - 1) : InMatrix(Peer, n)'
  BY <1>1, <1>5 DEF RowsInv
<1>9. /\ failures' > 0 <=> \E r \in rows' : Bad(r.checks)
      /\ exit' \notin {None, "thrown"} => (exit' = "1" <=> failures' > 0)
  BY DEF RowsInv
<1> QED BY <1>2, <1>4, <1>6, <1>7, <1>8, <1>9 DEF RowsInv

\* What is true of every element of a text is true of its parts.
LEMMA GenuinePart ==
  ASSUME NEW text, NEW part, Genuine(text), \A i \in 1..Len(part) : \E j \in 1..Len(text) : part[i] = text[j]
  PROVE  Genuine(part)
BY DEF Genuine

LEMMA DataInv ==
  ASSUME InteropIInv, Data
  PROVE  InteropIInv'
<1> DEFINE S == {NL, Noise, JsonNull} \cup Message
<1>1. TransportInv /\ RowsInv /\ InteropTypes
  BY DEF InteropIInv, TransportInv
<1>2. PICK n \in {i \in 1..Len(stdout) : ~Throws(buffer \o SubSeq(stdout, 1, i))} :
        LET text == buffer \o SubSeq(stdout, 1, n)
            msgs == Messages(text)
            mine == {m \in msgs : m.id \in pending /\ m.id = awaiting} IN
        /\ stdout' = SubSeq(stdout, n + 1, Len(stdout))
        /\ buffer' = Rest(text)
        /\ pending' = pending \ {m.id : m \in msgs}
        /\ reply' = IF mine # {} /\ reply = None
                    THEN LET m == CHOOSE m \in mine : TRUE IN [about |-> m.about, says |-> m.says]
                    ELSE reply
  BY DEF Data
<1>3. /\ UNCHANGED <<turn, asked, awaiting, nextId, closed, proc, stdin, checks, rows, failures, exit,
                     available, behaviour, troubled>>
  BY DEF Data, results
<1>4. /\ \A m : Fits(m)' = Fits(m) /\ Honest(m)' = Honest(m)
      /\ Peer' = Peer /\ Stopping' = Stopping /\ TheAnswer' = TheAnswer /\ Asking' = Asking
  BY <1>3, SameQuestion
<1>5. PICK text : text = buffer \o SubSeq(stdout, 1, n)
  OBVIOUS
<1>6. stdout \in Seq(S) /\ buffer \in Seq(S) /\ Len(stdout) \in Nat
  BY <1>1 DEF InteropTypes
<1>7. /\ text \in Seq(S)
      /\ \A i \in 1..Len(text) : (\E j \in 1..Len(buffer) : text[i] = buffer[j]) \/ (\E j \in 1..Len(stdout) : text[i] = stdout[j])
  <2> DEFINE h == SubSeq(stdout, 1, n)
  <2>1. h \in Seq(S) /\ \A j \in 1..Len(h) : j \in 1..Len(stdout) /\ h[j] = stdout[j]
    BY <1>6
  <2> HIDE DEF h, S
  <2>2. text \in Seq(S) /\ Len(text) = Len(buffer) + Len(h)
        /\ \A i \in 1..Len(text) : text[i] = IF i <= Len(buffer) THEN buffer[i] ELSE h[i - Len(buffer)]
    BY <1>5, <1>6, <2>1 DEF h
  <2>3. \A i \in 1..Len(text) : i <= Len(buffer) \/ i - Len(buffer) \in 1..Len(h)
    BY <2>1, <2>2, <1>6
  <2>4. ASSUME NEW i \in 1..Len(text)
        PROVE  (\E j \in 1..Len(buffer) : text[i] = buffer[j]) \/ (\E j \in 1..Len(stdout) : text[i] = stdout[j])
    <3>1. CASE i <= Len(buffer)
      BY <3>1, <2>2, <1>6
    <3>2. CASE i > Len(buffer)
      <4>1. i - Len(buffer) \in 1..Len(h) /\ text[i] = h[i - Len(buffer)]
        BY <3>2, <2>2, <2>3, <1>6
      <4> QED BY <4>1, <2>1
    <3> QED BY <3>1, <3>2, <1>6, <2>2
  <2> QED BY <2>2, <2>4 DEF S
<1>8. Rest(text) \in Seq(S) /\ \A i \in 1..Len(Rest(text)) : \E j \in 1..Len(text) : Rest(text)[i] = text[j]
  BY <1>7, RestIs
<1>9. stdout' \in Seq(S) /\ \A i \in 1..Len(stdout') : \E j \in 1..Len(stdout) : stdout'[i] = stdout[j]
  <2>1. stdout' = SubSeq(stdout, n + 1, Len(stdout))
    BY <1>2
  <2>2. stdout' \in Seq(S) /\ \A i \in 1..Len(stdout') : stdout'[i] = stdout[n + i] /\ n + i \in 1..Len(stdout)
    BY <2>1, <1>6
  <2> QED BY <2>2
<1>10. InteropTypes'
  <2>1. pending' \subseteq pending /\ buffer' = Rest(text)
    BY <1>2, <1>5
  <2> QED BY <1>1, <1>3, <1>8, <1>9, <2>1 DEF InteropTypes
<1>11. ~closed => Genuine(text)
  <2> SUFFICES ASSUME ~closed, NEW i \in 1..Len(text), text[i] \notin {NL, Noise, JsonNull}
               PROVE  Fits(text[i]) /\ Honest(text[i])
    BY DEF Genuine
  <2> QED BY <1>1, <1>7 DEF TransportInv, Genuine, Clean
<1>12. ~closed' => Clean'
  <2> SUFFICES ASSUME ~closed
               PROVE  turn > 0 /\ (\A i \in 1..Len(stdin) : Fits(stdin[i])) /\ Genuine(stdout') /\ Genuine(buffer')
    BY <1>3, <1>4 DEF Genuine, Clean
  <2>1. Genuine(stdout')
    BY <1>1, <1>9, GenuinePart DEF TransportInv, Clean
  <2>2. buffer' = Rest(text)
    BY <1>2, <1>5
  <2>3. Genuine(buffer')
    BY <2>2, <1>8, <1>11, GenuinePart
  <2> QED BY <1>1, <2>1, <2>3 DEF TransportInv, Clean
<1>13. ~Stopping => reply' = None \/ reply' = TheAnswer \/ (reply' = Failure /\ Peer \in troubled)
  <2> DEFINE mine == {m \in Messages(text) : m.id \in pending /\ m.id = awaiting}
  <2>1. CASE mine # {} /\ reply = None /\ ~Stopping
    <3>1. PICK m \in mine : reply' = [about |-> m.about, says |-> m.says]
      BY <1>2, <1>5, <2>1
    <3>2. PICK i \in 1..Len(text) : m = text[i] /\ text[i] \notin {NL, Noise, JsonNull}
      BY <1>7, MessagesAre
    <3>3. ~closed
      BY <3>1, <1>1 DEF TransportInv
    <3>4. m.about = asked /\ m.says = Says(behaviour[Peer], m.about.step)
      BY <1>11, <2>1, <3>2, <3>3 DEF Genuine, Fits, Honest
    <3> QED BY <3>1, <3>4 DEF TheAnswer
  <2>2. CASE ~(mine # {} /\ reply = None)
    BY <1>1, <1>2, <1>5, <2>2 DEF TransportInv
  <2> QED BY <2>1, <2>2
<1>14. closed' => pending' = {}
  BY <1>1, <1>2, <1>3 DEF TransportInv
<1>15. TransportInv'
  BY <1>1, <1>3, <1>4, <1>10, <1>12, <1>13, <1>14 DEF TransportInv, Failure
<1>16. RowsInv'
  BY <1>1, <1>3, RowsStay
<1> QED BY <1>15, <1>16 DEF InteropIInv

\* What is left when nothing of the pipes and of the question has moved.
LEMMA PipesStay ==
  ASSUME TransportInv,
         UNCHANGED <<turn, asked, awaiting, nextId, stdin, stdout, buffer, behaviour>>,
         closed' = closed
  PROVE  ~closed' => Clean'
BY SameQuestion DEF TransportInv, Clean, Genuine

LEMMA DieInv ==
  ASSUME InteropIInv, Die, proc = "down"
  PROVE  InteropIInv'
<1>1. TransportInv /\ RowsInv /\ InteropTypes
  BY DEF InteropIInv, TransportInv
<1>2. /\ closed' = TRUE /\ pending' = {}
      /\ reply' = IF reply = None /\ awaiting \in pending THEN Failure ELSE reply
      /\ UNCHANGED <<turn, asked, awaiting, nextId, proc, stdin, stdout, buffer, checks, rows, failures, exit,
                     available, behaviour, troubled>>
  BY DEF Die, pipes, results
<1>3. Peer' = Peer /\ Stopping' = Stopping /\ TheAnswer' = TheAnswer /\ Asking' = Asking /\ Failure' = Failure
  BY <1>2, SameQuestion DEF Failure
<1>4. InteropTypes'
  BY <1>1, <1>2 DEF InteropTypes
<1>5. TransportInv'
  BY <1>1, <1>2, <1>3, <1>4 DEF TransportInv
<1>6. RowsInv'
  BY <1>1, <1>2, RowsStay
<1> QED BY <1>5, <1>6 DEF InteropIInv

\* An exception ends the run and leaves everything else as it was.
LEMMA UncaughtInv ==
  ASSUME InteropIInv, Uncaught
  PROVE  InteropIInv'
<1>1. TransportInv /\ RowsInv /\ InteropTypes
  BY DEF InteropIInv, TransportInv
<1>2. /\ exit' = "thrown"
      /\ UNCHANGED <<turn, asked, reply, awaiting, nextId, pending, closed, proc, stdin, stdout, buffer, checks,
                     rows, failures, available, behaviour, troubled>>
  BY DEF Uncaught, transport, pipes, results
<1>3. Peer' = Peer /\ Stopping' = Stopping /\ TheAnswer' = TheAnswer /\ Asking' = Asking /\ Failure' = Failure
  BY <1>2, SameQuestion DEF Failure
<1>4. InteropTypes'
  BY <1>1, <1>2 DEF InteropTypes
<1>5. TransportInv'
  BY <1>1, <1>2, <1>3, <1>4, PipesStay DEF TransportInv
<1>6. RowsInv'
  BY <1>1, <1>2, RowsStay
<1> QED BY <1>5, <1>6 DEF InteropIInv

LEMMA TimeoutInv ==
  ASSUME InteropIInv, Timeout
  PROVE  InteropIInv'
<1>1. TransportInv /\ RowsInv /\ InteropTypes
  BY DEF InteropIInv, TransportInv
<1>2. /\ reply' = Failure /\ troubled' = troubled \cup {Peer}
      /\ UNCHANGED <<turn, asked, awaiting, nextId, pending, closed, proc, stdin, stdout, buffer, checks, rows, failures, exit,
                     available, behaviour>>
  BY DEF Timeout, pipes, results, transport
<1>3. Peer' = Peer /\ Stopping' = Stopping /\ Asking' = Asking /\ Failure' = Failure
  BY <1>2, SameQuestion DEF Failure
<1>4. InteropTypes'
  BY <1>1, <1>2 DEF InteropTypes
<1>5. TransportInv'
  BY <1>1, <1>2, <1>3, <1>4, PipesStay DEF TransportInv
<1>6. RowsInv'
  BY <1>1, <1>2, RowsStay
<1> QED BY <1>5, <1>6 DEF InteropIInv

LEMMA PeerAnswersInv ==
  ASSUME InteropIInv, PeerAnswers
  PROVE  InteropIInv'
<1> DEFINE S == {NL, Noise, JsonNull} \cup Message
<1>1. TransportInv /\ RowsInv /\ InteropTypes
  BY DEF InteropIInv, TransportInv
<1>2. PICK m, a : /\ m = Head(stdin) /\ a = [id |-> m.id, about |-> m.about, says |-> Says(behaviour[Peer], m.about.step)]
                  /\ stdin # <<>> /\ stdout' = stdout \o <<a, a, NL>> /\ stdin' = Tail(stdin)
  BY DEF PeerAnswers
<1>3. /\ UNCHANGED <<turn, asked, reply, awaiting, nextId, pending, closed, proc, buffer, checks, rows, failures, exit,
                     available, behaviour, troubled>>
  BY DEF PeerAnswers, transport, results
<1>4. /\ \A x : Fits(x)' = Fits(x) /\ Honest(x)' = Honest(x)
      /\ Peer' = Peer /\ Stopping' = Stopping /\ TheAnswer' = TheAnswer /\ Asking' = Asking /\ Failure' = Failure
  BY <1>3, SameQuestion DEF Failure
<1>5. stdin \in Seq(Ask) /\ stdout \in Seq(S)
  BY <1>1 DEF InteropTypes
<1>6. /\ m \in Ask /\ 1 \in 1..Len(stdin) /\ m = stdin[1] /\ stdin' \in Seq(Ask)
      /\ \A i \in 1..Len(stdin') : \E j \in 1..Len(stdin) : stdin'[i] = stdin[j]
  <2>1. /\ m = stdin[1] /\ Len(stdin) >= 1 /\ Len(stdin) \in Nat /\ Tail(stdin) \in Seq(Ask)
        /\ Len(Tail(stdin)) = Len(stdin) - 1 /\ \A i \in 1..Len(Tail(stdin)) : Tail(stdin)[i] = stdin[i + 1]
    BY <1>2, <1>5
  <2>2. \A i \in 1..Len(Tail(stdin)) : i + 1 \in 1..Len(stdin)
    BY <2>1
  <2> QED BY <1>2, <1>5, <2>1, <2>2
<1>7. a \in Message
  BY <1>2, <1>6, SaysIs DEF Message, Ask
<1>8. /\ stdout' \in Seq(S)
      /\ \A i \in 1..Len(stdout') : (\E j \in 1..Len(stdout) : stdout'[i] = stdout[j]) \/ stdout'[i] = a \/ stdout'[i] = NL
  <2> HIDE DEF S
  <2> DEFINE t == <<a, a, NL>>
  <2>1. t \in Seq(S) /\ Len(t) = 3 /\ \A i \in 1..3 : t[i] = a \/ t[i] = NL
    <3>1. a \in S /\ NL \in S
      BY <1>7 DEF S
    <3> QED BY <3>1
  <2> HIDE DEF t
  <2>2. /\ stdout' \in Seq(S) /\ Len(stdout') = Len(stdout) + 3 /\ Len(stdout) \in Nat
        /\ \A i \in 1..Len(stdout') : stdout'[i] = IF i <= Len(stdout) THEN stdout[i] ELSE t[i - Len(stdout)]
    <3>1. stdout' = stdout \o t
      BY <1>2 DEF t
    <3>2. /\ stdout \o t \in Seq(S) /\ Len(stdout \o t) = Len(stdout) + Len(t)
          /\ \A i \in 1..(Len(stdout) + Len(t)) :
               (stdout \o t)[i] = IF i <= Len(stdout) THEN stdout[i] ELSE t[i - Len(stdout)]
      BY <1>5, <2>1, ConcatProperties, Zenon
    <3>3. Len(stdout) \in Nat
      BY <1>5
    <3> QED BY <2>1, <3>1, <3>2, <3>3
  <2> QED BY <2>1, <2>2
<1>9. InteropTypes'
  BY <1>1, <1>3, <1>6, <1>8 DEF InteropTypes
<1>10. ~closed' => Clean'
  <2> SUFFICES ASSUME ~closed
               PROVE  (\A i \in 1..Len(stdin') : Fits(stdin'[i])) /\ Genuine(stdout')
    BY <1>1, <1>3, <1>4 DEF Genuine, Clean, TransportInv
  <2>1. Fits(a) /\ Honest(a)
    BY <1>1, <1>2, <1>6 DEF TransportInv, Clean, Fits, Honest
  <2>2. \A i \in 1..Len(stdin') : Fits(stdin'[i])
    BY <1>1, <1>6 DEF TransportInv, Clean
  <2>3. Genuine(stdout')
    BY <1>1, <1>8, <2>1 DEF TransportInv, Clean, Genuine
  <2> QED BY <2>2, <2>3
<1>11. TransportInv'
  BY <1>1, <1>3, <1>4, <1>9, <1>10 DEF TransportInv
<1>12. RowsInv'
  BY <1>1, <1>3, RowsStay
<1> QED BY <1>11, <1>12 DEF InteropIInv

LEMMA PeerPrintsInv ==
  ASSUME InteropIInv, PeerPrints
  PROVE  InteropIInv'
<1> DEFINE S == {NL, Noise, JsonNull} \cup Message
<1>1. TransportInv /\ RowsInv /\ InteropTypes
  BY DEF InteropIInv, TransportInv
<1>2. PICK t \in {<<Noise>>, <<Noise, NL>>, <<JsonNull, NL>>} : stdout' = stdout \o t
  BY DEF PeerPrints
<1>3. /\ UNCHANGED <<turn, asked, reply, awaiting, nextId, pending, closed, proc, stdin, buffer, checks, rows, failures, exit,
                     available, behaviour, troubled>>
  BY DEF PeerPrints, transport, results
<1>4. /\ \A x : Fits(x)' = Fits(x) /\ Honest(x)' = Honest(x)
      /\ Peer' = Peer /\ Stopping' = Stopping /\ TheAnswer' = TheAnswer /\ Asking' = Asking /\ Failure' = Failure
  BY <1>3, SameQuestion DEF Failure
<1>5. stdout \in Seq(S)
  BY <1>1 DEF InteropTypes
<1>6. /\ stdout' \in Seq(S)
      /\ \A i \in 1..Len(stdout') : (\E j \in 1..Len(stdout) : stdout'[i] = stdout[j]) \/ stdout'[i] \in {NL, Noise, JsonNull}
  <2>1. t \in Seq(S) /\ \A i \in 1..Len(t) : t[i] \in {NL, Noise, JsonNull}
    <3>1. CASE t = <<Noise>>
      BY <3>1
    <3>2. CASE t = <<Noise, NL>>
      BY <3>2
    <3>3. CASE t = <<JsonNull, NL>>
      BY <3>3
    <3> QED BY <3>1, <3>2, <3>3
  <2> HIDE DEF S
  <2>2. /\ stdout' \in Seq(S) /\ Len(stdout') = Len(stdout) + Len(t) /\ Len(stdout) \in Nat /\ Len(t) \in Nat
        /\ \A i \in 1..Len(stdout') : stdout'[i] = IF i <= Len(stdout) THEN stdout[i] ELSE t[i - Len(stdout)]
    BY <1>2, <1>5, <2>1
  <2> QED BY <2>1, <2>2
<1>7. InteropTypes'
  BY <1>1, <1>3, <1>6 DEF InteropTypes
<1>8. ~closed' => Clean'
  BY <1>1, <1>3, <1>4, <1>6 DEF Genuine, Clean, TransportInv
<1>9. TransportInv'
  BY <1>1, <1>3, <1>4, <1>7, <1>8 DEF TransportInv
<1>10. RowsInv'
  BY <1>1, <1>3, RowsStay
<1> QED BY <1>9, <1>10 DEF InteropIInv

LEMMA PeerHangsInv ==
  ASSUME InteropIInv, PeerHangs
  PROVE  InteropIInv'
<1>1. TransportInv /\ RowsInv /\ InteropTypes
  BY DEF InteropIInv, TransportInv
<1>2. /\ proc' = "hung" /\ Peer' = Peer
      /\ UNCHANGED <<turn, asked, reply, awaiting, nextId, pending, closed, stdin, stdout, buffer, checks, rows, failures, exit,
                     available, behaviour, troubled>>
  BY DEF PeerHangs, transport, pipes, results, Peer
<1>3. Peer' = Peer /\ Stopping' = Stopping /\ TheAnswer' = TheAnswer /\ Asking' = Asking /\ Failure' = Failure
  BY <1>2, SameQuestion DEF Failure
<1>4. InteropTypes'
  BY <1>1, <1>2 DEF InteropTypes
<1>5. ~closed' => Clean'
  BY <1>1, <1>2, PipesStay
<1>6. TransportInv'
  BY <1>1, <1>2, <1>3, <1>4, <1>5 DEF TransportInv
<1>7. RowsInv'
  BY <1>1, <1>2, RowsStay
<1> QED BY <1>6, <1>7 DEF InteropIInv

LEMMA PeerDiesInv ==
  ASSUME InteropIInv, PeerDies
  PROVE  InteropIInv'
<1> DEFINE S == {NL, Noise, JsonNull} \cup Message
<1>1. TransportInv /\ RowsInv /\ InteropTypes
  BY DEF InteropIInv, TransportInv
<1>2. /\ proc' = "down" /\ troubled' = troubled \cup (IF Stopping THEN {} ELSE {Peer})
      /\ UNCHANGED <<turn, asked, reply, awaiting, nextId, pending, closed, stdin, buffer, checks, rows, failures, exit,
                     available, behaviour>>
  BY DEF PeerDies, transport, results
<1>3. /\ \A x : Fits(x)' = Fits(x) /\ Honest(x)' = Honest(x)
      /\ Peer' = Peer /\ Stopping' = Stopping /\ TheAnswer' = TheAnswer /\ Asking' = Asking /\ Failure' = Failure
  BY <1>2, SameQuestion DEF Failure
<1>4. stdout' \in Seq(S) /\ \A i \in 1..Len(stdout') : \E j \in 1..Len(stdout) : stdout'[i] = stdout[j]
  <2>1. stdout \in Seq(S)
    BY <1>1 DEF InteropTypes
  <2>2. CASE UNCHANGED stdout
    BY <2>1, <2>2
  <2>3. CASE stdout # <<>> /\ stdout' = SubSeq(stdout, 1, Len(stdout) - 2)
    <3>1. Len(stdout) \in Nat /\ Len(stdout) > 0
      BY <2>1, <2>3
    <3>2. Len(stdout) - 2 \in Int /\ Len(stdout) - 2 <= Len(stdout)
      BY <3>1
    <3> HIDE DEF S
    <3>3. stdout' \in Seq(S) /\ \A i \in 1..Len(stdout') : stdout'[i] = stdout[i] /\ i \in 1..Len(stdout)
      <4>1. CASE Len(stdout) - 2 >= 0
        BY <4>1, <2>1, <2>3, <3>1, <3>2
      <4>2. CASE Len(stdout) - 2 < 0
        <5>1. stdout' = <<>>
          BY <4>2, <2>1, <2>3, <3>1, <3>2
        <5> QED BY <5>1
      <4> QED BY <4>1, <4>2, <3>1
    <3> QED BY <3>3
  <2> QED BY <2>2, <2>3 DEF PeerDies
<1>5. InteropTypes'
  BY <1>1, <1>2, <1>4 DEF InteropTypes
<1>6. ~closed' => Clean'
  <2> SUFFICES ASSUME ~closed
               PROVE  Genuine(stdout')
    BY <1>1, <1>2, <1>3 DEF Genuine, Clean, TransportInv
  <2> QED BY <1>1, <1>4, GenuinePart DEF TransportInv, Clean
<1>7. TransportInv'
  BY <1>1, <1>2, <1>3, <1>5, <1>6 DEF TransportInv
<1>8. RowsInv'
  BY <1>1, <1>2, RowsStay
<1> QED BY <1>7, <1>8 DEF InteropIInv

LEMMA LaunchInv ==
  ASSUME InteropIInv, Launch
  PROVE  InteropIInv'
<1>1. TransportInv /\ RowsInv /\ InteropTypes
  BY DEF InteropIInv, TransportInv
<1>2. /\ Stopping /\ closed /\ exit = None /\ turn < Len(Peers) /\ turn' = turn + 1
      /\ available' = available \cup {Peers[turn + 1]}
      /\ asked' = Identify /\ reply' = None /\ awaiting' = 1 /\ nextId' = 2 /\ pending' = pending \cup {1}
      /\ stdin' = <<[id |-> 1, about |-> Identify]>> /\ stdout' = <<>> /\ buffer' = <<>>
      /\ closed' = FALSE /\ proc' = "up"
      /\ UNCHANGED <<checks, rows, failures, exit, behaviour, troubled>>
  BY DEF Launch, Stopped, Request, Sent, results
<1>3. pending = {} /\ checks = <<>> /\ turn \in 0..Len(Peers) /\ Len(Peers) \in Nat
  BY <1>1, <1>2, InteropAssumption DEF TransportInv, RowsInv, InteropTypes
<1>4. ~Stopping' /\ asked'.row = 0 /\ Identify \in Question /\ turn' > 0 /\ Peer' = Peers[turn + 1]
  BY <1>2, <1>3 DEF Stopping, Identify, Question, Peer
<1>5. InteropTypes'
  <2>1. stdin' \in Seq(Ask)
    <3> DEFINE m == [id |-> 1, about |-> Identify]
    <3>1. m \in Ask
      BY <1>4 DEF Ask
    <3> HIDE DEF m
    <3> QED BY <1>2, <3>1 DEF m
  <2>2. turn' \in 0..Len(Peers)
    BY <1>2, <1>3
  <2>3. pending' \subseteq 1..(nextId' - 1) /\ awaiting' \in 0..(nextId' - 1) /\ nextId' \in Nat \ {0}
    BY <1>2, <1>3
  <2>4. stdout' \in Seq({NL, Noise, JsonNull} \cup Message) /\ buffer' \in Seq({NL, Noise, JsonNull} \cup Message)
    BY <1>2
  <2>5. available' \subseteq DOMAIN Rows
    <3>1. Peers[turn + 1] \in DOMAIN Rows
      BY <1>2, <1>3, InteropAssumption
    <3> QED BY <1>1, <1>2, <3>1 DEF InteropTypes
  <2> QED BY <1>1, <1>2, <1>4, <2>1, <2>2, <2>3, <2>4, <2>5 DEF InteropTypes
<1>6. Clean'
  <2>1. \A i \in 1..Len(stdin') : stdin'[i] = [id |-> 1, about |-> Identify]
    BY <1>2
  <2>2. (\A i \in 1..Len(stdin) : Fits(stdin[i]))'
    BY <2>1, <1>2 DEF Fits
  <2>3. Len(stdout') = 0 /\ Len(buffer') = 0
    BY <1>2
  <2> QED BY <1>4, <2>2, <2>3 DEF Clean, Genuine
<1>7. TransportInv'
  BY <1>1, <1>2, <1>4, <1>5, <1>6 DEF TransportInv, Asking, Stopping
<1>8. AnswersAreToTheQuestion' /\ RowsTellThePeer'
  <2>1. \A p, r : Disagrees(p, r)' = Disagrees(p, r)
    BY <1>2 DEF Disagrees
  <2> QED BY <1>1, <1>2, <2>1 DEF RowsInv, AnswersAreToTheQuestion, RowsTellThePeer
<1>9. \A p, n : InMatrix(p, n)' = InMatrix(p, n)
  BY <1>2 DEF InMatrix
<1>10. /\ \A p \in available' : (p = Peer' /\ ~Stopping') \/ \A n \in 1..Len(Rows[p]) : InMatrix(p, n)'
       /\ ~Stopping' => \A n \in 1..(asked'.row - 1) : InMatrix(Peer, n)'
  BY <1>1, <1>2, <1>4, <1>9 DEF RowsInv
<1>11. checks' = <<>> /\ Len(checks') = 0
  BY <1>2, <1>3
<1>12. (failures' > 0 <=> \E r \in rows' : Bad(r.checks)) /\ (exit' \notin {None, "thrown"} => (exit' = "1" <=> failures' > 0))
  BY <1>1, <1>2 DEF RowsInv
<1>13. RowsInv'
  BY <1>4, <1>8, <1>10, <1>11, <1>12 DEF RowsInv
<1> QED BY <1>7, <1>13 DEF InteropIInv

\* With the peer stopped, nothing of the invariant is about the peer.
LEMMA AbsentFinishInv ==
  ASSUME InteropIInv, Absent \/ Finish
  PROVE  InteropIInv'
<1>1. TransportInv /\ RowsInv /\ InteropTypes
  BY DEF InteropIInv, TransportInv
<1>2. /\ Stopping /\ closed /\ exit = None /\ turn' \in {turn, turn + 1} /\ (turn' = turn + 1 => turn < Len(Peers))
      /\ exit' \in {exit, "0", "1"} /\ (exit' \notin {None, "thrown"} => (exit' = "1" <=> failures > 0))
      /\ UNCHANGED <<asked, reply, awaiting, nextId, pending, closed, proc, stdin, stdout, buffer, checks, rows, failures,
                     available, behaviour, troubled>>
  BY DEF Absent, Finish, Stopped, transport, pipes, results
<1>3. Stopping'
  BY <1>2 DEF Stopping
<1>4. InteropTypes'
  <2>1. turn' \in 0..Len(Peers)
    BY <1>1, <1>2, InteropAssumption DEF InteropTypes
  <2> QED BY <1>1, <1>2, <2>1 DEF InteropTypes
<1>5. TransportInv'
  BY <1>1, <1>2, <1>3, <1>4 DEF TransportInv, Asking
<1>6. AnswersAreToTheQuestion' /\ RowsTellThePeer'
  <2>1. \A p, r : Disagrees(p, r)' = Disagrees(p, r)
    BY <1>2 DEF Disagrees
  <2> QED BY <1>1, <1>2, <2>1 DEF RowsInv, AnswersAreToTheQuestion, RowsTellThePeer
<1>7. \A p, n : InMatrix(p, n)' = InMatrix(p, n)
  BY <1>2 DEF InMatrix
<1>8. RowsInv'
  BY <1>1, <1>2, <1>3, <1>6, <1>7 DEF RowsInv
<1> QED BY <1>5, <1>8 DEF InteropIInv

(* Interop: a reply is taken and the next request sent. *)

\* The row a question belongs to, and its place among the row's steps.
LEMMA QuestionOfRow ==
  ASSUME TransportInv, ~Stopping
  PROVE  /\ turn \in 1..Len(Peers) /\ Peer \in DOMAIN Rows /\ Len(Rows[Peer]) \in Nat
         /\ \A n \in 1..Len(Rows[Peer]) : Rows[Peer][n].kind \in {"sig", "kem"}
         /\ asked.row \in 0..Len(Rows[Peer]) /\ asked \in Question
         /\ asked.row > 0 =>
              /\ Row(asked) = Rows[Peer][asked.row] /\ Row(asked).kind \in {"sig", "kem"}
              /\ Row(asked).path \in {"wrapper", "backend"}
              /\ \E k \in 1..Len(Steps(Row(asked).kind)) : asked.step = Steps(Row(asked).kind)[k]
<1>1. turn \in 1..Len(Peers) /\ asked \in Question /\ Asking
  <2>1. InteropTypes /\ Asking
    BY DEF TransportInv
  <2>2. turn \in 0..Len(Peers) /\ asked \in Question
    BY <2>1 DEF InteropTypes
  <2>3. turn > 0
    BY <2>1 DEF Asking
  <2> QED BY <2>1, <2>2, <2>3
<1>2. Peer \in DOMAIN Rows
  BY <1>1, InteropAssumption DEF Peer
<1>3. Rows[Peer] \in Seq([kind : {"sig", "kem"}, path : {"wrapper", "backend"}])
  BY <1>2, InteropAssumption
<1>4. \A n \in 1..Len(Rows[Peer]) : Rows[Peer][n].kind \in {"sig", "kem"} /\ Rows[Peer][n].path \in {"wrapper", "backend"}
  <2> DEFINE R == [kind : {"sig", "kem"}, path : {"wrapper", "backend"}]
  <2>1. Rows[Peer] \in Seq(R)
    BY <1>3
  <2> HIDE DEF R
  <2>2. \A n \in 1..Len(Rows[Peer]) : Rows[Peer][n] \in R
    BY <2>1
  <2> QED BY <2>2 DEF R
<1>5. asked.row \in 0..Len(Rows[Peer])
  BY <1>1, <1>3 DEF Asking, Identify
<1> QED BY <1>1, <1>2, <1>3, <1>4, <1>5 DEF Asking, Identify, Row

\* What is noted of a reply: checks that were decided by the question.
LEMMA NotedChecks ==
  ASSUME TransportInv, RowsInv, ~Stopping, reply # None
  PROVE  /\ Noted(asked, reply) \in Seq(CheckRecord)
         /\ \A i \in 1..Len(Noted(asked, reply)) : Decided(Noted(asked, reply)[i], asked.row)
         /\ asked.row = 0 => Noted(asked, reply) = <<>>
         /\ asked.row > 0 =>
              (Bad(Noted(asked, reply)) <=>
                 Bad(checks) \/ Check(asked.step, reply) = "false"
                             \/ (asked.step \in Signs /\ Bytes(reply, Row(asked).path) = "false"))
<1>1. asked.row \in Nat /\ asked \in Question /\ checks \in Seq(CheckRecord)
  BY QuestionOfRow DEF TransportInv, InteropTypes
<1>2. CASE asked.row = 0
  <2>1. Noted(asked, reply) = <<>>
    BY <1>2 DEF Noted
  <2> QED BY <2>1, <1>2
<1>3. CASE asked.row > 0
  <2> DEFINE one == [step |-> asked.step, ok |-> Check(asked.step, reply), about |-> reply.about]
             two == [step |-> "bytes", ok |-> Bytes(reply, Row(asked).path), about |-> reply.about]
  <2>1. reply.about = None \/ reply.about = asked
    BY DEF TransportInv, TheAnswer, Failure
  <2>2. asked.step \in StepWords
    BY <1>3, QuestionOfRow, StepsAre
  <2>3. one \in CheckRecord /\ Decided(one, asked.row) /\ one.ok = Check(asked.step, reply)
    BY <1>1, <2>1, <2>2, CheckIs DEF CheckRecord, Decided
  <2>4. /\ two \in CheckRecord /\ two.ok = Bytes(reply, Row(asked).path)
        /\ asked.step \in Signs => Decided(two, asked.row)
    BY <1>1, <2>1, BytesIs DEF CheckRecord, Decided
  <2> HIDE DEF one, two
  <2>5. CASE asked.step \in Signs
    <3> DEFINE t == <<one, two>>
    <3>1. t \in Seq(CheckRecord) /\ Len(t) = 2 /\ t[1] = one /\ t[2] = two
      BY <2>3, <2>4
    <3>2. Noted(asked, reply) = checks \o t
      BY <1>3, <2>5 DEF Noted, one, two
    <3> HIDE DEF t
    <3>c. PICK cs : cs = checks \o t
      OBVIOUS
    <3>3. /\ cs \in Seq(CheckRecord) /\ Len(cs) = Len(checks) + 2 /\ Len(checks) \in Nat
          /\ \A i \in 1..Len(checks) : cs[i] = checks[i]
          /\ cs[Len(checks) + 1] = one /\ cs[Len(checks) + 2] = two
      <4>0. PICK S : S = CheckRecord
        OBVIOUS
      <4>a. t \in Seq(S) /\ checks \in Seq(S)
        BY <3>1, <1>1, <4>0
      <4>1. /\ cs \in Seq(S) /\ Len(cs) = Len(checks) + Len(t) /\ Len(checks) \in Nat
            /\ \A i \in 1..(Len(checks) + Len(t)) : cs[i] = IF i <= Len(checks) THEN checks[i] ELSE t[i - Len(checks)]
        BY <4>a, <3>c, ConcatProperties
      <4>2. \A i \in 1..Len(checks) : cs[i] = checks[i]
        BY <4>1, <3>1
      <4>3. cs[Len(checks) + 1] = t[1] /\ cs[Len(checks) + 2] = t[2]
        BY <4>1, <3>1
      <4> QED BY <4>0, <4>1, <4>2, <4>3, <3>1
    <3>4. \A i \in 1..Len(cs) : i \in 1..Len(checks) \/ i = Len(checks) + 1 \/ i = Len(checks) + 2
      BY <3>3
    <3>5. \A i \in 1..Len(cs) : Decided(cs[i], asked.row)
      BY <2>3, <2>4, <2>5, <3>3, <3>4 DEF RowsInv
    <3>6. Bad(cs) <=> Bad(checks) \/ one.ok = "false" \/ two.ok = "false"
      <4>1. Bad(cs) => Bad(checks) \/ one.ok = "false" \/ two.ok = "false"
        BY <3>3, <3>4 DEF Bad
      <4>2. /\ \A i \in 1..Len(checks) : i \in 1..Len(cs)
            /\ Len(checks) + 1 \in 1..Len(cs) /\ Len(checks) + 2 \in 1..Len(cs)
        BY <3>3
      <4>3. Bad(checks) \/ one.ok = "false" \/ two.ok = "false" => Bad(cs)
        BY <3>3, <4>2 DEF Bad
      <4> QED BY <4>1, <4>3
    <3> QED BY <1>3, <2>3, <2>4, <2>5, <3>2, <3>c, <3>3, <3>5, <3>6
  <2>6. CASE asked.step \notin Signs
    <3>1. Noted(asked, reply) = Append(checks, one)
      BY <1>3, <2>6 DEF Noted, one
    <3>c. PICK cs : cs = Append(checks, one)
      OBVIOUS
    <3>2. /\ cs \in Seq(CheckRecord) /\ Len(cs) = Len(checks) + 1 /\ Len(checks) \in Nat
          /\ \A i \in 1..Len(checks) : cs[i] = checks[i]
          /\ cs[Len(checks) + 1] = one
      BY <3>c, <1>1, <2>3
    <3>3. \A i \in 1..Len(cs) : i \in 1..Len(checks) \/ i = Len(checks) + 1
      BY <3>2
    <3>4. \A i \in 1..Len(cs) : Decided(cs[i], asked.row)
      BY <2>3, <3>2, <3>3 DEF RowsInv
    <3>5. Bad(cs) <=> Bad(checks) \/ one.ok = "false"
      <4>1. Bad(cs) => Bad(checks) \/ one.ok = "false"
        BY <3>2, <3>3 DEF Bad
      <4>2. (\A i \in 1..Len(checks) : i \in 1..Len(cs)) /\ Len(checks) + 1 \in 1..Len(cs)
        BY <3>2
      <4>3. Bad(checks) \/ one.ok = "false" => Bad(cs)
        BY <3>2, <4>2 DEF Bad
      <4> QED BY <4>1, <4>3
    <3> QED BY <1>3, <2>3, <2>6, <3>1, <3>c, <3>2, <3>4, <3>5
  <2> QED BY <2>5, <2>6
<1> QED BY <1>1, <1>2, <1>3

\* A peer that answers fails a check exactly where it disagrees, or where its
\* randomness shows.
LEMMA AnswerFails ==
  ASSUME reply = TheAnswer, NEW row, row = Row(asked), row.path \in {"wrapper", "backend"}
  PROVE  Check(asked.step, reply) = "false" \/ (asked.step \in Signs /\ Bytes(reply, row.path) = "false")
           <=> Fails(Peer, row, asked.step)
<1> DEFINE b == behaviour[Peer]
           w == Says(b, asked.step)
<1>1. reply.says = w
  BY DEF TheAnswer
<1>2. w \in AnswerWords /\ (w = "error" => asked.step \in Controls) /\ (asked.step \in Signs => w \in {"agrees", "disagrees", "malformed"})
      /\ (b = "hedged" => w = "agrees")
  BY DEF Says, AnswerWords, Signs, Controls
<1> HIDE DEF w
<1>3. Check(asked.step, reply) = "false" <=> w \in {"disagrees", "malformed"}
  BY <1>1, <1>2 DEF Check, AnswerWords
<1>4. asked.step \in Signs => 
        (Bytes(reply, row.path) = "false" <=> row.path = "backend" /\ Peer \in Deterministic /\ (w \in {"disagrees", "malformed"} \/ b = "hedged"))
  <2> SUFFICES ASSUME asked.step \in Signs
               PROVE  Bytes(reply, row.path) = "false" <=> row.path = "backend" /\ Peer \in Deterministic /\ (w \in {"disagrees", "malformed"} \/ b = "hedged")
    OBVIOUS
  <2>1. reply.says \notin {"error", "unsupported"} /\ reply.says \in {"agrees", "disagrees", "malformed"}
    BY <1>1, <1>2
  <2>2. CASE row.path = "wrapper" \/ Peer \notin Deterministic
    <3>1. Bytes(reply, row.path) = "null"
      BY <2>1, <2>2 DEF Bytes
    <3> QED BY <3>1, <2>2
  <2>3. CASE row.path = "backend" /\ Peer \in Deterministic /\ (w \in {"disagrees", "malformed"} \/ b = "hedged")
    <3>1. Bytes(reply, row.path) = "false"
      BY <1>1, <2>1, <2>3 DEF Bytes
    <3> QED BY <3>1, <2>3
  <2>4. CASE row.path = "backend" /\ Peer \in Deterministic /\ ~(w \in {"disagrees", "malformed"} \/ b = "hedged")
    <3>1. Bytes(reply, row.path) = "true"
      BY <1>1, <2>1, <2>4 DEF Bytes
    <3> QED BY <3>1, <2>4
  <2> QED BY <2>2, <2>3, <2>4
<1> QED BY <1>3, <1>4 DEF Fails, w

\* All the steps of a row together fail where the peer disagrees with the row.
LEMMA AllStepsFail ==
  ASSUME NEW p, NEW row, row.kind \in {"sig", "kem"}
  PROVE  Disagrees(p, row) <=> \E j \in 1..Len(Steps(row.kind)) : Fails(p, row, Steps(row.kind)[j])
<1>1. DOMAIN Steps(row.kind) = 1..Len(Steps(row.kind))
  BY StepsAre
<1>2. (\E j \in 1..Len(Steps(row.kind)) : Steps(row.kind)[j] \in Signs) <=> row.kind = "sig"
  <2>1. CASE row.kind = "sig"
    <3>1. Steps(row.kind)[3] \in Signs /\ 3 \in 1..Len(Steps(row.kind))
      BY <2>1 DEF Steps, Signs
    <3> QED BY <2>1, <3>1
  <2>2. CASE row.kind = "kem"
    <3>1. Len(Steps(row.kind)) = 4
      BY <2>2 DEF Steps
    <3>2. \A j \in 1..4 : j = 1 \/ j = 2 \/ j = 3 \/ j = 4
      OBVIOUS
    <3>3. \A j \in 1..4 : Steps(row.kind)[j] \notin Signs
      BY <2>2, <3>2 DEF Steps, Signs
    <3> QED BY <2>2, <3>1, <3>3
  <2> QED BY <2>1, <2>2
<1> QED BY <1>1, <1>2 DEF Disagrees, Fails

\* The next question is the next step of the row, the first of the next row, or none.
LEMMA NextQuestionIs ==
  ASSUME TransportInv, ~Stopping
  PROVE  LET q == NextQuestion(asked, reply) IN
         \/ /\ asked.row > 0 /\ ~RowEnds(asked, reply)
            /\ \E k \in 1..(Len(Steps(Row(asked).kind)) - 1) :
                 asked.step = Steps(Row(asked).kind)[k] /\ q = [row |-> asked.row, step |-> Steps(Row(asked).kind)[k + 1]]
         \/ /\ asked.row = 0 \/ RowEnds(asked, reply)
            /\ asked.row < Len(Rows[Peer]) /\ q = [row |-> asked.row + 1, step |-> "keys"]
         \/ /\ asked.row = 0 \/ RowEnds(asked, reply)
            /\ asked.row = Len(Rows[Peer]) /\ q = [row |-> 0, step |-> "stop"]
<1>1. asked.row \in 0..Len(Rows[Peer]) /\ Len(Rows[Peer]) \in Nat
  BY QuestionOfRow
<1>2. CASE asked.row > 0 /\ ~RowEnds(asked, reply)
  <2>1. PICK k \in 1..Len(Steps(Row(asked).kind)) : asked.step = Steps(Row(asked).kind)[k]
    BY <1>2, QuestionOfRow
  <2>2. Row(asked).kind \in {"sig", "kem"}
    BY <1>2, QuestionOfRow
  <2>3. Position(Steps(Row(asked).kind), asked.step) = k
    BY <2>1, <2>2, PositionIs
  <2>4. k # Len(Steps(Row(asked).kind)) /\ Len(Steps(Row(asked).kind)) \in {4, 7}
    BY <1>2, <2>1, <2>2, StepsAre DEF RowEnds
  <2>5. k \in 1..(Len(Steps(Row(asked).kind)) - 1)
    BY <2>1, <2>4
  <2>6. NextQuestion(asked, reply) = [row |-> asked.row, step |-> Steps(Row(asked).kind)[k + 1]]
    BY <1>2, <2>3 DEF NextQuestion
  <2> QED BY <1>2, <2>1, <2>5, <2>6
<1>3. CASE asked.row = 0 \/ RowEnds(asked, reply)
  <2>1. NextQuestion(asked, reply) = IF asked.row < Len(Rows[Peer]) THEN [row |-> asked.row + 1, step |-> "keys"]
                                     ELSE [row |-> 0, step |-> "stop"]
    BY <1>1, <1>3 DEF NextQuestion
  <2> QED BY <1>1, <1>3, <2>1
<1> QED BY <1>1, <1>2, <1>3

\* The next question is one of the peer's plan, or ends it.
LEMMA NextIsAsking ==
  ASSUME TransportInv, ~Stopping, NEW q, q = NextQuestion(asked, reply)
  PROVE  /\ q \in Question /\ (q.step = "stop" => q.row = 0)
         /\ q.step # "stop" =>
              /\ q.row \in 1..Len(Rows[Peer])
              /\ \E k \in 1..Len(Steps(Row(q).kind)) : q.step = Steps(Row(q).kind)[k]
<1>1. asked.row \in 0..Len(Rows[Peer]) /\ Len(Rows[Peer]) \in Nat
  BY QuestionOfRow
<1>2. CASE /\ asked.row > 0 /\ ~RowEnds(asked, reply)
           /\ \E k \in 1..(Len(Steps(Row(asked).kind)) - 1) :
                asked.step = Steps(Row(asked).kind)[k] /\ q = [row |-> asked.row, step |-> Steps(Row(asked).kind)[k + 1]]
  <2>1. Row(asked).kind \in {"sig", "kem"}
    BY <1>2, QuestionOfRow
  <2>2. PICK k \in 1..(Len(Steps(Row(asked).kind)) - 1) : q = [row |-> asked.row, step |-> Steps(Row(asked).kind)[k + 1]]
    BY <1>2
  <2>3. Row(q) = Row(asked)
    BY <2>2 DEF Row
  <2>4. k + 1 \in 1..Len(Steps(Row(q).kind)) /\ Steps(Row(asked).kind)[k + 1] \in StepWords
    BY <2>1, <2>2, <2>3, StepsAre
  <2>5. q.row \in 1..Len(Rows[Peer]) /\ q.step = Steps(Row(q).kind)[k + 1]
    BY <1>1, <1>2, <2>2, <2>3
  <2> QED BY <1>1, <2>2, <2>4, <2>5 DEF Question, StepWords
<1>3. CASE asked.row < Len(Rows[Peer]) /\ q = [row |-> asked.row + 1, step |-> "keys"]
  <2>1. q.row \in 1..Len(Rows[Peer]) /\ q.step = "keys"
    BY <1>1, <1>3
  <2>2. Row(q).kind \in {"sig", "kem"}
    BY <2>1, QuestionOfRow DEF Row
  <2>3. 1 \in 1..Len(Steps(Row(q).kind)) /\ Steps(Row(q).kind)[1] = "keys"
    BY <2>2, StepsAre
  <2> QED BY <1>1, <1>3, <2>1, <2>3 DEF Question, StepWords
<1>4. CASE q = [row |-> 0, step |-> "stop"]
  BY <1>4 DEF Question
<1> QED BY <1>2, <1>3, <1>4, NextQuestionIs

LEMMA ContinueTransport ==
  ASSUME InteropIInv, Continue
  PROVE  TransportInv'
<1>1. TransportInv /\ RowsInv /\ InteropTypes
  BY DEF InteropIInv, TransportInv
<1> DEFINE q == NextQuestion(asked, reply)
<1>2. /\ ~Stopping /\ exit = None /\ turn > 0 /\ reply # None
      /\ UNCHANGED <<turn, closed, proc, stdout, buffer, exit, available, behaviour, troubled>>
      /\ Record(asked, reply, Noted(asked, reply))
      /\ asked' = q
  BY DEF Continue, Running, Request
<1>3. /\ q \in Question /\ (q.step = "stop" => q.row = 0)
      /\ q.step # "stop" =>
           /\ q.row \in 1..Len(Rows[Peer])
           /\ \E k \in 1..Len(Steps(Row(q).kind)) : q.step = Steps(Row(q).kind)[k]
  BY <1>1, <1>2, NextIsAsking
<1>4. \/ q.step = "stop" /\ reply' = None /\ UNCHANGED <<awaiting, nextId, pending, stdin>>
      \/ q.step # "stop" /\ closed /\ reply' = Failure /\ UNCHANGED <<awaiting, nextId, pending, stdin>>
      \/ /\ q.step # "stop" /\ ~closed /\ reply' = None /\ awaiting' = nextId /\ nextId' = nextId + 1
         /\ pending' = pending \cup {nextId} /\ stdin' = Append(stdin, [id |-> nextId, about |-> q])
  BY DEF Continue, Request, Id, Sent
<1>5. Peer' = Peer /\ (Stopping' <=> q.step = "stop") /\ Asking'
  <2>1. Peer' = Peer
    BY <1>2 DEF Peer
  <2> HIDE DEF q
  <2>2. Stopping' <=> q.step = "stop"
    BY <1>2 DEF Stopping
  <2> QED BY <1>2, <1>3, <2>1, <2>2 DEF Asking, Row
<1> HIDE DEF q
<1>6. /\ checks' \in Seq(CheckRecord) /\ failures' \in Nat
      /\ \A r \in rows' : r.peer \in DOMAIN Rows /\ r.row \in 1..Len(Rows[r.peer]) /\ r.checks \in Seq(CheckRecord)
  <2> DEFINE cs == Noted(asked, reply)
  <2>1. cs \in Seq(CheckRecord)
    BY <1>1, <1>2, NotedChecks
  <2>2. Failed(cs) \in Nat
    BY <2>1, FailedCounts
  <2>3. Peer \in DOMAIN Rows /\ (asked.row > 0 => asked.row \in 1..Len(Rows[Peer]))
    BY <1>1, <1>2, QuestionOfRow
  <2> HIDE DEF cs
  <2>4. CASE asked.row > 0 /\ RowEnds(asked, reply)
    <3>1. rows' = rows \cup {[peer |-> Peer, row |-> asked.row, checks |-> cs]} /\ failures' = failures + Failed(cs) /\ checks' = <<>>
      BY <1>2, <2>4 DEF Record, cs
    <3> QED BY <1>1, <2>1, <2>2, <2>3, <2>4, <3>1 DEF InteropTypes
  <2>5. CASE ~(asked.row > 0 /\ RowEnds(asked, reply))
    <3>1. UNCHANGED <<rows, failures>> /\ checks' = cs
      BY <1>2, <2>5 DEF Record, cs
    <3> QED BY <1>1, <2>1, <3>1 DEF InteropTypes
  <2> QED BY <2>4, <2>5
<1>7. nextId \in Nat \ {0} /\ awaiting \in 0..(nextId - 1) /\ pending \subseteq 1..(nextId - 1) /\ stdin \in Seq(Ask)
  BY <1>1 DEF InteropTypes
<1>8. InteropTypes'
  <2>1. /\ nextId' \in Nat \ {0} /\ awaiting' \in 0..(nextId' - 1) /\ pending' \subseteq 1..(nextId' - 1)
    <3>1. CASE UNCHANGED <<awaiting, nextId, pending>>
      BY <1>7, <3>1
    <3>2. CASE awaiting' = nextId /\ nextId' = nextId + 1 /\ pending' = pending \cup {nextId}
      <4>1. \A i \in pending : i \in 1..(nextId' - 1)
        BY <1>7, <3>2
      <4>2. nextId' \in Nat \ {0} /\ nextId \in 0..(nextId' - 1) /\ nextId \in 1..(nextId' - 1)
        BY <1>7, <3>2
      <4> QED BY <3>2, <4>1, <4>2
    <3> QED BY <1>4, <3>1, <3>2
  <2>2. stdin' \in Seq(Ask)
    <3>1. [id |-> nextId, about |-> q] \in Ask
      BY <1>3, <1>7 DEF Ask
    <3> QED BY <1>4, <1>7, <3>1
  <2> QED BY <1>1, <1>2, <1>3, <1>6, <2>1, <2>2 DEF InteropTypes
<1>9. ASSUME NEW m, m.id \in Nat, ~closed, Fits(m)
      PROVE  Fits(m)' /\ Honest(m)' = Honest(m)
  <2>1. Fits(m)'
    BY <1>2, <1>4, <1>5, <1>7, <1>9 DEF Fits
  <2> QED BY <2>1, <1>2, <1>5 DEF Honest
<1>10. \A i \in 1..Len(stdin) : stdin[i].id \in Nat
  <2>1. \A i \in 1..Len(stdin) : stdin[i] \in Ask
    BY <1>7
  <2> QED BY <2>1 DEF Ask
<1>11. ASSUME NEW text \in Seq({NL, Noise, JsonNull} \cup Message), Genuine(text), ~closed
       PROVE  \A i \in 1..Len(text) : text[i] \notin {NL, Noise, JsonNull} => Fits(text[i])' /\ Honest(text[i])'
  <2>1. ASSUME NEW i \in 1..Len(text), text[i] \notin {NL, Noise, JsonNull}
        PROVE  Fits(text[i])' /\ Honest(text[i])'
    <3>1. PICK m : m = text[i]
      OBVIOUS
    <3>2. m \in Message /\ Fits(m) /\ Honest(m)
      BY <1>11, <2>1, <3>1 DEF Genuine
    <3>3. Fits(m)' /\ Honest(m)'
      BY <1>9, <1>11, <3>2 DEF Message
    <3> QED BY <3>1, <3>3
  <2> QED BY <2>1
<1>12. ~closed' => Clean'
  <2> SUFFICES ASSUME ~closed
               PROVE  Clean'
    BY <1>2
  <2>1. turn > 0 /\ (\A i \in 1..Len(stdin) : Fits(stdin[i])) /\ Genuine(stdout) /\ Genuine(buffer)
    BY <1>1 DEF TransportInv, Clean
  <2>2. Genuine(stdout)' /\ Genuine(buffer)'
    <3>1. stdout \in Seq({NL, Noise, JsonNull} \cup Message) /\ buffer \in Seq({NL, Noise, JsonNull} \cup Message)
      BY <1>1 DEF InteropTypes
    <3> QED BY <1>2, <1>11, <2>1, <3>1 DEF Genuine
  <2>3. (\A i \in 1..Len(stdin) : Fits(stdin[i]))'
    <3>1. ASSUME NEW i \in 1..Len(stdin')
          PROVE  /\ stdin'[i].id < nextId'
                 /\ stdin'[i].id = awaiting' /\ ~Stopping' => stdin'[i].about = asked'
      <4>1. CASE UNCHANGED stdin
        <5>1. PICK m : m = stdin[i]
          OBVIOUS
        <5>2. m.id \in Nat /\ Fits(m)
          BY <1>10, <2>1, <4>1, <5>1
        <5> QED BY <1>9, <4>1, <5>1, <5>2 DEF Fits
      <4>2. CASE /\ q.step # "stop" /\ awaiting' = nextId /\ nextId' = nextId + 1
                 /\ stdin' = Append(stdin, [id |-> nextId, about |-> q])
        <5>1. PICK m : m = [id |-> nextId, about |-> q]
          OBVIOUS
        <5>2. m.id = nextId /\ m.about = q /\ stdin' = Append(stdin, m)
          BY <4>2, <5>1
        <5>3. (i \in 1..Len(stdin) /\ stdin'[i] = stdin[i]) \/ stdin'[i] = m
          BY <1>7, <5>2
        <5>4. CASE i \in 1..Len(stdin) /\ stdin'[i] = stdin[i]
          <6>1. PICK o : o = stdin[i]
            OBVIOUS
          <6>2. o.id \in Nat /\ Fits(o)
            BY <1>10, <2>1, <5>4, <6>1
          <6> QED BY <1>9, <5>4, <6>1, <6>2 DEF Fits
        <5>5. CASE stdin'[i] = m
          BY <1>2, <1>7, <4>2, <5>2, <5>5
        <5> QED BY <5>3, <5>4, <5>5
      <4> QED BY <1>4, <4>1, <4>2
    <3> QED BY <3>1 DEF Fits
  <2> QED BY <1>2, <2>1, <2>2, <2>3 DEF Clean
<1>13. closed' => pending' = {}
  BY <1>1, <1>2, <1>4 DEF TransportInv
<1>14. ~Stopping' => /\ reply' = None \/ (reply' = Failure /\ Peer \in troubled)
                     /\ closed \/ proc = "down" => Peer \in troubled
  BY <1>1, <1>2, <1>4, <1>5 DEF TransportInv
<1>15. Failure' = Failure
  BY DEF Failure
<1> QED BY <1>2, <1>5, <1>8, <1>12, <1>13, <1>14, <1>15 DEF TransportInv

\* A completed row of a peer that answered throughout tells how the peer is.
LEMMA RowVerdict ==
  ASSUME TransportInv, RowsInv, ~Stopping, reply # None, asked.row > 0, Peer \notin troubled,
         NEW k \in 1..Len(Steps(Row(asked).kind)), asked.step = Steps(Row(asked).kind)[k]
  PROVE  /\ Bad(Noted(asked, reply)) <=> FailsBefore(Peer, Row(asked), k + 1)
         /\ RowEnds(asked, reply) => (Bad(Noted(asked, reply)) <=> Disagrees(Peer, Row(asked)))
<1> DEFINE row == Row(asked)
           n == Len(Steps(row.kind))
<1>1. row.kind \in {"sig", "kem"} /\ row.path \in {"wrapper", "backend"}
  BY QuestionOfRow
<1>2. n \in {4, 7} /\ Steps(row.kind)[1] = "keys" /\ \A i, j \in 1..n : Steps(row.kind)[i] = Steps(row.kind)[j] => i = j
  BY <1>1, StepsAre
<1>3. reply = TheAnswer
  BY DEF TransportInv
<1>4. Check(asked.step, reply) = "false" \/ (asked.step \in Signs /\ Bytes(reply, row.path) = "false")
        <=> Fails(Peer, row, asked.step)
  BY <1>1, <1>3, AnswerFails
<1>5. Bad(checks) <=> FailsBefore(Peer, row, k)
  BY DEF RowsInv
<1>6. FailsBefore(Peer, row, k + 1) <=> FailsBefore(Peer, row, k) \/ Fails(Peer, row, asked.step)
  <2>1. \A j : j \in 1..(k + 1 - 1) <=> j \in 1..(k - 1) \/ j = k
    BY <1>2
  <2> QED BY <2>1 DEF FailsBefore
<1>7. Bad(Noted(asked, reply)) <=> FailsBefore(Peer, row, k + 1)
  BY <1>4, <1>5, <1>6, NotedChecks
<1>8. ASSUME RowEnds(asked, reply)
      PROVE  Bad(Noted(asked, reply)) <=> Disagrees(Peer, row)
  <2>1. CASE asked.step = "keys" /\ Check("keys", reply) = "false"
    <3>1. Bad(Noted(asked, reply))
      BY <2>1, NotedChecks
    <3>2. k \in 1..n /\ Fails(Peer, row, Steps(row.kind)[k])
      BY <1>4, <2>1
    <3>3. Disagrees(Peer, row)
      BY <1>1, <3>2, AllStepsFail
    <3> QED BY <3>1, <3>3
  <2>2. CASE asked.step = Steps(row.kind)[n]
    <3>1. k = n
      <4>1. k \in 1..n /\ n \in 1..n /\ Steps(row.kind)[k] = Steps(row.kind)[n]
        BY <1>2, <2>2
      <4> HIDE DEF n
      <4> QED BY <1>2, <4>1
    <3>2. FailsBefore(Peer, row, k + 1) <=> \E j \in 1..n : Fails(Peer, row, Steps(row.kind)[j])
      <4>1. k + 1 - 1 = n
        BY <1>2, <3>1
      <4>2. FailsBefore(Peer, row, k + 1) <=> \E j \in 1..(k + 1 - 1) : Fails(Peer, row, Steps(row.kind)[j])
        BY DEF FailsBefore
      <4>3. 1..(k + 1 - 1) = 1..n
        BY <4>1
      <4> QED BY <4>2, <4>3, Zenon
    <3> QED BY <1>1, <1>7, <3>2, AllStepsFail
  <2> QED BY <1>8, <2>1, <2>2 DEF RowEnds
<1> QED BY <1>7, <1>8

\* What ContinueRows shows of the rows that are recorded.
RowsSoFar ==
  /\ AnswersAreToTheQuestion /\ RowsTellThePeer
  /\ failures > 0 <=> \E r \in rows : Bad(r.checks)

LEMMA RecordedRow ==
  ASSUME InteropIInv, Continue, asked.row > 0, RowEnds(asked, reply)
  PROVE  /\ RowsSoFar' /\ checks' = <<>>
         /\ \A p, n : InMatrix(p, n)' <=> InMatrix(p, n) \/ (p = Peer /\ n = asked.row)
<1>1. TransportInv /\ RowsInv /\ InteropTypes
  BY DEF InteropIInv, TransportInv
<1> DEFINE cs == Noted(asked, reply)
           new == [peer |-> Peer, row |-> asked.row, checks |-> cs]
<1>2. /\ ~Stopping /\ reply # None /\ UNCHANGED <<behaviour, troubled>>
      /\ rows' = rows \cup {new} /\ failures' = failures + Failed(cs) /\ checks' = <<>>
  BY DEF Continue, Running, Record
<1>3. /\ cs \in Seq(CheckRecord) /\ \A i \in 1..Len(cs) : Decided(cs[i], asked.row)
      /\ asked.row \in Nat /\ Row(asked) = Rows[Peer][asked.row]
  BY <1>1, <1>2, NotedChecks, QuestionOfRow
<1>4. Failed(cs) \in Nat /\ (Failed(cs) > 0 <=> Bad(cs))
  BY <1>3, FailedCounts
<1>5. Peer \notin troubled => (Bad(cs) <=> Disagrees(Peer, Rows[Peer][asked.row]))
  <2>1. PICK k \in 1..Len(Steps(Row(asked).kind)) : asked.step = Steps(Row(asked).kind)[k]
    BY <1>1, <1>2, QuestionOfRow
  <2> QED BY <1>1, <1>2, <1>3, <2>1, RowVerdict
<1>6. new.peer = Peer /\ new.row = asked.row /\ new.checks = cs /\ DOMAIN cs = 1..Len(cs)
  BY <1>3
<1> HIDE DEF cs, new
<1>7. AnswersAreToTheQuestion'
  <2>1. \A r \in rows : \A i \in DOMAIN r.checks : Decided(r.checks[i], r.row)
    BY <1>1 DEF RowsInv, AnswersAreToTheQuestion, Decided
  <2>2. \A r \in rows' : \A i \in DOMAIN r.checks : Decided(r.checks[i], r.row)
    BY <1>2, <1>3, <1>6, <2>1
  <2> QED BY <2>2 DEF AnswersAreToTheQuestion, Decided
<1>8. RowsTellThePeer'
  <2>1. \A p, r : Disagrees(p, r)' = Disagrees(p, r)
    BY <1>2 DEF Disagrees
  <2>2. \A r \in rows : r.peer \notin troubled =>
          ((\E i \in DOMAIN r.checks : r.checks[i].ok = "false") <=> Disagrees(r.peer, Rows[r.peer][r.row]))
    BY <1>1 DEF RowsInv, RowsTellThePeer
  <2>3. new.peer \notin troubled =>
          ((\E i \in DOMAIN new.checks : new.checks[i].ok = "false") <=> Disagrees(new.peer, Rows[new.peer][new.row]))
    BY <1>5, <1>6 DEF Bad
  <2> QED BY <1>2, <2>1, <2>2, <2>3 DEF RowsTellThePeer
<1>9. failures' > 0 <=> \E r \in rows' : Bad(r.checks)
  <2>1. failures \in Nat /\ (failures > 0 <=> \E r \in rows : Bad(r.checks))
    BY <1>1 DEF InteropTypes, RowsInv
  <2>2. failures' > 0 <=> failures > 0 \/ Failed(cs) > 0
    BY <1>2, <1>4, <2>1
  <2> QED BY <1>2, <1>4, <1>6, <2>1, <2>2
<1>10. \A p, n : InMatrix(p, n)' <=> InMatrix(p, n) \/ (p = Peer /\ n = asked.row)
  BY <1>2, <1>6 DEF InMatrix
<1> QED BY <1>2, <1>7, <1>8, <1>9, <1>10 DEF RowsSoFar

LEMMA UnrecordedRow ==
  ASSUME InteropIInv, Continue, ~(asked.row > 0 /\ RowEnds(asked, reply))
  PROVE  /\ RowsSoFar' /\ checks' = Noted(asked, reply)
         /\ \A p, n : InMatrix(p, n)' = InMatrix(p, n)
<1>1. RowsInv
  BY DEF InteropIInv
<1>2. UNCHANGED <<behaviour, troubled, rows, failures>> /\ checks' = Noted(asked, reply)
  BY DEF Continue, Record
<1>3. \A p, r : Disagrees(p, r)' = Disagrees(p, r)
  BY <1>2 DEF Disagrees
<1>4. RowsSoFar'
  BY <1>1, <1>2, <1>3 DEF RowsInv, RowsSoFar, AnswersAreToTheQuestion, RowsTellThePeer
<1> QED BY <1>2, <1>4 DEF InMatrix

LEMMA ContinueRows ==
  ASSUME InteropIInv, Continue
  PROVE  RowsInv'
<1>1. TransportInv /\ RowsInv /\ InteropTypes
  BY DEF InteropIInv, TransportInv
<1> DEFINE q == NextQuestion(asked, reply)
           cs == Noted(asked, reply)
<1>2. /\ ~Stopping /\ exit = None /\ reply # None /\ asked' = q
      /\ UNCHANGED <<turn, exit, available, behaviour, troubled>>
  BY DEF Continue, Running, Request
<1>3. Peer' = Peer /\ (Stopping' <=> q.step = "stop") /\ exit' = None
  <2>1. Peer' = Peer
    BY <1>2 DEF Peer
  <2> HIDE DEF q
  <2> QED BY <1>2, <2>1 DEF Stopping
<1>4. /\ asked.row \in 0..Len(Rows[Peer]) /\ Len(Rows[Peer]) \in Nat
      /\ \A n \in 1..Len(Rows[Peer]) : Rows[Peer][n].kind \in {"sig", "kem"}
  BY <1>1, <1>2, QuestionOfRow
<1>5. /\ \A i \in 1..Len(cs) : Decided(cs[i], asked.row)
      /\ asked.row = 0 => cs = <<>>
  BY <1>1, <1>2, NotedChecks
<1>6. RowsSoFar'
  BY RecordedRow, UnrecordedRow
<1>7. \A p, n : InMatrix(p, n) => InMatrix(p, n)'
  BY RecordedRow, UnrecordedRow
<1>8. /\ \A p \in available : (p = Peer /\ ~Stopping) \/ \A n \in 1..Len(Rows[p]) : InMatrix(p, n)
      /\ \A n \in 1..(asked.row - 1) : InMatrix(Peer, n)
  BY <1>1, <1>2 DEF RowsInv
\* All rows up to the last one recorded.
<1>p. PICK peer : peer = Peer
  OBVIOUS
<1>9. asked.row = 0 \/ RowEnds(asked, reply) => checks' = <<>> /\ \A n \in 1..asked.row : InMatrix(peer, n)'
  <2>1. CASE asked.row = 0
    <3>1. checks' = <<>>
      BY <1>5, <2>1, UnrecordedRow
    <3> QED BY <2>1, <3>1
  <2>2. CASE asked.row > 0 /\ RowEnds(asked, reply)
    <3>1. checks' = <<>> /\ \A n : n = asked.row => InMatrix(peer, n)'
      BY <1>p, <2>2, RecordedRow
    <3>2. \A n \in 1..asked.row : n \in 1..(asked.row - 1) \/ n = asked.row
      BY <1>4, <2>2
    <3> QED BY <1>p, <1>7, <1>8, <3>1, <3>2
  <2> QED BY <1>4, <2>1, <2>2
<1> HIDE DEF q, cs
<1>10. CASE asked.row > 0 /\ ~RowEnds(asked, reply)
  <2>1. PICK k \in 1..(Len(Steps(Row(asked).kind)) - 1) :
          asked.step = Steps(Row(asked).kind)[k] /\ q = [row |-> asked.row, step |-> Steps(Row(asked).kind)[k + 1]]
    BY <1>1, <1>2, <1>10, NextQuestionIs DEF q
  <2>2. Row(asked).kind \in {"sig", "kem"}
    BY <1>1, <1>2, <1>10, QuestionOfRow
  <2>3. /\ Len(Steps(Row(asked).kind)) \in {4, 7}
        /\ \A i \in 1..Len(Steps(Row(asked).kind)) : Steps(Row(asked).kind)[i] \in StepWords
        /\ \A i, j \in 1..Len(Steps(Row(asked).kind)) : Steps(Row(asked).kind)[i] = Steps(Row(asked).kind)[j] => i = j
    BY <2>2, StepsAre
  <2>4. k \in 1..Len(Steps(Row(asked).kind)) /\ k + 1 \in 1..Len(Steps(Row(asked).kind))
    BY <2>1, <2>3
  <2>5. asked'.row = asked.row /\ asked'.step = Steps(Row(asked).kind)[k + 1] /\ q.step # "stop"
    BY <1>2, <2>1, <2>3, <2>4 DEF StepWords
  <2>6. checks' = cs
    BY <1>10, UnrecordedRow DEF cs
  <2>7. Row(asked)' = Row(asked)
    BY <1>3, <2>5 DEF Row
  <2>8. Peer \notin troubled => (Bad(cs) <=> FailsBefore(Peer, Row(asked), k + 1))
    BY <1>1, <1>2, <1>10, <2>1, <2>4, RowVerdict DEF cs
  <2>9. \A p, row, j : FailsBefore(p, row, j)' = FailsBefore(p, row, j)
    BY <1>2 DEF FailsBefore, Fails
  <2>10. Peer' \notin troubled' =>
          \A j \in 1..Len(Steps(Row(asked)'.kind)) :
            asked'.step = Steps(Row(asked)'.kind)[j] => (Bad(checks)' <=> FailsBefore(Peer, Row(asked), j)')
    <3> SUFFICES ASSUME Peer \notin troubled, NEW j \in 1..Len(Steps(Row(asked).kind)), asked'.step = Steps(Row(asked).kind)[j]
                 PROVE  Bad(checks') <=> FailsBefore(Peer, Row(asked), j)
      BY <1>2, <1>3, <2>7, <2>9 DEF Bad
    <3>1. j = k + 1
      BY <2>3, <2>4, <2>5
    <3> QED BY <2>6, <2>8, <3>1
  <2>11. asked'.row = asked.row /\ ~Stopping' /\ asked'.row > 0
    BY <1>3, <1>10, <2>5
  <2> QED BY <1>2, <1>3, <1>5, <1>6, <1>7, <1>8, <2>6, <2>10, <2>11 DEF RowsInv, RowsSoFar
<1>11. CASE /\ asked.row = 0 \/ RowEnds(asked, reply)
            /\ asked.row < Len(Rows[Peer]) /\ q = [row |-> asked.row + 1, step |-> "keys"]
  <2>1. checks' = <<>> /\ Len(checks') = 0 /\ ~Bad(checks')
    BY <1>9, <1>11 DEF Bad
  <2>2. asked'.row = asked.row + 1 /\ asked'.step = "keys" /\ ~Stopping' /\ asked.row + 1 \in 1..Len(Rows[Peer])
    BY <1>2, <1>3, <1>4, <1>11
  <2>3. Row(asked)'.kind \in {"sig", "kem"}
    BY <1>3, <1>4, <2>2 DEF Row
  <2>4. ASSUME NEW j \in 1..Len(Steps(Row(asked)'.kind)), asked'.step = Steps(Row(asked)'.kind)[j]
        PROVE  Bad(checks)' <=> FailsBefore(Peer, Row(asked), j)'
    <3>1. j = 1
      BY <2>2, <2>3, <2>4, StepsAre
    <3> QED BY <2>1, <3>1 DEF Bad, FailsBefore
  <2>5. \A n \in 1..(asked'.row - 1) : InMatrix(peer, n)'
    BY <1>4, <1>9, <1>11, <2>2
  <2>6. \A n \in 1..(asked'.row - 1) : InMatrix(Peer, n)'
    BY <1>p, <1>3, <2>5 DEF InMatrix
  <2> QED BY <1>2, <1>3, <1>6, <1>7, <1>8, <2>1, <2>2, <2>4, <2>6 DEF RowsInv, RowsSoFar
<1>12. CASE /\ asked.row = 0 \/ RowEnds(asked, reply)
            /\ asked.row = Len(Rows[Peer]) /\ q = [row |-> 0, step |-> "stop"]
  <2>1. checks' = <<>> /\ Len(checks') = 0
    BY <1>9, <1>12
  <2>2. Stopping'
    BY <1>3, <1>12
  <2>3. \A n \in 1..Len(Rows[peer]) : InMatrix(peer, n)'
    BY <1>p, <1>9, <1>12
  <2>4. \A p \in available' : \A n \in 1..Len(Rows[p]) : InMatrix(p, n)'
    BY <1>p, <1>2, <1>7, <1>8, <2>3
  <2> QED BY <1>2, <1>3, <1>6, <2>1, <2>2, <2>4 DEF RowsInv, RowsSoFar
<1> QED BY <1>1, <1>2, <1>10, <1>11, <1>12, NextQuestionIs DEF q

(* Interop: the theorems. *)

LEMMA InteropInitInv == InteropInit => InteropIInv
<1> SUFFICES ASSUME InteropInit
             PROVE  InteropIInv
  OBVIOUS
<1>1. Stopping /\ closed /\ pending = {} /\ exit = None /\ checks = <<>> /\ rows = {} /\ available = {} /\ failures = 0
  BY DEF InteropInit, Stopping
<1>2. InteropTypes
  <2>1. Len(Peers) \in Nat
    BY InteropAssumption
  <2> QED BY <2>1 DEF InteropInit, InteropTypes, Question
<1>3. TransportInv
  BY <1>1, <1>2 DEF TransportInv, Asking, InteropInit
<1>4. RowsInv
  BY <1>1 DEF RowsInv, AnswersAreToTheQuestion, RowsTellThePeer
<1> QED BY <1>3, <1>4 DEF InteropIInv

LEMMA InteropStutterInv ==
  ASSUME InteropIInv, UNCHANGED interopVars
  PROVE  InteropIInv'
<1>1. UNCHANGED <<turn, asked, reply, awaiting, nextId, pending, closed, proc, stdin, stdout, buffer, checks, rows,
                  failures, exit, available, behaviour, troubled>>
  BY DEF interopVars, transport, pipes, results
<1>2. /\ \A m : Fits(m)' = Fits(m) /\ Honest(m)' = Honest(m)
      /\ Peer' = Peer /\ Stopping' = Stopping /\ TheAnswer' = TheAnswer /\ Asking' = Asking
  BY <1>1, SameQuestion
<1>3. InteropTypes' = InteropTypes
  BY <1>1 DEF InteropTypes
<1>4. Clean' = Clean
  BY <1>1, <1>2 DEF Clean, Genuine
<1>5. TransportInv'
  BY <1>1, <1>2, <1>3, <1>4 DEF InteropIInv, TransportInv, Failure
<1>6. RowsInv'
  BY <1>1, RowsStay DEF InteropIInv
<1> QED BY <1>5, <1>6 DEF InteropIInv

\* The transport of every peer carries only answers to what was asked, and the
\* rows written so far are decided by them, in every reachable state.
THEOREM InteropInductive == InteropSpec => []InteropIInv
<1>1. InteropInit => InteropIInv
  BY InteropInitInv
<1>2. InteropIInv /\ [InteropNext]_interopVars => InteropIInv'
  <2> SUFFICES ASSUME InteropIInv, [InteropNext]_interopVars
               PROVE  InteropIInv'
    OBVIOUS
  <2>1. CASE Data
    BY <2>1, DataInv
  <2>2. CASE Closes \/ BrokenPipe
    BY <2>2, DieInv DEF Closes, BrokenPipe
  <2>3. CASE Timeout
    BY <2>3, TimeoutInv
  <2>4. CASE Continue
    BY <2>4, ContinueTransport, ContinueRows DEF InteropIInv
  <2>5. CASE Launch
    BY <2>5, LaunchInv
  <2>6. CASE Absent \/ Finish
    BY <2>6, AbsentFinishInv
  <2>7. CASE PeerAnswers
    BY <2>7, PeerAnswersInv
  <2>8. CASE PeerPrints
    BY <2>8, PeerPrintsInv
  <2>9. CASE PeerHangs
    BY <2>9, PeerHangsInv
  <2>10. CASE PeerDies
    BY <2>10, PeerDiesInv
  <2>11. CASE Done \/ UNCHANGED interopVars
    BY <2>11, InteropStutterInv DEF Done
  <2>12. CASE DataThrows \/ ContinueThrows
    BY <2>12, UncaughtInv DEF DataThrows, ContinueThrows
  <2> QED BY <2>1, <2>2, <2>3, <2>4, <2>5, <2>6, <2>7, <2>8, <2>9, <2>10, <2>11, <2>12
           DEF InteropNext, Harness, PeerSteps
<1> QED BY <1>1, <1>2, PTL DEF InteropSpec

\* Every check is decided by the answer to its own question or by a failure of
\* the transport, and no row of a peer that was run is left out of the matrix or
\* of the exit code of a run that reaches its end (request, record and the end of
\* run-interop.mjs).
THEOREM MatrixIsComplete == InteropSpec => []MatrixInv
<1>1. InteropIInv => MatrixInv
  <2> SUFFICES ASSUME InteropIInv
               PROVE  MatrixInv
    OBVIOUS
  <2>1. TransportInv /\ RowsInv /\ InteropTypes
    BY DEF InteropIInv, TransportInv
  <2>2. \A r \in rows : r.checks \in Seq(CheckRecord)
    BY <2>1 DEF InteropTypes
  <2>3. \A r \in rows : DOMAIN r.checks = 1..Len(r.checks) /\ \A i \in 1..Len(r.checks) : r.checks[i].ok \in {"true", "false", "null"}
    <3> SUFFICES ASSUME NEW r \in rows
                 PROVE  DOMAIN r.checks = 1..Len(r.checks) /\ \A i \in 1..Len(r.checks) : r.checks[i].ok \in {"true", "false", "null"}
      OBVIOUS
    <3>1. r.checks \in Seq(CheckRecord)
      BY <2>2
    <3>2. \A i \in 1..Len(r.checks) : r.checks[i] \in CheckRecord
      BY <3>1
    <3> QED BY <3>1, <3>2 DEF CheckRecord
  <2>4. InteropTypeOK
    <3>1. awaiting < nextId
      BY <2>1 DEF InteropTypes
    <3> QED BY <2>1, <2>3, <3>1 DEF InteropTypes, InteropTypeOK
  <2>5. ExitCoversTheMatrix
    <3>1. Stopping => \A p \in available : \A n \in DOMAIN Rows[p] : \E r \in rows : r.peer = p /\ r.row = n
      <4> SUFFICES ASSUME Stopping, NEW p \in available, NEW n \in DOMAIN Rows[p]
                   PROVE  \E r \in rows : r.peer = p /\ r.row = n
        OBVIOUS
      <4>1. \A j \in 1..Len(Rows[p]) : InMatrix(p, j)
        BY <2>1 DEF RowsInv
      <4>2. p \in DOMAIN Rows
        BY <2>1 DEF InteropTypes
      <4>3. DOMAIN Rows[p] = 1..Len(Rows[p])
        BY <4>2, InteropAssumption
      <4> QED BY <4>1, <4>3 DEF InMatrix
    <3>2. exit \notin {None, "thrown"} => (exit = "1" <=> \E r \in rows : \E i \in DOMAIN r.checks : r.checks[i].ok = "false")
      BY <2>1, <2>3 DEF RowsInv, Bad
    <3> QED BY <3>1, <3>2 DEF ExitCoversTheMatrix
  <2> QED BY <2>1, <2>4, <2>5 DEF MatrixInv, RowsInv
<1> QED BY <1>1, InteropInductive, PTL

\* Whatever the peers did on stdout and whichever of them hung or died, the row
\* of a peer that did neither fails exactly if the peer disagrees.
THEOREM RowsTellPeers == InteropSpec => []RowsTellThePeer
<1>1. InteropIInv => RowsTellThePeer
  BY DEF InteropIInv, RowsInv
<1> QED BY <1>1, InteropInductive, PTL

--------------------------------------------------------------------------------
(* Evidence: the plan. *)

Command(s) == s.by \in {"report", "output"}

PlaceOf(f, i) == IF f \/ i < 3 THEN i ELSE i + 3

LEMMA AllStepsAre ==
  ASSUME NEW f \in BOOLEAN
  PROVE  /\ AllSteps(f) \in Seq({AllSteps(f)[i] : i \in 1..13}) /\ Len(AllSteps(f)) = 13
<1>1. Len(AllSteps(f)) = 13 /\ DOMAIN AllSteps(f) = 1..13
  BY DEF AllSteps
<1>2. AllSteps(f) \in [1..13 -> {AllSteps(f)[i] : i \in 1..13}]
  BY <1>1 DEF AllSteps
<1> QED BY <1>1, <1>2, 13 \in Nat, SeqDef

LEMMA PlanByPlace ==
  ASSUME NEW f \in BOOLEAN
  PROVE  /\ Plan(f) \in Seq({AllSteps(f)[i] : i \in 1..13}) /\ Len(Plan(f)) = (IF f THEN 13 ELSE 10)
         /\ \A i \in 1..Len(Plan(f)) : PlaceOf(f, i) \in 1..13 /\ Plan(f)[i] = AllSteps(f)[PlaceOf(f, i)]
<1> DEFINE S == {AllSteps(f)[i] : i \in 1..13}
<1>2. CASE f
  BY <1>2, AllStepsAre DEF Plan, PlaceOf
<1>3. CASE ~f
  <2> DEFINE p == [i \in 1..10 |-> AllSteps(f)[IF i < 3 THEN i ELSE i + 3]]
  <2>1. Plan(f) = p
    BY <1>3 DEF Plan
  <2>2. \A i \in 1..10 : p[i] = AllSteps(f)[PlaceOf(f, i)] /\ PlaceOf(f, i) \in 1..13 /\ p[i] \in S
    BY <1>3 DEF PlaceOf
  <2>3. p \in Seq(S) /\ Len(p) = 10
    BY <2>2
  <2> HIDE DEF p, S
  <2> QED BY <1>3, <2>1, <2>2, <2>3 DEF S
<1> QED BY <1>2, <1>3

Thirteen(i) == i = 1 \/ i = 2 \/ i = 3 \/ i = 4 \/ i = 5 \/ i = 6 \/ i = 7 \/ i = 8 \/ i = 9 \/ i = 10 \/ i = 11 \/ i = 12 \/ i = 13

LEMMA OneOfThirteen == \A i \in 1..13 : Thirteen(i)
BY DEF Thirteen

\* What is true of every step of a plan.
IsStep(s, f) ==
  /\ s.name \in StepNames /\ s.file \in SectionFiles /\ s.optional \in BOOLEAN
  /\ s.by \in {"report", "output", "write", "copy"}
  /\ s.by = "write" <=> s.name \in {"identity", "siggen-note", "manifest", "readme"}
  /\ s.by = "copy" <=> s.name = "docs"
  /\ s.file = "00-MANIFEST" <=> s.name = "manifest"
  /\ s.file = "README" <=> s.name = "readme"
  /\ s.file # Fallback.file /\ s.name # Fallback.name
  /\ s.name = "sbom" => s.file = "05-sbom.cyclonedx"
  /\ s.cap # NoCap => s.file = "02d-conformance-acvp-fips205-siggen" \/ (~f /\ s.file = "02-conformance-acvp")
  /\ s.name \in {"sbom", "acvp", "tests", "cbom", "interop", "npm-audit-signatures", "acvp-fips205", "acvp-fips205-siggen"} => Command(s)
  /\ Command(s) => (s.optional <=> s.name \notin {"acvp", "tests", "cbom"})
  /\ s.name \in DOMAIN FileOf => s.file = FileOf[s.name]

LEMMA EachStep ==
  ASSUME NEW f \in BOOLEAN, NEW i \in 1..13
  PROVE  /\ IsStep(AllSteps(f)[i], f)
         /\ AllSteps(f)[i].name = "manifest" <=> i = 12
         /\ AllSteps(f)[i].name = "readme" <=> i = 13
<1>1. Thirteen(i)
  BY OneOfThirteen
<1>2. PICK s : s = AllSteps(f)[i]
  OBVIOUS
<1>3. /\ s.name \in StepNames /\ s.file \in SectionFiles /\ s.optional \in BOOLEAN
      /\ s.by \in {"report", "output", "write", "copy"}
  <2>1. s.name = AllSteps(TRUE)[i].name /\ s.file = AllSteps(TRUE)[i].file
    BY <1>1, <1>2 DEF Thirteen, AllSteps, Step
  <2>2. s.optional \in BOOLEAN
    <3>1. CASE i \in {3, 4, 6, 8, 10}
      <4> s.optional = TRUE
        BY <3>1, <1>2 DEF AllSteps, Step
      <4> QED OBVIOUS
    <3>2. CASE i \in {1, 2, 5, 7, 9, 11, 12, 13}
      <4> s.optional = FALSE
        BY <3>2, <1>2 DEF AllSteps, Step
      <4> QED OBVIOUS
    <3> QED BY <3>1, <3>2
  <2>3. s.by \in {"report", "output", "write", "copy"}
    BY <1>1, <1>2 DEF Thirteen, AllSteps, Step
  <2> QED BY <2>1, <2>2, <2>3, <1>2 DEF StepNames, SectionFiles
<1>4. /\ s.by = "write" <=> s.name \in {"identity", "siggen-note", "manifest", "readme"}
      /\ s.by = "copy" <=> s.name = "docs"
  BY <1>1, <1>2 DEF Thirteen, AllSteps, Step
<1>5. /\ s.file = "00-MANIFEST" <=> s.name = "manifest"
      /\ s.file = "README" <=> s.name = "readme"
      /\ s.name = "manifest" <=> i = 12
      /\ s.name = "readme" <=> i = 13
  BY <1>1, <1>2 DEF Thirteen, AllSteps, Step
<1>6. /\ s.file # Fallback.file /\ s.name # Fallback.name
      /\ s.name = "sbom" => s.file = "05-sbom.cyclonedx"
  BY <1>1, <1>2 DEF Thirteen, AllSteps, Step, Fallback
<1>7. s.cap # NoCap => s.file = "02d-conformance-acvp-fips205-siggen" \/ (~f /\ s.file = "02-conformance-acvp")
  BY <1>1, <1>2 DEF Thirteen, AllSteps, Step, NoCap
<1>8. /\ s.name \in {"sbom", "acvp", "tests", "cbom", "interop", "npm-audit-signatures", "acvp-fips205", "acvp-fips205-siggen"} => Command(s)
      /\ Command(s) => (s.optional <=> s.name \notin {"acvp", "tests", "cbom"})
  BY <1>1, <1>2 DEF Thirteen, AllSteps, Step, Command
<1>9. s.name \in DOMAIN FileOf => s.file = FileOf[s.name]
  <2>1. /\ s.name = "acvp" => s.file = "02-conformance-acvp"
        /\ s.name = "acvp-fips205" => s.file = "02b-conformance-acvp-fips205"
        /\ s.name = "acvp-fips205-siggen" => s.file = "02d-conformance-acvp-fips205-siggen"
        /\ s.name = "interop" => s.file = "03-conformance-interop"
        /\ s.name = "tests" => s.file = "04-tests"
        /\ s.name = "cbom" => s.file = "05b-cbom.cyclonedx"
        /\ s.name = "npm-audit-signatures" => s.file = "06-npm-audit-signatures"
    BY <1>1, <1>2 DEF Thirteen, AllSteps, Step
  <2>2. PICK name, file : name = s.name /\ file = s.file
    OBVIOUS
  <2> QED BY <2>1, <2>2 DEF FileOf
<1> QED BY <1>2, <1>3, <1>4, <1>5, <1>6, <1>7, <1>8, <1>9 DEF IsStep

\* No two steps share a name or a file.
LEMMA StepsAreDistinct ==
  ASSUME NEW f \in BOOLEAN, NEW i \in 1..13, NEW j \in 1..13,
         AllSteps(f)[i].name = AllSteps(f)[j].name \/ AllSteps(f)[i].file = AllSteps(f)[j].file
  PROVE  i = j
<1>1. Thirteen(i) /\ Thirteen(j)
  BY OneOfThirteen
<1> QED BY <1>1 DEF Thirteen, AllSteps, Step

(* Evidence: the inductive invariant. *)

P == Plan(full)

\* The plan of this build.
LEMMA ThePlan ==
  ASSUME full \in BOOLEAN
  PROVE  /\ P \in Seq({AllSteps(full)[i] : i \in 1..13}) /\ Len(P) \in 10..13
         /\ \A i \in 1..Len(P) : \E k \in 1..13 :
              /\ P[i] = AllSteps(full)[k]
              /\ k = 13 <=> i = Len(P)
              /\ k = 12 <=> i = Len(P) - 1
         /\ \A i, j \in 1..Len(P) : P[i].name = P[j].name \/ P[i].file = P[j].file => i = j
<1>1. /\ P \in Seq({AllSteps(full)[i] : i \in 1..13}) /\ Len(P) = (IF full THEN 13 ELSE 10)
      /\ \A i \in 1..Len(P) : PlaceOf(full, i) \in 1..13 /\ P[i] = AllSteps(full)[PlaceOf(full, i)]
  BY PlanByPlace DEF P
<1>2. \A i, j \in 1..Len(P) : P[i].name = P[j].name \/ P[i].file = P[j].file => i = j
  <2> TAKE i, j \in 1..Len(P)
  <2> HAVE P[i].name = P[j].name \/ P[i].file = P[j].file
  <2>1. PICK a \in 1..13 : a = PlaceOf(full, i) /\ P[i] = AllSteps(full)[a]
    BY <1>1
  <2>2. PICK b \in 1..13 : b = PlaceOf(full, j) /\ P[j] = AllSteps(full)[b]
    BY <1>1
  <2>3. AllSteps(full)[a].name = AllSteps(full)[b].name \/ AllSteps(full)[a].file = AllSteps(full)[b].file
    BY <2>1, <2>2
  <2>4. a = b
    BY <2>3, StepsAreDistinct
  <2> QED BY <2>1, <2>2, <2>4, <1>1 DEF PlaceOf
<1>3. ASSUME NEW i \in 1..Len(P)
      PROVE  \E k \in 1..13 : P[i] = AllSteps(full)[k] /\ (k = 13 <=> i = Len(P)) /\ (k = 12 <=> i = Len(P) - 1)
  <2>1. (PlaceOf(full, i) = 13 <=> i = Len(P)) /\ (PlaceOf(full, i) = 12 <=> i = Len(P) - 1)
    BY <1>1 DEF PlaceOf
  <2> QED BY <2>1, <1>1
<1> QED BY <1>1, <1>2, <1>3

\* Each step but those of FIPS 205 is in every plan.
LEMMA InThePlan ==
  ASSUME full \in BOOLEAN, NEW k \in 1..13, full \/ k \notin 3..5
  PROVE  AllSteps(full)[k] \in {P[i] : i \in 1..Len(P)}
<1>1. \A i \in 1..Len(P) : PlaceOf(full, i) \in 1..13 /\ P[i] = AllSteps(full)[PlaceOf(full, i)]
  BY PlanByPlace DEF P
<1>2. Len(P) = IF full THEN 13 ELSE 10
  BY PlanByPlace DEF P
<1>3. CASE full \/ k < 3
  <2>1. k \in 1..Len(P) /\ PlaceOf(full, k) = k
    BY <1>2, <1>3 DEF PlaceOf
  <2>2. P[k] = AllSteps(full)[k]
    BY <1>1, <2>1
  <2> QED BY <2>1, <2>2
<1>4. CASE ~full /\ k > 5
  <2>1. k - 3 \in 1..Len(P) /\ PlaceOf(full, k - 3) = k
    BY <1>2, <1>4 DEF PlaceOf
  <2>2. P[k - 3] = AllSteps(full)[k]
    BY <1>1, <2>1
  <2> QED BY <2>1, <2>2
<1> QED BY <1>3, <1>4

\* A step of this plan.
LEMMA PlanStep ==
  ASSUME full \in BOOLEAN, NEW i \in 1..Len(P)
  PROVE  /\ IsStep(P[i], full) /\ P[i] # Fallback
         /\ P[i].name = "manifest" <=> i = Len(P) - 1
         /\ P[i].name = "readme" <=> i = Len(P)
<1>1. PICK k \in 1..13 : P[i] = AllSteps(full)[k] /\ (k = 13 <=> i = Len(P)) /\ (k = 12 <=> i = Len(P) - 1)
  BY ThePlan
<1>2. IsStep(P[i], full) /\ (P[i].name = "manifest" <=> i = Len(P) - 1) /\ (P[i].name = "readme" <=> i = Len(P))
  <2>1. PICK s : s = AllSteps(full)[k]
    OBVIOUS
  <2>2. IsStep(s, full) /\ (s.name = "manifest" <=> k = 12) /\ (s.name = "readme" <=> k = 13)
    BY <2>1, EachStep
  <2>3. P[i] = s
    BY <1>1, <2>1
  <2> QED BY <1>1, <2>2, <2>3, Zenon
<1>3. P[i] # Fallback
  BY <1>2 DEF IsStep
<1> QED BY <1>2, <1>3

\* A file of this name is there, and reports no failure.
Whole(name) == \E f \in dir : f.name = name /\ ~f.bad

\* What the log says of a command.
Entry(s) == [name |-> s.name, ok |-> Whole(s.file), optional |-> s.optional]

\* What is left of the plan from a step on, and what is left when the SBOM failed.
From(n) == SubSeq(P, n, Len(P))
Instead(n) == [From(n) EXCEPT ![1] = Fallback]

\* The SBOM has failed and is about to be replaced.
Replacing == Building /\ Head(todo) = Fallback

\* The build is before its n-th step, or before the replacement of it.
At(n) ==
  /\ n \in 1..Len(P)
  /\ IF Replacing THEN P[n].name = "sbom" /\ todo = Instead(n) ELSE todo = From(n)

\* The steps that have been taken, and whether the SBOM's second choice was or
\* could have been.
StepsDone(n) == {P[i] : i \in 1..(IF Replacing THEN n ELSE n - 1)}
Second(n) == ~Replacing /\ \E s \in StepsDone(n) : s.name = "sbom"

\* Whose file this is, when the steps of D have been taken.
Owned(f, D, second) ==
  \/ \E s \in D : f.name = s.file /\ s.by # "copy"
  \/ second /\ f.name = Fallback.file
  \/ f.name \in docs /\ \E s \in D : s.by = "copy"

\* A file that says it is capped is of one of the two capped steps.
CapIsOfStep(f) ==
  f.name \notin Accounts /\ f.cap # NoCap =>
    f.name = "02d-conformance-acvp-fips205-siggen" \/ (~full /\ f.name = "02-conformance-acvp")

\* What they have left in the directory: files of their own, once, of this build.
Files(D, second) ==
  /\ \A f, g \in dir : f.name = g.name => f = g
  /\ \A f \in dir :
       /\ f.build = builds
       /\ Owned(f, D, second)
       /\ CapIsOfStep(f)
  /\ \A s \in D :
       /\ s.by = "write" => Has(s.file)
       /\ s.by = "copy" => \A d \in docs : Has(d)

\* The log has each command with what became of its file.
Logged(D, second) ==
  /\ \A s \in D : Command(s) => Entry(s) \in steps
  /\ \A r \in steps : \E s \in D \cup (IF second THEN {Fallback} ELSE {}) : Command(s) /\ r = Entry(s)
  /\ \A s \in D : s.name = "sbom" /\ ~Whole(s.file) /\ second => Entry(Fallback) \in steps

\* The manifest and README.md once they are written.
Told(D) ==
  /\ \A s \in D : s.name = "manifest" =>
       \A f \in dir : f.name = "00-MANIFEST" =>
         f.failed = FailedSteps(steps) /\ f.files = {g \in dir : g.name \notin Accounts}
  /\ \A s \in D : s.name = "readme" =>
       \A f \in dir : f.name = "README" =>
         f.failed = FailedSteps(steps) /\ f.copied = docs /\ f.full = full

Past(n) == Files(StepsDone(n), Second(n)) /\ Logged(StepsDone(n), Second(n)) /\ Told(StepsDone(n))

\* A build whose directory no command of a killed build has written into.
AccountInv ==
  /\ EvidenceTypeOK
  /\ Building => \E n \in 1..Len(P) : At(n) /\ Past(n)
  /\ Complete => /\ Past(Len(P) + 1)
                 /\ exitCode = IF Required(steps) = {} THEN 0 ELSE 1

EvidenceIInv ==
  /\ EvidenceTypeOK
  /\ ~intruded => AccountInv
  /\ PublishedIsWhole

(* Evidence: what each step does to the directory and the log. *)

\* Head and tail of the rest of a sequence, and of the rest with its first
\* element replaced.
LEMMA RestOfSequence ==
  ASSUME NEW S, NEW s \in Seq(S), NEW n \in 1..Len(s), NEW x
  PROVE  /\ Head(SubSeq(s, n, Len(s))) = s[n] /\ Tail(SubSeq(s, n, Len(s))) = SubSeq(s, n + 1, Len(s))
         /\ SubSeq(s, n, Len(s)) # <<>> 
         /\ Head([SubSeq(s, n, Len(s)) EXCEPT ![1] = x]) = x
         /\ Tail([SubSeq(s, n, Len(s)) EXCEPT ![1] = x]) = SubSeq(s, n + 1, Len(s))
         /\ [SubSeq(s, n, Len(s)) EXCEPT ![1] = x] # <<>>
<1> DEFINE r == SubSeq(s, n, Len(s))
<1>1. /\ r \in Seq(S) /\ Len(r) = Len(s) - n + 1 /\ \A i \in 1..Len(r) : r[i] = s[n + i - 1]
      /\ Len(s) \in Nat
  OBVIOUS
<1>2. SubSeq(s, n + 1, Len(s)) \in Seq(S) /\ Len(SubSeq(s, n + 1, Len(s))) = Len(s) - n
      /\ \A i \in 1..(Len(s) - n) : SubSeq(s, n + 1, Len(s))[i] = s[n + i]
  OBVIOUS
<1> HIDE DEF r
<1>3. Head(r) = s[n] /\ r # <<>>
  BY <1>1
<1>4. Tail(r) \in Seq(S) /\ Len(Tail(r)) = Len(s) - n /\ \A i \in 1..(Len(s) - n) : Tail(r)[i] = s[n + i]
  BY <1>1
<1>5. Tail(r) = SubSeq(s, n + 1, Len(s))
  <2>1. PICK t \in Seq(S) : t = Tail(r) /\ Len(t) = Len(s) - n /\ \A i \in 1..(Len(s) - n) : t[i] = s[n + i]
    BY <1>4
  <2>2. PICK u \in Seq(S) : u = SubSeq(s, n + 1, Len(s)) /\ Len(u) = Len(s) - n /\ \A i \in 1..(Len(s) - n) : u[i] = s[n + i]
    BY <1>2
  <2>3. t = u
    BY <2>1, <2>2, SeqEqual
  <2> QED BY <2>1, <2>2, <2>3
<1> DEFINE q == [r EXCEPT ![1] = x]
<1>6. /\ q \in Seq(S \cup {x}) /\ Len(q) = Len(r) /\ q[1] = x /\ \A i \in 2..Len(r) : q[i] = r[i]
  BY <1>1
<1> HIDE DEF q
<1>7. Head(q) = x /\ q # <<>>
  BY <1>1, <1>6
<1>8. Tail(q) \in Seq(S \cup {x}) /\ Len(Tail(q)) = Len(s) - n /\ \A i \in 1..(Len(s) - n) : Tail(q)[i] = s[n + i]
  BY <1>1, <1>6
<1> DEFINE t == Tail(q)
           u == SubSeq(s, n + 1, Len(s))
<1>9. u \in Seq(S \cup {x}) /\ t \in Seq(S \cup {x}) /\ Len(t) = Len(u) /\ Len(t) = Len(s) - n
  <2>1. u \in Seq(S \cup {x})
    BY <1>2
  <2>2. Len(t) = Len(u) /\ Len(t) = Len(s) - n
    BY <1>2, <1>8
  <2> QED BY <2>1, <2>2, <1>8
<1>10. \A i \in 1..(Len(s) - n) : t[i] = u[i]
  BY <1>2, <1>8
<1>11. t = u
  <2> HIDE DEF t, u
  <2> QED BY <1>9, <1>10, SeqEqual
<1> QED BY <1>3, <1>5, <1>7, <1>11 DEF r, q

\* The step a build is at, and what follows it.
LEMMA AtStep ==
  ASSUME full \in BOOLEAN, Building, NEW n, At(n)
  PROVE  /\ n \in 1..Len(P) /\ Tail(todo) = From(n + 1)
         /\ Replacing => Head(todo) = Fallback /\ P[n].name = "sbom"
         /\ ~Replacing => Head(todo) = P[n] /\ todo = From(n)
<1>1. P \in Seq({AllSteps(full)[i] : i \in 1..13})
  BY ThePlan
<1> QED BY <1>1, RestOfSequence DEF At, From, Instead, Replacing

\* A build that is not at its last step goes on to the next one.
LEMMA NextStep ==
  ASSUME full \in BOOLEAN, Building, NEW n, At(n), n < Len(P), full' = full, todo' = Tail(todo)
  PROVE  /\ Building' /\ ~Replacing' /\ At(n + 1)'
         /\ StepsDone(n + 1)' = StepsDone(n) \cup {P[n]}
         /\ Replacing => StepsDone(n) = StepsDone(n) \cup {P[n]}
<1>1. todo' = From(n + 1) /\ n + 1 \in 1..Len(P) /\ P' = P /\ Len(P) \in Nat /\ n \in Nat
  BY AtStep, ThePlan DEF P
<1>2. todo' # <<>> /\ Head(todo') = P[n + 1]
  <2>1. P \in Seq({AllSteps(full)[i] : i \in 1..13})
    BY ThePlan
  <2>2. n + 1 \in 1..Len(P)
    BY <1>1
  <2> QED BY <1>1, <2>1, <2>2, RestOfSequence DEF From
<1>3. P[n + 1] # Fallback
  BY <1>1, PlanStep
<1>4. Building' /\ ~Replacing'
  BY <1>2, <1>3 DEF Building, Replacing
<1>5. From(n + 1)' = From(n + 1)
  BY <1>1 DEF From
<1>6. At(n + 1)'
  BY <1>1, <1>4, <1>5 DEF At
<1>7. 1..n = 1..(n - 1) \cup {n}
  <2>1. n \in Nat /\ n >= 1
    BY <1>1 DEF At
  <2> QED BY <2>1
<1>8. StepsDone(n + 1)' = {P[i] : i \in 1..n}
  <2>1. (n + 1) - 1 = n
    BY <1>1
  <2> QED BY <1>1, <1>4, <2>1 DEF StepsDone
<1>9. StepsDone(n) = IF Replacing THEN {P[i] : i \in 1..n} ELSE {P[i] : i \in 1..(n - 1)}
  BY DEF StepsDone
<1> QED BY <1>4, <1>6, <1>7, <1>8, <1>9, <1>1

\* A step whose file is not that of a step taken.
Fresh(s, D, second) == (\A t \in D : t.file # s.file) /\ (second => s.file # Fallback.file)

\* Step s makes the steps taken grow from D to E.
TakenUp(D, E, second, later, s) ==
  /\ D \subseteq E /\ E \subseteq D \cup {s} /\ (second => later)
  /\ s \in E \/ (later /\ s = Fallback)

\* With s, the second choice has been taken wherever the SBOM failed.
Replaced(D, E, second, later, s, ok) ==
  \A t \in E : t.name = "sbom" /\ later => (second /\ t \in D) \/ (t = s /\ ok) \/ s = Fallback

\* A step whose file no step before it has finds no file of that name.
LEMMA NoFileYet ==
  ASSUME NEW D, NEW second, NEW s, Files(D, second), docs \subseteq Docs, s.file \in SectionFiles,
         Fresh(s, D, second)
  PROVE  \A f \in dir : f.name # s.file
<1>1. Docs \cap SectionFiles = {}
  BY EvidenceAssumption
<1> QED BY <1>1 DEF Files, Owned, Fresh

LEMMA PutIsAdded ==
  ASSUME NEW g, \A f \in dir : f.name # g.name
  PROVE  Put({g}) = dir \cup {g}
BY DEF Put

\* A step leaves its file, or nothing.
LEMMA FilesGrow ==
  ASSUME NEW D, NEW E, NEW second, NEW later, NEW s, NEW g, NEW G,
         Files(D, second), TakenUp(D, E, second, later, s), s.by # "copy",
         G \subseteq {g}, g.name = s.file, g.build = builds, \A f \in dir : f.name # g.name,
         CapIsOfStep(g),
         s.by = "write" => G = {g},
         dir' = dir \cup G, docs' = docs, builds' = builds, full' = full
  PROVE  Files(E, later)'
<1>1. \A f, h \in dir' : f.name = h.name => f = h
  BY DEF Files
<1>2. ASSUME NEW f \in dir, Owned(f, D, second)
      PROVE  Owned(f, E, later)'
  BY <1>2 DEF Owned, TakenUp
<1>3. Owned(g, E, later)'
  BY DEF Owned, TakenUp
<1>c. \A f : CapIsOfStep(f)' <=> CapIsOfStep(f)
  BY DEF CapIsOfStep
<1>4. ASSUME NEW f \in dir'
      PROVE  f.build = builds /\ Owned(f, E, later)' /\ CapIsOfStep(f)'
  <2>1. CASE f \in dir
    BY <2>1, <1>2, <1>c DEF Files
  <2>2. CASE f = g
    BY <2>2, <1>3, <1>c
  <2> QED BY <2>1, <2>2
<1>5. ASSUME NEW t \in E
      PROVE  (t.by = "write" => Has(t.file)') /\ (t.by = "copy" => \A d \in docs : Has(d)')
  <2>1. CASE t \in D
    BY <2>1 DEF Files, Has
  <2>2. CASE t = s
    BY <2>2 DEF Has
  <2> QED BY <2>1, <2>2 DEF TakenUp
<1> QED BY <1>1, <1>4, <1>5 DEF Files

\* A command is logged with what became of its file.
LEMMA LogGrows ==
  ASSUME NEW D, NEW E, NEW second, NEW later, NEW s, NEW g, NEW G, NEW ok \in BOOLEAN,
         Logged(D, second), TakenUp(D, E, second, later, s), Command(s),
         Fresh(s, D, second), Replaced(D, E, second, later, s, ok),
         G \subseteq {g}, g.name = s.file, \A f \in dir : f.name # g.name,
         ok <=> G = {g} /\ ~g.bad,
         dir' = dir \cup G, steps' = steps \cup Recorded(s, ok)
  PROVE  Logged(E, later)'
<1>a. D \subseteq E /\ E \subseteq D \cup {s} /\ (second => later) /\ (s \in E \/ (later /\ s = Fallback))
  BY DEF TakenUp
<1>b. (\A t \in D : t.file # s.file) /\ (second => s.file # Fallback.file)
  BY DEF Fresh
<1>1. Whole(s.file)' = ok
  BY DEF Whole
<1>2. \A x : x # s.file => Whole(x)' = Whole(x)
  BY DEF Whole
<1>3. Entry(s)' = [name |-> s.name, ok |-> ok, optional |-> s.optional]
  BY <1>1 DEF Entry
<1>4. \A t : t.file # s.file => Entry(t)' = Entry(t)
  BY <1>2 DEF Entry
<1>5. steps' = steps \cup {Entry(s)'}
  BY <1>3 DEF Recorded
<1> DEFINE Base == D \cup (IF second THEN {Fallback} ELSE {})
           Now == E \cup (IF later THEN {Fallback} ELSE {})
<1>6. \A t \in Base : Entry(t)' = Entry(t)
  BY <1>4, <1>b
<1>7. Base \subseteq Now /\ s \in Now
  BY <1>a
<1>8. \A t \in E : Command(t) => Entry(t)' \in steps'
  <2> TAKE t \in E
  <2>1. CASE t \in D
    BY <2>1, <1>b, <1>4, <1>5 DEF Logged
  <2>2. CASE t = s
    BY <2>2, <1>5
  <2> QED BY <2>1, <2>2, <1>a
<1>9. \A r \in steps' : \E t \in Now : Command(t) /\ r = Entry(t)'
  <2> TAKE r \in steps'
  <2>1. CASE r \in steps
    <3>1. PICK t \in Base : Command(t) /\ r = Entry(t)
      BY <2>1 DEF Logged
    <3> QED BY <3>1, <1>6, <1>7
  <2>2. CASE r = Entry(s)'
    BY <2>2, <1>7
  <2> QED BY <2>1, <2>2, <1>5
<1>10. ASSUME NEW t \in E, t.name = "sbom", ~Whole(t.file)', later
       PROVE  Entry(Fallback)' \in steps'
  <2>1. CASE second /\ t \in D
    <3>1. ~Whole(t.file)
      BY <1>b, <1>2, <1>10, <2>1
    <3> QED BY <2>1, <3>1, <1>b, <1>10, <1>4, <1>5 DEF Logged
  <2>2. CASE t = s /\ ok
    BY <2>2, <1>10, <1>1
  <2>3. CASE s = Fallback
    BY <2>3, <1>5
  <2> QED BY <2>1, <2>2, <2>3, <1>10 DEF Replaced
<1> QED BY <1>8, <1>9, <1>10 DEF Logged

\* A step that is no command leaves the log as it was.
LEMMA LogStays ==
  ASSUME NEW D, NEW E, NEW second, NEW s,
         Logged(D, second), E \subseteq D \cup {s}, D \subseteq E, ~Command(s), s.name # "sbom",
         \A t \in D : Command(t) => Whole(t.file)' = Whole(t.file),
         \A t \in D : t.name = "sbom" => Command(t),
         second => Whole(Fallback.file)' = Whole(Fallback.file),
         UNCHANGED steps
  PROVE  Logged(E, second)'
<1>1. \A t \in D : Command(t) => Entry(t)' = Entry(t)
  BY DEF Entry
<1>2. second => Entry(Fallback)' = Entry(Fallback)
  BY DEF Entry
<1> QED BY <1>1, <1>2 DEF Logged

\* What a build has done when it comes to its n-th step.
LEMMA DoneBefore ==
  ASSUME full \in BOOLEAN, NEW n, At(n)
  PROVE  /\ \A t \in StepsDone(n) : IsStep(t, full)
         /\ ~Replacing => \A t \in StepsDone(n) : t.name # P[n].name /\ t.file # P[n].file
         /\ n < Len(P) - 1 => \A t \in StepsDone(n) : t.name \notin {"manifest", "readme"}
         /\ n = Len(P) - 1 => \A t \in StepsDone(n) : t.name # "readme"
<1>1. n \in 1..Len(P) /\ Len(P) \in Nat
  BY ThePlan DEF At
<1>2. \A t \in StepsDone(n) : \E i \in 1..Len(P) : t = P[i] /\ i <= n /\ (~Replacing => i < n)
  BY <1>1 DEF StepsDone
<1>3. \A t \in StepsDone(n) : IsStep(t, full)
  BY <1>2, PlanStep
<1>4. ~Replacing => \A t \in StepsDone(n) : t.name # P[n].name /\ t.file # P[n].file
  BY <1>1, <1>2, ThePlan
<1>5. n < Len(P) - 1 => \A t \in StepsDone(n) : t.name \notin {"manifest", "readme"}
  BY <1>1, <1>2, PlanStep
<1>6. n = Len(P) - 1 => \A t \in StepsDone(n) : t.name # "readme"
  BY <1>1, <1>2, PlanStep
<1> QED BY <1>3, <1>4, <1>5, <1>6

\* The type invariant from where the build is.
LEMMA TypesOfAt ==
  ASSUME EvidenceTypeOK, NEW n \in Nat, At(n)', Building', UNCHANGED <<builds, full, docs, exitCode, intruded>>,
         steps' \subseteq [name : StepNames, ok : BOOLEAN, optional : BOOLEAN],
         \A f, g \in dir' : f.name = g.name => f = g, exitCode = Nothing
  PROVE  EvidenceTypeOK'
<1>1. full \in BOOLEAN /\ builds \in 0..MaxBuilds /\ docs \subseteq Docs /\ P' = Plan(full)
  BY DEF EvidenceTypeOK, P
<1>2. n \in 1..Len(Plan(full))
  BY <1>1 DEF At
<1>3. LET rest == SubSeq(Plan(full), n, Len(Plan(full))) IN
      todo' = rest \/ (Plan(full)[n].name = "sbom" /\ todo' = [rest EXCEPT ![1] = Fallback])
  BY <1>1 DEF At, From, Instead
<1> QED BY <1>1, <1>2, <1>3 DEF EvidenceTypeOK, Complete

\* The entries of the log of a command are typed.
LEMMA EntryTyped ==
  ASSUME NEW s, NEW ok \in BOOLEAN, s = Fallback \/ IsStep(s, full)
  PROVE  Recorded(s, ok) \subseteq [name : StepNames, ok : BOOLEAN, optional : BOOLEAN]
<1>1. s.name \in StepNames /\ s.optional \in BOOLEAN
  <2>1. CASE s = Fallback
    BY <2>1 DEF Fallback, Step, StepNames
  <2>2. CASE IsStep(s, full)
    BY <2>2 DEF IsStep
  <2> QED BY <2>1, <2>2
<1> QED BY <1>1 DEF Recorded

LEMMA RunInv ==
  ASSUME AccountInv, Run
  PROVE  AccountInv'
<1>1. full \in BOOLEAN /\ Building /\ docs \subseteq Docs /\ EvidenceTypeOK /\ exitCode = Nothing
  BY DEF AccountInv, EvidenceTypeOK, Run, Complete
<1>2. PICK n \in 1..Len(P) : At(n) /\ Past(n)
  BY <1>1 DEF AccountInv
<1>s. PICK s : s = Head(todo)
  OBVIOUS
<1>D. PICK D : D = StepsDone(n)
  OBVIOUS
<1>second. PICK second \in BOOLEAN : second = Second(n)
  <2> Second(n) \in BOOLEAN
    BY DEF Second
  <2> QED OBVIOUS
<1>3. PICK outcome \in {"passed", "failed", "crashed"} :
        /\ s.by \in {"report", "output"}
        /\ steps' = steps \cup Recorded(s, outcome = "passed")
        /\ dir' = Kept(s, outcome)
        /\ todo' = IF s.name = "sbom" /\ outcome # "passed" THEN [todo EXCEPT ![1] = Fallback] ELSE Tail(todo)
        /\ UNCHANGED <<builds, full, docs, exitCode, intruded>>
  BY <1>s DEF Run
<1> DEFINE ok == outcome = "passed"
<1>g. PICK g : g = File(s.file, s.cap, ~ok)
  OBVIOUS
<1> DEFINE G == IF ok \/ (s.by = "report" /\ outcome = "failed") THEN {g} ELSE {}
<1>4. /\ Replacing => s = Fallback /\ P[n].name = "sbom" /\ ~second
      /\ ~Replacing => s = P[n] /\ todo = From(n)
  BY <1>1, <1>2, <1>s, <1>second, AtStep DEF Second
<1>5. /\ \A t \in D : IsStep(t, full) /\ t.name \notin {"manifest", "readme"}
      /\ ~Replacing => \A t \in D : t.name # s.name /\ t.file # s.file
      /\ n < Len(P) - 1
  <2>1. IsStep(P[n], full) /\ Command(P[n])
    <3>1. CASE Replacing
      BY <3>1, <1>1, <1>4, PlanStep DEF IsStep
    <3>2. CASE ~Replacing
      BY <3>2, <1>1, <1>3, <1>4, PlanStep DEF Command
    <3> QED BY <3>1, <3>2
  <2>2. P[n].name \notin {"manifest", "readme"}
    BY <2>1 DEF IsStep, Command
  <2>3. n < Len(P) - 1
    BY <1>1, <2>2, PlanStep, ThePlan
  <2> QED BY <1>1, <1>2, <1>4, <1>D, <2>3, DoneBefore
<1>6. /\ s.file \in SectionFiles /\ Fresh(s, D, second)
      /\ s.cap # NoCap => s.file = "02d-conformance-acvp-fips205-siggen" \/ (~full /\ s.file = "02-conformance-acvp")
      /\ s = Fallback \/ IsStep(s, full)
  <2>1. CASE Replacing
    <3>1. Fallback.file \in SectionFiles /\ Fallback.cap = NoCap
      BY DEF SectionFiles, Fallback, Step
    <3> QED BY <2>1, <3>1, <1>4, <1>5 DEF IsStep, Fresh
  <2>2. CASE ~Replacing
    BY <2>2, <1>1, <1>4, <1>5, PlanStep DEF IsStep, Fresh
  <2> QED BY <2>1, <2>2
<1>7. /\ \A f \in dir : f.name # s.file
      /\ g.name = s.file /\ g.build = builds /\ g.cap = s.cap /\ g.bad = ~ok
  BY <1>1, <1>2, <1>6, <1>D, <1>second, <1>g, NoFileYet DEF Past, File
<1>8. dir' = dir \cup G /\ G \subseteq {g} /\ (ok <=> G = {g} /\ ~g.bad)
  <2>1. Put({g}) = dir \cup {g}
    BY <1>7, PutIsAdded
  <2>2. CASE outcome = "passed"
    BY <2>1, <2>2, <1>3, <1>7, <1>g DEF Kept
  <2>3. CASE outcome # "passed"
    BY <2>1, <2>3, <1>3, <1>7, <1>g DEF Kept
  <2> QED BY <2>2, <2>3
<1>9. steps' \subseteq [name : StepNames, ok : BOOLEAN, optional : BOOLEAN]
  BY <1>1, <1>3, <1>6, EntryTyped DEF EvidenceTypeOK
<1>10. ASSUME NEW E, NEW later \in BOOLEAN, TakenUp(D, E, second, later, s), Replaced(D, E, second, later, s, ok)
       PROVE  Files(E, later)' /\ Logged(E, later)' /\ Told(E)'
  <2> Files(D, second) /\ Logged(D, second)
    BY <1>2, <1>D, <1>second DEF Past
  <2> HIDE DEF G, ok
  <2>1. Command(s) /\ s.by # "copy" /\ s.by # "write"
    BY <1>3 DEF Command
  <2>b. /\ G \subseteq {g} /\ g.name = s.file /\ g.build = builds /\ dir' = dir \cup G
        /\ \A f \in dir : f.name # g.name
        /\ CapIsOfStep(g)
        /\ ok <=> G = {g} /\ ~g.bad
        /\ steps' = steps \cup Recorded(s, ok) /\ docs' = docs /\ builds' = builds /\ full' = full
    BY <1>3, <1>6, <1>7, <1>8 DEF ok, CapIsOfStep
  <2>c. ok \in BOOLEAN
    BY DEF ok
  <2>2. Files(E, later)'
    BY <1>10, <2>b, <2>1, FilesGrow
  <2>3. Logged(E, later)'
    BY <1>10, <2>b, <2>c, <2>1, <1>6, LogGrows
  <2>4. s.name \notin {"manifest", "readme"}
    BY <1>6, <2>1 DEF IsStep, Command, Fallback, Step
  <2>5. Told(E)'
    BY <2>4, <1>5, <1>10 DEF Told, TakenUp
  <2> QED BY <2>2, <2>3, <2>5
<1>11. CASE s.name = "sbom" /\ outcome # "passed"
  <2>1. ~Replacing
    BY <1>4, <1>11 DEF Fallback, Step
  <2>2. P \in Seq({AllSteps(full)[i] : i \in 1..13}) /\ P' = P
    BY <1>1, <1>3, ThePlan DEF P
  <2>3. todo' = Instead(n) /\ todo' # <<>> /\ Head(todo') = Fallback
    <3>1. todo = SubSeq(P, n, Len(P)) /\ todo' = [todo EXCEPT ![1] = Fallback]
      BY <1>3, <1>4, <1>11, <2>1 DEF From
    <3>2. n \in 1..Len(P)
      BY <1>2
    <3>3. [SubSeq(P, n, Len(P)) EXCEPT ![1] = Fallback] # <<>> /\ Head([SubSeq(P, n, Len(P)) EXCEPT ![1] = Fallback]) = Fallback
      BY <2>2, <3>2, RestOfSequence
    <3> QED BY <3>1, <3>3 DEF Instead, From
  <2>4. Replacing' /\ Building' /\ At(n)'
    BY <2>2, <2>3, <1>4, <1>11, <2>1, <1>3 DEF Replacing, Building, At, Instead, From
  <2>5. 1..n = 1..(n - 1) \cup {n}
    BY <1>5, ThePlan, <1>1
  <2>6. StepsDone(n)' = D \cup {s}
    BY <2>1, <2>2, <2>4, <2>5, <1>4, <1>D DEF StepsDone
  <2>7. Second(n)' = FALSE /\ second = FALSE
    BY <2>1, <2>4, <1>5, <1>11, <1>D, <1>second DEF Second
  <2>8. TakenUp(D, D \cup {s}, second, FALSE, s) /\ Replaced(D, D \cup {s}, second, FALSE, s, ok)
    BY <2>7 DEF TakenUp, Replaced
  <2>9. Past(n)'
    BY <2>6, <2>7, <2>8, <1>10 DEF Past
  <2>10. EvidenceTypeOK'
    BY <1>1, <1>3, <1>9, <2>4, <2>9, TypesOfAt DEF Past, Files
  <2> QED BY <2>2, <2>4, <2>9, <2>10, <1>1, <1>3 DEF AccountInv, Complete
<1>12. CASE ~(s.name = "sbom" /\ outcome # "passed")
  <2>1. /\ Building' /\ ~Replacing' /\ At(n + 1)' /\ StepsDone(n + 1)' = D \cup {P[n]}
        /\ Replacing => D = D \cup {P[n]}
    BY <1>1, <1>2, <1>3, <1>5, <1>12, <1>D, <1>s, NextStep
  <2>l. PICK later \in BOOLEAN : later = Second(n + 1)'
    <3> Second(n + 1)' \in BOOLEAN
      BY DEF Second
    <3> QED OBVIOUS
  <2>2. later <=> \E t \in D \cup {P[n]} : t.name = "sbom"
    BY <2>1, <2>l DEF Second
  <2>3. TakenUp(D, D \cup {P[n]}, second, later, s) /\ Replaced(D, D \cup {P[n]}, second, later, s, ok)
    <3>1. CASE Replacing
      BY <3>1, <2>1, <2>2, <1>4, <1>D, <1>second DEF Second, TakenUp, Replaced
    <3>2. CASE ~Replacing
      BY <3>2, <2>1, <2>2, <1>4, <1>12, <1>D, <1>second DEF Second, TakenUp, Replaced
    <3> QED BY <3>1, <3>2
  <2>4. Past(n + 1)'
    BY <2>1, <2>l, <2>3, <1>10 DEF Past
  <2>5. n + 1 \in 1..Len(P)' /\ n + 1 \in Nat
    BY <2>1 DEF At
  <2>6. EvidenceTypeOK'
    BY <1>1, <1>3, <1>9, <2>1, <2>4, <2>5, TypesOfAt DEF Past, Files
  <2> QED BY <2>1, <2>4, <2>5, <2>6, <1>1, <1>3 DEF AccountInv, Complete
<1> QED BY <1>11, <1>12

\* A file of this step in this build.
FileFrom(g, s) == g.name = s.file /\ g.build = builds /\ CapIsOfStep(g)

\* The files and the log after a step that writes its file itself.
LEMMA Written ==
  ASSUME NEW D, NEW second \in BOOLEAN, NEW s, NEW g,
         Files(D, second), Logged(D, second), docs \subseteq Docs,
         s.by = "write", s.file \in SectionFiles, Fresh(s, D, second), s.name # "sbom",
         FileFrom(g, s),
         \A t \in D : t.name = "sbom" => Command(t),
         dir' = Put({g}), docs' = docs, builds' = builds, full' = full, steps' = steps
  PROVE  Files(D \cup {s}, second)' /\ Logged(D \cup {s}, second)' /\ dir' = dir \cup {g} /\ (\A f \in dir : f.name # g.name)
<1>E. PICK E : E = D \cup {s}
  OBVIOUS
<1>g. g.name = s.file /\ g.build = builds /\ CapIsOfStep(g)
  BY DEF FileFrom
<1>1. \A f \in dir : f.name # s.file
  BY NoFileYet
<1>2. dir' = dir \cup {g}
  BY <1>1, <1>g, PutIsAdded
<1>3. TakenUp(D, E, second, second, s)
  BY <1>E DEF TakenUp
<1>4. Files(E, second)'
  <2> DEFINE G == {g}
  <2>1. G \subseteq {g} /\ dir' = dir \cup G /\ (s.by = "write" => G = {g}) /\ s.by # "copy"
    BY <1>2
  <2> HIDE DEF G
  <2> QED BY <1>g, <1>1, <1>3, <2>1, FilesGrow
<1>5. /\ \A t \in D : Command(t) => Whole(t.file)' = Whole(t.file)
      /\ second => Whole(Fallback.file)' = Whole(Fallback.file)
  BY <1>2, <1>g DEF Whole, Fresh
<1>6. Logged(E, second)'
  BY <1>E, <1>5, LogStays DEF Command
<1> QED BY <1>E, <1>g, <1>1, <1>2, <1>4, <1>6

\* A build at a step of its own, and what it has done.
OwnStep(n) ==
  /\ At(n) /\ Files(StepsDone(n), Second(n)) /\ Logged(StepsDone(n), Second(n)) /\ Told(StepsDone(n))
  /\ Head(todo) = P[n] /\ IsStep(P[n], full) /\ P[n].name # "sbom"
  /\ P[n].name = "manifest" <=> n = Len(P) - 1
  /\ P[n].name = "readme" <=> n = Len(P)
  /\ Fresh(P[n], StepsDone(n), Second(n))
  /\ \A t \in StepsDone(n) : IsStep(t, full) /\ (t.name = "sbom" => Command(t))

LEMMA AtOwnStep ==
  ASSUME AccountInv, Building, ~Command(Head(todo))
  PROVE  /\ full \in BOOLEAN /\ docs \subseteq Docs /\ EvidenceTypeOK /\ exitCode = Nothing /\ ~Replacing
         /\ \E n \in 1..Len(P) : OwnStep(n)
<1>1. full \in BOOLEAN /\ docs \subseteq Docs /\ EvidenceTypeOK /\ exitCode = Nothing
  BY DEF AccountInv, EvidenceTypeOK, Complete
<1>2. PICK n \in 1..Len(P) : At(n) /\ Past(n)
  BY DEF AccountInv
<1>3. ~Replacing
  BY DEF Replacing, Command, Fallback, Step
<1>4. Head(todo) = P[n] /\ n \in 1..Len(P)
  BY <1>1, <1>2, <1>3, AtStep
<1>5. IsStep(P[n], full) /\ (P[n].name = "manifest" <=> n = Len(P) - 1) /\ (P[n].name = "readme" <=> n = Len(P))
  BY <1>1, <1>4, PlanStep
<1>6. \A t \in StepsDone(n) : IsStep(t, full) /\ (t.name = "sbom" => Command(t))
  BY <1>1, <1>2, DoneBefore DEF IsStep
<1>7. Fresh(P[n], StepsDone(n), Second(n))
  BY <1>1, <1>2, <1>3, <1>5, DoneBefore DEF Fresh, IsStep
<1>8. P[n].name # "sbom"
  BY <1>4, <1>5 DEF IsStep
<1> QED BY <1>1, <1>2, <1>3, <1>4, <1>5, <1>6, <1>7, <1>8 DEF Past, OwnStep

\* The build goes on to its next step after one of its own.
LEMMA OwnStepDone ==
  ASSUME EvidenceTypeOK, Building, ~Replacing, NEW n \in 1..Len(P), At(n), n < Len(P), P[n].name # "sbom",
         NEW D, NEW second, D = StepsDone(n), second = Second(n), exitCode = Nothing,
         todo' = Tail(todo), UNCHANGED <<builds, full, steps, docs, exitCode, intruded>>,
         Files(D \cup {P[n]}, second)', Logged(D \cup {P[n]}, second)', Told(D \cup {P[n]})'
  PROVE  AccountInv'
<1>1. full \in BOOLEAN /\ full' = full /\ steps \subseteq [name : StepNames, ok : BOOLEAN, optional : BOOLEAN]
  BY DEF EvidenceTypeOK
<1>2. Building' /\ ~Replacing' /\ At(n + 1)' /\ StepsDone(n + 1)' = D \cup {P[n]}
  BY <1>1, NextStep
<1>3. Second(n + 1)' = second
  BY <1>2 DEF Second
<1>p. P' = P
  BY <1>1 DEF P
<1>4. Past(n + 1)'
  BY <1>2, <1>3, <1>p DEF Past
<1>5. n + 1 \in 1..Len(P)' /\ n + 1 \in Nat
  BY <1>2 DEF At
<1>6. EvidenceTypeOK'
  BY <1>1, <1>2, <1>4, <1>5, TypesOfAt DEF Past, Files
<1> QED BY <1>2, <1>4, <1>5, <1>6 DEF AccountInv, Complete

LEMMA WriteInv ==
  ASSUME AccountInv, Write
  PROVE  AccountInv'
<1>1. Building /\ Head(todo).name \in {"identity", "siggen-note"}
  BY DEF Write
<1>2. ~Command(Head(todo))
  <2>1. CASE Replacing
    BY <2>1, <1>1 DEF Replacing, Fallback, Step
  <2>2. CASE ~Replacing
    <3>1. PICK n \in 1..Len(P) : At(n)
      BY <1>1 DEF AccountInv
    <3>2. full \in BOOLEAN
      BY DEF AccountInv, EvidenceTypeOK
    <3>3. Head(todo) = P[n] /\ IsStep(P[n], full)
      BY <1>1, <2>2, <3>1, <3>2, AtStep, PlanStep
    <3> QED BY <3>3, <1>1 DEF IsStep, Command
  <2> QED BY <2>1, <2>2
<1>3. PICK n \in 1..Len(P) : OwnStep(n)
  BY <1>1, <1>2, AtOwnStep
<1>4. full \in BOOLEAN /\ docs \subseteq Docs /\ EvidenceTypeOK /\ exitCode = Nothing /\ ~Replacing
  BY <1>1, <1>2, AtOwnStep
<1>s. PICK s : s = P[n]
  OBVIOUS
<1>D. PICK D : D = StepsDone(n)
  OBVIOUS
<1>second. PICK second \in BOOLEAN : second = Second(n)
  <2> Second(n) \in BOOLEAN
    BY DEF Second
  <2> QED OBVIOUS
<1>g. PICK g : g = File(s.file, s.cap, FALSE)
  OBVIOUS
<1>5. /\ dir' = Put({g}) /\ todo' = Tail(todo)
      /\ builds' = builds /\ full' = full /\ steps' = steps /\ docs' = docs /\ exitCode' = exitCode /\ intruded' = intruded
      /\ g.name = s.file /\ g.build = builds /\ g.cap = s.cap
  BY <1>3, <1>s, <1>g DEF Write, File, OwnStep, account
<1>6. s.by = "write" /\ s.file \in SectionFiles /\ n < Len(P) - 1 /\ s.name \notin {"manifest", "readme"}
  BY <1>1, <1>3, <1>s, <1>4, ThePlan DEF IsStep, OwnStep
<1>7. FileFrom(g, s)
  BY <1>3, <1>5, <1>s DEF IsStep, FileFrom, CapIsOfStep, OwnStep
<1>8. Files(D \cup {s}, second)' /\ Logged(D \cup {s}, second)'
  <2>2. Files(D, second) /\ Logged(D, second) /\ Fresh(s, D, second) /\ s.name # "sbom" /\ (\A t \in D : t.name = "sbom" => Command(t))
    BY <1>3, <1>s, <1>D, <1>second DEF OwnStep
  <2> QED BY <2>2, <1>4, <1>5, <1>6, <1>7, Written
<1>9. Told(D \cup {s})'
  <2>1. \A t \in D : t.name \notin {"manifest", "readme"}
    BY <1>3, <1>4, <1>6, <1>D, DoneBefore DEF OwnStep
  <2> QED BY <2>1, <1>6 DEF Told
<1>10. P[n]' = s /\ n < Len(P)
  BY <1>5, <1>s, <1>6, <1>4, ThePlan DEF P
<1> QED BY <1>1, <1>3, <1>4, <1>5, <1>8, <1>9, <1>10, <1>s, <1>D, <1>second, OwnStepDone DEF OwnStep

LEMMA ManifestInv ==
  ASSUME AccountInv, Manifest
  PROVE  AccountInv'
<1>1. Building /\ Head(todo).name = "manifest"
  BY DEF Manifest
<1>2. ~Command(Head(todo))
  <2>1. ~Replacing
    BY <1>1 DEF Replacing, Fallback, Step
  <2>2. PICK n \in 1..Len(P) : At(n)
    BY <1>1 DEF AccountInv
  <2>3. full \in BOOLEAN
    BY DEF AccountInv, EvidenceTypeOK
  <2>4. Head(todo) = P[n] /\ IsStep(P[n], full)
    BY <1>1, <2>1, <2>2, <2>3, AtStep, PlanStep
  <2> QED BY <2>4, <1>1 DEF IsStep, Command
<1>3. PICK n \in 1..Len(P) : OwnStep(n)
  BY <1>1, <1>2, AtOwnStep
<1>4. full \in BOOLEAN /\ docs \subseteq Docs /\ EvidenceTypeOK /\ exitCode = Nothing /\ ~Replacing
  BY <1>1, <1>2, AtOwnStep
<1>s. PICK s : s = P[n]
  OBVIOUS
<1>D. PICK D : D = StepsDone(n)
  OBVIOUS
<1>second. PICK second \in BOOLEAN : second = Second(n)
  <2> Second(n) \in BOOLEAN
    BY DEF Second
  <2> QED OBVIOUS
<1>g. PICK g : g = [name |-> "00-MANIFEST", build |-> builds,
                    failed |-> FailedSteps(steps), full |-> full, files |-> Listed]
  OBVIOUS
<1>5. /\ dir' = Put({g}) /\ todo' = Tail(todo)
      /\ builds' = builds /\ full' = full /\ steps' = steps /\ docs' = docs /\ exitCode' = exitCode /\ intruded' = intruded
  BY <1>g DEF Manifest, account
<1>6. /\ s.by = "write" /\ s.file \in SectionFiles /\ n = Len(P) - 1 /\ s.file = "00-MANIFEST"
      /\ s.name = "manifest"
  BY <1>1, <1>3, <1>s DEF IsStep, OwnStep
<1>7. FileFrom(g, s)
  BY <1>6, <1>g DEF FileFrom, CapIsOfStep, Accounts
<1>8. /\ Files(D \cup {s}, second)' /\ Logged(D \cup {s}, second)' /\ dir' = dir \cup {g}
      /\ \A f \in dir : f.name # g.name
  <2>1. Files(D, second) /\ Logged(D, second) /\ Fresh(s, D, second) /\ s.name # "sbom" /\ (\A t \in D : t.name = "sbom" => Command(t))
    BY <1>3, <1>s, <1>D, <1>second DEF OwnStep
  <2> QED BY <2>1, <1>4, <1>5, <1>6, <1>7, Written
<1>9. Told(D \cup {s})'
  <2>1. \A t \in D \cup {s} : t.name # "readme"
    BY <1>3, <1>4, <1>6, <1>D, DoneBefore DEF OwnStep
  <2>2. \A f \in dir' : f.name = "00-MANIFEST" => f = g
    BY <1>8, <1>g
  <2>3. {h \in dir' : h.name \notin Accounts} = Listed
    BY <1>8, <1>g DEF Listed, Accounts
  <2>4. g.failed = FailedSteps(steps)' /\ g.files = {h \in dir' : h.name \notin Accounts}
    BY <1>g, <1>5, <2>3 DEF FailedSteps
  <2> QED BY <2>1, <2>2, <2>4 DEF Told
<1>10. P[n]' = s /\ n < Len(P)
  BY <1>5, <1>s, <1>6, <1>4, ThePlan DEF P
<1> QED BY <1>1, <1>3, <1>4, <1>5, <1>8, <1>9, <1>10, <1>s, <1>D, <1>second, OwnStepDone DEF OwnStep

LEMMA CopyDocsInv ==
  ASSUME AccountInv, CopyDocs
  PROVE  AccountInv'
<1>1. Building /\ Head(todo).by = "copy"
  BY DEF CopyDocs
<1>2. ~Command(Head(todo))
  BY <1>1 DEF Command
<1>3. PICK n \in 1..Len(P) : OwnStep(n)
  BY <1>1, <1>2, AtOwnStep
<1>4. full \in BOOLEAN /\ docs \subseteq Docs /\ EvidenceTypeOK /\ exitCode = Nothing /\ ~Replacing
  BY <1>1, <1>2, AtOwnStep
<1>s. PICK s : s = P[n]
  OBVIOUS
<1>D. PICK D : D = StepsDone(n)
  OBVIOUS
<1>second. PICK second \in BOOLEAN : second = Second(n)
  <2> Second(n) \in BOOLEAN
    BY DEF Second
  <2> QED OBVIOUS
<1>5. /\ dir' = Put({Doc(d) : d \in docs}) /\ todo' = Tail(todo)
      /\ builds' = builds /\ full' = full /\ steps' = steps /\ docs' = docs /\ exitCode' = exitCode /\ intruded' = intruded
  BY DEF CopyDocs, account
<1>6. /\ s.by = "copy" /\ s.name = "docs" /\ n < Len(P) - 1 /\ Docs \cap SectionFiles = {}
      /\ Files(D, second) /\ Logged(D, second) /\ \A t \in D : IsStep(t, full)
  BY <1>1, <1>3, <1>4, <1>s, <1>D, <1>second, ThePlan, EvidenceAssumption DEF IsStep, OwnStep
<1>7. \A t \in D : t.by # "copy"
  <2>1. \A t \in D : t.name # "docs"
    BY <1>3, <1>4, <1>6, <1>s, <1>D, DoneBefore DEF OwnStep
  <2> QED BY <2>1, <1>6 DEF IsStep
<1>8. \A d \in docs : Doc(d).name = d /\ Doc(d).build = builds /\ Doc(d).cap = NoCap
  BY DEF Doc, File
<1>9. \A f \in dir : f.name \notin docs
  <2> TAKE f \in dir
  <2>1. Owned(f, D, second)
    BY <1>6 DEF Files
  <2>2. Fallback.file \in SectionFiles
    BY DEF SectionFiles
  <2> QED BY <2>1, <2>2, <1>4, <1>6, <1>7 DEF Owned, IsStep
<1>10. dir' = dir \cup {Doc(d) : d \in docs}
  BY <1>5, <1>8, <1>9 DEF Put
<1>11. Files(D \cup {s}, second)'
  <2>1. \A f, h \in dir' : f.name = h.name => f = h
    BY <1>6, <1>8, <1>9, <1>10 DEF Files
  <2>2. ASSUME NEW f \in dir'
        PROVE  f.build = builds /\ Owned(f, D \cup {s}, second)' /\ CapIsOfStep(f)'
    <3>1. CASE f \in dir
      BY <3>1, <1>5, <1>6 DEF Files, Owned, CapIsOfStep
    <3>2. CASE f \in {Doc(d) : d \in docs}
      BY <3>2, <1>5, <1>6, <1>8 DEF Owned, CapIsOfStep
    <3> QED BY <3>1, <3>2, <1>10
  <2>3. ASSUME NEW t \in D \cup {s}
        PROVE  (t.by = "write" => Has(t.file)') /\ (t.by = "copy" => \A d \in docs : Has(d)')
    <3>1. CASE t \in D
      BY <3>1, <1>6, <1>10 DEF Files, Has
    <3>2. CASE t = s
      BY <3>2, <1>6, <1>8, <1>10 DEF Has
    <3> QED BY <3>1, <3>2
  <2> QED BY <2>1, <2>2, <2>3, <1>5 DEF Files
<1>12. Logged(D \cup {s}, second)'
  <2>1. \A x \in SectionFiles : Whole(x)' = Whole(x)
    BY <1>4, <1>6, <1>8, <1>10 DEF Whole
  <2>2. Fallback.file \in SectionFiles
    BY DEF SectionFiles
  <2>3. \A t \in D : t.file \in SectionFiles /\ (t.name = "sbom" => Command(t))
    BY <1>6 DEF IsStep
  <2>4. ~Command(s) /\ s.name # "sbom"
    BY <1>6 DEF Command
  <2>5. /\ \A t \in D : Command(t) => Whole(t.file)' = Whole(t.file)
        /\ second => Whole(Fallback.file)' = Whole(Fallback.file)
    BY <2>1, <2>2, <2>3
  <2>E. PICK E : E = D \cup {s}
    OBVIOUS
  <2> QED BY <2>3, <2>4, <2>5, <2>E, <1>5, <1>6, LogStays
<1>13. Told(D \cup {s})'
  <2>1. \A t \in D : t.name \notin {"manifest", "readme"}
    BY <1>3, <1>4, <1>6, <1>D, DoneBefore DEF OwnStep
  <2> QED BY <2>1, <1>6 DEF Told
<1>14. P[n]' = s /\ n < Len(P)
  BY <1>5, <1>s, <1>6, <1>4, ThePlan DEF P
<1> QED BY <1>1, <1>3, <1>4, <1>5, <1>11, <1>12, <1>13, <1>14, <1>s, <1>D, <1>second, OwnStepDone DEF OwnStep

LEMMA ReadmeInv ==
  ASSUME AccountInv, Readme
  PROVE  AccountInv'
<1>1. Building /\ Head(todo).name = "readme"
  BY DEF Readme
<1>2. ~Command(Head(todo))
  <2>1. ~Replacing
    BY <1>1 DEF Replacing, Fallback, Step
  <2>2. PICK n \in 1..Len(P) : At(n)
    BY <1>1 DEF AccountInv
  <2>3. full \in BOOLEAN
    BY DEF AccountInv, EvidenceTypeOK
  <2>4. Head(todo) = P[n] /\ IsStep(P[n], full)
    BY <1>1, <2>1, <2>2, <2>3, AtStep, PlanStep
  <2> QED BY <2>4, <1>1 DEF IsStep, Command
<1>3. PICK n \in 1..Len(P) : OwnStep(n)
  BY <1>1, <1>2, AtOwnStep
<1>4. full \in BOOLEAN /\ docs \subseteq Docs /\ EvidenceTypeOK /\ exitCode = Nothing /\ ~Replacing
  BY <1>1, <1>2, AtOwnStep
<1>s. PICK s : s = P[n]
  OBVIOUS
<1>D. PICK D : D = StepsDone(n)
  OBVIOUS
<1>second. PICK second \in BOOLEAN : second = Second(n)
  <2> Second(n) \in BOOLEAN
    BY DEF Second
  <2> QED OBVIOUS
<1>g. PICK g : g = [name |-> "README", build |-> builds,
                    failed |-> FailedSteps(steps), full |-> full, copied |-> docs]
  OBVIOUS
<1>5. /\ dir' = Put({g}) /\ todo' = <<>> /\ exitCode' = IF Required(steps) = {} THEN 0 ELSE 1
      /\ builds' = builds /\ full' = full /\ steps' = steps /\ docs' = docs /\ intruded' = intruded
  BY <1>g DEF Readme, account
<1>6. s.by = "write" /\ s.file \in SectionFiles /\ n = Len(P) /\ s.file = "README" /\ s.name = "readme"
  BY <1>1, <1>3, <1>s DEF IsStep, OwnStep
<1>7. FileFrom(g, s)
  BY <1>6, <1>g DEF FileFrom, CapIsOfStep, Accounts
<1>8. /\ Files(D \cup {s}, second)' /\ Logged(D \cup {s}, second)' /\ dir' = dir \cup {g}
      /\ \A f \in dir : f.name # g.name
  <2>1. Files(D, second) /\ Logged(D, second) /\ Fresh(s, D, second) /\ s.name # "sbom" /\ (\A t \in D : t.name = "sbom" => Command(t))
    BY <1>3, <1>s, <1>D, <1>second DEF OwnStep
  <2> QED BY <2>1, <1>4, <1>5, <1>6, <1>7, Written
<1>9. Told(D \cup {s})'
  <2>1. Told(D)
    BY <1>3, <1>D DEF OwnStep
  <2>2. \A f \in dir' : f.name = "README" => f = g
    BY <1>8, <1>g
  <2>3. \A f \in dir' : f.name = "00-MANIFEST" => f \in dir
    BY <1>8, <1>g
  <2>4. {h \in dir' : h.name \notin Accounts} = {h \in dir : h.name \notin Accounts}
    BY <1>8, <1>g DEF Accounts
  <2>5. FailedSteps(steps)' = FailedSteps(steps)
    BY <1>5 DEF FailedSteps
  <2>6. g.failed = FailedSteps(steps) /\ g.copied = docs /\ g.full = full
    BY <1>g
  <2> QED BY <2>1, <2>2, <2>3, <2>4, <2>5, <2>6, <1>5, <1>6 DEF Told
<1>10. ~Building' /\ ~Replacing' /\ P' = P
  BY <1>5 DEF Building, Replacing, P
<1>11. StepsDone(Len(P) + 1)' = D \cup {s} /\ Second(Len(P) + 1)' = second
  <2>1. Len(P) \in Nat /\ Len(P) >= 1 /\ (Len(P) + 1) - 1 = Len(P)
    BY <1>4, ThePlan
  <2>2. 1..Len(P) = 1..(Len(P) - 1) \cup {Len(P)}
    BY <2>1
  <2>3. D = {P[i] : i \in 1..(Len(P) - 1)}
    BY <1>4, <1>6, <1>D DEF StepsDone
  <2>4. StepsDone(Len(P) + 1)' = {P[i] : i \in 1..Len(P)}
    BY <1>10, <2>1 DEF StepsDone
  <2>5. StepsDone(Len(P) + 1)' = D \cup {s}
    BY <2>2, <2>3, <2>4, <1>6, <1>s
  <2> QED BY <2>5, <1>4, <1>6, <1>10, <1>D, <1>second DEF Second
<1>12. Past(Len(P) + 1)'
  BY <1>8, <1>9, <1>10, <1>11 DEF Past
<1>13. EvidenceTypeOK'
  BY <1>4, <1>5, <1>8, <1>10 DEF EvidenceTypeOK, Files, Complete
<1> QED BY <1>5, <1>10, <1>12, <1>13 DEF AccountInv, Required

LEMMA KillInv ==
  ASSUME AccountInv, Kill
  PROVE  AccountInv'
<1>1. ~Building' /\ ~Complete'
  BY DEF Kill, Building, Complete
<1>2. EvidenceTypeOK'
  BY <1>1 DEF Kill, AccountInv, EvidenceTypeOK, account
<1> QED BY <1>1, <1>2 DEF AccountInv

LEMMA StartInv ==
  ASSUME EvidenceTypeOK, Start
  PROVE  AccountInv'
<1>1. /\ builds' = builds + 1 /\ dir' = {} /\ steps' = {} /\ exitCode' = Nothing /\ docs' = docs
      /\ full' \in BOOLEAN /\ todo' = Plan(full') /\ builds < MaxBuilds
      /\ builds \in 0..MaxBuilds /\ MaxBuilds \in Nat /\ docs \subseteq Docs /\ intruded' = FALSE
  BY EvidenceAssumption DEF Start, Emptied, EvidenceTypeOK
<1>f. PICK f \in BOOLEAN : f = full'
  BY <1>1
<1>2. /\ Plan(f) \in Seq({AllSteps(f)[i] : i \in 1..13}) /\ Len(Plan(f)) \in 10..13
      /\ 1 \in 1..Len(Plan(f))
  <2>1. Plan(f) \in Seq({AllSteps(f)[i] : i \in 1..13}) /\ Len(Plan(f)) = IF f THEN 13 ELSE 10
    BY PlanByPlace
  <2>2. Len(Plan(f)) \in 10..13
    BY <2>1
  <2> QED BY <2>1, <2>2
<1>3. Plan(f)[1] # Fallback
  <2>1. PICK k \in 1..13 : Plan(f)[1] = AllSteps(f)[k]
    BY <1>2, PlanByPlace
  <2>2. IsStep(AllSteps(f)[k], f)
    BY EachStep
  <2> QED BY <2>1, <2>2 DEF IsStep
<1>4. SubSeq(Plan(f), 1, Len(Plan(f))) = Plan(f) /\ Plan(f) # <<>> /\ Head(Plan(f)) = Plan(f)[1]
  BY <1>2
<1>5. P' = Plan(f) /\ todo' = Plan(f)
  BY <1>1, <1>f DEF P
<1>6. Building' /\ ~Replacing' /\ At(1)'
  BY <1>2, <1>3, <1>4, <1>5 DEF Building, Replacing, At, From
<1>7. StepsDone(1)' = {} /\ Second(1)' = FALSE
  BY <1>6 DEF StepsDone, Second
<1>8. Past(1)'
  BY <1>1, <1>7 DEF Past, Files, Logged, Told
<1>9. EvidenceTypeOK'
  <2>1. builds' \in 0..MaxBuilds
    BY <1>1
  <2>2. Building' => \E n \in 1..Len(Plan(full')) :
          LET rest == SubSeq(Plan(full'), n, Len(Plan(full'))) IN
          todo' = rest \/ (Plan(full')[n].name = "sbom" /\ todo' = [rest EXCEPT ![1] = Fallback])
    BY <1>2, <1>4, <1>5, <1>f
  <2> QED BY <1>1, <2>1, <2>2 DEF EvidenceTypeOK, Complete
<1> QED BY <1>1, <1>2, <1>5, <1>6, <1>8, <1>9 DEF AccountInv, Complete

\* The account is about these variables alone.
LEMMA AccountStays ==
  ASSUME AccountInv, UNCHANGED <<dir, builds, full, todo, steps, docs, exitCode, intruded>>
  PROVE  AccountInv'
<1>1. UNCHANGED <<dir, builds, full, todo, steps, docs, exitCode, intruded>>
  OBVIOUS
<1>2. EvidenceTypeOK'
  BY <1>1 DEF AccountInv, EvidenceTypeOK, Building, Complete
<1>3. P' = P /\ Building' = Building /\ Replacing' = Replacing /\ Complete' = Complete /\ Required(steps)' = Required(steps)
  BY <1>1 DEF P, Building, Replacing, Complete, Required
<1>4. \A n : At(n)' = At(n) /\ Past(n)' = Past(n)
  <2> TAKE n
  <2>1. StepsDone(n)' = StepsDone(n) /\ Second(n)' = Second(n)
    BY <1>3 DEF StepsDone, Second
  <2>2. At(n)' = At(n)
    BY <1>1, <1>3 DEF At, From, Instead
  <2>3. \A D, second : Files(D, second)' = Files(D, second)
    BY <1>1 DEF Files, Owned, CapIsOfStep, Has
  <2>4. \A D, second : Logged(D, second)' = Logged(D, second)
    BY <1>1 DEF Logged, Entry, Whole
  <2>5. \A D : Told(D)' = Told(D)
    BY <1>1 DEF Told, FailedSteps
  <2> QED BY <2>1, <2>2, <2>3, <2>4, <2>5 DEF Past
<1> QED BY <1>1, <1>2, <1>3, <1>4 DEF AccountInv

(* Evidence: the types, whoever writes to the directory. *)

\* What is left to do is the end of a plan, its SBOM replaced or not.
OnPlan(t, f) ==
  \E n \in 1..Len(Plan(f)) :
    LET rest == SubSeq(Plan(f), n, Len(Plan(f))) IN
    t = rest \/ (Plan(f)[n].name = "sbom" /\ t = [rest EXCEPT ![1] = Fallback])

LEMMA PlanGoesOn ==
  ASSUME full \in BOOLEAN, OnPlan(todo, full)
  PROVE  /\ Head(todo) = Fallback \/ IsStep(Head(todo), full)
         /\ Tail(todo) # <<>> => OnPlan(Tail(todo), full)
         /\ Head(todo).name = "sbom" => OnPlan([todo EXCEPT ![1] = Fallback], full)
<1>1. PICK n \in 1..Len(P) :
        todo = SubSeq(P, n, Len(P)) \/ (P[n].name = "sbom" /\ todo = [SubSeq(P, n, Len(P)) EXCEPT ![1] = Fallback])
  BY DEF OnPlan, P
<1>2. P \in Seq({AllSteps(full)[i] : i \in 1..13}) /\ Len(P) \in Nat /\ n \in Nat
  BY ThePlan
<1>3. /\ Head(SubSeq(P, n, Len(P))) = P[n] /\ Tail(SubSeq(P, n, Len(P))) = SubSeq(P, n + 1, Len(P))
      /\ Head([SubSeq(P, n, Len(P)) EXCEPT ![1] = Fallback]) = Fallback
      /\ Tail([SubSeq(P, n, Len(P)) EXCEPT ![1] = Fallback]) = SubSeq(P, n + 1, Len(P))
  BY <1>2, RestOfSequence
<1>4. Tail(todo) = SubSeq(P, n + 1, Len(P)) /\ (Head(todo) = Fallback \/ (Head(todo) = P[n] /\ todo = SubSeq(P, n, Len(P))))
  BY <1>1, <1>3
<1>5. Head(todo) = Fallback \/ IsStep(Head(todo), full)
  BY <1>4, PlanStep
<1>6. ASSUME Tail(todo) # <<>>
      PROVE  OnPlan(Tail(todo), full)
  <2>1. n < Len(P)
    <3>1. CASE n = Len(P)
      <4>1. SubSeq(P, n + 1, Len(P)) = <<>>
        BY <1>2, <3>1
      <4> QED BY <4>1, <1>4, <1>6
    <3> QED BY <3>1, <1>2
  <2>2. n + 1 \in 1..Len(P)
    BY <1>2, <2>1
  <2> QED BY <1>4, <2>2 DEF OnPlan, P
<1>7. ASSUME Head(todo).name = "sbom"
      PROVE  OnPlan([todo EXCEPT ![1] = Fallback], full)
  <2>1. Head(todo) # Fallback
    BY <1>7 DEF Fallback, Step
  <2> QED BY <1>4, <1>7, <2>1 DEF OnPlan, P
<1> QED BY <1>5, <1>6, <1>7

LEMMA PutOnce ==
  ASSUME \A f, g \in dir : f.name = g.name => f = g, NEW G, \A f, g \in G : f.name = g.name => f = g
  PROVE  \A f, g \in Put(G) : f.name = g.name => f = g
BY DEF Put

LEMMA TypesStep ==
  ASSUME EvidenceTypeOK, EvidenceNext
  PROVE  EvidenceTypeOK'
<1>1. /\ full \in BOOLEAN /\ builds \in 0..MaxBuilds /\ docs \subseteq Docs /\ intruded \in BOOLEAN
      /\ exitCode \in {Nothing, 0, 1} /\ (Complete => ~Building) /\ (Building => OnPlan(todo, full))
      /\ steps \subseteq [name : StepNames, ok : BOOLEAN, optional : BOOLEAN]
      /\ \A f, g \in dir : f.name = g.name => f = g
  BY DEF EvidenceTypeOK, OnPlan
<1>2. ASSUME /\ UNCHANGED <<builds, full, docs>> /\ intruded' \in BOOLEAN /\ exitCode' \in {Nothing, 0, 1}
             /\ Complete' => ~Building'
             /\ Building' => OnPlan(todo', full)
             /\ steps' \subseteq [name : StepNames, ok : BOOLEAN, optional : BOOLEAN]
             /\ \A f, g \in dir' : f.name = g.name => f = g
      PROVE  EvidenceTypeOK'
  BY <1>1, <1>2 DEF EvidenceTypeOK, OnPlan
\* A step of the build that goes on to the next one.
<1>3. ASSUME Building, todo' = Tail(todo), exitCode' = exitCode
      PROVE  (Complete' => ~Building') /\ (Building' => OnPlan(todo', full)) /\ exitCode' \in {Nothing, 0, 1}
  BY <1>1, <1>3, PlanGoesOn DEF Complete, Building
<1>p. ASSUME NEW g
      PROVE  \A f, h \in Put({g}) : f.name = h.name => f = h
  BY <1>1, PutOnce
<1>4. CASE Start
  BY <1>4, StartInv DEF AccountInv
<1>5. CASE Run
  <2>s. PICK s : s = Head(todo)
    OBVIOUS
  <2>1. PICK outcome \in {"passed", "failed", "crashed"} :
          /\ steps' = steps \cup Recorded(s, outcome = "passed")
          /\ dir' = Kept(s, outcome)
          /\ todo' = IF s.name = "sbom" /\ outcome # "passed" THEN [todo EXCEPT ![1] = Fallback] ELSE Tail(todo)
    BY <1>5, <2>s DEF Run
  <2>2. Building /\ UNCHANGED <<builds, full, docs, exitCode, intruded>>
    BY <1>5 DEF Run
  <2>3. s = Fallback \/ IsStep(s, full)
    BY <1>1, <2>s, <2>2, PlanGoesOn
  <2>4. steps' \subseteq [name : StepNames, ok : BOOLEAN, optional : BOOLEAN]
    <3>1. PICK ok \in BOOLEAN : ok = (outcome = "passed")
      OBVIOUS
    <3>2. Recorded(s, ok) \subseteq [name : StepNames, ok : BOOLEAN, optional : BOOLEAN]
      BY <2>3, EntryTyped
    <3>3. steps' = steps \cup Recorded(s, ok)
      BY <2>1, <3>1
    <3> QED BY <1>1, <3>2, <3>3
  <2>5. \A f, g \in dir' : f.name = g.name => f = g
    <3>1. PICK g : g = File(s.file, s.cap, outcome # "passed")
      OBVIOUS
    <3>2. dir' = Put({g}) \/ dir' = dir
      BY <2>1, <3>1 DEF Kept
    <3>3. \A f, h \in Put({g}) : f.name = h.name => f = h
      BY <1>p
    <3>4. \A f, h \in dir : f.name = h.name => f = h
      BY <1>1
    <3> QED BY <3>2, <3>3, <3>4
  <2>6. (Complete' => ~Building') /\ (Building' => OnPlan(todo', full))
    <3>1. CASE s.name = "sbom" /\ outcome # "passed"
      BY <1>1, <2>1, <2>2, <2>s, <3>1, PlanGoesOn DEF Complete
    <3>2. CASE ~(s.name = "sbom" /\ outcome # "passed")
      BY <1>3, <2>1, <2>2, <3>2
    <3> QED BY <3>1, <3>2
  <2> QED BY <1>1, <1>2, <2>2, <2>4, <2>5, <2>6
<1>6. CASE Write
  <2>1. /\ Building /\ todo' = Tail(todo) /\ UNCHANGED <<builds, full, steps, docs, exitCode, intruded>>
        /\ dir' = Put({File(Head(todo).file, Head(todo).cap, FALSE)})
    BY <1>6 DEF Write, account
  <2> QED BY <1>1, <1>2, <1>3, <1>p, <2>1
<1>7. CASE CopyDocs
  <2>1. /\ Building /\ todo' = Tail(todo) /\ UNCHANGED <<builds, full, steps, docs, exitCode, intruded>>
        /\ dir' = Put({Doc(d) : d \in docs})
    BY <1>7 DEF CopyDocs, account
  <2>2. \A f, g \in {Doc(d) : d \in docs} : f.name = g.name => f = g
    <3>1. \A d \in docs : Doc(d).name = d
      BY DEF Doc, File
    <3> QED BY <3>1
  <2>3. \A f, g \in dir' : f.name = g.name => f = g
    BY <1>1, <2>1, <2>2, PutOnce
  <2> QED BY <1>1, <1>2, <1>3, <2>1, <2>3
<1>8. CASE Manifest
  <2>1. /\ Building /\ todo' = Tail(todo) /\ UNCHANGED <<builds, full, steps, docs, exitCode, intruded>>
        /\ \E g : dir' = Put({g})
    BY <1>8 DEF Manifest, account
  <2> QED BY <1>1, <1>2, <1>3, <1>p, <2>1
<1>9. CASE Readme
  <2>1. /\ todo' = <<>> /\ UNCHANGED <<builds, full, steps, docs, intruded>> /\ exitCode' \in {Nothing, 0, 1}
        /\ \E g : dir' = Put({g})
    BY <1>9 DEF Readme, account
  <2> QED BY <1>1, <1>2, <1>p, <2>1 DEF Building
<1>10. CASE Kill
  BY <1>1, <1>2, <1>10 DEF Kill, account, Building
<1>11. CASE LateReport
  <2>1. /\ UNCHANGED <<builds, full, todo, steps, docs, exitCode>> /\ intruded' = TRUE
        /\ \E g : dir' = Put({g})
    BY <1>11 DEF LateReport, account
  <2> QED BY <1>1, <1>2, <1>p, <2>1 DEF Building, Complete
<1>12. CASE Publish
  BY <1>1, <1>2, <1>12 DEF Publish, account, Building, Complete
<1> QED BY <1>4, <1>5, <1>6, <1>7, <1>8, <1>9, <1>10, <1>11, <1>12 DEF EvidenceNext

(* Evidence: what a finished bundle says. *)

\* Everything has been done, and every file is there once.
LEMMA AllDone ==
  ASSUME AccountInv, Complete, NEW D, D = {P[i] : i \in 1..Len(P)}
  PROVE  /\ full \in BOOLEAN /\ docs \subseteq Docs /\ Docs \cap SectionFiles = {}
         /\ Files(D, TRUE) /\ Logged(D, TRUE) /\ Told(D)
         /\ exitCode = IF Required(steps) = {} THEN 0 ELSE 1
         /\ \A s \in D : IsStep(s, full)
         /\ \E s \in D : s.name = "manifest" /\ s.by = "write" /\ s.file = "00-MANIFEST"
         /\ \E s \in D : s.name = "readme" /\ s.by = "write" /\ s.file = "README"
<1>1. full \in BOOLEAN /\ docs \subseteq Docs /\ ~Building /\ Past(Len(P) + 1)
  BY DEF AccountInv, EvidenceTypeOK
<1>2. ~Replacing /\ Len(P) \in 10..13 /\ (Len(P) + 1) - 1 = Len(P)
  BY <1>1, ThePlan DEF Replacing
<1>3. StepsDone(Len(P) + 1) = D
  BY <1>2 DEF StepsDone
<1>4. \A s \in D : IsStep(s, full)
  BY <1>1, PlanStep
<1>5. Second(Len(P) + 1) = TRUE
  <2>2. \E i \in 1..Len(P) : P[i].name = "sbom"
    <3>1. AllSteps(full)[8].name = "sbom"
      BY <1>1 DEF AllSteps, Step
    <3>2. AllSteps(full)[8] \in {P[i] : i \in 1..Len(P)}
      BY <1>1, InThePlan
    <3> QED BY <3>1, <3>2
  <2> QED BY <2>2, <1>2, <1>3 DEF Second
<1>6. P[Len(P) - 1].name = "manifest" /\ P[Len(P)].name = "readme" /\ P[Len(P) - 1] \in D /\ P[Len(P)] \in D
  <2> DEFINE m == Len(P) - 1
             r == Len(P)
  <2>1. m \in 1..Len(P) /\ r \in 1..Len(P) /\ m = Len(P) - 1 /\ r = Len(P)
    BY <1>2
  <2> HIDE DEF m, r
  <2>2. P[m].name = "manifest" /\ P[r].name = "readme"
    BY <1>1, <2>1, PlanStep
  <2> QED BY <2>1, <2>2
<1>7. /\ \E s \in D : s.name = "manifest" /\ s.by = "write" /\ s.file = "00-MANIFEST"
      /\ \E s \in D : s.name = "readme" /\ s.by = "write" /\ s.file = "README"
  BY <1>4, <1>6 DEF IsStep
<1> QED BY <1>1, <1>3, <1>4, <1>5, <1>7, EvidenceAssumption DEF Past, AccountInv

\* Without --full no step writes the report of signature generation.
LEMMA NoFips205 ==
  ASSUME full = FALSE, NEW i \in 1..Len(P)
  PROVE  P[i].file # "02d-conformance-acvp-fips205-siggen"
<1>1. full \in BOOLEAN
  OBVIOUS
<1>2. PICK k \in 1..13 : P[i] = AllSteps(full)[k] /\ k = PlaceOf(full, i)
  BY <1>1, PlanByPlace DEF P
<1>3. i \in Nat
  BY <1>1, ThePlan
<1>4. k # 4
  BY <1>2, <1>3 DEF PlaceOf
<1>5. Thirteen(k)
  BY OneOfThirteen
<1> QED BY <1>2, <1>4, <1>5 DEF Thirteen, AllSteps, Step

\* A file there is but once is the one of its name.
LEMMA OfItsName ==
  ASSUME \A f, g \in dir : f.name = g.name => f = g, NEW f \in dir
  PROVE  Named(f.name) = f
BY DEF Named

\* A section of the bundle is the file of a command of its plan.
LEMMA SectionStep ==
  ASSUME full \in BOOLEAN, NEW D, D = {P[i] : i \in 1..Len(P)},
         NEW name \in Sections
  PROVE  name \in DOMAIN FileOf /\ \E s \in D : s.name = name /\ s.file = FileOf[name] /\ Command(s)
<1>1. PICK k \in 1..13 : AllSteps(full)[k].name = name /\ (full \/ k \notin 3..5)
  <2>1. CASE name = "acvp"
    <3>1. AllSteps(full)[2].name = name
      BY <2>1 DEF AllSteps, Step
    <3> QED BY <3>1, 2 \in 1..13
  <2>2. CASE name = "interop"
    <3>1. AllSteps(full)[6].name = name
      BY <2>2 DEF AllSteps, Step
    <3> QED BY <3>1, 6 \in 1..13
  <2>3. CASE name = "tests"
    <3>1. AllSteps(full)[7].name = name
      BY <2>3 DEF AllSteps, Step
    <3> QED BY <3>1, 7 \in 1..13
  <2>4. CASE name = "cbom"
    <3>1. AllSteps(full)[9].name = name
      BY <2>4 DEF AllSteps, Step
    <3> QED BY <3>1, 9 \in 1..13
  <2>5. CASE name = "npm-audit-signatures"
    <3>1. AllSteps(full)[10].name = name
      BY <2>5 DEF AllSteps, Step
    <3> QED BY <3>1, 10 \in 1..13
  <2>6. CASE name = "acvp-fips205" /\ full
    <3>1. AllSteps(full)[3].name = name
      BY <2>6 DEF AllSteps, Step
    <3> QED BY <2>6, <3>1, 3 \in 1..13
  <2>7. CASE name = "acvp-fips205-siggen" /\ full
    <3>1. AllSteps(full)[4].name = name
      BY <2>7 DEF AllSteps, Step
    <3> QED BY <2>7, <3>1, 4 \in 1..13
  <2> QED BY <2>1, <2>2, <2>3, <2>4, <2>5, <2>6, <2>7 DEF Sections
<1>2. name \in DOMAIN FileOf
  BY DEF FileOf, Sections
<1>3. AllSteps(full)[k] \in D /\ IsStep(AllSteps(full)[k], full)
  BY <1>1, InThePlan, EachStep
<1>4. AllSteps(full)[k].file = FileOf[name] /\ Command(AllSteps(full)[k])
  BY <1>1, <1>2, <1>3 DEF IsStep, FileOf
<1> QED BY <1>1, <1>2, <1>3, <1>4

\* The manifest and README.md of a finished bundle.
LEMMA TheAccounts ==
  ASSUME AccountInv, Complete
  PROVE  /\ TheManifest \in dir /\ TheManifest.name = "00-MANIFEST"
         /\ TheManifest.failed = FailedSteps(steps)
         /\ TheManifest.files = {g \in dir : g.name \notin Accounts}
         /\ Named("README") \in dir /\ Named("README").name = "README"
         /\ Named("README").failed = FailedSteps(steps)
         /\ Named("README").copied = docs /\ Named("README").full = full
<1>D. PICK D : D = {P[i] : i \in 1..Len(P)}
  OBVIOUS
<1>1. Files(D, TRUE) /\ Told(D) /\ (\E s \in D : s.name = "manifest" /\ s.by = "write" /\ s.file = "00-MANIFEST")
      /\ \E s \in D : s.name = "readme" /\ s.by = "write" /\ s.file = "README"
  BY <1>D, AllDone
<1>2. Has("00-MANIFEST") /\ Has("README")
  BY <1>1 DEF Files
<1>3. TheManifest \in dir /\ TheManifest.name = "00-MANIFEST"
  BY <1>2 DEF Has, Named, TheManifest
<1>4. Named("README") \in dir /\ Named("README").name = "README"
  BY <1>2 DEF Has, Named
<1> QED BY <1>1, <1>3, <1>4 DEF Told

\* A section that is not whole is named by the manifest.
LEMMA SectionsRecorded ==
  ASSUME AccountInv, Complete, NEW s \in Sections, ~Whole(FileOf[s])
  PROVE  s \in TheManifest.failed
<1>D. PICK D : D = {P[i] : i \in 1..Len(P)}
  OBVIOUS
<1>1. full \in BOOLEAN /\ Logged(D, TRUE)
  BY <1>D, AllDone
<1>2. PICK t \in D : t.name = s /\ t.file = FileOf[s] /\ Command(t)
  BY <1>D, <1>1, SectionStep
<1>3. Entry(t) \in steps /\ Entry(t).ok = FALSE /\ Entry(t).name = s
  BY <1>1, <1>2 DEF Logged, Entry
<1> QED BY <1>3, TheAccounts DEF FailedSteps

\* Whole, as the properties say it.
LEMMA WholeIs ==
  ASSUME \A f, g \in dir : f.name = g.name => f = g, NEW x
  PROVE  Whole(x) <=> Has(x) /\ ~Named(x).bad
BY OfItsName DEF Whole, Has

\* The exit status is that of the required commands.
LEMMA ExitStatus ==
  ASSUME AccountInv, Complete
  PROVE  exitCode = 0 <=> \A s \in {"acvp", "tests", "cbom"} : Has(FileOf[s]) /\ ~Named(FileOf[s]).bad
<1>D. PICK D : D = {P[i] : i \in 1..Len(P)}
  OBVIOUS
<1>1. /\ full \in BOOLEAN
      /\ Files(D, TRUE) /\ Logged(D, TRUE) /\ \A s \in D : IsStep(s, full)
      /\ exitCode = IF Required(steps) = {} THEN 0 ELSE 1
  BY <1>D, AllDone
<1>2. \A x : Whole(x) <=> Has(x) /\ ~Named(x).bad
  BY <1>1, OfItsName DEF Whole, Has, Files
<1>3. ASSUME NEW s \in {"acvp", "tests", "cbom"}
      PROVE  \E t \in D : t.name = s /\ t.file = FileOf[s] /\ Command(t) /\ ~t.optional
  <2>1. PICK t \in D : t.name = s /\ t.file = FileOf[s] /\ Command(t)
    BY <1>D, <1>1, SectionStep DEF Sections
  <2> QED BY <2>1, <1>1 DEF IsStep
<1>4. ASSUME Required(steps) = {}, NEW s \in {"acvp", "tests", "cbom"}
      PROVE  Whole(FileOf[s])
  <2>1. PICK t \in D : t.name = s /\ t.file = FileOf[s] /\ Command(t) /\ ~t.optional
    BY <1>3
  <2>2. Entry(t) \in steps /\ Entry(t).optional = t.optional /\ Entry(t).ok = Whole(t.file)
    BY <1>1, <2>1 DEF Logged, Entry
  <2> QED BY <1>4, <2>1, <2>2 DEF Required
<1>5. ASSUME \A s \in {"acvp", "tests", "cbom"} : Whole(FileOf[s]), NEW r \in Required(steps)
      PROVE  FALSE
  <2>1. r \in steps /\ ~r.ok /\ ~r.optional
    BY <1>5 DEF Required
  <2>2. PICK t \in D \cup {Fallback} : Command(t) /\ r = Entry(t)
    BY <1>1, <2>1 DEF Logged
  <2>3. ~Whole(t.file) /\ ~t.optional
    BY <2>1, <2>2 DEF Entry
  <2>4. t \in D
    BY <2>2, <2>3 DEF Fallback, Step
  <2>5. t.name \in {"acvp", "tests", "cbom"} /\ t.name \in DOMAIN FileOf
    BY <1>1, <2>2, <2>3, <2>4 DEF IsStep, FileOf
  <2>6. t.file = FileOf[t.name]
    BY <1>1, <2>4, <2>5 DEF IsStep
  <2> QED BY <1>5, <2>3, <2>5, <2>6
<1> QED BY <1>1, <1>2, <1>4, <1>5

\* What is published is whole.
LEMMA PublishInv ==
  ASSUME AccountInv, Publish
  PROVE  PublishedIsWhole'
<1>D. PICK D : D = {P[i] : i \in 1..Len(P)}
  OBVIOUS
<1>1. Complete /\ exitCode = 0 /\ full /\ Demanded /\ published' = dir
  BY DEF Publish
<1>2. full \in BOOLEAN /\ Files(D, TRUE)
  BY <1>1, <1>D, AllDone
<1>3. \A x : Whole(x) <=> Has(x) /\ ~Named(x).bad
  BY <1>2, WholeIs DEF Files
<1>4. /\ FileOf["acvp-fips205"] = "02b-conformance-acvp-fips205"
      /\ FileOf["acvp-fips205-siggen"] = "02d-conformance-acvp-fips205-siggen"
  BY DEF FileOf
<1>5. \A s \in {"acvp", "acvp-fips205", "tests", "cbom"} : Whole(FileOf[s])
  BY <1>1, <1>3, <1>4, ExitStatus DEF Demanded
<1>6. Has(FileOf["acvp-fips205-siggen"]) /\ Has("02c-fips205-siggen-SAMPLED")
  BY <1>1, <1>4 DEF Demanded
<1>7. \A s \in {"acvp-fips205-siggen", "interop", "npm-audit-signatures"} :
        Whole(FileOf[s]) \/ s \in TheManifest.failed
  BY <1>1, SectionsRecorded DEF Sections
<1>8. TheManifest \in dir /\ TheManifest.name = "00-MANIFEST"
  BY <1>1, TheAccounts
<1>9. \A f, g \in dir : f.build = g.build
  BY <1>2 DEF Files
<1>10. \A s : PublicWhole(s)' <=> Whole(FileOf[s])
  BY <1>1 DEF PublicWhole, Whole
<1>11. \A x : Public(x)' <=> Has(x)
  BY <1>1 DEF Public, Has
<1> QED BY <1>1, <1>5, <1>6, <1>7, <1>8, <1>9, <1>10, <1>11 DEF PublishedIsWhole

(* Evidence: the theorems. *)

\* The types hold whoever writes to the directory; the rest of the account holds
\* unless a command of a killed build has; and a bundle is published only whole.
THEOREM EvidenceInductive == EvidenceSpec => []EvidenceIInv
<1>1. EvidenceInit => EvidenceIInv
  <2> SUFFICES ASSUME EvidenceInit PROVE EvidenceIInv
    OBVIOUS
  <2>1. ~Building /\ ~Complete /\ published = {}
    BY DEF EvidenceInit, Building, Complete
  <2>2. EvidenceTypeOK
    <3>1. builds \in 0..MaxBuilds
      BY EvidenceAssumption DEF EvidenceInit
    <3>2. full \in BOOLEAN /\ docs \subseteq Docs /\ steps = {} /\ dir = {} /\ exitCode = Nothing /\ intruded = FALSE
      BY DEF EvidenceInit
    <3> QED BY <2>1, <3>1, <3>2 DEF EvidenceTypeOK
  <2> QED BY <2>1, <2>2 DEF EvidenceIInv, AccountInv, PublishedIsWhole
<1>2. EvidenceIInv /\ [EvidenceNext]_evidenceVars => EvidenceIInv'
  <2> SUFFICES ASSUME EvidenceIInv, [EvidenceNext]_evidenceVars PROVE EvidenceIInv'
    OBVIOUS
  <2>i. EvidenceTypeOK /\ (~intruded => AccountInv) /\ PublishedIsWhole
    BY DEF EvidenceIInv
  <2>p. UNCHANGED published => PublishedIsWhole'
    BY <2>i DEF PublishedIsWhole, Public, PublicWhole
  <2>e. EvidenceNext => EvidenceTypeOK'
    BY <2>i, TypesStep
  <2>1. CASE Start
    <3>1. published' = published /\ AccountInv'
      BY <2>1, <2>i, StartInv DEF Start
    <3> QED BY <3>1, <2>p DEF EvidenceIInv, AccountInv
  <2>2. CASE Run \/ Write \/ CopyDocs \/ Manifest \/ Readme \/ Kill
    <3>1. UNCHANGED <<intruded, published>>
      BY <2>2 DEF Run, Write, CopyDocs, Manifest, Readme, Kill
    <3>2. AccountInv => AccountInv'
      BY <2>2, RunInv, WriteInv, CopyDocsInv, ManifestInv, ReadmeInv, KillInv
    <3> QED BY <2>2, <3>1, <3>2, <2>e, <2>i, <2>p DEF EvidenceIInv, EvidenceNext
  <2>3. CASE LateReport
    <3>1. intruded' = TRUE /\ published' = published
      BY <2>3 DEF LateReport
    <3> QED BY <2>3, <3>1, <2>e, <2>p DEF EvidenceIInv, EvidenceNext
  <2>4. CASE Publish
    <3>1. ~intruded /\ UNCHANGED <<dir, builds, full, todo, steps, docs, exitCode, intruded>>
      BY <2>4 DEF Publish, account
    <3>2. AccountInv' /\ PublishedIsWhole'
      BY <2>4, <2>i, <3>1, AccountStays, PublishInv
    <3> QED BY <3>2 DEF EvidenceIInv, AccountInv
  <2>5. CASE UNCHANGED evidenceVars
    <3>1. UNCHANGED <<dir, builds, full, todo, steps, docs, exitCode, intruded, published>>
      BY <2>5 DEF evidenceVars, account
    <3>2. EvidenceTypeOK'
      BY <2>i, <3>1 DEF EvidenceTypeOK, Building, Complete
    <3>3. ~intruded' => AccountInv'
      BY <2>i, <3>1, AccountStays
    <3> QED BY <3>1, <3>2, <3>3, <2>p DEF EvidenceIInv
  <2> QED BY <2>1, <2>2, <2>3, <2>4, <2>5 DEF EvidenceNext
<1> QED BY <1>1, <1>2, PTL DEF EvidenceSpec

\* A finished bundle that no command of a killed build has written into is an
\* account of one build (rmSync, manifest and README.md of build-evidence.mjs).
THEOREM BundleIsOneBuild == EvidenceSpec => []BundleInv
<1>1. EvidenceIInv => BundleInv
  <2> SUFFICES ASSUME EvidenceIInv PROVE BundleInv
    OBVIOUS
  <2>1. EvidenceTypeOK /\ (Finished => AccountInv /\ Complete)
    BY DEF EvidenceIInv, Finished
  <2>D. PICK D : D = {P[i] : i \in 1..Len(P)}
    OBVIOUS
  <2>2. BundleIsOfOneBuild
    BY <2>1, <2>D, AllDone DEF BundleIsOfOneBuild, Files
  <2>3. ManifestCoversTheBundle
    BY <2>1, TheAccounts DEF ManifestCoversTheBundle
  <2>4. ExitIsOfTheRequired
    BY <2>1, ExitStatus DEF ExitIsOfTheRequired
  <2>5. CapsAreNoted
    <3> SUFFICES ASSUME AccountInv, Complete, NEW f \in dir, f.name \notin Accounts, f.cap # NoCap
                 PROVE  \/ f.name = "02-conformance-acvp" /\ ~Named("README").full
                        \/ f.name = "02d-conformance-acvp-fips205-siggen" /\ Has("02c-fips205-siggen-SAMPLED")
      BY <2>1 DEF CapsAreNoted
    <3>1. Files(D, TRUE) /\ full \in BOOLEAN /\ Named("README").full = full
      BY <2>1, <2>D, AllDone, TheAccounts
    <3>2. CapIsOfStep(f)
      BY <3>1 DEF Files
    <3>3. CASE ~full
      <4>1. ASSUME f.name = "02d-conformance-acvp-fips205-siggen"
            PROVE  FALSE
        <5>1. f.name \in SectionFiles /\ f.name # Fallback.file
          BY <4>1 DEF SectionFiles, AllSteps, Fallback, Step
        <5>2. Owned(f, D, TRUE) /\ Docs \cap SectionFiles = {} /\ docs \subseteq Docs
          BY <2>1, <2>D, <3>1, AllDone DEF Files
        <5>3. PICK i \in 1..Len(P) : P[i].file = f.name
          BY <2>D, <5>1, <5>2 DEF Owned
        <5> QED BY <3>1, <3>3, <4>1, <5>3, NoFips205
      <4> QED BY <3>1, <3>2, <3>3, <4>1 DEF CapIsOfStep
    <3>4. CASE full
      <4>1. f.name = "02d-conformance-acvp-fips205-siggen"
        BY <3>2, <3>4 DEF CapIsOfStep
      <4>2. AllSteps(full)[5].file = "02c-fips205-siggen-SAMPLED" /\ AllSteps(full)[5].by = "write"
        BY DEF AllSteps, Step
      <4>3. AllSteps(full)[5] \in D
        BY <2>D, <3>1, <3>4, InThePlan, 5 \in 1..13
      <4> QED BY <3>1, <4>1, <4>2, <4>3 DEF Files
    <3> QED BY <3>1, <3>3, <3>4
  <2> QED BY <2>1, <2>2, <2>3, <2>4, <2>5 DEF BundleInv
<1> QED BY <1>1, EvidenceInductive, PTL

\* What is missing from a finished bundle is named in both its accounts.
THEOREM MissingSectionsAreRecorded == EvidenceSpec => []MissingIsRecorded
<1>1. EvidenceIInv => MissingIsRecorded
  <2> SUFFICES ASSUME AccountInv, Complete
               PROVE  /\ \A s \in Sections : ~Has(FileOf[s]) \/ Named(FileOf[s]).bad => s \in TheManifest.failed
                      /\ Has("05-sbom.cyclonedx") \/ Has("05-dependencies") \/
                           {"sbom", "dependency-tree"} \subseteq TheManifest.failed
                      /\ TheManifest.failed = Named("README").failed
                      /\ {d \in Docs : Has(d)} = Named("README").copied
    BY DEF MissingIsRecorded, EvidenceIInv, Finished
  <2>D. PICK D : D = {P[i] : i \in 1..Len(P)}
    OBVIOUS
  <2>1. /\ full \in BOOLEAN /\ docs \subseteq Docs /\ Docs \cap SectionFiles = {}
        /\ Files(D, TRUE) /\ Logged(D, TRUE) /\ \A s \in D : IsStep(s, full)
    BY <2>D, AllDone
  <2>2. \A s : Command(s) /\ s \in D /\ ~Whole(s.file) => s.name \in FailedSteps(steps)
    <3> SUFFICES ASSUME NEW s \in D, Command(s), ~Whole(s.file)
                 PROVE  s.name \in FailedSteps(steps)
      OBVIOUS
    <3>1. Entry(s) \in steps
      BY <2>1 DEF Logged
    <3>2. Entry(s).ok = FALSE /\ Entry(s).name = s.name
      BY DEF Entry
    <3> QED BY <3>1, <3>2 DEF FailedSteps
  <2>3. ASSUME NEW s \in Sections, ~Has(FileOf[s]) \/ Named(FileOf[s]).bad
        PROVE  s \in TheManifest.failed
    <3>1. ~Whole(FileOf[s])
      BY <2>1, <2>3, WholeIs DEF Files
    <3> QED BY <3>1, SectionsRecorded
  <2>4. ASSUME ~Has("05-sbom.cyclonedx"), ~Has("05-dependencies")
        PROVE  {"sbom", "dependency-tree"} \subseteq TheManifest.failed
    <3>1. AllSteps(full)[8].name = "sbom" /\ AllSteps(full)[8] \in D
      <4>1. AllSteps(full)[8].name = "sbom"
        BY DEF AllSteps, Step
      <4> QED BY <4>1, <2>D, <2>1, InThePlan, 8 \in 1..13, 8 \notin 3..5
    <3>2. PICK t \in D : t.name = "sbom" /\ t.file = "05-sbom.cyclonedx" /\ Command(t)
      BY <3>1, <2>1 DEF IsStep
    <3>3. ~Whole(t.file) /\ ~Whole(Fallback.file)
      BY <2>4, <3>2 DEF Whole, Has, Fallback, Step
    <3>4. "sbom" \in FailedSteps(steps)
      BY <2>2, <3>2, <3>3
    <3>5. Entry(Fallback) \in steps
      BY <2>1, <3>2, <3>3 DEF Logged
    <3>6. Entry(Fallback).ok = FALSE /\ Entry(Fallback).name = "dependency-tree"
      BY <3>3 DEF Entry, Fallback, Step
    <3>7. "dependency-tree" \in FailedSteps(steps)
      BY <3>5, <3>6 DEF FailedSteps
    <3> QED BY <3>4, <3>7, TheAccounts
  <2>5. {d \in Docs : Has(d)} = docs
    <3>1. ASSUME NEW d \in docs
          PROVE  Has(d)
      <4>1. AllSteps(full)[11].by = "copy" /\ AllSteps(full)[11] \in D
        <5>1. AllSteps(full)[11].by = "copy"
          BY DEF AllSteps, Step
        <5> QED BY <5>1, <2>D, <2>1, InThePlan, 11 \in 1..13, 11 \notin 3..5
      <4> QED BY <4>1, <2>1 DEF Files
    <3>2. ASSUME NEW d \in Docs, Has(d)
          PROVE  d \in docs
      <4>1. PICK f \in dir : f.name = d
        BY <3>2 DEF Has
      <4>2. Owned(f, D, TRUE)
        BY <2>1 DEF Files
      <4>3. Fallback.file \in SectionFiles
        BY DEF SectionFiles
      <4> QED BY <2>1, <4>1, <4>2, <4>3 DEF Owned, IsStep
    <3> QED BY <2>1, <3>1, <3>2
  <2> QED BY <2>3, <2>4, <2>5, TheAccounts
<1> QED BY <1>1, EvidenceInductive, PTL

\* What the release workflow attaches to a release is one build's, lacks none of
\* the sections its assertions and the exit status ask for, and names in its
\* manifest what else failed.
THEOREM ReleasesAreWhole == EvidenceSpec => []PublishedIsWhole
<1>1. EvidenceIInv => PublishedIsWhole
  BY DEF EvidenceIInv
<1> QED BY <1>1, EvidenceInductive, PTL

--------------------------------------------------------------------------------
(* The graders: what one test shows of the implementation. *)

Behaves == {"right", "wrong", "accepts", "throws"}
Wants == {"value", "accept", "reject", "none"}
Grades == {"pass", "fail", "skip", "dies"}

\* The run of one group with one option or another.
LEMMA GroupIs ==
  ASSUME NEW g \in Group
  PROVE  /\ g.mu \in {"absent", "false", "true"} /\ g.iface \in {"internal", "external"} /\ g.pre \in {"pure", "preHash"}
         /\ g.family \in {"ML-KEM", "ML-DSA", "SLH-DSA"} /\ g.fn \in Services /\ g.tests \in Seq(Test)
         /\ g.mu # "absent" => g.family = "ML-DSA"
         /\ g.mu = "true" => g.iface = "internal"
         /\ g.fn \notin {"sigGen", "sigVer", "unknown"} => g.iface = "external" /\ g.pre = "pure" /\ g.mu = "absent"
         /\ g.fn \in {"sigGen", "sigVer"} =>
              g.family # "ML-KEM" /\ g.ps \in Bits128 \cup Bits192 \cup Bits256 \cup {"unknown"}
BY DEF Group

LEMMA TestIs ==
  ASSUME NEW t \in Test
  PROVE  t.want \in Wants
BY DEF Test, Wants

\* run-acvp.mjs asks in the right way: with the options that the group has.
LEMMA RunnerAsksRightly ==
  ASSUME NEW g \in Group, NEW w
  PROVE  Returns(g, w, RunnerOpts(g)) = Returns(g, w, IF g.mu = "true" THEN {"externalMu"} ELSE {})
<1>1. CASE g.mu = "true"
  BY <1>1, GroupIs DEF RunnerOpts
<1>2. CASE g.mu # "true" /\ RunnerOpts(g) = {}
  BY <1>2
<1>3. CASE g.mu = "false" /\ g.family = "ML-DSA"
  BY <1>3 DEF Returns, RunnerOpts
<1> QED BY <1>1, <1>2, <1>3, GroupIs DEF RunnerOpts

\* A test passes if the implementation conforms on it, and otherwise it is
\* skipped, fails or ends the run.
LEMMA RunnerGradeIs ==
  ASSUME NEW g \in Group, NEW t \in Test
  PROVE  /\ RunnerGrade(g, t) \in Grades
         /\ RunnerGrade(g, t) = "pass" => Conforms(g, t)
         /\ RunnerGrade(g, t) \in {"fail", "dies"} => ~Conforms(g, t)
<1> DEFINE r == Returns(g, t.want, RunnerOpts(g))
<1>1. Conforms(g, t) <=> t.want # "none" /\ (IF Output(g) THEN r ELSE Verdict(r)) = t.want
  BY RunnerAsksRightly DEF Conforms
<1>2. t.want \in Wants
  BY TestIs
<1>3. RunnerGrade(g, t) =
        IF g.ps = "unknown" \/ g.fn = "unknown" \/ Unsupported(g, t) THEN "skip"
        ELSE IF (g.fn = "keyGen" /\ (r = "throws" \/ t.want = "none")) \/ (g.fn = "sigVer" /\ t.want = "none") THEN "dies"
        ELSE IF t.want = "none" THEN "fail"
        ELSE IF (IF Output(g) THEN r ELSE Verdict(r)) = t.want THEN "pass" ELSE "fail"
  BY DEF RunnerGrade
<1> HIDE DEF r
<1>4. g.fn = "keyGen" => Output(g)
  BY DEF Output
<1> QED BY <1>1, <1>2, <1>3, <1>4 DEF Grades, Wants

\* A hash is as strong as half its digest.
LEMMA HashesAre ==
  ASSUME NEW h \in Hashes
  PROVE  HashStrength[h] \in Nat /\ OutputBits(h) \div 2 = HashStrength[h]
<1>1. CASE h \in {"SHA2-224", "SHA2-512/224", "SHA3-224"}
  BY <1>1 DEF HashStrength, OutputBits
<1>2. CASE h \in {"SHA2-256", "SHA2-512/256", "SHA3-256", "SHAKE-128"}
  BY <1>2 DEF HashStrength, OutputBits
<1>3. CASE h \in {"SHA2-384", "SHA3-384"}
  BY <1>3 DEF HashStrength, OutputBits
<1>4. CASE h \in {"SHA2-512", "SHA3-512", "SHAKE-256"}
  BY <1>4 DEF HashStrength, OutputBits
<1> QED BY <1>1, <1>2, <1>3, <1>4 DEF Hashes

LEMMA StrengthIs ==
  ASSUME NEW ps \in Bits128 \cup Bits192 \cup Bits256
  PROVE  Strength(ps) \in Nat
<1>1. CASE ps \in Bits128
  BY <1>1 DEF Strength, Bits128, Bits192, Bits256
<1>2. CASE ps \in Bits192
  BY <1>2 DEF Strength, Bits128, Bits192, Bits256
<1>3. CASE ps \in Bits256
  BY <1>3 DEF Strength, Bits128, Bits192, Bits256
<1> QED BY <1>1, <1>2, <1>3

\* Every hash that is registered is one that the backend takes.
LEMMA RegisteredIsSupported ==
  ASSUME NEW g \in Group, Registered(g), NEW t \in Range(g.tests)
  PROVE  ~Unsupported(g, t)
<1> SUFFICES ASSUME g.pre = "preHash", g.iface = "external"
             PROVE  Known(t.hash) /\ ~PrehashRefused(g, t.hash)
  BY DEF Unsupported
<1>1. t.hash \in Hashes /\ HashStrength[t.hash] >= Strength(g.ps)
  BY DEF Registered, HashesFor
<1>2. g.ps \in Bits128 \cup Bits192 \cup Bits256
  BY GroupIs DEF Registered
<1>3. Strength(g.ps) \in Nat /\ HashStrength[t.hash] \in Nat /\ OutputBits(t.hash) \div 2 = HashStrength[t.hash]
  BY <1>1, <1>2, HashesAre, StrengthIs
<1> QED BY <1>1, <1>3 DEF Known, PrehashRefused

\* What a right implementation says.
LEMMA RightSays ==
  ASSUME NEW g \in Group, NEW w \in Wants, w # "none", impl[Surface(g)] = "right", NEW opts,
         opts = {} \/ g.family = "ML-DSA", opts # {} \/ g.mu # "true"
  PROVE  Returns(g, w, opts) = IF w = "reject" /\ g.fn = "keyCheck" THEN "throws" ELSE w
BY DEF Returns

\* responders.mjs asks as the runner does, but for SLH-DSA's internal interface.
LEMMA ResponderAsksAlike ==
  ASSUME NEW g \in Group, impl[Surface(g)] \in Behaves, ~SlhInternal(g), g.fn # "unknown", NEW w
  PROVE  /\ Returns(g, w, ResponderOpts(g)) = Returns(g, w, RunnerOpts(g))
         /\ ResponderOpts(g) = {} \/ g.family = "ML-DSA"
         /\ ResponderOpts(g) # {} \/ g.mu # "true"
<1>1. g.iface = "internal" => g.family = "ML-DSA"
  BY GroupIs DEF SlhInternal
<1>2. CASE g.iface = "external"
  BY <1>2, GroupIs DEF ResponderOpts, RunnerOpts
<1>3. CASE g.iface = "internal" /\ g.mu # "absent"
  BY <1>1, <1>3 DEF ResponderOpts, RunnerOpts
<1>4. CASE g.iface = "internal" /\ g.mu = "absent"
  <2>1. ResponderOpts(g) = {"externalMu"} /\ RunnerOpts(g) = {} /\ g.family = "ML-DSA" /\ g.mu # "true"
    BY <1>1, <1>4 DEF ResponderOpts, RunnerOpts
  <2>2. PICK opts : opts = {"externalMu"}
    OBVIOUS
  <2>3. PICK b \in Behaves : b = impl[Surface(g)]
    OBVIOUS
  <2>4. opts # {}
    BY <2>2
  <2>5. Returns(g, w, opts) = Returns(g, w, {})
    BY <2>1, <2>3, <2>4 DEF Returns, Behaves
  <2> QED BY <2>1, <2>2, <2>5
<1> QED BY <1>2, <1>3, <1>4, GroupIs

\* A call throws for every output asked of a surface, or for none.
LEMMA ThrowsForAll ==
  ASSUME NEW g, impl[Surface(g)] \in Behaves, NEW opts, Output(g), NEW v \in Wants, NEW w \in Wants, Returns(g, v, opts) = "throws"
  PROVE  Returns(g, w, opts) = "throws"
BY DEF Returns, Output, Wants, Behaves

\* Where the runner skips nothing of a group, the self-test passes what it passes.
LEMMA FollowsTheRunner ==
  ASSUME program = "selftest", NEW g \in Group, impl[Surface(g)] \in Behaves, ~SlhInternal(g),
         \A u \in Range(g.tests) : RunnerGrade(g, u) # "skip",
         NEW t \in Range(g.tests)
  PROVE  SelftestGrade(g, t) = "pass" <=> RunnerGrade(g, t) = "pass"
<1> DEFINE Reply(w) == Returns(g, w, RunnerOpts(g))
           Said(u) == IF Output(g) THEN Reply(u.want) ELSE Verdict(Reply(u.want))
<1>1. g.ps # "unknown" /\ g.fn # "unknown" /\ \A u \in Range(g.tests) : ~Unsupported(g, u)
  BY DEF RunnerGrade
<1>2. \A u \in Range(g.tests) : Answer(g, u) = Said(u)
  BY <1>1, ResponderAsksAlike DEF Answer
<1>3. \A u \in Range(g.tests) : u.want \in Wants
  <2>1. \A i \in DOMAIN g.tests : g.tests[i] \in Test
    BY GroupIs
  <2> QED BY <2>1, TestIs DEF Range
<1>4. RunnerGrade(g, t) = "pass" <=> t.want # "none" /\ Said(t) = t.want
  <2>1. RunnerGrade(g, t) = "pass" => t.want # "none" /\ Said(t) = t.want
    BY <1>1 DEF RunnerGrade
  <2>2. t.want # "none" /\ Said(t) = t.want => RunnerGrade(g, t) = "pass"
    <3>1. g.fn = "keyGen" /\ Reply(t.want) = "throws" /\ t.want \in Wants => Said(t) # t.want
      BY DEF Output, Wants
    <3> QED BY <1>1, <1>3, <3>1 DEF RunnerGrade
  <2> QED BY <2>1, <2>2
<1>5. (\E u \in Range(g.tests) : Said(u) = "throws") => Said(t) = "throws"
  <2>1. \A u \in Range(g.tests) : Said(u) = "throws" => Output(g) /\ Reply(u.want) = "throws"
    BY DEF Verdict
  <2> QED BY <1>3, <2>1, ThrowsForAll
<1> HIDE DEF Reply, Said
<1>6. SelftestGrade(g, t) = IF \E u \in Range(g.tests) : Said(u) = "throws" THEN "skip"
                           ELSE IF t.want # "none" /\ Said(t) = t.want THEN "pass" ELSE "fail"
  BY <1>2 DEF SelftestGrade
<1>7. t.want # "throws"
  BY <1>3 DEF Wants
<1> QED BY <1>4, <1>5, <1>6, <1>7

\* A right implementation answers every test that the registration allows.
LEMMA RegisteredPasses ==
  ASSUME program = "selftest", NEW g \in Group, ~SlhInternal(g), Registered(g), impl[Surface(g)] = "right",
         NEW t \in Range(g.tests)
  PROVE  SelftestGrade(g, t) = "pass"
<1>1. \A u \in Range(g.tests) : u.want \in Wants /\ u.want # "none"
  <2>1. \A i \in DOMAIN g.tests : g.tests[i] \in Test
    BY GroupIs
  <2> QED BY <2>1, TestIs DEF Range, Registered
<1>2. g.ps # "unknown" /\ g.fn # "unknown"
  BY DEF Registered
<1>3. ASSUME NEW u \in Range(g.tests)
      PROVE  Answer(g, u) = u.want
  <2>1. Returns(g, u.want, ResponderOpts(g)) = IF u.want = "reject" /\ g.fn = "keyCheck" THEN "throws" ELSE u.want
    BY <1>1, <1>2, ResponderAsksAlike, RightSays DEF Behaves
  <2>2. ~Unsupported(g, u)
    BY RegisteredIsSupported
  <2> QED BY <1>1, <1>2, <2>1, <2>2 DEF Answer, Output, Verdict, Wants
<1>4. SelftestGrade(g, t) = IF \E u \in Range(g.tests) : Answer(g, u) = "throws" THEN "skip"
                           ELSE IF t.want # "none" /\ Answer(g, t) = t.want THEN "pass" ELSE "fail"
  BY DEF SelftestGrade
<1> QED BY <1>1, <1>3, <1>4 DEF Wants

\* What OpenSSL is asked, it is asked rightly.
LEMMA NativeIsRight ==
  ASSUME program = "native", NEW g \in Group, impl[Surface(g)] = "right", NEW t \in Range(g.tests),
         SelftestGrade(g, t) = "fail"
  PROVE  t.want = "none"
<1> SUFFICES ASSUME t.want # "none"
             PROVE  FALSE
  OBVIOUS
<1>1. t.want \in Wants
  <2>1. \A i \in DOMAIN g.tests : g.tests[i] \in Test
    BY GroupIs
  <2> QED BY <2>1, TestIs DEF Range
<1>2. SelftestGrade(g, t) = IF \E u \in Range(g.tests) : NativeAnswer(g, u) = "throws" THEN "skip"
                           ELSE IF t.want # "none" /\ NativeAnswer(g, t) = t.want THEN "pass" ELSE "fail"
  BY DEF SelftestGrade
<1>3. NativeAnswer(g, t) # "throws" /\ NativeAnswer(g, t) # t.want
  BY <1>2
<1>4. g.fn \in {"decapsulation", "keyCheck", "sigVer"} /\ (g.fn = "sigVer" => ~Gate(g))
  BY <1>3, GroupIs DEF NativeAnswer, Services
<1>5. g.iface # "internal" /\ g.mu # "true" /\ g.pre # "preHash"
  BY <1>4, GroupIs DEF Gate
<1>6. NodeReturns(g, t.want) = IF t.want = "reject" /\ g.fn = "keyCheck" THEN "throws" ELSE t.want
  BY <1>1, <1>5, RightSays DEF NodeReturns
<1>7. NativeAnswer(g, t) = t.want
  BY <1>1, <1>3, <1>6 DEF NativeAnswer, Output, Verdict, Wants
<1> QED BY <1>3, <1>7

(* The vectors: a cache that is filled in git's order. *)

Last == 2 * Len(Sets)
Begun(n) == {Vectors!Order[i] : i \in 1..n}

LEMMA OrderIs ==
  /\ Last \in Nat /\ Last >= 2 /\ Len(Vectors!Order) = Last /\ Vectors!Files = Begun(Last)
  /\ \A i, j \in 1..Last : Vectors!Order[i] = Vectors!Order[j] => i = j
  /\ Vectors!Order[Last] = <<Sets[Len(Sets)], "prompt">>
<1>1. Len(Sets) \in Nat /\ Len(Sets) >= 1 /\ Last = 2 * Len(Sets)
  BY ConformanceAssumption DEF Last
<1>2. /\ DOMAIN Vectors!Order = 1..Last /\ Len(Vectors!Order) = Last
      /\ \A i \in 1..Last : Vectors!Order[i] = <<Sets[(i + 1) \div 2], Vectors!Parts[2 - (i % 2)]>>
  BY <1>1 DEF Vectors!Order
<1>3. \A i \in 1..Last : (i % 2 = 1 /\ Vectors!Parts[2 - (i % 2)] = "expectedResults") \/ (i % 2 = 0 /\ Vectors!Parts[2 - (i % 2)] = "prompt")
  BY <1>1 DEF Vectors!Parts
<1>4. \A i \in 1..Last : (i + 1) \div 2 \in 1..Len(Sets)
  BY <1>1
<1>5. ASSUME NEW i \in 1..Last, NEW j \in 1..Last, Vectors!Order[i] = Vectors!Order[j]
      PROVE  i = j
  <2>1. Sets[(i + 1) \div 2] = Sets[(j + 1) \div 2] /\ Vectors!Parts[2 - (i % 2)] = Vectors!Parts[2 - (j % 2)]
    BY <1>2, <1>5
  <2>2. (i + 1) \div 2 = (j + 1) \div 2
    BY <1>4, <2>1, ConformanceAssumption
  <2>3. i % 2 = j % 2
    BY <1>3, <2>1
  <2> QED BY <1>1, <2>2, <2>3
<1>6. Vectors!Order[Last] = <<Sets[Len(Sets)], "prompt">>
  <2>1. Last \in 1..Last /\ (Last + 1) \div 2 = Len(Sets) /\ Last % 2 = 0
    <3>1. PICK n \in Nat : n = Len(Sets) /\ n >= 1 /\ Last = 2 * n
      BY <1>1
    <3>2. (2 * n + 1) \div 2 = n
      OBVIOUS
    <3>3. (2 * n) % 2 = 0
      OBVIOUS
    <3>4. 2 * n \in 1..(2 * n)
      BY <3>1
    <3> QED BY <3>1, <3>2, <3>3, <3>4
  <2>2. Vectors!Parts[2 - (Last % 2)] = "prompt"
    <3>1. 2 - (Last % 2) = 2
      BY <2>1
    <3> QED BY <3>1 DEF Vectors!Parts
  <2>3. Vectors!Order[Last] = <<Sets[(Last + 1) \div 2], Vectors!Parts[2 - (Last % 2)]>>
    BY <1>2, <2>1
  <2> QED BY <2>1, <2>2, <2>3, Zenon
<1>7. Vectors!Files = Begun(Last)
  BY <1>2 DEF Vectors!Files, Begun
<1>8. \A i, j \in 1..Last : Vectors!Order[i] = Vectors!Order[j] => i = j
  BY <1>5
<1>9. Len(Vectors!Order) = Last
  BY <1>2
<1>10. Last \in Nat /\ Last >= 2
  BY <1>1
<1> HIDE DEF Last
<1> QED BY <1>6, <1>7, <1>8, <1>9, <1>10

LEMMA BegunNext ==
  ASSUME NEW n \in 0..(Last - 1)
  PROVE  Begun(n + 1) = Begun(n) \cup {Vectors!Order[n + 1]} /\ Vectors!Order[n + 1] \notin Begun(n)
<1>1. n \in Nat /\ 1..(n + 1) = 1..n \cup {n + 1} /\ n + 1 \in 1..Last /\ \A i \in 1..n : i \in 1..Last /\ i # n + 1
  BY OrderIs
<1> QED BY <1>1, OrderIs DEF Begun

IsMap(f) == f = [x \in DOMAIN f |-> f[x]]

VectorsInv ==
  /\ lock.commit \in {1, 2} /\ DOMAIN lock.digests \subseteq Vectors!Files
  /\ lock = [commit |-> lock.commit, digests |-> lock.digests]
  /\ IsMap(files)
  /\ \E n \in 0..Last : DOMAIN files = Begun(n)
  /\ pc \in {"idle", "fetching", "checkout", "verify"} /\ (pc # "idle" => git /\ ~pinned)
  /\ pc = "fetching" => files = <<>>
  /\ pc = "checkout" => DOMAIN files # Vectors!Files
  /\ git \in BOOLEAN /\ writeLock \in BOOLEAN /\ pinned \in BOOLEAN /\ touches \in 0..MaxTouches
  /\ pinned => DOMAIN files = Vectors!Files /\ \A f \in DOMAIN lock.digests : files[f] = lock.digests[f]

\* Another file of the tree, or another content of one that is there.
LEMMA PutMap ==
  ASSUME NEW f, NEW c
  PROVE  IsMap(Vectors!Put(f, c)) /\ DOMAIN Vectors!Put(f, c) = DOMAIN files \cup {f}
BY DEF IsMap, Vectors!Put

\* The file that git writes next belongs to the order.
LEMMA PutNext ==
  ASSUME VectorsInv, pc = "checkout", NEW c
  PROVE  /\ \E n \in 0..Last : DOMAIN Vectors!Put(Vectors!NextFile, c) = Begun(n)
         /\ IsMap(Vectors!Put(Vectors!NextFile, c))
<1>1. PICK n \in 0..Last : DOMAIN files = Begun(n)
  BY DEF VectorsInv
<1>2. n # Last
  BY <1>1, OrderIs DEF VectorsInv
<1>3. n \in 0..(Last - 1) /\ n + 1 \in 0..Last
  BY <1>2, OrderIs
<1>4. Vectors!NextFile = Vectors!Order[n + 1]
  <2> DEFINE First(i) == Vectors!Order[i] \notin DOMAIN files /\ \A j \in 1..(i - 1) : Vectors!Order[j] \in DOMAIN files
  <2>1. DOMAIN Vectors!Order = 1..Last
    BY OrderIs
  <2>2. n + 1 \in 1..Last /\ First(n + 1)
    <3>1. \A j \in 1..(n + 1 - 1) : j \in 1..n
      BY <1>3
    <3> QED BY <1>1, <1>3, <3>1, BegunNext, OrderIs DEF Begun
  <2>3. ASSUME NEW i \in 1..Last, First(i)
        PROVE  i = n + 1
    <3>1. CASE i < n + 1
      <4>1. i \in 1..n
        BY <1>3, <3>1
      <4> QED BY <1>1, <2>3, <4>1 DEF Begun
    <3>2. CASE i > n + 1
      <4>1. n + 1 \in 1..(i - 1)
        BY <1>3, <3>2
      <4> QED BY <2>2, <2>3, <4>1
    <3> QED BY <1>3, <3>1, <3>2
  <2> HIDE DEF First
  <2>4. (CHOOSE i \in 1..Last : First(i)) = n + 1
    BY <2>2, <2>3
  <2> QED BY <2>1, <2>4 DEF Vectors!NextFile, First
<1>5. DOMAIN Vectors!Put(Vectors!NextFile, c) = Begun(n + 1)
  BY <1>1, <1>3, <1>4, BegunNext, PutMap
<1> QED BY <1>3, <1>5, PutMap

LEMMA VectorsInitInv == Vectors!Init => VectorsInv
<1> SUFFICES ASSUME Vectors!Init
             PROVE  VectorsInv
  OBVIOUS
<1>1. lock = [commit |-> 1, digests |-> Vectors!Tree(1)] /\ git = FALSE /\ files = <<>> /\ pc = "idle" /\ writeLock = FALSE
      /\ pinned = FALSE /\ touches = 0
  BY DEF Vectors!Init
<1>0. lock.commit = 1 /\ lock.digests = Vectors!Tree(1)
  BY <1>1
<1>2. DOMAIN files = Begun(0) /\ 0 \in 0..Last /\ IsMap(files)
  <2>1. DOMAIN files = {} /\ 1..0 = {}
    BY <1>1
  <2> QED BY <1>1, <2>1, OrderIs DEF Begun, IsMap
<1>3. DOMAIN Vectors!Tree(1) = Vectors!Files
  BY DEF Vectors!Tree
<1>4. 0 \in 0..MaxTouches
  BY ConformanceAssumption
<1> QED BY <1>0, <1>1, <1>2, <1>3, <1>4 DEF VectorsInv

LEMMA VectorsNextInv ==
  ASSUME VectorsInv, Vectors!Next
  PROVE  VectorsInv'
<1> USE DEF VectorsInv
<1>1. CASE Vectors!Fetch
  <2>1. DOMAIN <<>> = Begun(0) /\ 0 \in 0..Last /\ IsMap(<<>>)
    BY OrderIs DEF Begun, IsMap
  <2>2. CASE Vectors!AlreadyThere /\ pc' = "verify" /\ UNCHANGED <<git, files>>
    BY <1>1, <2>2 DEF Vectors!Fetch, Vectors!AlreadyThere
  <2>3. CASE pc' = "fetching" /\ git' = TRUE /\ files' = <<>>
    BY <1>1, <2>1, <2>3 DEF Vectors!Fetch
  <2> QED BY <1>1, <2>2, <2>3 DEF Vectors!Fetch
<1>2. CASE Vectors!FetchCommit
  <2>1. DOMAIN files # Vectors!Files
    <3>1. pc = "fetching" /\ DOMAIN files = {}
      BY <1>2 DEF Vectors!FetchCommit
    <3>2. Vectors!Order[1] \in Vectors!Files
      BY OrderIs DEF Begun
    <3> QED BY <3>1, <3>2
  <2> QED BY <1>2, <2>1 DEF Vectors!FetchCommit
<1>3. CASE Vectors!Checkout
  <2>1. PICK c : files' = Vectors!Put(Vectors!NextFile, c)
    BY <1>3 DEF Vectors!Checkout
  <2>2. (\E n \in 0..Last : DOMAIN files' = Begun(n)) /\ IsMap(files')
    BY <1>3, <2>1, PutNext DEF Vectors!Checkout
  <2> QED BY <1>3, <2>2 DEF Vectors!Checkout
<1>4. CASE Vectors!Kill
  <2>1. CASE UNCHANGED files
    BY <1>4, <2>1 DEF Vectors!Kill
  <2>2. CASE pc = "checkout" /\ files' = Vectors!Put(Vectors!NextFile, Torn)
    <3>1. (\E n \in 0..Last : DOMAIN files' = Begun(n)) /\ IsMap(files')
      BY <2>2, PutNext
    <3> QED BY <1>4, <3>1 DEF Vectors!Kill
  <2> QED BY <1>4, <2>1, <2>2 DEF Vectors!Kill
<1>5. CASE Vectors!Verify
  <2>1. PICK n \in 0..Last : DOMAIN files = Begun(n)
    OBVIOUS
  <2>2. Vectors!Files \subseteq DOMAIN files => DOMAIN files = Vectors!Files
    <3>1. DOMAIN files \subseteq Vectors!Files
      BY <2>1, OrderIs DEF Begun
    <3> QED BY <3>1
  <2>3. CASE Vectors!Files \subseteq DOMAIN files /\ writeLock
    <3>1. lock' = [lock EXCEPT !.digests = files] /\ pinned' = TRUE
      BY <1>5, <2>3 DEF Vectors!Verify
    <3>2. lock'.commit = lock.commit /\ lock'.digests = files /\ lock' = [commit |-> lock'.commit, digests |-> lock'.digests]
      BY <3>1
    <3> QED BY <1>5, <2>2, <2>3, <3>1, <3>2 DEF Vectors!Verify
  <2>4. CASE ~(Vectors!Files \subseteq DOMAIN files /\ writeLock)
    <3>1. UNCHANGED lock /\ pinned' \in BOOLEAN
          /\ (pinned' => Vectors!Files \subseteq DOMAIN files /\ \A f \in Vectors!Files : Vectors!Matches(f))
      BY <1>5, <2>4 DEF Vectors!Verify
    <3>2. pinned' => DOMAIN files = Vectors!Files /\ \A f \in DOMAIN lock.digests : files[f] = lock.digests[f]
      BY <2>2, <3>1 DEF Vectors!Matches
    <3> QED BY <1>5, <3>1, <3>2 DEF Vectors!Verify
  <2> QED BY <2>3, <2>4
<1>6. ASSUME NEW d, lock' = [commit |-> 2, digests |-> d], DOMAIN d \subseteq Vectors!Files,
             pc = "idle", pinned' = FALSE, UNCHANGED <<git, files, pc, writeLock, touches>>
      PROVE  VectorsInv'
  <2>1. lock'.commit = 2 /\ lock'.digests = d
    BY <1>6
  <2> QED BY <1>6, <2>1
<1>8. CASE Vectors!Pull
  <2>1. DOMAIN Vectors!Tree(2) = Vectors!Files
    BY DEF Vectors!Tree
  <2> QED BY <1>6, <1>8, <2>1 DEF Vectors!Pull
<1>9. CASE Vectors!Edit
  <2>1. PICK kept : lock' = [commit |-> 2, digests |-> [f \in {f \in DOMAIN lock.digests : f[1] \in kept} |-> lock.digests[f]]]
    BY <1>9 DEF Vectors!Edit
  <2>2. PICK d : d = [f \in {f \in DOMAIN lock.digests : f[1] \in kept} |-> lock.digests[f]]
    OBVIOUS
  <2>3. DOMAIN d \subseteq Vectors!Files
    BY <2>2
  <2> QED BY <1>6, <1>9, <2>1, <2>2, <2>3 DEF Vectors!Edit
<1>7. CASE Vectors!Touch
  <2>1. PICK f \in DOMAIN files : files' = Vectors!Put(f, <<f, 3>>)
    BY <1>7 DEF Vectors!Touch
  <2>2. DOMAIN files' = DOMAIN files /\ IsMap(files')
    <3>1. PICK c : c = <<f, 3>>
      OBVIOUS
    <3>2. IsMap(Vectors!Put(f, c)) /\ DOMAIN Vectors!Put(f, c) = DOMAIN files \cup {f}
      BY PutMap
    <3> QED BY <2>1, <3>1, <3>2
  <2>3. touches' \in 0..MaxTouches
    BY <1>7, ConformanceAssumption DEF Vectors!Touch
  <2> QED BY <1>7, <2>2, <2>3 DEF Vectors!Touch
<1> QED BY <1>1, <1>2, <1>3, <1>4, <1>5, <1>7, <1>8, <1>9 DEF Vectors!Next

\* What the properties say of the vectors.
LEMMA VectorsAreThePinned ==
  ASSUME VectorsInv
  PROVE  VectorsTypeOK /\ PromptsComeLast /\ FetchedIsPinned
<1>1. PICK n \in 0..Last : DOMAIN files = Begun(n)
  BY DEF VectorsInv
<1>2. VectorsTypeOK
  <2>1. DOMAIN files \in {{Vectors!Order[i] : i \in 1..k} : k \in 0..Len(Vectors!Order)}
    BY <1>1, OrderIs DEF Begun
  <2> QED BY <2>1 DEF VectorsInv, VectorsTypeOK, Vectors!TypeOK
<1>3. PromptsComeLast
  <2> SUFFICES ASSUME Vectors!AlreadyThere
               PROVE  DOMAIN files = Vectors!Files
    BY DEF PromptsComeLast, Vectors!PromptsComeLast
  <2>1. Vectors!Order[Last] \in Begun(n)
    BY <1>1, OrderIs, ConformanceAssumption DEF Vectors!AlreadyThere
  <2>2. n = Last
    BY <2>1, OrderIs DEF Begun
  <2> QED BY <1>1, <2>2, OrderIs
<1>4. FetchedIsPinned
  BY DEF VectorsInv, FetchedIsPinned, Vectors!FetchedIsPinned
<1> QED BY <1>2, <1>3, <1>4

(* Conformance: the books of a run. *)

\* What a run takes of a group.
LEMMA TakenIs ==
  ASSUME NEW g \in Group, cap \in Nat
  PROVE  /\ Taken(g) \in Seq(Test) /\ DOMAIN Taken(g) = 1..Len(Taken(g)) /\ Len(Taken(g)) \in Nat
         /\ \A i \in 1..Len(Taken(g)) : Taken(g)[i] \in Test
         /\ \A t \in Range(Taken(g)) : t \in Test /\ t \in Range(g.tests)
<1>1. g.tests \in Seq(Test)
  BY GroupIs
<1>2. Taken(g) \in Seq(Test) /\ \A i \in 1..Len(Taken(g)) : i \in 1..Len(g.tests) /\ Taken(g)[i] = g.tests[i]
  <2>1. CASE cap = Infinity
    BY <1>1, <2>1 DEF Taken
  <2>2. CASE cap # Infinity
    <3> DEFINE n == IF cap < Len(g.tests) THEN cap ELSE Len(g.tests)
    <3>1. n \in 0..Len(g.tests) /\ Taken(g) = SubSeq(g.tests, 1, n)
      BY <1>1, <2>2 DEF Taken
    <3> HIDE DEF n
    <3> QED BY <1>1, <3>1
  <2> QED BY <2>1, <2>2
<1>3. DOMAIN Taken(g) = 1..Len(Taken(g)) /\ DOMAIN g.tests = 1..Len(g.tests) /\ \A i \in 1..Len(Taken(g)) : Taken(g)[i] \in Test
  BY <1>1, <1>2
<1> QED BY <1>2, <1>3 DEF Range

LEMMA TakenLength ==
  ASSUME NEW g \in Group, cap \in Nat
  PROVE  /\ IsFiniteSet(DOMAIN Taken(g)) /\ Len(Taken(g)) \in Nat
         /\ Cardinality(DOMAIN Taken(g)) = Len(Taken(g))
<1>1. PICK n \in Nat : n = Len(Taken(g)) /\ DOMAIN Taken(g) = 1..n
  BY TakenIs
<1>2. IsFiniteSet(1..n) /\ Cardinality(1..n) = n
  <2>1. IsFiniteSet(1..n) /\ Cardinality(1..n) = IF 1 > n THEN 0 ELSE n - 1 + 1
    BY FS_Interval
  <2> QED BY <2>1
<1> QED BY <1>1, <1>2

LEMMA GradeIs ==
  ASSUME NEW g \in Group, NEW t \in Test
  PROVE  Grade(g, t) \in Grades
BY RunnerGradeIs DEF Grade, SelftestGrade, Grades

LEMMA DisjointUnion ==
  ASSUME NEW S, NEW T, IsFiniteSet(S), IsFiniteSet(T), \A x \in S : x \notin T
  PROVE  IsFiniteSet(S \cup T) /\ Cardinality(S \cup T) = Cardinality(S) + Cardinality(T)
<1>1. PICK I : I = S \cap T
  OBVIOUS
<1>2. I = {}
  BY <1>1
<1>3. Cardinality(I) = 0
  BY <1>2, FS_EmptySet
<1>4. IsFiniteSet(S \cup T) /\ Cardinality(S \cup T) = Cardinality(S) + Cardinality(T) - Cardinality(I)
  BY <1>1, FS_Union
<1>5. Cardinality(S) \in Nat /\ Cardinality(T) \in Nat
  BY FS_CardinalityType
<1> QED BY <1>3, <1>4, <1>5

\* Every test that is taken is counted once.
LEMMA CountsAre ==
  ASSUME NEW g \in Group, cap \in Nat
  PROVE  /\ \A x : Count(g, x) \in Nat /\ (Count(g, x) > 0 <=> \E t \in Range(Taken(g)) : Grade(g, t) = x)
         /\ Count(g, "dies") = 0 =>
              Count(g, "pass") + Count(g, "fail") + Count(g, "skip") = Len(Taken(g))
<1> DEFINE D == DOMAIN Taken(g)
           Of(x) == {i \in D : Grade(g, Taken(g)[i]) = x}
<1>1. IsFiniteSet(D) /\ Cardinality(D) = Len(Taken(g))
  BY TakenLength
<1>2. \A x : Of(x) \subseteq D /\ IsFiniteSet(Of(x))
  BY <1>1, FS_Subset
<1>3. \A x : Count(g, x) = Cardinality(Of(x))
  BY DEF Count
<1>4. ASSUME NEW x
      PROVE  Count(g, x) \in Nat /\ (Count(g, x) > 0 <=> \E t \in Range(Taken(g)) : Grade(g, t) = x)
  <2>1. Cardinality(Of(x)) \in Nat /\ (Cardinality(Of(x)) = 0 <=> Of(x) = {})
    BY <1>2, FS_CardinalityType, FS_EmptySet
  <2>2. Of(x) # {} <=> \E t \in Range(Taken(g)) : Grade(g, t) = x
    BY DEF Range
  <2> QED BY <1>3, <2>1, <2>2
<1>5. ASSUME Count(g, "dies") = 0
      PROVE  Count(g, "pass") + Count(g, "fail") + Count(g, "skip") = Len(Taken(g))
  <2>1. D = (Of("pass") \cup Of("fail")) \cup Of("skip")
    <3>1. \A i \in D : Grade(g, Taken(g)[i]) \in Grades /\ Taken(g)[i] \in Range(Taken(g))
      BY TakenIs, GradeIs DEF Range
    <3>2. \A i \in D : Grade(g, Taken(g)[i]) # "dies"
      BY <1>4, <1>5, <3>1
    <3> QED BY <3>1, <3>2 DEF Grades
  <2>2. /\ \A i \in Of("pass") : i \notin Of("fail")
        /\ \A i \in Of("pass") \cup Of("fail") : i \notin Of("skip")
    OBVIOUS
  <2>3. IsFiniteSet(Of("pass")) /\ IsFiniteSet(Of("fail")) /\ IsFiniteSet(Of("skip"))
    BY <1>2
  <2> HIDE DEF Of, D
  <2>4. /\ IsFiniteSet(Of("pass") \cup Of("fail"))
        /\ Cardinality(Of("pass") \cup Of("fail")) = Cardinality(Of("pass")) + Cardinality(Of("fail"))
    BY <2>2, <2>3, DisjointUnion
  <2>5. Cardinality(D) = Cardinality(Of("pass") \cup Of("fail")) + Cardinality(Of("skip"))
    BY <2>1, <2>2, <2>3, <2>4, DisjointUnion
  <2> QED BY <1>1, <1>3, <2>4, <2>5
<1> QED BY <1>4, <1>5

\* One more group counts towards its own parameter set.
LEMMA GradedNext ==
  ASSUME groups \in Seq(Group), cap \in Nat, NEW n \in 0..(Len(groups) - 1), NEW p, IsFiniteSet(Graded(p, n))
  PROVE  /\ IsFiniteSet(Graded(p, n + 1))
         /\ Cardinality(Graded(p, n + 1)) =
              Cardinality(Graded(p, n)) + IF groups[n + 1].ps = p THEN Len(Taken(groups[n + 1])) ELSE 0
<1>1. n \in Nat /\ n + 1 \in 1..Len(groups) /\ groups[n + 1] \in Group
  OBVIOUS
<1> DEFINE Counting(k) == {i \in 1..k : groups[i].ps = p}
           New == {n + 1} \X DOMAIN Taken(groups[n + 1])
<1>2. CASE groups[n + 1].ps # p
  <2>1. Counting(n + 1) = Counting(n)
    BY <1>1, <1>2
  <2>2. Graded(p, n + 1) = Graded(p, n)
    BY <2>1 DEF Graded
  <2>3. Cardinality(Graded(p, n)) \in Nat
    BY FS_CardinalityType
  <2> QED BY <1>2, <2>2, <2>3
<1>3. CASE groups[n + 1].ps = p
  <2>1. Counting(n + 1) = Counting(n) \cup {n + 1}
    BY <1>1, <1>3
  <2>2. Graded(p, n + 1) = Graded(p, n) \cup New
    <3>1. \A k : Graded(p, k) = UNION {{i} \X DOMAIN Taken(groups[i]) : i \in Counting(k)}
      BY DEF Graded
    <3> HIDE DEF Counting
    <3> QED BY <2>1, <3>1
  <2>3. \A x \in Graded(p, n) : x \notin New
    <3>1. \A x \in Graded(p, n) : x[1] \in 1..n
      BY DEF Graded
    <3>2. \A x \in New : x[1] = n + 1
      OBVIOUS
    <3> QED BY <1>1, <3>1, <3>2
  <2>4. IsFiniteSet(New) /\ Cardinality(New) = Len(Taken(groups[n + 1]))
    <3>1. IsFiniteSet({n + 1}) /\ Cardinality({n + 1}) = 1
      BY FS_Singleton
    <3>2. /\ IsFiniteSet(DOMAIN Taken(groups[n + 1])) /\ Len(Taken(groups[n + 1])) \in Nat
          /\ Cardinality(DOMAIN Taken(groups[n + 1])) = Len(Taken(groups[n + 1]))
      BY <1>1, TakenLength
    <3>3. Cardinality(New) = 1 * Cardinality(DOMAIN Taken(groups[n + 1])) /\ IsFiniteSet(New)
      BY <3>1, <3>2, FS_Product
    <3> QED BY <3>2, <3>3
  <2> HIDE DEF New
  <2>5. Cardinality(Graded(p, n)) \in Nat /\ Len(Taken(groups[n + 1])) \in Nat
    BY <1>1, TakenIs, FS_CardinalityType
  <2>6. /\ IsFiniteSet(Graded(p, n) \cup New)
        /\ Cardinality(Graded(p, n) \cup New) = Cardinality(Graded(p, n)) + Cardinality(New)
    BY <2>3, <2>4, DisjointUnion
  <2> QED BY <1>3, <2>2, <2>4, <2>5, <2>6
<1> QED BY <1>2, <1>3

SomeFailed(p, n) == \E i \in 1..n : groups[i].ps = p /\ \E t \in Range(Taken(groups[i])) : Grade(groups[i], t) = "fail"

Books(p) ==
  /\ tally[p] \in [pass : Nat, fail : Nat, skip : Nat]
  /\ IsFiniteSet(Graded(p, done))
  /\ tally[p].pass + tally[p].fail + tally[p].skip = Cardinality(Graded(p, done))
  /\ tally[p].fail > 0 <=> SomeFailed(p, done)

AnswersInv ==
  /\ groups \in Seq(Group) /\ (IF status = "idle" THEN groups = NoGroups ELSE groups \in Prompts)
  /\ DOMAIN impl = Surfaces /\ \A s \in Surfaces : impl[s] \in Behaves
  /\ program \in Programs /\ cap \in Caps /\ done \in 0..Len(groups)
  /\ status \in {"idle", "running", "exit 0", "exit 1", "died"}
  /\ DOMAIN tally = {g.ps : g \in Range(groups)} /\ tally = [p \in DOMAIN tally |-> tally[p]]
  /\ \A p \in DOMAIN tally : Books(p)
  /\ \A i \in 1..done : \A t \in Range(Taken(groups[i])) : Grade(groups[i], t) # "dies"
  /\ status \in {"exit 0", "exit 1"} => done = Len(groups) /\ (status = "exit 1" <=> Failing)
  /\ status = "died" =>
       \E i \in 1..Len(groups) : \E t \in Range(Taken(groups[i])) : Grade(groups[i], t) = "dies"

LEMMA AnswersInitInv == Init => AnswersInv
<1> SUFFICES ASSUME Init
             PROVE  AnswersInv
  OBVIOUS
<1>1. groups = <<>> /\ impl = [s \in Surfaces |-> "right"] /\ program = "run-acvp" /\ cap = Infinity
      /\ done = 0 /\ tally = [p \in {} |-> Zero] /\ status = "idle"
  BY DEF Init, NoGroups
<1>2. Range(groups) = {} /\ DOMAIN tally = {} /\ Len(groups) = 0
  BY <1>1 DEF Range
<1> QED BY <1>1, <1>2, AnswersAssumption DEF AnswersInv, NoGroups, Behaves

\* While a run lasts, a test has the grade it has.
LEMMA SameGrades ==
  ASSUME UNCHANGED <<groups, impl, program, cap>>
  PROVE  /\ \A g, t : Grade(g, t)' = Grade(g, t)
         /\ \A g : Taken(g)' = Taken(g)
<1>1. \A g : Taken(g)' = Taken(g)
  BY DEF Taken
<1>2. \A g, w, opts : Returns(g, w, opts)' = Returns(g, w, opts)
  BY DEF Returns
<1>3. \A g, t : RunnerGrade(g, t)' = RunnerGrade(g, t)
  BY <1>2 DEF RunnerGrade
<1>4. \A g, t : Answer(g, t)' = Answer(g, t)
  BY <1>2 DEF Answer
<1>5. \A g, t : NativeAnswer(g, t)' = NativeAnswer(g, t)
  BY <1>2 DEF NativeAnswer, NodeReturns
<1>6. \A g, t : SelftestGrade(g, t)' = SelftestGrade(g, t)
  BY <1>4, <1>5 DEF SelftestGrade
<1> QED BY <1>1, <1>3, <1>6 DEF Grade

LEMMA BeginInv ==
  ASSUME AnswersInv, Begin
  PROVE  AnswersInv'
<1>1. /\ status' = "running" /\ groups' \in Prompts /\ program' \in Programs /\ cap' \in Caps /\ done' = 0
      /\ tally' = [p \in {g.ps : g \in Range(groups')} |-> Zero]
  BY DEF Begin
<1>2. groups' \in Seq(Group) /\ Len(groups') \in Nat
  BY <1>1, AnswersAssumption
<1>3. DOMAIN impl' = Surfaces /\ \A s \in Surfaces : impl'[s] \in Behaves
  BY DEF Begin, Behaves
<1>4. ASSUME NEW p \in DOMAIN tally'
      PROVE  Books(p)'
  <2>1. tally'[p] = Zero
    BY <1>1, <1>4
  <2>2. Graded(p, done)' = {}
    <3>1. 1..done' = {}
      BY <1>1
    <3> QED BY <3>1 DEF Graded
  <2>3. ~SomeFailed(p, done)'
    BY <1>1 DEF SomeFailed
  <2> QED BY <2>1, <2>2, <2>3, FS_EmptySet DEF Books, Zero
<1>5. \A i \in 1..done' : FALSE
  BY <1>1
<1>6. DOMAIN tally' = {g.ps : g \in Range(groups')} /\ tally' = [p \in DOMAIN tally' |-> tally'[p]]
  BY <1>1
<1>7. done' \in 0..Len(groups')
  BY <1>1, <1>2
<1>8. \A i \in 1..done' : \A t \in Range(Taken(groups[i]))' : Grade(groups[i], t)' # "dies"
  BY <1>5
<1>9. status' = "running"
  BY <1>1
<1> HIDE DEF Books
<1> QED BY <1>1, <1>2, <1>3, <1>4, <1>6, <1>7, <1>8, <1>9 DEF AnswersInv, Range

LEMMA GradeGroupInv ==
  ASSUME AnswersInv, GradeGroup
  PROVE  AnswersInv'
<1>1. /\ groups \in Seq(Group) /\ cap \in Nat /\ done \in 0..Len(groups) /\ Len(groups) \in Nat
      /\ status = "running" /\ done < Len(groups) /\ UNCHANGED <<groups, impl, program, cap>>
  BY AnswersAssumption DEF AnswersInv, GradeGroup
<1>2. /\ \A g, t : Grade(g, t)' = Grade(g, t)
      /\ \A g : Taken(g)' = Taken(g)
  BY <1>1, SameGrades
<1>3. PICK g \in Group : g = groups[done + 1] /\ done + 1 \in 1..Len(groups)
  BY <1>1
<1>5. CASE Count(g, "dies") > 0
  <2>1. status' = "died" /\ UNCHANGED <<done, tally>>
    BY <1>3, <1>5 DEF GradeGroup
  <2>2. PICK t \in Range(Taken(g)) : Grade(g, t) = "dies"
    BY <1>1, <1>5, CountsAre
  <2>3. \A p : Books(p)' = Books(p)
    BY <1>1, <1>2, <2>1 DEF Books, Graded, SomeFailed
  <2> QED BY <1>1, <1>2, <1>3, <2>1, <2>2, <2>3 DEF AnswersInv
<1>6. CASE ~(Count(g, "dies") > 0)
  <2>1. done' = done + 1 /\ UNCHANGED status /\ tally' = [tally EXCEPT ![g.ps] = Plus(@, Counted(g))]
    BY <1>3, <1>6 DEF GradeGroup
  <2>2. /\ Count(g, "pass") \in Nat /\ Count(g, "fail") \in Nat /\ Count(g, "skip") \in Nat /\ Count(g, "dies") = 0
        /\ Count(g, "fail") > 0 <=> \E t \in Range(Taken(g)) : Grade(g, t) = "fail"
        /\ Count(g, "pass") + Count(g, "fail") + Count(g, "skip") = Len(Taken(g))
        /\ \A t \in Range(Taken(g)) : Grade(g, t) # "dies"
    BY <1>1, <1>6, CountsAre
  <2>3. done + 1 \in 0..Len(groups) /\ \A i \in 1..(done + 1) : i \in 1..done \/ i = done + 1
    BY <1>1
  <2>4. DOMAIN tally' = DOMAIN tally /\ tally' = [p \in DOMAIN tally' |-> tally'[p]]
    BY <2>1 DEF AnswersInv
  <2>5. ASSUME NEW p \in DOMAIN tally
        PROVE  Books(p)'
    <3>1. Books(p)
      BY DEF AnswersInv
    <3>2. PICK n : n = done + 1
      OBVIOUS
    <3>3. /\ IsFiniteSet(Graded(p, n))
          /\ Cardinality(Graded(p, n)) = Cardinality(Graded(p, done)) + IF g.ps = p THEN Len(Taken(g)) ELSE 0
      <4>1. done \in 0..(Len(groups) - 1)
        BY <1>1
      <4> QED BY <1>1, <1>3, <3>1, <3>2, <4>1, GradedNext DEF Books
    <3>4. Graded(p, n)' = Graded(p, n)
      BY <1>1, <1>2 DEF Graded
    <3>5. SomeFailed(p, n)' <=> SomeFailed(p, done) \/ (g.ps = p /\ Count(g, "fail") > 0)
      <4>2. SomeFailed(p, n)' <=> \E i \in 1..n : groups[i].ps = p /\ \E t \in Range(Taken(groups[i])) : Grade(groups[i], t) = "fail"
        BY <1>1, <1>2 DEF SomeFailed
      <4>3. \A i : i \in 1..n <=> i \in 1..done \/ i = n
        BY <1>1, <3>2
      <4>4. g = groups[n]
        BY <1>3, <3>2
      <4> QED BY <2>2, <4>2, <4>3, <4>4 DEF SomeFailed
    <3>6. done' = n
      BY <2>1, <3>2
    <3>7. PICK c \in [pass : Nat, fail : Nat, skip : Nat] : c = tally[p]
      BY <3>1 DEF Books
    <3>8. c.pass \in Nat /\ c.fail \in Nat /\ c.skip \in Nat
      BY <3>7
    <3>9. CASE g.ps = p
      <4>1. tally'[p] = [pass |-> c.pass + Count(g, "pass"), fail |-> c.fail + Count(g, "fail"), skip |-> c.skip + Count(g, "skip")]
        BY <2>1, <2>5, <3>7, <3>9 DEF Plus, Counted, AnswersInv
      <4>2. tally'[p].pass + tally'[p].fail + tally'[p].skip = Cardinality(Graded(p, n))
        BY <2>2, <3>1, <3>3, <3>7, <3>8, <3>9, <4>1 DEF Books
      <4>3. tally'[p].fail > 0 <=> SomeFailed(p, n)'
        BY <2>2, <3>1, <3>5, <3>7, <3>8, <3>9, <4>1 DEF Books
      <4>4. tally'[p] \in [pass : Nat, fail : Nat, skip : Nat]
        BY <2>2, <3>8, <4>1
      <4> QED BY <3>3, <3>4, <3>6, <4>2, <4>3, <4>4 DEF Books, Graded, SomeFailed
    <3>10. CASE g.ps # p
      <4>1. tally'[p] = tally[p]
        BY <2>1, <2>5, <3>10 DEF AnswersInv
      <4>2. Cardinality(Graded(p, n)) = Cardinality(Graded(p, done))
        <5>1. Cardinality(Graded(p, done)) \in Nat
          BY <3>1, FS_CardinalityType DEF Books
        <5> QED BY <3>3, <3>10, <5>1
      <4> QED BY <3>1, <3>3, <3>4, <3>5, <3>6, <3>10, <4>1, <4>2 DEF Books, Graded, SomeFailed
    <3> QED BY <3>9, <3>10
  <2>6. \A i \in 1..(done + 1) : \A t \in Range(Taken(groups[i])) : Grade(groups[i], t) # "dies"
    BY <1>3, <2>2, <2>3 DEF AnswersInv
  <2> QED BY <1>1, <1>2, <2>1, <2>3, <2>4, <2>5, <2>6 DEF AnswersInv
<1> QED BY <1>5, <1>6

LEMMA ReportInv ==
  ASSUME AnswersInv, Report
  PROVE  AnswersInv'
<1>1. /\ status = "running" /\ done = Len(groups) /\ status' = IF Failing THEN "exit 1" ELSE "exit 0"
      /\ UNCHANGED <<groups, impl, program, cap, done, tally>>
  BY DEF Report
<1>2. /\ \A g, t : Grade(g, t)' = Grade(g, t)
      /\ \A g : Taken(g)' = Taken(g)
  BY <1>1, SameGrades
<1>3. Failing' = Failing /\ \A p : Books(p)' = Books(p)
  BY <1>1, <1>2 DEF Failing, Books, Graded, SomeFailed
<1> QED BY <1>1, <1>2, <1>3 DEF AnswersInv

LEMMA AnswersStay ==
  ASSUME AnswersInv, UNCHANGED vars
  PROVE  AnswersInv'
<1>1. UNCHANGED <<groups, impl, program, cap, done, tally, status>>
  BY DEF vars
<1>2. /\ \A g, t : Grade(g, t)' = Grade(g, t)
      /\ \A g : Taken(g)' = Taken(g)
  BY <1>1, SameGrades
<1>3. Failing' = Failing /\ \A p : Books(p)' = Books(p)
  BY <1>1, <1>2 DEF Failing, Books, Graded, SomeFailed
<1> QED BY <1>1, <1>2, <1>3 DEF AnswersInv

LEMMA VectorsStay ==
  ASSUME VectorsInv, UNCHANGED vectors
  PROVE  VectorsInv'
BY DEF vectors, VectorsInv

(* Conformance: the theorems. *)

\* The cache is a beginning of the pinned tree, or not pinned, and the books of a
\* run agree with what was graded, in every reachable state of a job.
THEOREM ConformanceInductive == JobSpec => [](AnswersInv /\ VectorsInv)
<1>1. JobInit => AnswersInv /\ VectorsInv
  BY AnswersInitInv, VectorsInitInv DEF JobInit
<1>2. AnswersInv /\ VectorsInv /\ [JobNext]_<<vars, vectors>> => (AnswersInv /\ VectorsInv)'
  <2> SUFFICES ASSUME AnswersInv, VectorsInv, [JobNext]_<<vars, vectors>>
               PROVE  AnswersInv' /\ VectorsInv'
    OBVIOUS
  <2>1. CASE Fetching
    BY <2>1, VectorsNextInv, AnswersStay DEF Fetching
  <2>2. CASE Grading
    <3>1. Next /\ UNCHANGED vectors
      BY <2>2 DEF Grading
    <3> QED BY <3>1, BeginInv, GradeGroupInv, ReportInv, VectorsStay DEF Next
  <2>3. CASE UNCHANGED <<vars, vectors>>
    BY <2>3, AnswersStay, VectorsStay
  <2> QED BY <2>1, <2>2, <2>3 DEF JobNext
<1> QED BY <1>1, <1>2, PTL DEF JobSpec

\* What a job grades is what the lock pins, whatever happened to the cache, and
\* every test is counted once (fetch-vectors.mjs, and Tally in run-acvp.mjs).
THEOREM JobIsSound == JobSpec => []JobInv
<1>1. AnswersInv /\ VectorsInv => JobInv
  <2> SUFFICES ASSUME AnswersInv, VectorsInv
               PROVE  JobInv
    OBVIOUS
  <2>1. TypeOK
    BY DEF AnswersInv, Books, TypeOK
  <2> QED BY <2>1, VectorsAreThePinned DEF JobInv
<1> QED BY <1>1, ConformanceInductive, PTL

LEMMA GroupsType ==
  ASSUME AnswersInv
  PROVE  /\ groups \in Seq(Group) /\ DOMAIN groups = 1..Len(groups) /\ Len(groups) \in Nat
         /\ done \in 0..Len(groups)
<1>1. groups \in Seq(Group) /\ done \in 0..Len(groups)
  BY Zenon DEF AnswersInv
<1> QED BY <1>1

\* The group and the surface of the implementation that a run is about.
LEMMA GroupsAre ==
  ASSUME AnswersInv, NEW g \in Range(groups)
  PROVE  /\ g \in Group /\ Surface(g) \in Surfaces /\ impl[Surface(g)] \in Behaves /\ g.ps \in DOMAIN tally
         /\ cap \in Nat
<1>1. DOMAIN groups = 1..Len(groups) /\ Len(groups) \in Nat /\ groups \in Seq(Group)
  BY GroupsType
<1>2. PICK i \in 1..Len(groups) : g = groups[i]
  BY <1>1 DEF Range
<1>3. groups \in Prompts
  <2>1. groups # NoGroups
    BY <1>2 DEF NoGroups
  <2> QED BY <2>1 DEF AnswersInv
<1>4. Surface(g) \in Surfaces
  BY <1>3 DEF Surfaces
<1>5. g \in Group
  BY <1>1, <1>2
<1>6. g.ps \in DOMAIN tally
  BY DEF AnswersInv
<1>7. impl[Surface(g)] \in Behaves
  BY <1>4 DEF AnswersInv
<1>8. cap \in Nat
  BY AnswersAssumption DEF AnswersInv
<1> QED BY <1>4, <1>5, <1>6, <1>7, <1>8

\* run-acvp.mjs exits with 0 exactly if the implementation conforms on all that
\* was taken and not named as skipped (395-480).
THEOREM ExitTells == JobSpec => []ExitTellsTheImplementation
<1>1. AnswersInv => ExitTellsTheImplementation
  <2> SUFFICES ASSUME AnswersInv, program = "run-acvp", status \notin {"idle", "running"}
               PROVE  status = "exit 0" <=>
                        \A i \in DOMAIN groups : \A t \in Range(Taken(groups[i])) :
                          RunnerGrade(groups[i], t) = "skip" \/ Conforms(groups[i], t)
    BY DEF ExitTellsTheImplementation, Runner
  <2>1. DOMAIN groups = 1..Len(groups) /\ \A i \in 1..Len(groups) : groups[i] \in Range(groups)
    <3>1. groups \in Seq(Group)
      BY DEF AnswersInv
    <3> QED BY <3>1 DEF Range
  <2>2. \A i \in 1..Len(groups) : \A t \in Range(Taken(groups[i])) :
          /\ Grade(groups[i], t) = RunnerGrade(groups[i], t) /\ Grade(groups[i], t) \in Grades
          /\ Grade(groups[i], t) = "pass" => Conforms(groups[i], t)
          /\ Grade(groups[i], t) \in {"fail", "dies"} => ~Conforms(groups[i], t)
    <3> SUFFICES ASSUME NEW i \in 1..Len(groups), NEW t \in Range(Taken(groups[i]))
                 PROVE  /\ Grade(groups[i], t) = RunnerGrade(groups[i], t) /\ Grade(groups[i], t) \in Grades
                        /\ Grade(groups[i], t) = "pass" => Conforms(groups[i], t)
                        /\ Grade(groups[i], t) \in {"fail", "dies"} => ~Conforms(groups[i], t)
      OBVIOUS
    <3>1. groups[i] \in Group /\ t \in Test
      BY <2>1, GroupsAre, TakenIs
    <3>2. Grade(groups[i], t) = RunnerGrade(groups[i], t)
      BY DEF Grade
    <3> QED BY <3>1, <3>2, RunnerGradeIs
  <2>3. CASE status = "exit 0"
    <3>1. done = Len(groups) /\ ~Failing
      BY <2>3 DEF AnswersInv
    <3>2. \A i \in 1..Len(groups) : \A t \in Range(Taken(groups[i])) : Grade(groups[i], t) \notin {"fail", "dies"}
      <4> SUFFICES ASSUME NEW i \in 1..Len(groups), NEW t \in Range(Taken(groups[i])), Grade(groups[i], t) = "fail"
                   PROVE  FALSE
        BY <3>1 DEF AnswersInv
      <4>1. groups[i].ps \in DOMAIN tally
        BY <2>1, GroupsAre
      <4>2. PICK p \in DOMAIN tally : p = groups[i].ps
        BY <4>1
      <4>3. SomeFailed(p, done)
        BY <3>1, <4>2 DEF SomeFailed
      <4>4. Books(p)
        BY DEF AnswersInv
      <4>5. tally[p].fail > 0
        BY <4>3, <4>4 DEF Books
      <4> QED BY <3>1, <4>5 DEF Failing
    <3> QED BY <2>1, <2>2, <2>3, <3>2 DEF Grades
  <2>4. CASE status \in {"exit 1", "died"}
    <3>1. \E i \in 1..Len(groups) : \E t \in Range(Taken(groups[i])) : Grade(groups[i], t) \in {"fail", "dies"}
      <4>1. CASE status = "died"
        BY <4>1 DEF AnswersInv
      <4>2. CASE status = "exit 1"
        <5>1. done = Len(groups) /\ Failing
          BY <4>2 DEF AnswersInv
        <5>2. PICK p \in DOMAIN tally : tally[p].fail > 0
          BY <5>1 DEF Failing
        <5>3. SomeFailed(p, done)
          BY <5>2 DEF AnswersInv, Books
        <5> QED BY <5>1, <5>3 DEF SomeFailed
      <4> QED BY <2>4, <4>1, <4>2
    <3> QED BY <2>1, <2>2, <2>4, <3>1
  <2> QED BY <2>3, <2>4 DEF AnswersInv
<1> QED BY <1>1, ConformanceInductive, PTL

\* responders.mjs computes what the runner does and answers what is registered,
\* SLH-DSA's internal interface left out (4-10).
THEOREM RespondersDo == JobSpec => []RespondersAnswer
<1>1. AnswersInv => RespondersAnswer
  <2> SUFFICES ASSUME AnswersInv
               PROVE  RespondersFollowTheRunner /\ RegisteredIsAnsweredElsewhere
    BY DEF RespondersAnswer
  <2>1. RespondersFollowTheRunner
    BY GroupsAre, FollowsTheRunner DEF RespondersFollowTheRunner
  <2>2. RegisteredIsAnsweredElsewhere
    <3> SUFFICES ASSUME program = "selftest", Right, NEW g \in Range(groups), Registered(g), ~SlhInternal(g),
                        NEW t \in Range(g.tests)
                 PROVE  SelftestGrade(g, t) = "pass"
      BY DEF RegisteredIsAnsweredElsewhere
    <3>1. g \in Group /\ impl[Surface(g)] = "right"
      BY GroupsAre DEF Right
    <3> QED BY <3>1, RegisteredPasses
  <2> QED BY <2>1, <2>2
<1> QED BY <1>1, ConformanceInductive, PTL

\* responders-native.mjs refuses what node:crypto cannot be asked (22-25).
THEOREM NativeRefuses == JobSpec => []NativeNeverGuesses
<1>1. AnswersInv => NativeNeverGuesses
  <2> SUFFICES ASSUME AnswersInv, program = "native", Right, NEW i \in 1..done, NEW t \in Range(groups[i].tests),
                      SelftestGrade(groups[i], t) = "fail"
               PROVE  t.want = "none"
    BY DEF NativeNeverGuesses
  <2>1. groups[i] \in Range(groups)
    <3>1. i \in DOMAIN groups
      BY GroupsType
    <3> QED BY <3>1 DEF Range
  <2>2. groups[i] \in Group /\ impl[Surface(groups[i])] = "right"
    BY <2>1, GroupsAre DEF Right
  <2> QED BY <2>2, NativeIsRight
<1> QED BY <1>1, ConformanceInductive, PTL
===============================================================================
