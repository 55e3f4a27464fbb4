-------------------------------- MODULE Interop --------------------------------
(***************************************************************************)
(* The interoperability matrix, run-interop.mjs: one peer process after    *)
(* the other is started, asked for every check of every row over its       *)
(* stdin and stdout, and stopped.  A peer may print what is not protocol,  *)
(* answer after the harness has given up on it, hang, or die at any point; *)
(* request() turns each of these into an answer { ok: false, error }.  Two *)
(* things a peer may do end the whole run with an unhandled exception: it  *)
(* prints a line that is the JSON value null, or it says ok and leaves out *)
(* the signature or the ciphertext.                                        *)
(*                                                                         *)
(* Keys, signatures and secrets are abstracted to what a check compares:   *)
(* an answer "agrees" with what a conforming implementation would say, it  *)
(* "disagrees", it is "malformed", "unsupported", or an "error".           *)
(*                                                                         *)
(* JavaScript runs to completion between two awaits, so one action takes a *)
(* reply, records its check and sends the next request.                    *)
(***************************************************************************)
EXTENDS Naturals, Sequences, FiniteSets

CONSTANTS
  Peers,       \* sequence of peer names, in the order of PEERS
  Rows,        \* peer -> sequence of [kind, path], the rows it supports
  Deterministic, \* peers not declared deterministicSigning: false
  Behaviours,  \* peer -> what its implementation may be like
  NL, Noise, JsonNull,   \* a newline, a fragment that is not JSON, and `null'
  None,
  MaxNoise,    \* bound: lines or fragments a peer prints besides its answers
  MaxLate      \* bound: requests that time out although the peer has not hung

ASSUME InteropAssumption ==
  /\ Peers \in Seq(DOMAIN Rows) /\ {MaxNoise, MaxLate} \subseteq Nat
  /\ \A p \in DOMAIN Rows :
       Rows[p] \in Seq([kind : {"sig", "kem"}, path : {"wrapper", "backend"}])

Steps(kind) ==
  IF kind = "sig"
  THEN <<"keys", "verify", "sign", "tamper", "verify/ctx", "sign/ctx", "tamper/ctx">>
  ELSE <<"keys", "decapsulate", "encapsulate", "reject">>

\* The negative controls: the peer is to refuse what was broken on purpose.
Controls == {"tamper", "tamper/ctx", "reject"}
Signs == {"sign", "sign/ctx"}

VARIABLES
  turn,      \* index of the peer being run
  asked,     \* the question that was last asked: [row, step], row 0 to identify
  reply,     \* what its promise resolved to, None while it is pending
  awaiting, nextId, pending,   \* the id awaited, the next id, ids with a waiter
  closed,    \* #die has run
  proc,      \* the peer process: "none", "up", "hung" or "down"
  stdin, stdout, buffer,       \* the pipes and what was read of an unfinished line
  checks,    \* checks of the current row
  rows,      \* rows recorded, as [peer, row, checks]
  failures,
  exit,      \* the exit code; "thrown" when an exception ended the run
  available, \* peers whose preparation succeeded
  behaviour, \* what each peer is like
  troubled,  \* peers that died or had a request time out
  noise, late

transport == <<awaiting, nextId, pending, closed>>
bounds == <<noise, late>>
pipes == <<stdin, stdout, buffer>>
results == <<checks, rows, failures>>
interopVars == <<turn, asked, reply, transport, proc, pipes, results, exit, available,
          behaviour, troubled, bounds>>

Peer == Peers[turn]
Identify == [row |-> 0, step |-> "identify"]
Running == exit = None /\ turn > 0
Stopping == asked.step = "stop"

Failure == [about |-> None, says |-> "error"]

\* What a peer of a given kind answers: "yes" accepts whatever it is shown,
\* "noContext" ignores the context, "limited" has no keygen from a seed and refuses
\* broken input with an error, "hedged" signs with randomness, "blank" says ok
\* when it is to sign or to encapsulate but sends nothing it made.
Says(b, s) ==
  CASE b = "yes" /\ s \in Controls                            -> "disagrees"
    [] b = "noContext" /\ s \in {"verify/ctx", "sign/ctx"}    -> "disagrees"
    [] b = "otherKeys" /\ s = "keys"                          -> "disagrees"
    [] b = "blank" /\ s \in Signs \cup {"encapsulate"}         -> "malformed"
    [] b = "limited" /\ s = "keys"                            -> "unsupported"
    [] b = "limited" /\ s \in Controls                        -> "error"
    [] OTHER                                                  -> "agrees"

InteropInit ==
  /\ turn = 0 /\ asked = [row |-> 0, step |-> "stop"] /\ reply = None
  /\ awaiting = 0 /\ nextId = 1 /\ pending = {} /\ closed = TRUE
  /\ proc = "none" /\ stdin = <<>> /\ stdout = <<>> /\ buffer = <<>>
  /\ checks = <<>> /\ rows = {} /\ failures = 0 /\ exit = None
  /\ available = {} /\ troubled = {} /\ noise = 0 /\ late = 0
  /\ behaviour \in {f \in [DOMAIN Rows -> UNION {Behaviours[p] : p \in DOMAIN Rows}] :
                     \A p \in DOMAIN Rows : f[p] \in Behaviours[p]}

--------------------------------------------------------------------------------
(* The transport: class Peer. *)

\* Mutant of Id: every request has the same id.
IdIsOne == 1

Id == nextId

\* request(): resolves at once when the peer is gone, and never rejects.
Request(q, gone, id) ==
  /\ asked' = q
  /\ IF gone
     THEN reply' = Failure /\ UNCHANGED <<awaiting, nextId, pending>>
     ELSE /\ reply' = None /\ awaiting' = id /\ nextId' = id + 1
          /\ pending' = pending \cup {id}

Sent(q) == [id |-> awaiting', about |-> q]

\* A line is two halves of a message and parses only whole.
Parsed(line) ==
  IF Len(line) = 2 /\ line[1] = line[2] /\ line[1] \notin {Noise, JsonNull}
  THEN {line[1]} ELSE {}

LineEnds(text) == {i \in DOMAIN text : text[i] = NL}

\* Where the complete lines of the text begin and end.
Lines(text) ==
  {l \in ({0} \cup LineEnds(text)) \X LineEnds(text) :
     l[1] < l[2] /\ \A i \in LineEnds(text) : ~(l[1] < i /\ i < l[2])}

\* What they say, and what is left after the last of them.
Messages(text) == UNION {Parsed(SubSeq(text, l[1] + 1, l[2] - 1)) : l \in Lines(text)}

\* A line that is `null' parses, and msg.id throws: only JSON.parse is in the try.
Throws(text) == \E l \in Lines(text) : SubSeq(text, l[1] + 1, l[2] - 1) = <<JsonNull>>

Rest(text) ==
  SubSeq(text, 1 + (CHOOSE e \in {0} \cup LineEnds(text) :
                      \A i \in LineEnds(text) : i <= e), Len(text))

\* stdout 'data': a chunk of any length; only an id that has a waiter counts,
\* and a waiter whose request has timed out no longer resolves anything.
Data ==
  /\ turn > 0 /\ exit = None /\ stdout # <<>>
  /\ \E n \in {i \in 1..Len(stdout) : ~Throws(buffer \o SubSeq(stdout, 1, i))} :
       LET text == buffer \o SubSeq(stdout, 1, n)
           msgs == Messages(text)
           mine == {m \in msgs : m.id \in pending /\ m.id = awaiting} IN
       /\ stdout' = SubSeq(stdout, n + 1, Len(stdout))
       /\ buffer' = Rest(text)
       /\ pending' = pending \ {m.id : m \in msgs}
       /\ reply' = IF mine # {} /\ reply = None
                   THEN LET m == CHOOSE m \in mine : TRUE IN [about |-> m.about, says |-> m.says]
                   ELSE reply
  /\ UNCHANGED <<turn, asked, awaiting, nextId, closed, proc, stdin, results, exit,
                 available, behaviour, troubled, bounds>>

\* An exception that nothing catches: no row, no report, exit code 1.
Uncaught ==
  /\ exit' = "thrown"
  /\ UNCHANGED <<turn, asked, reply, transport, proc, pipes, results, available,
                 behaviour, troubled, bounds>>

\* ... in the handler of stdout 'data', whatever is being awaited.
DataThrows ==
  /\ turn > 0 /\ exit = None
  /\ \E n \in 1..Len(stdout) : Throws(buffer \o SubSeq(stdout, 1, n))
  /\ Uncaught

\* #die: everything in flight fails.
Die ==
  /\ ~closed /\ exit = None /\ closed' = TRUE
  /\ reply' = IF reply = None /\ awaiting \in pending THEN Failure ELSE reply
  /\ pending' = {}
  /\ UNCHANGED <<turn, asked, awaiting, nextId, proc, pipes, results, exit, available,
                 behaviour, troubled, bounds>>

\* 'close' comes when the process is gone and its output has been read, a
\* broken pipe as soon as something is written to it.
Closes == proc = "down" /\ stdout = <<>> /\ Die

BrokenPipe == proc = "down" /\ stdin # <<>> /\ Die

\* The peer hangs or is gone, or noise without a newline has spoilt its answer.
NoAnswerComes == proc \in {"hung", "down"} \/ (proc = "up" /\ stdin = <<>> /\ stdout = <<>>)

\* Mutant of Timeout: no timer is set.
TimeoutNever == FALSE /\ UNCHANGED interopVars

\* setTimeout: the promise resolves, the waiter stays in the map.
Timeout ==
  /\ Running /\ ~Stopping /\ reply = None
  /\ late < MaxLate \/ NoAnswerComes
  /\ reply' = Failure
  /\ late' = IF NoAnswerComes THEN late ELSE late + 1
  /\ troubled' = troubled \cup {Peer}
  /\ UNCHANGED <<turn, asked, transport, proc, pipes, results, exit, available,
                 behaviour, noise>>

--------------------------------------------------------------------------------
(* The peer process, for as long as there is a run that started it. *)

PeerAnswers ==
  /\ proc = "up" /\ exit = None /\ stdin # <<>>
  /\ LET m == Head(stdin)
         a == [id |-> m.id, about |-> m.about, says |-> Says(behaviour[Peer], m.about.step)]
     IN stdout' = stdout \o <<a, a, NL>>
  /\ stdin' = Tail(stdin)
  /\ UNCHANGED <<turn, asked, reply, transport, proc, buffer, results, exit, available,
                 behaviour, troubled, bounds>>

PeerPrints ==
  /\ proc = "up" /\ exit = None /\ noise < MaxNoise
  /\ noise' = noise + 1
  /\ \E t \in {<<Noise>>, <<Noise, NL>>, <<JsonNull, NL>>} : stdout' = stdout \o t
  /\ UNCHANGED <<turn, asked, reply, transport, proc, stdin, buffer, results, exit,
                 available, behaviour, troubled, late>>

\* A peer stops serving for good, without going away.
PeerHangs ==
  /\ proc = "up" /\ exit = None /\ ~Stopping
  /\ proc' = "hung"
  /\ UNCHANGED <<turn, asked, reply, transport, pipes, results, exit, available,
                 behaviour, troubled, bounds>>

\* A peer dies, perhaps with an answer half written.
PeerDies ==
  /\ proc \in {"up", "hung"} /\ exit = None
  /\ proc' = "down"
  /\ troubled' = troubled \cup (IF Stopping THEN {} ELSE {Peer})
  /\ \/ UNCHANGED stdout
     \/ /\ stdout # <<>> /\ stdout[Len(stdout)] = NL
        /\ stdout' = SubSeq(stdout, 1, Len(stdout) - 2)
  /\ UNCHANGED <<turn, asked, reply, transport, stdin, buffer, results, exit, available,
                 behaviour, bounds>>

--------------------------------------------------------------------------------
(* The rows: runSignatureSet, runKemSet and record. *)

\* Mutant of Check: a control that was accepted counts as a pass.
CheckTakesAnything(step, r) ==
  CASE r.says = "unsupported" -> "null"
    [] r.says = "agrees" \/ (r.says # "unsupported" /\ step \in Controls) -> "true"
    [] OTHER -> "false"

\* The `ok` of a check: of an error a control makes a pass, every other check a
\* failure.
Check(step, r) ==
  CASE r.says = "agrees"                      -> "true"
    [] r.says \in {"disagrees", "malformed"}  -> "false"
    [] r.says = "unsupported"                 -> "null"
    [] OTHER                                  -> IF step \in Controls THEN "true" ELSE "false"

\* The byte comparison that goes with a signature the peer made.
Bytes(r, path) ==
  IF r.says \in {"error", "unsupported"} \/ path = "wrapper" \/ Peer \notin Deterministic THEN "null"
  ELSE IF r.says \in {"disagrees", "malformed"} \/ behaviour[Peer] = "hedged"
       THEN "false" ELSE "true"

Row(q) == Rows[Peer][q.row]

\* Code of the harness throws on an answer that lacks what it says it has: the
\* comparison of signature bytes takes a slice of it, decapsulate rejects its length.
Chokes(q, r) ==
  /\ q.row > 0 /\ r.says = "malformed"
  /\ q.step = "encapsulate" \/ (Row(q).path = "backend" /\ Peer \in Deterministic)

\* What the checks of the row become with the reply to the question.
Noted(q, r) ==
  LET one == [step |-> q.step, ok |-> Check(q.step, r), about |-> r.about] IN
  IF q.row = 0 THEN <<>>
  ELSE IF q.step \in Signs
  THEN checks \o <<one, [step |-> "bytes", ok |-> Bytes(r, Row(q).path), about |-> r.about]>>
  ELSE Append(checks, one)

Position(s, x) == CHOOSE i \in DOMAIN s : s[i] = x

\* A row ends with its last step, or at once when the keys differ.
RowEnds(q, r) ==
  \/ q.step = "keys" /\ Check("keys", r) = "false"
  \/ q.step = Steps(Row(q).kind)[Len(Steps(Row(q).kind))]

NextQuestion(q, r) ==
  IF q.row > 0 /\ ~RowEnds(q, r)
  THEN [row |-> q.row, step |-> LET s == Steps(Row(q).kind) IN s[Position(s, q.step) + 1]]
  ELSE IF q.row < Len(Rows[Peer]) THEN [row |-> q.row + 1, step |-> "keys"]
  ELSE [row |-> 0, step |-> "stop"]

Failed(cs) == Cardinality({i \in DOMAIN cs : cs[i].ok = "false"})

Record(q, r, cs) ==
  IF q.row > 0 /\ RowEnds(q, r)
  THEN /\ rows' = rows \cup {[peer |-> Peer, row |-> q.row, checks |-> cs]}
       /\ failures' = failures + Failed(cs) /\ checks' = <<>>
  ELSE UNCHANGED <<rows, failures>> /\ checks' = cs

\* A promise resolves: the code runs to its next await.
Continue ==
  /\ Running /\ ~Stopping /\ reply # None /\ ~Chokes(asked, reply)
  /\ LET q == NextQuestion(asked, reply) IN
     /\ Record(asked, reply, Noted(asked, reply))
     /\ IF q.step = "stop"
        THEN asked' = q /\ reply' = None /\ UNCHANGED <<awaiting, nextId, pending, stdin>>
        ELSE /\ Request(q, closed, Id)
             /\ stdin' = IF closed THEN stdin ELSE Append(stdin, Sent(q))
  /\ UNCHANGED <<turn, closed, proc, stdout, buffer, exit, available, behaviour,
                 troubled, bounds>>

ContinueThrows ==
  /\ Running /\ ~Stopping /\ reply # None /\ Chokes(asked, reply)
  /\ Uncaught

--------------------------------------------------------------------------------
(* The main loop. *)

\* stop() returns when the peer is gone: on to the next one, or to the end.
Stopped == Stopping /\ closed /\ exit = None

Launch ==
  /\ Stopped /\ turn < Len(Peers)
  /\ turn' = turn + 1
  /\ available' = available \cup {Peers[turn + 1]}
  /\ Request(Identify, FALSE, 1)
  /\ stdin' = <<Sent(Identify)>> /\ stdout' = <<>> /\ buffer' = <<>>
  /\ closed' = FALSE /\ proc' = "up"
  /\ UNCHANGED <<results, exit, behaviour, troubled, bounds>>

\* PREPARE throws: a jar with another digest, no compiler, no module, no image.
Absent ==
  /\ Stopped /\ turn < Len(Peers)
  /\ turn' = turn + 1
  /\ UNCHANGED <<asked, reply, transport, proc, pipes, results, exit, available,
                 behaviour, troubled, bounds>>

Finish ==
  /\ Stopped /\ turn = Len(Peers)
  /\ exit' = IF failures > 0 THEN "1" ELSE "0"
  /\ UNCHANGED <<turn, asked, reply, transport, proc, pipes, results, available,
                 behaviour, troubled, bounds>>

\* The process is gone, with its report written or without one.
Done == exit # None /\ UNCHANGED interopVars

Harness ==
  \/ Data \/ DataThrows \/ Closes \/ BrokenPipe \/ Timeout \/ Continue \/ ContinueThrows
  \/ Launch \/ Absent \/ Finish
PeerSteps == PeerAnswers \/ PeerPrints \/ PeerHangs \/ PeerDies
InteropNext == Harness \/ PeerSteps \/ Done

\* The event loop serves timers, streams and resolved promises.  A peer that has
\* not hung answers in the end, and goes away once stop() has ended its stdin; a
\* peer may hang or die at any point.
Fairness ==
  /\ WF_interopVars(Data \/ DataThrows) /\ WF_interopVars(Closes) /\ WF_interopVars(Timeout)
  /\ WF_interopVars(Continue \/ ContinueThrows) /\ WF_interopVars(Launch \/ Absent) /\ WF_interopVars(Finish)
  /\ WF_interopVars(PeerAnswers) /\ WF_interopVars(Stopping /\ proc = "up" /\ PeerDies)

InteropSpec == InteropInit /\ [][InteropNext]_interopVars /\ Fairness

--------------------------------------------------------------------------------
(* Properties. *)

InteropTypeOK ==
  /\ turn \in 0..Len(Peers) /\ nextId \in Nat \ {0} /\ awaiting < nextId
  /\ pending \subseteq 1..(nextId - 1)
  /\ proc \in {"none", "up", "hung", "down"} /\ closed \in BOOLEAN
  /\ exit \in {None, "0", "1", "thrown"} /\ failures \in Nat
  /\ \A r \in rows : \A i \in DOMAIN r.checks : r.checks[i].ok \in {"true", "false", "null"}

\* A check is decided by the peer's answer to its own question, or by a failure
\* of the transport: never by a late answer to an earlier question.
AnswersAreToTheQuestion ==
  \A r \in rows : \A i \in DOMAIN r.checks :
    LET c == r.checks[i] IN
    c.about = None \/ /\ c.about.row = r.row
                      /\ c.about.step = c.step \/ (c.step = "bytes" /\ c.about.step \in Signs)

\* What a peer of this kind gets wrong in a row of this kind.
Disagrees(p, row) ==
  \/ \E i \in DOMAIN Steps(row.kind) :
       Says(behaviour[p], Steps(row.kind)[i]) \in {"disagrees", "malformed"}
  \/ behaviour[p] = "hedged" /\ row.kind = "sig" /\ row.path = "backend" /\ p \in Deterministic

\* Whatever became of other peers, a row of a peer that neither died nor timed
\* out has a failed check exactly if the peer's implementation disagrees: one
\* that accepts everything, or ignores the context, is found out, and one that
\* cannot do something is not blamed for it.  Nor is one that meets a control with
\* an error, also where the comment asks a KEM peer for a secret, "not an error".
RowsTellThePeer ==
  \A r \in rows : r.peer \notin troubled =>
    ((\E i \in DOMAIN r.checks : r.checks[i].ok = "false") <=> Disagrees(r.peer, Rows[r.peer][r.row]))

\* When a peer is stopped, hanging, dead or sound, every row of every peer that
\* could be prepared has been recorded, and the exit code of a run that was not
\* ended by an exception covers them all.
ExitCoversTheMatrix ==
  /\ Stopping => \A p \in available : \A n \in DOMAIN Rows[p] : \E r \in rows : r.peer = p /\ r.row = n
  /\ exit \notin {None, "thrown"} =>
       (exit = "1" <=> \E r \in rows : \E i \in DOMAIN r.checks : r.checks[i].ok = "false")

\* What a peer's output holds that ends the run with an exception.
Lethal ==
  \/ \E i \in DOMAIN (buffer \o stdout) : (buffer \o stdout)[i] = JsonNull
  \/ reply # None /\ reply.says = "malformed"

\* Whenever peers hang or die and whatever they print, the run does not wait for
\* ever for an answer: it ends, or stands in stop(), which waits without a timeout
\* for a peer that hangs.  Only a line that is `null' and an answer without its
\* signature or ciphertext end it by an exception and leave the matrix unfinished.
RunEnds ==
  /\ <>(exit # None \/ (Stopping /\ proc = "hung"))
  /\ [](exit = "thrown" => Lethal)

\* The matrix while it grows (run-interop.mjs): every check was decided by the
\* answer to its own question, and nothing is left out of it or of the exit code.
MatrixInv ==
  /\ InteropTypeOK
  /\ AnswersAreToTheQuestion
  /\ ExitCoversTheMatrix

================================================================================
