------------------------------ MODULE AcvpAnswers ------------------------------
(***************************************************************************)
(* Three programs that put NIST's test groups to an implementation:        *)
(* run-acvp.mjs grades the JavaScript primitives, selftest.mjs grades the  *)
(* answers responders.mjs would send to NIST's server, and selftest.mjs    *)
(* --native those of responders-native.mjs, computed by OpenSSL through    *)
(* node:crypto.                                                            *)
(*                                                                         *)
(* A test's want is an output ("value"), a verdict ("accept", "reject"),   *)
(* or "none" where the expected results lack it.  The implementations are  *)
(* external: right, or broken in one way on one surface.                   *)
(***************************************************************************)
EXTENDS Integers, Sequences, FiniteSets, Functions

CONSTANTS
  Prompts,  \* vector sets: sequences of groups
  Caps,     \* values of --max-per-group, Infinity included
  Infinity,
  Programs  \* the programs run: "run-acvp", "selftest", "native"

\* REQUIRED, and the strength a parameter set requires of a hash.
Bits128 == {"ML-DSA-44", "SLH-DSA-SHA2-128s", "SLH-DSA-SHA2-128f", "SLH-DSA-SHAKE-128s", "SLH-DSA-SHAKE-128f"}
Bits192 == {"ML-DSA-65", "SLH-DSA-SHA2-192s", "SLH-DSA-SHA2-192f", "SLH-DSA-SHAKE-192s", "SLH-DSA-SHAKE-192f"}
Bits256 == {"ML-DSA-87", "SLH-DSA-SHA2-256s", "SLH-DSA-SHA2-256f", "SLH-DSA-SHAKE-256s", "SLH-DSA-SHAKE-256f"}
Strength(ps) == CASE ps \in Bits128 -> 128 [] ps \in Bits192 -> 192 [] ps \in Bits256 -> 256

Services == {"keyGen", "encapsulation", "decapsulation", "keyCheck", "sigGen", "sigVer", "unknown"}
Test == [want : {"value", "accept", "reject", "none"}, hash : STRING]

\* NIST's groups.  An interface, a pre-hash and an mu are members of signature
\* groups: elsewhere they are as where nobody asks for them.  Only ML-DSA has an
\* mu, and only its internal interface can be given one from outside.
Group ==
  {g \in [ps : STRING, family : {"ML-KEM", "ML-DSA", "SLH-DSA"}, fn : Services, iface : {"internal", "external"},
          pre : {"pure", "preHash"}, mu : {"absent", "false", "true"}, tests : Seq(Test)] :
     /\ g.mu # "absent" => g.family = "ML-DSA"
     /\ g.mu = "true" => g.iface = "internal"
     /\ g.fn \notin {"sigGen", "sigVer", "unknown"} => g.iface = "external" /\ g.pre = "pure" /\ g.mu = "absent"
     /\ g.fn \in {"sigGen", "sigVer"} =>
          g.family # "ML-KEM" /\ g.ps \in Bits128 \cup Bits192 \cup Bits256 \cup {"unknown"}}

ASSUME AnswersAssumption ==
  /\ \A p \in Prompts : p \in Seq(Group)
  /\ Caps \subseteq Nat /\ Infinity \in Caps
  /\ "run-acvp" \in Programs /\ Programs \subseteq {"run-acvp", "selftest", "native"}

VARIABLES
  groups,   \* the prompt being answered
  impl,     \* surface -> how the implementation behaves there
  program, cap,
  done,     \* groups graded
  tally,    \* parameter set -> [pass, fail, skip]
  status    \* "idle", "running", "exit 0", "exit 1", "died"

vars == <<groups, impl, program, cap, done, tally, status>>

Surface(g) == <<g.family, g.fn, g.iface, g.pre>>
Surfaces == {Surface(g) : g \in UNION {Range(p) : p \in Prompts}}
Output(g) == g.fn \in {"keyGen", "encapsulation", "decapsulation", "sigGen"}

Zero == [pass |-> 0, fail |-> 0, skip |-> 0]

--------------------------------------------------------------------------------
(* The primitives: external. *)

\* The hash objects of HASHES, the SHAKEs with the output HashML-DSA fixes.
OutputBits(h) ==
  CASE h \in {"SHA2-224", "SHA2-512/224", "SHA3-224"} -> 224
    [] h \in {"SHA2-256", "SHA2-512/256", "SHA3-256", "SHAKE-128"} -> 256
    [] h \in {"SHA2-384", "SHA3-384"} -> 384
    [] h \in {"SHA2-512", "SHA3-512", "SHAKE-256"} -> 512

Hashes == {"SHA2-224", "SHA2-256", "SHA2-384", "SHA2-512", "SHA2-512/224", "SHA2-512/256",
           "SHA3-224", "SHA3-256", "SHA3-384", "SHA3-512", "SHAKE-128", "SHAKE-256"}
Known(h) == h \in Hashes

\* alg.prehash(hash) throws for a hash below the parameter set's strength.
PrehashRefused(g, h) == OutputBits(h) \div 2 < Strength(g.ps)

\* What a call returns: noble 0.7.1 throws at an option it does not know, and an
\* implementation refuses a bad key or signature by throwing or by saying so.
Returns(g, w, opts) ==
  LET b == impl[Surface(g)]
      right == IF w = "none" THEN (IF Output(g) THEN "value" ELSE "accept")
               ELSE IF w = "reject" /\ g.fn = "keyCheck" THEN "throws" ELSE w IN
  IF opts # {} /\ g.family # "ML-DSA" THEN "throws"
  ELSE IF opts = {} /\ g.mu = "true" THEN (IF Output(g) THEN "another value" ELSE "reject")
  ELSE CASE b = "right"   -> right
         [] b = "wrong"   -> IF Output(g) THEN "another value"
                             ELSE IF w = "accept" THEN "reject" ELSE "accept"
         [] b = "accepts" -> IF Output(g) THEN right ELSE "accept"
         [] b = "throws"  -> "throws"

\* OpenSSL through node:crypto is never told of an internal interface, an external
\* mu, a pre-hash or randomness: it answers another question.
NodeReturns(g, w) ==
  IF g.iface = "internal" \/ g.mu = "true" \/ g.pre = "preHash"
  THEN (IF Output(g) THEN "another value" ELSE "reject")
  ELSE Returns(g, w, {})

Verdict(r) == IF r = "throws" THEN "reject" ELSE r

--------------------------------------------------------------------------------
(* run-acvp.mjs. *)

\* Mutant of RunnerOpts: the runner as it was, externalMu with every internal group.
RunnerOptsAlways(g) == IF g.iface = "internal" THEN {"externalMu"} ELSE {}

\* signerFor(): options for the internal interface.
RunnerOpts(g) == IF g.iface = "internal" /\ g.mu # "absent" THEN {"externalMu"} ELSE {}

Unsupported(g, t) == g.pre = "preHash" /\ g.iface = "external" /\ (~Known(t.hash) \/ PrehashRefused(g, t.hash))

\* The runners: what becomes of one test.  Key generation and the lookup of a
\* verdict are outside every try: an exception there ends the process.
RunnerGrade(g, t) ==
  LET r == Returns(g, t.want, RunnerOpts(g))
      graded == IF t.want = "none" THEN "fail"
                ELSE IF (IF Output(g) THEN r ELSE Verdict(r)) = t.want THEN "pass" ELSE "fail" IN
  IF g.ps = "unknown" \/ g.fn = "unknown" \/ Unsupported(g, t) THEN "skip"
  ELSE IF (g.fn = "keyGen" /\ (r = "throws" \/ t.want = "none")) \/ (g.fn = "sigVer" /\ t.want = "none") THEN "dies"
  ELSE graded

--------------------------------------------------------------------------------
(* The responders and the self-test that grades them. *)

\* Mutant of ResponderOpts: the option is left out altogether.
ResponderOptsNone(g) == {}

ResponderOpts(g) == IF g.iface = "internal" THEN {"externalMu"} ELSE {}

\* responders.mjs: an answer, or "throws", which refuses what was asked with it.
Answer(g, t) ==
  LET r == Returns(g, t.want, ResponderOpts(g)) IN
  IF g.ps = "unknown" \/ Unsupported(g, t) \/ g.fn = "unknown" THEN "throws"
  ELSE IF Output(g) THEN r ELSE Verdict(r)

\* Mutant of Gate: the internal interface is taken for the external one.
GateInternal(g) == g.mu = "true" \/ g.pre = "preHash"

\* signatureGate(): what crypto.verify cannot be asked.
Gate(g) == g.iface = "internal" \/ g.mu = "true" \/ g.pre = "preHash"

\* NODE_ALG: the parameter sets the OpenSSL build has.
NodeAlg ==
  {"ML-KEM-512", "ML-KEM-768", "ML-KEM-1024", "ML-DSA-44", "ML-DSA-65", "ML-DSA-87",
   "SLH-DSA-SHA2-128f", "SLH-DSA-SHA2-192s", "SLH-DSA-SHAKE-256f"}

\* responders-native.mjs: seeds and randomness cannot be passed on either.
NativeAnswer(g, t) ==
  IF g.ps \notin NodeAlg \/ g.fn \in {"keyGen", "encapsulation", "sigGen", "unknown"}
     \/ (g.fn = "sigVer" /\ Gate(g))
  THEN "throws"
  ELSE IF Output(g) THEN NodeReturns(g, t.want) ELSE Verdict(NodeReturns(g, t.want))

\* selftest.mjs: one group at a time, refused as a whole; compare().
SelftestGrade(g, t) ==
  LET ask(u) == IF program = "native" THEN NativeAnswer(g, u) ELSE Answer(g, u) IN
  IF \E u \in Range(g.tests) : ask(u) = "throws" THEN "skip"
  ELSE IF t.want # "none" /\ ask(t) = t.want THEN "pass" ELSE "fail"

Grade(g, t) == IF program = "run-acvp" THEN RunnerGrade(g, t) ELSE SelftestGrade(g, t)

--------------------------------------------------------------------------------
(* registrations.mjs: what NIST's server is told it may ask. *)

HashStrength ==
  [h \in Hashes |->
    CASE h \in {"SHA2-224", "SHA2-512/224", "SHA3-224"} -> 112
      [] h \in {"SHA2-256", "SHA2-512/256", "SHA3-256", "SHAKE-128"} -> 128
      [] h \in {"SHA2-384", "SHA3-384"} -> 192
      [] h \in {"SHA2-512", "SHA3-512", "SHAKE-256"} -> 256]

\* Mutant of HashesFor: the floor is compared with the digest's length.
HashesForLength(ps) == {h \in Hashes : 2 * HashStrength[h] >= Strength(ps)}

HashesFor(ps) == {h \in Hashes : HashStrength[h] >= Strength(ps)}

Registered(g) ==
  /\ g.ps # "unknown" /\ g.fn # "unknown" /\ \A t \in Range(g.tests) : t.want # "none"
  /\ g.pre = "preHash" /\ g.iface = "external" => \A t \in Range(g.tests) : t.hash \in HashesFor(g.ps)

--------------------------------------------------------------------------------
(* A run. *)

\* loadSet(): the first tests of every group, up to the cap.
Taken(g) == IF cap = Infinity THEN g.tests ELSE SubSeq(g.tests, 1, IF cap < Len(g.tests) THEN cap ELSE Len(g.tests))

NoGroups == <<>>

Init ==
  /\ groups = NoGroups /\ impl = [s \in Surfaces |-> "right"] /\ program = "run-acvp" /\ cap = Infinity
  /\ done = 0 /\ tally = [p \in {} |-> Zero] /\ status = "idle"

\* A program is started, on a prompt and against an implementation.
Begin ==
  /\ status = "idle" /\ status' = "running"
  /\ groups' \in Prompts
  /\ impl' \in {[s \in Surfaces |-> IF s = x THEN b ELSE "right"] :
                 x \in Surfaces, b \in {"right", "wrong", "accepts", "throws"}}
  /\ program' \in Programs /\ cap' \in Caps /\ (program' # "run-acvp" => cap' = Infinity)
  /\ done' = 0 /\ tally' = [p \in {g.ps : g \in Range(groups')} |-> Zero]

Count(g, grade) == Cardinality({i \in DOMAIN Taken(g) : Grade(g, Taken(g)[i]) = grade})

\* Mutant of Counted: a skip counts for one test, also where it is for a group.
CountedOnce(g) ==
  [pass |-> Count(g, "pass"), fail |-> Count(g, "fail"),
   skip |-> IF Count(g, "skip") > 0 THEN 1 ELSE 0]

\* Tally.pass, fail and skip.
Counted(g) == [pass |-> Count(g, "pass"), fail |-> Count(g, "fail"), skip |-> Count(g, "skip")]

Plus(a, b) == [pass |-> a.pass + b.pass, fail |-> a.fail + b.fail, skip |-> a.skip + b.skip]

GradeGroup ==
  /\ status = "running" /\ done < Len(groups)
  /\ LET g == groups[done + 1] IN
     IF Count(g, "dies") > 0 THEN status' = "died" /\ UNCHANGED <<done, tally>>
     ELSE /\ done' = done + 1 /\ UNCHANGED status
          /\ tally' = [tally EXCEPT ![g.ps] = Plus(@, Counted(g))]
  /\ UNCHANGED <<groups, impl, program, cap>>

Failing == \E p \in DOMAIN tally : tally[p].fail > 0

\* The totals and the report.
Report ==
  /\ status = "running" /\ done = Len(groups)
  /\ status' = IF Failing THEN "exit 1" ELSE "exit 0"
  /\ UNCHANGED <<groups, impl, program, cap, done, tally>>

Next == Begin \/ GradeGroup \/ Report

Spec == Init /\ [][Next]_vars

--------------------------------------------------------------------------------
(* Properties. *)

\* The tests of the first n groups that count towards a parameter set.
Graded(p, n) == UNION {{i} \X DOMAIN Taken(groups[i]) : i \in {i \in 1..n : groups[i].ps = p}}
Right == \A s \in Surfaces : impl[s] = "right"
Runner == program = "run-acvp"
SlhInternal(g) == g.family = "SLH-DSA" /\ g.iface = "internal"

\* Types, and the books: every test taken from a graded group is counted exactly
\* once, under its parameter set; a run that died has no exit status of its own.
TypeOK ==
  /\ groups \in Prompts \cup {NoGroups} /\ DOMAIN impl = Surfaces
  /\ program \in Programs /\ cap \in Caps /\ done \in 0..Len(groups)
  /\ status \in {"idle", "running", "exit 0", "exit 1", "died"}
  /\ \A p \in DOMAIN tally : tally[p].pass + tally[p].fail + tally[p].skip = Cardinality(Graded(p, done))

\* What the implementation says of a test, asked with the options the group has.
Conforms(g, t) ==
  LET r == Returns(g, t.want, IF g.mu = "true" THEN {"externalMu"} ELSE {}) IN
  t.want # "none" /\ (IF Output(g) THEN r ELSE Verdict(r)) = t.want

\* run-acvp.mjs exits with 0 exactly if the implementation conforms on every test
\* it took and did not name as skipped: no wrong call of the runner's, no
\* exception and no cap makes a failure of a right implementation, or hides one.
ExitTellsTheImplementation ==
  Runner /\ status \notin {"idle", "running"} =>
    (status = "exit 0" <=>
       \A i \in DOMAIN groups : \A t \in Range(Taken(groups[i])) :
         RunnerGrade(groups[i], t) = "skip" \/ Conforms(groups[i], t))

\* Whatever the registration lets the server ask, responders.mjs answers and, with
\* a right implementation, answers rightly: "a registration that claims a
\* capability we cannot meet is the bug to fix" (8-10).  SLH-DSA's internal
\* interface is left out: responders.mjs:80 passes it an option that it refuses.
RegisteredIsAnsweredElsewhere ==
  program = "selftest" /\ status \notin {"idle", "running"} /\ Right =>
    \A g \in Range(groups) : Registered(g) /\ ~SlhInternal(g) =>
      \A t \in Range(g.tests) : SelftestGrade(g, t) = "pass"

\* "Deliberately identical to run-acvp.mjs" (4-6): where no test of a group is
\* refused, an answer matches NIST's exactly if the runner passes the test, of a
\* right and of a broken implementation; SLH-DSA's internal interface left out.
RespondersFollowTheRunner ==
  program = "selftest" /\ status \notin {"idle", "running"} =>
    \A g \in Range(groups) : ~SlhInternal(g) /\ (\A u \in Range(g.tests) : RunnerGrade(g, u) # "skip") =>
      \A t \in Range(g.tests) : SelftestGrade(g, t) = "pass" <=> RunnerGrade(g, t) = "pass"

\* responders-native.mjs refuses what node:crypto cannot be asked "rather than
\* guess" (22-25): a right OpenSSL has no mismatch that NIST's results explain.
NativeNeverGuesses ==
  program = "native" /\ Right =>
    \A i \in 1..done : \A t \in Range(groups[i].tests) :
      SelftestGrade(groups[i], t) = "fail" => t.want = "none"

\* The two promises of responders.mjs (4-10): it computes what the runner does, and
\* meets every capability that is registered.
RespondersAnswer ==
  /\ RespondersFollowTheRunner
  /\ RegisteredIsAnsweredElsewhere

=================================================================================
