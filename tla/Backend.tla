-------------------------------- MODULE Backend --------------------------------
(***************************************************************************)
(* Which implementation runs a call: the pin and the requirement an        *)
(* operator sets, the probes of the runtime (src/_native.node.js), the     *)
(* assertions of src/backend.js and the dispatch of the wrappers           *)
(* (ml-dsa*.js, ml-kem*.js, slh-dsa.js).  One process after another runs   *)
(* under an environment and on a runtime of its own, and verifies what the *)
(* ones before it have signed; a process is one instance of the modules.   *)
(*                                                                         *)
(* Keys come from one master, messages are all the same: a signature is    *)
(* its parameter set and the context it is bound to, which is what the two *)
(* implementations have to agree on.  Malformed keys and signatures are    *)
(* left out.  Of a runtime the model keeps which keys OpenSSL generates,   *)
(* which private keys it imports in the form the package passes them, and  *)
(* what it does with a context argument, which is the same for all sets.   *)
(***************************************************************************)

CONSTANTS
  ALGORITHMS,  \* parameter sets the probe asks for
  Jwk, Kem,    \* those keyed by a JWK; those for key encapsulation
  Prober,      \* the set contexts are probed with, ML-DSA-44
  Wrapped,     \* sets the package has a wrapper for
  Runtimes,    \* runtimes a process may run on
  Contexts,    \* context strings callers use
  Demands,     \* lists of sets callers of requireBackend name
  None

Rejects == "rejects"
Runtime == [node : BOOLEAN, generates : SUBSET ALGORITHMS, imports : SUBSET ALGORITHMS,
            context : {"honours", "ignores", Rejects}]
Environment == [pin : {"unset", "openssl", "javascript", "misspelled"}, require : BOOLEAN]

\* What a caller can pass as options: none, an empty context, one, or a value
\* of the wrong type or length.
Options == {"absent", "empty", "misuse"} \cup Contexts

ASSUME BackendAssumption ==
  /\ Jwk \subseteq ALGORITHMS /\ Kem \subseteq ALGORITHMS /\ Jwk \cap Kem = {}
  /\ Prober \in ALGORITHMS /\ Wrapped \subseteq ALGORITHMS
  /\ Runtimes \subseteq Runtime
  /\ Demands \subseteq SUBSET ALGORITHMS
  /\ Contexts \cap {None, Rejects, "absent", "empty", "misuse"} = {}
  /\ None \notin {Rejects, "a", "b"} \cup ALGORITHMS

VARIABLES
  running,          \* whether a process is running
  runtime, env,     \* what it runs on and under
  native,           \* the native export, or "unloaded" before its module is
  contextHonoured,  \* "unprobed" (null), TRUE or FALSE as "yes" or "no"
  reporting,        \* whether backend.js is loaded
  required,         \* history: what requireBackend has let pass in this process
  call,             \* history: the last call of a wrapper in this process
  wire              \* the last signature any process has made, or None

vars == <<running, runtime, env, native, contextHonoured, reporting, required, call, wire>>

NoCall == [op |-> "none", alg |-> None, plain |-> TRUE, where |-> "nowhere",
           outcome |-> "none", expected |-> "none"]
Sets == Wrapped \ Kem   \* sets with sign and verify
Signature == [alg : Sets, options : Options \ {"misuse"}, bound : Contexts \cup {None}]

TypeOK ==
  /\ running \in BOOLEAN /\ reporting \in BOOLEAN
  /\ runtime \in Runtimes /\ env \in Environment
  /\ native \in {"unloaded", "null", "openssl"}
  /\ contextHonoured \in {"unprobed", "yes", "no"}
  /\ required \in [kind : {"none", "javascript", "openssl"}, sets : SUBSET ALGORITHMS]
  /\ call \in [op : {"none", "keypairFromMaster", "sign", "verify", "kem", "requireBackend"},
               alg : Wrapped \cup {None}, plain : BOOLEAN,
               where : {"nowhere", "openssl", "javascript"},
               outcome : {"none", "done", "throws", "true", "false"},
               expected : {"none", "done", "throws", "true", "false"}]
  /\ wire \in Signature \cup {None}

-------------------------------------------------------------------------------
(* Start-up. *)

Fresh ==
  /\ native' = "unloaded" /\ contextHonoured' = "unprobed" /\ reporting' = FALSE
  /\ required' = [kind |-> "none", sets |-> {}]
  /\ call' = NoCall
  /\ UNCHANGED wire

Init ==
  /\ running = FALSE /\ runtime \in Runtimes /\ env \in Environment
  /\ native = "unloaded" /\ contextHonoured = "unprobed" /\ reporting = FALSE
  /\ required = [kind |-> "none", sets |-> {}]
  /\ call = NoCall /\ wire = None

\* A process starts, wherever and however its operator likes.
Start ==
  /\ ~running /\ running' = TRUE
  /\ runtime' \in Runtimes /\ env' \in Environment
  /\ Fresh

Exit ==
  /\ running' = FALSE
  /\ UNCHANGED <<runtime, env>>
  /\ Fresh

\* Away from Node there is no process.env: neither variable is seen.
PIN == IF runtime.node /\ env.pin # "unset" THEN env.pin ELSE None
REQUIRE_NATIVE == runtime.node /\ env.require

\* probe: the sets whose keys this runtime generates and, where keys go in as
\* JWKs, imports.
SUPPORTED ==
  {alg \in ALGORITHMS : runtime.node /\ alg \in runtime.generates /\ (alg \in Jwk => alg \in runtime.imports)}

\* Mutant of NativeExport: the pin is read and does nothing.
NativeExportUnpinned == IF SUPPORTED = {} THEN "null" ELSE "openssl"

NativeExport == IF PIN = "javascript" \/ SUPPORTED = {} THEN "null" ELSE "openssl"

\* What native is once its module is loaded; a module is evaluated once.
Loaded == IF native = "unloaded" THEN NativeExport ELSE native

\* import 'kxco-post-quantum/ml-dsa', or another wrapper by its own path: only
\* the wrapper and #native are loaded.
ImportWrapper ==
  /\ running /\ PIN # "misspelled"
  /\ native' = Loaded
  /\ UNCHANGED <<running, runtime, env, contextHonoured, reporting, required, call, wire>>

\* import 'kxco-post-quantum': the wrappers, #native and backend.js, whose last
\* line asks for the native backend when the environment does.
ImportIndex ==
  /\ running /\ PIN # "misspelled"
  /\ REQUIRE_NATIVE => Loaded = "openssl"
  /\ native' = Loaded /\ reporting' = TRUE
  /\ UNCHANGED <<running, runtime, env, contextHonoured, required, call, wire>>

\* A module that throws while it is imported ends the process.
ImportFails ==
  /\ running
  /\ PIN = "misspelled" \/ (REQUIRE_NATIVE /\ Loaded = "null")
  /\ Exit

-------------------------------------------------------------------------------
(* Reports and assertions. *)

BackendKind == IF native = "openssl" THEN "openssl" ELSE "javascript"
isNative(alg) == native = "openssl" /\ alg \in SUPPORTED

\* Mutant of Missing: only the presence of the backend is required.
MissingNone(kind, sets) == {}
Missing(kind, sets) == {alg \in sets : kind = "openssl" /\ ~isNative(alg)}

\* What backend() gives as the reason for the JavaScript implementation.
Reason == IF PIN = "javascript" THEN "pinned" ELSE "absent"

requireBackend(kind, sets) ==
  /\ running /\ reporting
  /\ IF BackendKind = kind /\ Missing(kind, sets) = {}
     THEN /\ required' = [kind |-> kind, sets |-> required.sets \cup sets]
          /\ UNCHANGED call
     ELSE /\ call' = [NoCall EXCEPT !.op = "requireBackend", !.outcome = "throws", !.expected = "throws"]
          /\ UNCHANGED required
  /\ UNCHANGED <<running, runtime, env, native, contextHonoured, reporting, wire>>

-------------------------------------------------------------------------------
(* The runtime's OpenSSL, and the probe of its contexts. *)

\* The context OpenSSL binds a signature to, or checks it under, when it is
\* passed context: Rejects when the call throws.
Bind(context) ==
  IF context = None \/ runtime.context = "honours" THEN context
  ELSE IF runtime.context = "ignores" THEN None ELSE Rejects

\* Mutant of contextProbe: that what was signed verifies is enough.
contextProbeAccepts == Prober \in SUPPORTED /\ Bind("a") # Rejects

\* Sign under one context, then the same context must verify and another not.
contextProbe ==
  /\ Prober \in SUPPORTED
  /\ Bind("a") # Rejects
  /\ Bind("b") # Bind("a")

supportsContext == IF contextHonoured = "unprobed" THEN contextProbe ELSE contextHonoured = "yes"

-------------------------------------------------------------------------------
(* The wrappers. *)

usesNative(alg, context) ==
  /\ native = "openssl" /\ alg \in SUPPORTED
  /\ context = None \/ supportsContext

\* The first call with a context probes; the answer is kept.
Probe(alg, context) ==
  contextHonoured' =
    IF native = "openssl" /\ alg \in SUPPORTED /\ context # None
    THEN IF supportsContext THEN "yes" ELSE "no"
    ELSE contextHonoured

normalizeContext(options) == IF options \in Contexts THEN options ELSE None

Where(alg, context) == IF usesNative(alg, context) THEN "openssl" ELSE "javascript"
Called(op, alg, context, where, outcome, expected) ==
  call' = [op |-> op, alg |-> alg, plain |-> context = None, where |-> where,
           outcome |-> outcome, expected |-> expected]

\* OpenSSL is given the secret key expanded, as PKCS8, or for SLH-DSA as a JWK.
Imports(alg) == alg \in runtime.imports

Ready == running /\ native # "unloaded"

keypairFromMaster(alg) ==
  /\ Ready
  /\ Called("keypairFromMaster", alg, None, "javascript", "done", "done")
  /\ UNCHANGED <<running, runtime, env, native, contextHonoured, reporting, required, wire>>

sign(alg, options) ==
  LET context == normalizeContext(options)
      where   == Where(alg, context)
      bound   == IF where = "openssl" THEN Bind(context) ELSE context
      throws  == where = "openssl" /\ (~Imports(alg) \/ bound = Rejects)
  IN /\ Ready /\ options # "misuse"
     /\ wire' = IF throws THEN wire ELSE [alg |-> alg, options |-> options, bound |-> bound]
     /\ Called("sign", alg, context, where, IF throws THEN "throws" ELSE "done", "done")
     /\ Probe(alg, context)
     /\ UNCHANGED <<running, runtime, env, native, reporting, required>>

\* The context a caller means: an empty one is none (FIPS 204, 5.2).
Meant(options) == IF options = "empty" THEN "absent" ELSE options
Truth(b) == IF b THEN "true" ELSE "false"

\* A call OpenSSL refuses is a signature that does not verify.
verify(alg, options) ==
  LET context == normalizeContext(options)
      where   == Where(alg, context)
      checked == IF where = "openssl" THEN Bind(context) ELSE context
  IN /\ Ready /\ options # "misuse" /\ wire # None
     /\ Called("verify", alg, context, where,
               Truth(checked # Rejects /\ wire.alg = alg /\ wire.bound = checked),
               Truth(wire.alg = alg /\ Meant(wire.options) = Meant(options)))
     /\ Probe(alg, context)
     /\ UNCHANGED <<running, runtime, env, native, reporting, required, wire>>

\* sign and verify refuse a malformed context before anything else.
Misuse(op, alg) ==
  /\ Ready
  /\ Called(op, alg, None, "nowhere", "throws", "throws")
  /\ UNCHANGED <<running, runtime, env, native, contextHonoured, reporting, required, wire>>

\* encapsulate, and decapsulate what came out of it.
kem(alg) ==
  LET throws == Where(alg, None) = "openssl" /\ ~Imports(alg)
  IN /\ Ready
     /\ Called("kem", alg, None, Where(alg, None), IF throws THEN "throws" ELSE "done", "done")
     /\ UNCHANGED <<running, runtime, env, native, contextHonoured, reporting, required, wire>>

Next ==
  \/ Start \/ (running /\ Exit)
  \/ ImportWrapper \/ ImportIndex \/ ImportFails
  \/ \E kind \in {"openssl", "javascript"}, sets \in Demands : requireBackend(kind, sets)
  \/ \E alg \in Wrapped : keypairFromMaster(alg)
  \/ \E alg \in Sets, options \in Options : sign(alg, options) \/ verify(alg, options)
  \/ \E alg \in Sets, op \in {"sign", "verify"} : Misuse(op, alg)
  \/ \E alg \in Wrapped \cap Kem : kem(alg)

Spec == Init /\ [][Next]_vars

-------------------------------------------------------------------------------
(* Properties. *)

\* Whatever made a signature and whatever checks it, on whatever runtimes and
\* under whatever pins: it verifies under the context its signer meant and
\* under no other (the fallbacks of the wrappers and probeContext).
SignaturesInterop == call.op = "verify" => call.outcome = call.expected

\* A set of PKCS8 keys that the runtime generates and does not import: probe()
\* tries the import of JWKs alone.
Untried(alg) == alg \in ALGORITHMS \ (Jwk \cup runtime.imports)

\* No call throws on OpenSSL that the JavaScript implementation would have
\* completed (_native.node.js 158-161: fall back instead of throwing), but for
\* the keys whose import was not tried.
NothingThrows ==
  call.op \in {"keypairFromMaster", "sign", "kem"} =>
    call.outcome = call.expected \/ (call.where = "openssl" /\ Untried(call.alg))

\* A process pinned to the JavaScript implementation runs no call on OpenSSL,
\* and one whose pin is misspelled makes no call at all (_native.node.js 43-49).
PinIsObeyed ==
  /\ PIN = "javascript" => call.where # "openssl"
  /\ PIN = "misspelled" => call = NoCall

\* Once requireBackend has returned, it holds for the calls that follow:
\* nothing runs on OpenSSL under 'javascript'; under 'openssl' the named sets
\* sign, verify and encapsulate there, as long as no context is given.
RequirementHolds ==
  /\ required.kind = "javascript" => call.where # "openssl"
  /\ required.kind = "openssl" =>
       (call.op \in {"sign", "verify", "kem"} /\ call.alg \in required.sets /\ call.plain
          => call.where # "javascript")

\* backend.js 49-51: a process that lands on the JavaScript backend says why, and
\* "absent means the runtime cannot do it": not one parameter set of it could
\* have run on OpenSSL.
AbsentMeansItCannot ==
  reporting /\ BackendKind = "javascript" /\ Reason = "absent" => SUPPORTED = {}

\* The choice of the implementation (_native.node.js, backend.js): it follows the
\* pin, takes OpenSSL where that would throw only for keys whose import was not tried,
\* and says truly why it was not taken.
BackendInv ==
  /\ TypeOK
  /\ NothingThrows
  /\ PinIsObeyed
  /\ AbsentMeansItCannot

================================================================================
