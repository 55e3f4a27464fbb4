----------------------------- MODULE Backend_proofs -----------------------------
(***************************************************************************)
(* Proofs about Backend, for every set of parameter sets, runtimes,        *)
(* contexts and demands.                                                   *)
(*                                                                         *)
(* What a call relies on was decided earlier: by the pin and the probe     *)
(* when #native was loaded (Import), by the first call with a context      *)
(* (Context), by requireBackend (Requirement), and, for verify, in another *)
(* process (Wire).  Dispatch and Outcome are what the last call shows.     *)
(***************************************************************************)
EXTENDS Backend, TLAPS

Import ==
  /\ native = "openssl" => PIN # "javascript"
  /\ native # "unloaded" => PIN # "misspelled"
  /\ native = "null" => PIN = "javascript" \/ SUPPORTED = {}
  /\ native = "unloaded" => reporting = FALSE /\ call = NoCall /\ required.kind = "none"

Context == contextHonoured = "yes" => runtime.context = "honours"

Requirement ==
  /\ required.kind = "none" => required.sets = {}
  /\ required.kind = "openssl" => native = "openssl" /\ required.sets \subseteq SUPPORTED
  /\ required.kind = "javascript" => native = "null"

Wire == wire # None => wire.bound = normalizeContext(wire.options)

Dispatch ==
  /\ call.where = "openssl" => native = "openssl"
  /\ native = "openssl" /\ call.op \in {"sign", "verify", "kem"} /\ call.plain = TRUE
       /\ call.where = "javascript" => call.alg \notin SUPPORTED

\* A call that OpenSSL refused for want of an import nobody tried.
Refused(op, alg, where, outcome) ==
  op \in {"sign", "kem"} /\ outcome = "throws" /\ where = "openssl" /\ Untried(alg)

Outcome == call.outcome = call.expected \/ Refused(call.op, call.alg, call.where, call.outcome)

IInv == TypeOK /\ Import /\ Context /\ Requirement /\ Wire /\ Dispatch /\ Outcome

-------------------------------------------------------------------------------
\* The probe says yes only of a runtime that honours contexts.
LEMMA ProbeSound ==
  ASSUME TypeOK, contextProbe
  PROVE  runtime.context = "honours"
<1> USE BackendAssumption
<1>1. runtime.context \in {"honours", "ignores", Rejects}
  BY DEF TypeOK, Runtime
<1>2. runtime.context # Rejects
  BY DEF contextProbe, Bind, Rejects
<1>3. runtime.context # "ignores"
  BY DEF contextProbe, Bind, Rejects
<1> QED BY <1>1, <1>2, <1>3

\* A call that OpenSSL runs with a context binds it to that context.
LEMMA NativeBinds ==
  ASSUME TypeOK, Context, NEW alg, NEW context, usesNative(alg, context)
  PROVE  Bind(context) = context
<1>1. CASE context = None
  BY <1>1 DEF Bind
<1>2. CASE context # None
  <2>1. runtime.context = "honours"
    BY <1>2, ProbeSound DEF usesNative, supportsContext, Context
  <2> QED BY <2>1 DEF Bind
<1> QED BY <1>1, <1>2

\* Two callers' options come to the same context exactly when they mean it.
LEMMA NormalizeMeans ==
  ASSUME NEW o \in Options \ {"misuse"}, NEW p \in Options \ {"misuse"}
  PROVE  /\ normalizeContext(o) \in Contexts \cup {None}
         /\ normalizeContext(o) = normalizeContext(p) <=> Meant(o) = Meant(p)
BY BackendAssumption DEF Options, normalizeContext, Meant

\* A set the process has on OpenSSL can be loaded for signing, if it was tried.
LEMMA SupportedImports ==
  ASSUME NEW alg \in SUPPORTED
  PROVE  Imports(alg) \/ Untried(alg)
BY DEF SUPPORTED, Imports, Untried

LEMMA ProbeKeepsContext ==
  ASSUME TypeOK, Context, NEW alg, NEW context, Probe(alg, context), UNCHANGED runtime
  PROVE  contextHonoured' \in {"unprobed", "yes", "no"} /\ Context'
BY ProbeSound DEF Probe, supportsContext, Context, TypeOK

LEMMA InitIInv == Init => IInv
<1> SUFFICES ASSUME Init PROVE IInv
  OBVIOUS
<1> USE BackendAssumption DEF Init
<1>1. TypeOK
  BY DEF TypeOK, NoCall
<1>2. Import /\ Context /\ Requirement /\ Wire
  BY DEF Import, Context, Requirement, Wire
<1>3. Dispatch /\ Outcome
  BY DEF Dispatch, Outcome, NoCall
<1> QED BY <1>1, <1>2, <1>3 DEF IInv

-------------------------------------------------------------------------------
LEMMA FreshStep ==
  ASSUME IInv, Fresh, running' \in BOOLEAN, runtime' \in Runtimes, env' \in Environment
  PROVE  IInv'
<1> USE DEF IInv, Fresh
<1>1. TypeOK'
  BY DEF TypeOK, NoCall
<1>2. Import' /\ Context' /\ Requirement' /\ Wire'
  BY DEF Import, Context, Requirement, Wire, NoCall, normalizeContext
<1>3. Dispatch' /\ Outcome'
  BY DEF Dispatch, Outcome, NoCall
<1> QED BY <1>1, <1>2, <1>3

LEMMA ImportStep ==
  ASSUME IInv, ImportWrapper \/ ImportIndex
  PROVE  IInv'
<1> USE DEF IInv, ImportWrapper, ImportIndex
<1>1. UNCHANGED <<running, runtime, env, contextHonoured, required, call, wire>> /\ native' = Loaded
      /\ reporting' \in BOOLEAN /\ PIN # "misspelled"
  BY DEF TypeOK
<1>2. native' \in {"null", "openssl"} /\ (native # "unloaded" => native' = native)
      /\ (native' = "openssl" => PIN # "javascript")
      /\ (native' = "null" => PIN = "javascript" \/ SUPPORTED = {})
  BY <1>1 DEF Loaded, NativeExport, TypeOK, Import
<1>3. PIN' = PIN /\ SUPPORTED' = SUPPORTED
  BY <1>1 DEF PIN, SUPPORTED
<1>4. TypeOK'
  BY <1>1, <1>2 DEF TypeOK
<1>5. Import' /\ Context'
  BY <1>1, <1>2, <1>3 DEF Import, Context
<1>6. Requirement' /\ Wire'
  BY <1>1, <1>2, <1>3 DEF Requirement, Wire, normalizeContext, Import
<1>7. Dispatch' /\ Outcome'
  <2>1. CASE native = "unloaded"
    BY <2>1, <1>1 DEF Dispatch, Outcome, Import, NoCall
  <2>2. CASE native # "unloaded"
    BY <2>2, <1>1, <1>2, <1>3 DEF Dispatch, Outcome, Refused, Untried
  <2> QED BY <2>1, <2>2
<1> QED BY <1>4, <1>5, <1>6, <1>7

LEMMA RequireStep ==
  ASSUME IInv, NEW kind \in {"openssl", "javascript"}, NEW sets \in Demands, requireBackend(kind, sets)
  PROVE  IInv'
<1> USE BackendAssumption DEF IInv, requireBackend
<1>1. PIN' = PIN /\ SUPPORTED' = SUPPORTED /\ native # "unloaded"
  BY DEF PIN, SUPPORTED, Import, TypeOK
<1>2. Context' /\ Wire'
  BY DEF Context, Wire, normalizeContext
<1>3. CASE BackendKind = kind /\ Missing(kind, sets) = {}
  <2> USE <1>3
  <2>1. required' = [kind |-> kind, sets |-> required.sets \cup sets] /\ call' = call
    OBVIOUS
  <2>2. TypeOK'
    BY <2>1 DEF TypeOK
  <2>3. Import'
    BY <1>1 DEF Import
  <2>4. Requirement'
    <3>1. CASE kind = "openssl"
      <4>1. native = "openssl" /\ sets \subseteq SUPPORTED
        BY <3>1 DEF BackendKind, Missing, isNative
      <4>2. required.sets \subseteq SUPPORTED \/ required.sets = {}
        BY <4>1 DEF Requirement, TypeOK, Import
      <4> QED BY <1>1, <2>1, <3>1, <4>1, <4>2 DEF Requirement
    <3>2. CASE kind = "javascript"
      <4>1. native' = "null" /\ required'.kind = "javascript"
        BY <1>1, <2>1, <3>2 DEF BackendKind, TypeOK
      <4> QED BY <4>1 DEF Requirement
    <3> QED BY <3>1, <3>2
  <2>5. Dispatch' /\ Outcome'
    BY <1>1, <2>1 DEF Dispatch, Outcome, Refused, Untried
  <2> QED BY <1>2, <2>2, <2>3, <2>4, <2>5
<1>4. CASE ~(BackendKind = kind /\ Missing(kind, sets) = {})
  <2> USE <1>4
  <2>1. call' = [op |-> "requireBackend", alg |-> None, plain |-> TRUE, where |-> "nowhere",
                 outcome |-> "throws", expected |-> "throws"] /\ required' = required
    BY DEF NoCall
  <2>2. TypeOK'
    BY <2>1 DEF TypeOK
  <2>3. Import' /\ Requirement'
    BY <1>1, <2>1 DEF Import, Requirement
  <2>4. Dispatch' /\ Outcome'
    BY <2>1 DEF Dispatch, Outcome
  <2> QED BY <1>2, <2>2, <2>3, <2>4
<1> QED BY <1>3, <1>4

\* A call that comes out as expected where dispatch sent it keeps the rest.
LEMMA CallStep ==
  ASSUME IInv, native # "unloaded",
         NEW op \in {"keypairFromMaster", "sign", "verify", "kem"}, NEW alg \in Wrapped, NEW context,
         NEW where \in {"nowhere", "openssl", "javascript"},
         NEW outcome \in {"done", "throws", "true", "false"}, NEW expected \in {"done", "throws", "true", "false"},
         Called(op, alg, context, where, outcome, expected), outcome = expected \/ Refused(op, alg, where, outcome),
         where = "openssl" => native = "openssl",
         op # "keypairFromMaster" /\ where = "javascript" => where = Where(alg, context),
         contextHonoured' \in {"unprobed", "yes", "no"}, Context', wire' \in Signature \cup {None}, Wire',
         UNCHANGED <<running, runtime, env, native, reporting, required>>
  PROVE  IInv'
<1> USE DEF IInv
<1>1. PIN' = PIN /\ SUPPORTED' = SUPPORTED
  BY DEF PIN, SUPPORTED
<1>2. call' = [op |-> op, alg |-> alg, plain |-> context = None, where |-> where,
               outcome |-> outcome, expected |-> expected]
  BY DEF Called
<1>3. TypeOK'
  <2>1. (context = None) \in BOOLEAN
    OBVIOUS
  <2>2. call' \in [op : {"none", "keypairFromMaster", "sign", "verify", "kem", "requireBackend"},
               alg : Wrapped \cup {None}, plain : BOOLEAN,
               where : {"nowhere", "openssl", "javascript"},
               outcome : {"none", "done", "throws", "true", "false"},
               expected : {"none", "done", "throws", "true", "false"}]
    BY <1>2, <2>1
  <2> QED BY <2>2 DEF TypeOK
<1>4. Import' /\ Requirement'
  BY <1>1 DEF Import, Requirement
<1>5. Outcome'
  BY <1>2 DEF Outcome, Refused, Untried
<1>6. Dispatch'
  <2>1. call'.where = "openssl" => native' = "openssl"
    BY <1>2
  <2>2. ASSUME native' = "openssl", call'.op \in {"sign", "verify", "kem"}, call'.plain = TRUE,
               call'.where = "javascript"
        PROVE  call'.alg \notin SUPPORTED'
    <3>1. context = None /\ where = Where(alg, context)
      BY <1>2, <2>2
    <3>2. ~usesNative(alg, context)
      BY <1>2, <2>2, <3>1 DEF Where
    <3> QED BY <1>1, <1>2, <2>2, <3>1, <3>2 DEF usesNative
  <2> QED BY <2>1, <2>2 DEF Dispatch
<1> QED BY <1>3, <1>4, <1>5, <1>6

LEMMA SignStep ==
  ASSUME IInv, NEW alg \in Sets, NEW options \in Options, sign(alg, options)
  PROVE  IInv'
<1> DEFINE context == normalizeContext(options)
           where   == Where(alg, context)
           bound   == IF where = "openssl" THEN Bind(context) ELSE context
           signature == [alg |-> alg, options |-> options, bound |-> bound]
<1> USE BackendAssumption
<1>1. options \in Options \ {"misuse"} /\ context \in Contexts \cup {None}
  BY NormalizeMeans DEF sign
<1>2. where = "openssl" <=> usesNative(alg, context)
  BY DEF Where
<1>3. bound = context
  BY <1>2, NativeBinds DEF IInv
<1> DEFINE throws == where = "openssl" /\ ~Imports(alg)
           outcome == IF throws THEN "throws" ELSE "done"
<1>4. throws => Untried(alg)
  BY <1>2, SupportedImports DEF usesNative
<1>5. (wire' = IF throws THEN wire ELSE signature) /\ Called("sign", alg, context, where, outcome, "done")
  <2>1. bound # Rejects
    BY <1>1, <1>3
  <2> QED BY <2>1 DEF sign
<1>6. wire' \in Signature \cup {None} /\ Wire'
  <2>1. CASE throws
    BY <1>5, <2>1 DEF IInv, TypeOK, Wire, normalizeContext
  <2>2. CASE ~throws
    BY <1>1, <1>3, <1>5, <2>2 DEF Signature, Wire, normalizeContext
  <2> QED BY <2>1, <2>2
<1>o. outcome \in {"done", "throws"} /\ (outcome = "done" \/ Refused("sign", alg, where, outcome))
  BY <1>4 DEF Refused
<1>7. contextHonoured' \in {"unprobed", "yes", "no"} /\ Context'
  BY ProbeKeepsContext DEF sign, IInv
<1>8. where \in {"openssl", "javascript"} /\ (where = "openssl" => native = "openssl")
  BY <1>2 DEF Where, usesNative
<1>9. alg \in Wrapped /\ native # "unloaded" /\ UNCHANGED <<running, runtime, env, native, reporting, required>>
  BY DEF Sets, sign, Ready
<1>10. Called("sign", alg, context, where, outcome, "done")
  BY <1>5
<1>11. where = Where(alg, context)
  OBVIOUS
<1> HIDE DEF context, where, outcome
<1> QED BY <1>6, <1>7, <1>8, <1>9, <1>10, <1>11, <1>o, CallStep

LEMMA VerifyStep ==
  ASSUME IInv, NEW alg \in Sets, NEW options \in Options, verify(alg, options)
  PROVE  IInv'
<1> DEFINE context == normalizeContext(options)
           where   == Where(alg, context)
           checked == IF where = "openssl" THEN Bind(context) ELSE context
           outcome == Truth(wire.alg = alg /\ Meant(wire.options) = Meant(options))
<1> USE BackendAssumption
<1>1. options \in Options \ {"misuse"} /\ context \in Contexts \cup {None}
  BY NormalizeMeans DEF verify
<1>2. where = "openssl" <=> usesNative(alg, context)
  BY DEF Where
<1>3. checked = context /\ checked # Rejects
  BY <1>1, <1>2, NativeBinds DEF IInv
<1>4. wire \in Signature /\ wire.bound = normalizeContext(wire.options)
  BY DEF verify, IInv, TypeOK, Wire
<1>5. wire.bound = checked <=> Meant(wire.options) = Meant(options)
  BY <1>1, <1>3, <1>4, NormalizeMeans DEF Signature
<1>6. Truth(checked # Rejects /\ wire.alg = alg /\ wire.bound = checked) = outcome
  BY <1>3, <1>5 DEF Truth
<1>7. Called("verify", alg, context, where, outcome, outcome)
  BY <1>6 DEF verify
<1>8. wire' \in Signature \cup {None} /\ Wire'
  BY <1>4 DEF verify, Wire, normalizeContext
<1>9. contextHonoured' \in {"unprobed", "yes", "no"} /\ Context'
  BY ProbeKeepsContext DEF verify, IInv
<1>10. where \in {"openssl", "javascript"} /\ (where = "openssl" => native = "openssl")
  BY <1>2 DEF Where, usesNative
<1>11. outcome \in {"true", "false"}
  BY DEF Truth
<1>12. alg \in Wrapped /\ native # "unloaded" /\ UNCHANGED <<running, runtime, env, native, reporting, required>>
  BY DEF Sets, verify, Ready
<1> HIDE DEF context, where, outcome
<1> QED BY <1>7, <1>8, <1>9, <1>10, <1>11, <1>12, CallStep DEF where

LEMMA PlainStep ==
  ASSUME IInv, NEW alg \in Wrapped,
         \/ keypairFromMaster(alg)
         \/ kem(alg)
         \/ \E op \in {"sign", "verify"} : Misuse(op, alg)
  PROVE  IInv'
<1>1. native # "unloaded" /\ UNCHANGED <<running, runtime, env, native, contextHonoured, reporting, required, wire>>
  BY DEF keypairFromMaster, kem, Misuse, Ready
<1>2. /\ contextHonoured' \in {"unprobed", "yes", "no"} /\ Context'
      /\ wire' \in Signature \cup {None} /\ Wire'
  BY <1>1 DEF IInv, TypeOK, Context, Wire, normalizeContext
<1>3. CASE keypairFromMaster(alg)
  BY <1>1, <1>2, <1>3, CallStep DEF keypairFromMaster
<1>4. CASE kem(alg)
  <2>1. Where(alg, None) \in {"openssl", "javascript"} /\ (Where(alg, None) = "openssl" => native = "openssl")
    BY DEF Where, usesNative
  <2> DEFINE where == Where(alg, None)
             throws == where = "openssl" /\ ~Imports(alg)
             outcome == IF throws THEN "throws" ELSE "done"
  <2>2. outcome \in {"done", "throws"} /\ (outcome = "done" \/ Refused("kem", alg, where, outcome))
    BY SupportedImports DEF Refused, Where, usesNative
  <2>3. Called("kem", alg, None, where, outcome, "done")
    BY <1>4 DEF kem
  <2> HIDE DEF outcome
  <2> QED BY <1>1, <1>2, <2>1, <2>2, <2>3, CallStep
<1>5. CASE \E op \in {"sign", "verify"} : Misuse(op, alg)
  <2>1. PICK op \in {"sign", "verify"} : Misuse(op, alg)
    BY <1>5
  <2> QED BY <1>1, <1>2, <2>1, CallStep DEF Misuse
<1> QED BY <1>3, <1>4, <1>5

-------------------------------------------------------------------------------
LEMMA StepIInv == IInv /\ [Next]_vars => IInv'
<1> SUFFICES ASSUME IInv, [Next]_vars PROVE IInv'
  OBVIOUS
<1>1. CASE Start
  BY <1>1, FreshStep DEF Start
<1>2. CASE Exit \/ ImportFails
  <2>1. Fresh /\ running' \in BOOLEAN /\ runtime' \in Runtimes /\ env' \in Environment
    BY <1>2 DEF Exit, ImportFails, IInv, TypeOK
  <2> QED BY <2>1, FreshStep
<1>3. CASE ImportWrapper \/ ImportIndex
  BY <1>3, ImportStep
<1>4. CASE \E kind \in {"openssl", "javascript"}, sets \in Demands : requireBackend(kind, sets)
  BY <1>4, RequireStep
<1>5. CASE \E alg \in Sets, options \in Options : sign(alg, options) \/ verify(alg, options)
  BY <1>5, SignStep, VerifyStep
<1>6. CASE \/ \E alg \in Wrapped : keypairFromMaster(alg)
           \/ \E alg \in Sets, op \in {"sign", "verify"} : Misuse(op, alg)
           \/ \E alg \in Wrapped \cap Kem : kem(alg)
  BY <1>6, PlainStep DEF Sets
<1>7. CASE UNCHANGED vars
  BY <1>7 DEF vars, IInv, TypeOK, Import, Context, Requirement, Wire, Dispatch, Outcome, Refused, Untried, PIN,
     SUPPORTED, normalizeContext
<1> QED BY <1>1, <1>2, <1>3, <1>4, <1>5, <1>6, <1>7 DEF Next

\* IInv is an invariant of the dispatch, for every environment and runtime.
THEOREM Invariance == Spec => []IInv
BY InitIInv, StepIInv, PTL DEF Spec

\* TypeOK is an invariant.
THEOREM TypeCorrect == Spec => []TypeOK
<1>1. IInv => TypeOK
  BY DEF IInv
<1> QED BY <1>1, Invariance, PTL

\* Signatures verify across runtimes, pins and processes under the context
\* that was meant, and under no other (the wrappers, probeContext).
THEOREM Interoperable == Spec => []SignaturesInterop
<1>1. IInv => SignaturesInterop
  BY DEF IInv, Outcome, Refused, SignaturesInterop
<1> QED BY <1>1, Invariance, PTL

\* No dispatched call throws on OpenSSL but for an expanded key whose import was
\* not tried (the probe of JWK imports, supports).
THEOREM CallsComplete == Spec => []NothingThrows
<1>1. IInv => NothingThrows
  BY DEF IInv, Outcome, Refused, NothingThrows
<1> QED BY <1>1, Invariance, PTL

\* The pin is obeyed by every call (PIN, the native export).
THEOREM PinObeyed == Spec => []PinIsObeyed
<1>1. IInv => PinIsObeyed
  <2> SUFFICES ASSUME IInv PROVE PinIsObeyed
    OBVIOUS
  <2>1. PIN = "javascript" => call.where # "openssl"
    BY DEF IInv, Import, Dispatch
  <2>2. PIN = "misspelled" => call = NoCall
    BY DEF IInv, Import, TypeOK
  <2> QED BY <2>1, <2>2 DEF PinIsObeyed
<1> QED BY <1>1, Invariance, PTL

\* A requirement requireBackend has let pass holds for every plain call.
THEOREM RequirementKept == Spec => []RequirementHolds
<1>1. IInv => RequirementHolds
  <2> SUFFICES ASSUME IInv PROVE RequirementHolds
    OBVIOUS
  <2>1. required.kind = "javascript" => call.where # "openssl"
    BY DEF IInv, Requirement, Dispatch
  <2>2. ASSUME required.kind = "openssl", call.op \in {"sign", "verify", "kem"},
               call.alg \in required.sets, call.plain
        PROVE  call.where # "javascript"
    <3>1. call.plain = TRUE
      BY <2>2 DEF IInv, TypeOK
    <3> QED BY <2>2, <3>1 DEF IInv, Requirement, Dispatch
  <2> QED BY <2>1, <2>2 DEF RequirementHolds
<1> QED BY <1>1, Invariance, PTL

\* backend.js 49-51: where the reason given is not the pin, OpenSSL has nothing
\* this package could have run.
THEOREM AbsentIsIncapable == Spec => []AbsentMeansItCannot
<1>1. IInv => AbsentMeansItCannot
  BY DEF IInv, TypeOK, Import, AbsentMeansItCannot, BackendKind, Reason
<1> QED BY <1>1, Invariance, PTL

\* The choice of the implementation as it is model-checked.
THEOREM BackendInvHolds == Spec => []BackendInv
BY TypeCorrect, CallsComplete, PinObeyed, AbsentIsIncapable, PTL DEF BackendInv

================================================================================
