--------------------------- MODULE FipsModule_proofs ---------------------------
(***************************************************************************)
(* Proofs about FipsModule, for every reseed interval, entropy and nonce   *)
(* length, set of parameter sets and number of restarts.                   *)
(*                                                                         *)
(* The invariant ties the control point to everything else: Control says   *)
(* which service can be where; Standing what the module's state says of    *)
(* the service table, the DRBG and the failures so far; Seeding how far a  *)
(* read has come; Memory which buffers can hold a secret at each point;    *)
(* Testing what is known of the pair being generated.                      *)
(***************************************************************************)
EXTENDS FipsModule, TLAPS

RandomStages == {"random", "reseedEntropy", "reseed", "generate"}
PctStages    == {"pctFirst", "pctSecond"}
BootStages   == TestStages \cup {"entropy", "nonce", "instantiate"}

Control ==
  /\ pc = "idle" <=> op = "none"
  /\ op = "boot" => pc \in BootStages
  /\ op = "selfTest" => pc \in {"integrityCasts", "integrityTest", "algorithmCasts"}
  /\ op \in NotDrawing => pc = "run"
  /\ op \in Drawing => pc \in RandomStages \cup PctStages \cup {"run"}
  /\ pc \in PctStages => draw = "pct"
  /\ pc = "run" => draw = "main"
  /\ draw = "pct" => op = "generateKeypair"

Standing ==
  /\ op = "boot" <=> state = "self-test"
  /\ state = "error" => pc = "idle"
  /\ state = "operational" => services = TRUE /\ keyed = TRUE
  /\ state # "operational" => services = FALSE /\ keyed = FALSE
  /\ keyed = TRUE => counter >= 1 /\ served = counter - 1
  /\ keyed = FALSE => counter = 0 /\ served = 0
  /\ pc = "generate" => counter <= ReseedInterval
  /\ fault = TRUE <=> state = "error"

Seeding ==
  /\ pc \notin ReadStages => filled = 0
  /\ filled <= Wanted
  /\ keyed = TRUE \/ pc \in {"nonce", "instantiate"} => seedLen = EntropyBytes

\* The arrays that can hold a secret at each point of each service.
Held ==
  {s \in Secrets :
     \/ s \in Copies
     \/ s = "entropy" /\ pc \in {"reseedEntropy", "reseed"}
     \/ s \in {"keySeed", "secretKey"} /\ draw = "pct"
     \/ s = "keySeed" /\ pc = "run" /\ op = "generateKeypair"
     \/ s = "draw" /\ pc = "run" /\ op \in {"encapsulate", "sign"}
     \/ s = "pctDraw" /\ pc \in PctStages
     \/ s = "pctShared" /\ pc = "pctSecond"}

Memory ==
  /\ state = "operational" => mem \subseteq Held
  /\ state = "self-test" => mem \subseteq {"entropy", "nonce"}

Testing ==
  /\ pc = "pctSecond" => "pctFirst" \in passed
  /\ pc = "idle" /\ reply = "keypair" => passed = {"pctFirst", "pctSecond"}
  /\ state = "self-test" => reply = "none"

IInv == TypeOK /\ Control /\ Standing /\ Seeding /\ Memory /\ Testing

-------------------------------------------------------------------------------
LEMMA InitIInv == Init => IInv
<1> SUFFICES ASSUME Init PROVE IInv
  OBVIOUS
<1> USE ConstantsAssumption DEF Init, NoAlg
<1>1. TypeOK
  <2>1. /\ counter \in 0..(ReseedInterval + 1) /\ served \in 0..ReseedInterval
        /\ filled \in 0..(EntropyBytes + NonceBytes) /\ seedLen \in 0..EntropyBytes
        /\ restarts \in 0..MaxRestarts
    OBVIOUS
  <2>2. services \in BOOLEAN /\ keyed \in BOOLEAN /\ fault \in BOOLEAN
    OBVIOUS
  <2>3. mem \in SUBSET Secrets /\ passed \in SUBSET {"pctFirst", "pctSecond"}
    OBVIOUS
  <2> QED BY <2>1, <2>2, <2>3 DEF TypeOK, TestStages
<1>2. Control /\ Standing
  BY DEF Control, Standing, BootStages, TestStages, PctStages, Drawing, NotDrawing
<1>3. Seeding /\ Memory /\ Testing
  BY DEF Seeding, Memory, Testing, ReadStages, Wanted
<1> QED BY <1>1, <1>2, <1>3 DEF IInv

LEMMA EnterErrorStep ==
  ASSUME IInv, state # "error", enterError, fault' = TRUE, mem' \in SUBSET Secrets,
         UNCHANGED <<seedLen, passed, restarts>>
  PROVE  IInv'
<1> USE ConstantsAssumption DEF IInv, enterError, Return
<1>1. keyed' = FALSE /\ counter' = 0 /\ served' = 0
  BY DEF Standing, drbg, TypeOK
<1>2. TypeOK'
  <2>1. counter' \in 0..(ReseedInterval + 1) /\ served' \in 0..ReseedInterval /\ filled' \in 0..(EntropyBytes + NonceBytes)
    BY <1>1
  <2>2. reply' \in {"none", "result", "keypair", "callerError", "refused", "enteredError"}
    BY DEF TypeOK
  <2>3. state' \in {"self-test", "operational", "error"} /\ services' \in BOOLEAN /\ keyed' \in BOOLEAN /\ fault' \in BOOLEAN
    BY <1>1
  <2> QED BY <2>1, <2>2, <2>3 DEF TypeOK, NoAlg
<1>3. Control' /\ Standing'
  BY <1>1 DEF Control, Standing, TypeOK, Services, Drawing, NotDrawing, BootStages,
     TestStages, PctStages, RandomStages
<1>4. Seeding' /\ Memory' /\ Testing'
  BY <1>1 DEF Seeding, Memory, Testing, Standing, Control, TypeOK, ReadStages, Wanted
<1> QED BY <1>2, <1>3, <1>4

-------------------------------------------------------------------------------
LEMMA TestStep ==
  ASSUME IInv, TestPasses \/ TestFails
  PROVE  IInv'
<1> USE ConstantsAssumption
<1>1. CASE TestPasses
  <2> USE <1>1 DEF IInv, TestPasses, NextStage, Return, modVars, drbg, NoAlg
  <2>1. TypeOK'
    BY DEF TypeOK, TestStages, ReadStages, Control, BootStages
  <2>2. Control' /\ Standing'
    BY DEF Control, Standing, TestStages, BootStages, PctStages, RandomStages, Drawing,
       NotDrawing, TypeOK
  <2>3. Seeding' /\ Memory' /\ Testing'
    BY DEF Seeding, Memory, Testing, Held, Standing, Control, TestStages, ReadStages,
       BootStages, PctStages, RandomStages, Drawing, NotDrawing, Wanted, TypeOK
  <2> QED BY <2>1, <2>2, <2>3
<1>2. CASE TestFails
  <2>1. state # "error"
    BY <1>2 DEF IInv, Standing, TestFails, TestStages
  <2> QED BY <1>2, <2>1, EnterErrorStep DEF TestFails, IInv, TypeOK
<1> QED BY <1>1, <1>2

LEMMA ReadStep ==
  ASSUME IInv, Read \/ ReadFails \/ ReadDone
  PROVE  IInv'
<1> USE ConstantsAssumption
<1>1. CASE Read
  <2> USE <1>1 DEF IInv, Read, modVars, drbg
  <2>1. TypeOK'
    BY DEF TypeOK, Wanted, Buffer, Secrets
  <2>2. Control' /\ Standing'
    BY DEF Control, Standing
  <2>3. Seeding' /\ Testing'
    BY DEF Seeding, Testing, Standing, Control, ReadStages, Wanted, TypeOK
  <2>4. (op = "boot" <=> pc \in {"entropy", "nonce"}) /\ (op # "boot" => pc = "reseedEntropy")
    BY DEF Control, ReadStages, BootStages, TestStages, RandomStages, PctStages,
       Drawing, NotDrawing, Services, TypeOK
  <2>5. Memory'
    <3>1. ASSUME state' = "operational" PROVE mem' \subseteq Held'
      <4>1. pc = "reseedEntropy" /\ mem \subseteq Held /\ mem' = mem \cup {"entropy"}
        BY <2>4, <3>1 DEF Standing, Memory, Buffer
      <4>2. Held' = Held /\ "entropy" \in Held
        BY <4>1 DEF Held, Secrets
      <4> QED BY <4>1, <4>2
    <3>2. ASSUME state' = "self-test" PROVE mem' \subseteq {"entropy", "nonce"}
      BY <3>2 DEF Memory, Buffer
    <3> QED BY <3>1, <3>2 DEF Memory
  <2> QED BY <2>1, <2>2, <2>3, <2>5
<1>2. CASE ReadFails
  <2>1. state # "error"
    BY <1>2 DEF IInv, Standing, ReadFails, ReadStages
  <2> QED BY <1>2, <2>1, EnterErrorStep DEF ReadFails, IInv, TypeOK
<1>3. CASE ReadDone
  <2> USE <1>3 DEF IInv, ReadDone, modVars, drbg
  <2>1. filled = Wanted
    BY DEF Seeding, TypeOK, Wanted
  <2>2. TypeOK'
    BY <2>1 DEF TypeOK, ReadStages, Wanted
  <2>3. Control' /\ Standing'
    BY DEF Control, Standing, ReadStages, BootStages, TestStages, PctStages,
       RandomStages, Drawing, NotDrawing
  <2>4. Seeding' /\ Testing'
    BY <2>1 DEF Seeding, Testing, Standing, Control, ReadStages, Wanted, TypeOK
  <2>5. Memory'
    BY DEF Memory, Held, Standing, Control, ReadStages, BootStages, TestStages,
       RandomStages, PctStages, TypeOK
  <2> QED BY <2>2, <2>3, <2>4, <2>5
<1> QED BY <1>1, <1>2, <1>3

LEMMA InstantiateStep ==
  ASSUME IInv, Instantiate
  PROVE  IInv'
<1> USE ConstantsAssumption DEF IInv, Instantiate, Return, NoAlg
<1>1. state = "self-test" /\ reply = "none" /\ fault = FALSE /\ seedLen = EntropyBytes
  BY DEF Control, Standing, Seeding, Testing, NotDrawing, Drawing, TypeOK, Services,
     RandomStages, PctStages
<1>2. mem' = {"seedCopy"}
  BY <1>1 DEF Memory
<1>3. TypeOK'
  <2>1. mem' \in SUBSET Secrets
    BY <1>2 DEF Secrets, Copies
  <2> QED BY <1>1, <2>1 DEF TypeOK
<1>4. Control' /\ Standing'
  BY <1>1 DEF Control, Standing, BootStages, TestStages, PctStages, RandomStages,
     Drawing, NotDrawing
<1>5. Seeding' /\ Testing'
  BY <1>1 DEF Seeding, Testing, ReadStages, Wanted
<1>6. Memory'
  BY <1>1, <1>2 DEF Memory, Held, Secrets, Copies
<1> QED BY <1>3, <1>4, <1>5, <1>6

-------------------------------------------------------------------------------
\* What the application does between calls.
LEMMA ApplicationStep ==
  ASSUME IInv, Application
  PROVE  IInv'
<1> USE ConstantsAssumption
<1>1. CASE Refuse \/ Misuse
  BY <1>1 DEF IInv, TypeOK, Control, Standing, Seeding, Memory, Held, Testing, Wanted,
     Refuse, Misuse, modVars, callVars, drbg
<1>2. ASSUME NEW o \in Services, NEW a \in Algorithms, Call(o, a)
      PROVE  IInv'
  <2> USE <1>2 DEF IInv, Call, modVars, drbg
  <2>1. TypeOK'
    BY DEF TypeOK
  <2>2. Control' /\ Standing'
    BY DEF Control, Standing, Services, Drawing, NotDrawing, RandomStages, PctStages,
       BootStages
  <2>3. Seeding' /\ Testing'
    BY DEF Seeding, Testing, Standing, ReadStages, Wanted
  <2>4. mem \subseteq Copies
    BY DEF Memory, Held, Control, PctStages, Services, Drawing, NotDrawing
  <2>5. Memory'
    BY <2>4 DEF Memory, Held, Copies, Secrets
  <2> QED BY <2>1, <2>2, <2>3, <2>5
<1>3. CASE SelfTest
  <2> USE <1>3 DEF IInv, SelfTest, modVars, drbg
  <2>1. TypeOK'
    BY DEF TypeOK, TestStages
  <2>2. Control' /\ Standing'
    BY DEF Control, Standing, Drawing, NotDrawing, PctStages
  <2>3. Seeding' /\ Testing'
    BY DEF Seeding, Testing, Standing, ReadStages, Wanted
  <2>4. mem \subseteq Copies
    BY DEF Memory, Held, Control, PctStages
  <2>5. Memory'
    BY <2>4 DEF Memory, Held, Copies, Secrets
  <2> QED BY <2>1, <2>2, <2>3, <2>5
<1> QED BY <1>1, <1>2, <1>3 DEF Application

\* random(): the check, the reseed and the draw.
LEMMA RandomStep ==
  ASSUME IInv, Random \/ Reseed \/ Generate
  PROVE  IInv'
<1> USE ConstantsAssumption
<1>1. op \in Drawing /\ state = "operational" /\ filled = 0
      /\ pc \in {"random", "reseed", "generate"}
  BY DEF IInv, Control, Standing, Seeding, TypeOK, Random, Reseed, Generate, Services,
     Drawing, NotDrawing, BootStages, TestStages, ReadStages
<1>2. CASE Random
  <2> USE <1>1, <1>2 DEF IInv, Random, reseedRequired, modVars, drbg
  <2>1. TypeOK' /\ Control' /\ Standing'
    BY DEF TypeOK, ReadStages, Control, Standing, RandomStages, PctStages, Drawing,
       NotDrawing, BootStages
  <2>2. Seeding' /\ Testing'
    BY DEF Seeding, Testing, Standing, Wanted, TypeOK
  <2>3. Memory'
    BY DEF Memory, Held, PctStages
  <2> QED BY <2>1, <2>2, <2>3
<1>3. CASE Reseed
  <2> USE <1>1, <1>3 DEF IInv, Reseed, modVars
  <2>1. TypeOK'
    BY DEF TypeOK, Secrets, Copies
  <2>4. Control' /\ Standing'
    BY DEF Control, Standing, RandomStages, PctStages, Drawing, NotDrawing, BootStages
  <2>2. Seeding' /\ Testing'
    BY DEF Seeding, Testing, Standing, Wanted, ReadStages
  <2>3. Memory'
    BY DEF Memory, Held, PctStages, Secrets, Copies
  <2> QED BY <2>1, <2>4, <2>2, <2>3
<1>4. CASE Generate
  <2>1. DrbgServes
    BY <1>1, <1>4 DEF IInv, TypeOK, Standing, DrbgServes, reseedRequired, Generate
  <2> USE <1>1, <1>4, <2>1 DEF IInv, Generate, modVars
  <2>6. {Drawn, "drawnCopy"} \subseteq Secrets
    BY DEF Drawn, Secrets, Copies
  <2>2. TypeOK'
    <3>1. mem' \in SUBSET Secrets
      BY <2>6 DEF TypeOK
    <3> QED BY <3>1 DEF TypeOK, Standing
  <2>3. Control' /\ Standing'
    BY DEF Control, Standing, TypeOK, RandomStages, PctStages, Drawing, NotDrawing,
       BootStages
  <2>4. Seeding' /\ Testing'
    BY DEF Seeding, Testing, Standing, Wanted, ReadStages, TypeOK
  <2>5. Memory'
    <3>1. mem \subseteq Held /\ mem' = mem \cup {Drawn, "drawnCopy"}
      BY DEF Memory
    <3>2. Held \subseteq Held' /\ Drawn \in Held' /\ "drawnCopy" \in Held'
      BY DEF Held, PctStages, Drawn, Secrets, Copies, TypeOK, Drawing, Control
    <3>3. mem' \subseteq Held'
      BY <3>1, <3>2
    <3> QED BY <3>3 DEF Memory
  <2> QED BY <2>2, <2>3, <2>4, <2>5
<1> QED BY <1>2, <1>3, <1>4

\* The rest of each service, up to its return.
LEMMA ServiceStep ==
  ASSUME IInv, KeyGen \/ RunDrawing \/ RunPlain
  PROVE  IInv'
<1> USE ConstantsAssumption DEF IInv, Return, modVars, drbg, NoAlg
<1>1. pc = "run" /\ draw = "main" /\ op \in Services /\ state = "operational" /\ filled = 0
  BY DEF Control, Standing, Seeding, TypeOK, KeyGen, RunDrawing, RunPlain, Services,
     Drawing, NotDrawing, BootStages, TestStages, ReadStages
<1>2. CASE KeyGen
  <2> USE <1>1, <1>2 DEF KeyGen
  <2>1. TypeOK' /\ Control' /\ Standing'
    BY DEF TypeOK, Secrets, Copies, Control, Standing, RandomStages, PctStages, Drawing,
       NotDrawing, BootStages
  <2>2. Seeding' /\ Testing'
    BY DEF Seeding, Testing, Standing, Wanted, ReadStages
  <2>3. Memory'
    BY DEF Memory, Held, PctStages, Secrets
  <2> QED BY <2>1, <2>2, <2>3
<1>3. CASE RunDrawing
  <2> USE <1>1, <1>3 DEF RunDrawing
  <2>1. TypeOK' /\ Control' /\ Standing'
    BY DEF TypeOK, Control, Standing, RandomStages, PctStages, Drawing, NotDrawing,
       BootStages
  <2>2. Seeding' /\ Testing'
    BY DEF Seeding, Testing, Standing, Wanted, ReadStages, TypeOK
  <2>3. Memory'
    BY DEF Memory, Held, PctStages
  <2> QED BY <2>1, <2>2, <2>3
<1>4. CASE RunPlain
  <2> USE <1>1, <1>4 DEF RunPlain
  <2>1. TypeOK' /\ Control' /\ Standing'
    BY DEF TypeOK, Control, Standing, RandomStages, PctStages, Drawing, NotDrawing,
       BootStages
  <2>2. Seeding' /\ Testing'
    BY DEF Seeding, Testing, Standing, Wanted, ReadStages, TypeOK
  <2>3. Memory'
    BY DEF Memory, Held, PctStages, NotDrawing
  <2> QED BY <2>1, <2>2, <2>3
<1> QED BY <1>2, <1>3, <1>4

\* The pairwise test and its three ends.
LEMMA PctStep ==
  ASSUME IInv, PctFirst \/ PctSecond \/ PctMismatch \/ PctThrows
  PROVE  IInv'
<1> USE ConstantsAssumption
<1>1. /\ pc \in PctStages /\ draw = "pct" /\ op = "generateKeypair"
      /\ state = "operational" /\ filled = 0
  BY DEF IInv, Control, Standing, Seeding, TypeOK, PctFirst, PctSecond, PctMismatch,
     PctThrows, PctStages, ReadStages, Drawing, NotDrawing
<1>2. CASE PctFirst
  <2> USE <1>1, <1>2 DEF IInv, PctFirst, modVars, drbg, PctStages
  <2>1. TypeOK' /\ Control' /\ Standing'
    BY DEF TypeOK, Secrets, Copies, Control, Standing, RandomStages, Drawing, NotDrawing
  <2>2. Seeding' /\ Testing'
    BY DEF Seeding, Testing, Standing, Wanted, ReadStages
  <2>3. Memory'
    BY DEF Memory, Held, Secrets
  <2> QED BY <2>1, <2>2, <2>3
<1>3. CASE PctSecond
  <2> USE <1>1, <1>3 DEF IInv, PctSecond, Return, modVars, drbg, NoAlg, PctStages
  <2>1. TypeOK' /\ Control' /\ Standing'
    BY DEF TypeOK, Control, Standing, Drawing, NotDrawing
  <2>2. Seeding'
    BY DEF Seeding, Standing, Wanted, ReadStages
  <2>3. Testing'
    BY DEF Testing, TypeOK
  <2>4. Memory'
    BY DEF Memory, Held
  <2> QED BY <2>1, <2>2, <2>3, <2>4
<1>4. CASE PctMismatch \/ PctThrows
  BY <1>1, <1>4, EnterErrorStep DEF PctMismatch, PctThrows, IInv, TypeOK
<1> QED BY <1>2, <1>3, <1>4

LEMMA RestartStep ==
  ASSUME IInv, Restart
  PROVE  IInv'
<1> USE ConstantsAssumption DEF Restart, NoAlg
<1>1. restarts' \in 0..MaxRestarts
  BY DEF IInv, TypeOK
<1>2. TypeOK'
  <2>1. /\ counter' \in 0..(ReseedInterval + 1) /\ served' \in 0..ReseedInterval
        /\ filled' \in 0..(EntropyBytes + NonceBytes) /\ seedLen' \in 0..EntropyBytes
    OBVIOUS
  <2>2. services' \in BOOLEAN /\ keyed' \in BOOLEAN /\ fault' \in BOOLEAN
    OBVIOUS
  <2>3. mem' \in SUBSET Secrets /\ passed' \in SUBSET {"pctFirst", "pctSecond"}
    OBVIOUS
  <2> QED BY <1>1, <2>1, <2>2, <2>3 DEF TypeOK, TestStages
<1>3. Control' /\ Standing'
  BY DEF Control, Standing, BootStages, TestStages, PctStages, Drawing, NotDrawing
<1>4. Seeding' /\ Memory' /\ Testing'
  BY DEF Seeding, Memory, Testing, ReadStages, Wanted
<1> QED BY <1>2, <1>3, <1>4 DEF IInv

LEMMA NextIInv == IInv /\ [Next]_vars => IInv'
<1> SUFFICES ASSUME IInv, [Next]_vars PROVE IInv'
  OBVIOUS
<1>1. CASE Application
  BY <1>1, ApplicationStep
<1>2. CASE Run
  BY <1>2, TestStep, ReadStep, InstantiateStep, RandomStep, ServiceStep, PctStep DEF Run
<1>3. CASE Restart
  BY <1>3, RestartStep
<1>4. CASE UNCHANGED vars
  BY <1>4 DEF IInv, TypeOK, Control, Standing, Seeding, Memory, Held, Testing, Wanted,
     vars, modVars, callVars, drbg
<1> QED BY <1>1, <1>2, <1>3, <1>4 DEF Next

-------------------------------------------------------------------------------
\* The inductive invariant.
THEOREM Invariance == Spec => []IInv
BY InitIInv, NextIInv, PTL DEF Spec

\* The module's state keeps its type.
THEOREM TypeCorrect == Spec => []TypeOK
<1>1. IInv => TypeOK
  BY DEF IInv
<1> QED BY <1>1, Invariance, PTL

\* enterError (index.js) runs exactly when a self-test, a read of the device or
\* a pairwise test has failed: the checks of random() (module.js) and of
\* generate (drbg.js) never disagree.
THEOREM ErrorExactlyOnFault == Spec => []ErrorIffFault
<1>1. IInv => ErrorIffFault
  BY DEF IInv, Standing, TypeOK, ErrorIffFault
<1> QED BY <1>1, Invariance, PTL

\* In the error state there is no service table and no keyed DRBG.
THEOREM ErrorIsDestroyed == Spec => []ErrorDestroysDrbg
<1>1. IInv => ErrorDestroysDrbg
  BY DEF IInv, Standing, TypeOK, ErrorDestroysDrbg
<1> QED BY <1>1, Invariance, PTL

\* getEntropy (entropy.js) hands over a buffer only when it is full.
THEOREM WholeSeeds == Spec => []SeedIsWhole
<1>1. IInv => SeedIsWhole
  BY DEF IInv, Seeding, TypeOK, SeedIsWhole
<1> QED BY <1>1, Invariance, PTL

\* generateKeypair (module.js) returns only pairs that passed both halves of
\* their test.
THEOREM TestedPairs == Spec => []OnlyTestedPairsLeave
<1>1. IInv => OnlyTestedPairsLeave
  BY DEF IInv, Testing, OnlyTestedPairsLeave
<1> QED BY <1>1, Invariance, PTL

\* Between calls an operational module has overwritten every secret of its calls
\* but the copies that concat makes inside the DRBG (drbg.js).
THEOREM CleanWhenIdle == Spec => []NothingLeftBehind
<1>1. IInv => NothingLeftBehind
  BY DEF IInv, Control, Memory, Held, PctStages, NothingLeftBehind
<1> QED BY <1>1, Invariance, PTL

\* The state machine of index.js and module.js as it is model-checked.
THEOREM ModuleInvHolds == Spec => []ModuleInv
BY TypeCorrect, ErrorExactlyOnFault, ErrorIsDestroyed, WholeSeeds, CleanWhenIdle, PTL
   DEF ModuleInv

-------------------------------------------------------------------------------
\* A DRBG that was just seeded, or destroyed, asks for no seed.
LEMMA FreshSeed ==
  /\ counter = 0 => reseedRequired = FALSE
  /\ counter' = 0 \/ counter' = 1 => reseedRequired' = FALSE
BY ConstantsAssumption DEF reseedRequired

\* The failing steps of the module, as steps of the two contracts.
LEMMA EnterErrorMaps ==
  ASSUME IInv, enterError, state # "error"
  PROVE  /\ Service!StartFails \/ Service!Fail
         /\ DrbgContract!Uninstantiate \/ UNCHANGED drbg
<1>1. CASE op = "boot"
  BY <1>1 DEF IInv, Standing, TypeOK, enterError, Return, Service!StartFails, drbg
<1>2. CASE op # "boot"
  BY <1>2, FreshSeed DEF IInv, Standing, TypeOK, enterError, Return, Service!Fail,
     DrbgContract!Uninstantiate
<1> QED BY <1>1, <1>2

\* The steps that fail, and the only ones that leave the operational state.
Failing == TestFails \/ ReadFails \/ PctMismatch \/ PctThrows

LEMMA FailingMaps ==
  ASSUME IInv, Failing
  PROVE  enterError /\ state # "error"
BY DEF Failing, IInv, Standing, TestFails, ReadFails, PctMismatch, PctThrows,
   TestStages, ReadStages

LEMMA ServesMaps ==
  ASSUME IInv, Generate
  PROVE  DrbgServes /\ UNCHANGED <<state, reply>> /\ DrbgContract!Serve
<1>0. state = "operational"
  BY DEF IInv, Control, Standing, TypeOK, Generate, Services, Drawing, NotDrawing,
     BootStages, TestStages
<1>1. keyed = TRUE /\ counter <= ReseedInterval /\ counter \in Nat /\ served = counter - 1
  BY <1>0, ConstantsAssumption DEF IInv, Standing, TypeOK, Generate
<1>2. DrbgServes
  BY <1>1, ConstantsAssumption DEF DrbgServes, reseedRequired
<1>3. counter' = counter + 1 /\ served' = served + 1 /\ UNCHANGED <<keyed, state, reply>>
  BY <1>2 DEF Generate, modVars
<1>4. reseedRequired' = (served + 1 = ReseedInterval)
  BY <1>1, <1>3, ConstantsAssumption DEF reseedRequired
<1>5. served < ReseedInterval
  BY <1>1, ConstantsAssumption
<1> QED
  BY <1>1, <1>2, <1>3, <1>4, <1>5 DEF DrbgContract!Serve

\* The DRBG's part of every step.
LEMMA DrbgMaps ==
  ASSUME IInv, [Next]_vars
  PROVE  [DrbgContract!DrbgNext]_(DrbgContract!drbgVars)
<1> USE DEF DrbgContract!DrbgNext, DrbgContract!drbgVars
<1>1. CASE UNCHANGED drbg
  BY <1>1 DEF drbg, reseedRequired
<1>2. CASE Failing
  BY <1>1, <1>2, FailingMaps, EnterErrorMaps
<1>3. CASE Generate
  BY <1>3, ServesMaps
<1>4. CASE Instantiate
  BY <1>4, FreshSeed DEF Instantiate, IInv, Control, Standing, TypeOK, Services, Drawing,
     NotDrawing, RandomStages, PctStages, DrbgContract!Instantiate
<1>5. CASE Reseed
  <2>1. state = "operational"
    BY <1>5 DEF Reseed, IInv, Control, Standing, TypeOK, Services, Drawing, NotDrawing,
       BootStages, TestStages
  <2> QED
    BY <1>5, <2>1, FreshSeed DEF Reseed, IInv, Standing, TypeOK, DrbgContract!Reseed
<1>6. CASE Restart
  BY <1>6, FreshSeed DEF Restart, DrbgContract!Uninstantiate
<1>7. CASE Application
  BY <1>1, <1>7 DEF Application, Refuse, Misuse, Call, SelfTest, drbg
<1>8. CASE TestPasses \/ Read \/ ReadDone \/ Random
  BY <1>1, <1>8 DEF TestPasses, Read, ReadDone, Random, drbg
<1>9. CASE KeyGen \/ RunDrawing \/ RunPlain \/ PctFirst \/ PctSecond
  BY <1>1, <1>9 DEF KeyGen, RunDrawing, RunPlain, PctFirst, PctSecond, drbg
<1>10. CASE UNCHANGED vars
  BY <1>1, <1>10 DEF vars, drbg
<1> QED
  BY <1>2, <1>3, <1>4, <1>5, <1>6, <1>7, <1>8, <1>9, <1>10 DEF Next, Run, Failing

\* The module never asks its DRBG for anything the contract does not promise:
\* at most ReseedInterval (RESEED_INTERVAL) requests per seed, none without one,
\* and it reseeds when they are used up, not earlier.
THEOREM DrbgUse == Spec => UsesDrbgAsPromised
<1>1. Init => DrbgContract!DrbgInit
  BY FreshSeed DEF Init, DrbgContract!DrbgInit
<1> QED
  BY <1>1, DrbgMaps, Invariance, PTL DEF Spec, UsesDrbgAsPromised, DrbgContract!DrbgSpec

\* What the application sees of every step.
LEMMA ServiceMaps ==
  ASSUME IInv, [Next]_vars
  PROVE  [Service!ServiceNext]_(Service!serviceVars)
<1> USE DEF Service!ServiceNext, Service!serviceVars
<1>1. CASE UNCHANGED <<state, reply>>
  BY <1>1
<1>2. CASE Failing
  BY <1>2, FailingMaps, EnterErrorMaps
<1>3. CASE Generate
  BY <1>1, <1>3, ServesMaps
<1>4. CASE Instantiate
  BY <1>4 DEF Instantiate, Return, IInv, Control, Standing, TypeOK, Services, Drawing,
     NotDrawing, RandomStages, PctStages, Service!StartSucceeds
<1>5. CASE Restart
  BY <1>5 DEF Restart, Service!Restart
<1>6. CASE Refuse \/ Misuse
  BY <1>6 DEF Refuse, Misuse, IInv, Control, Standing, TypeOK, modVars,
     Service!RefuseCall, Service!AnswerCall, Service!Answers
<1>7. ASSUME (\E o \in Services, a \in Algorithms : Call(o, a)) \/ SelfTest
      PROVE  UNCHANGED <<state, reply>>
  BY <1>7 DEF Call, SelfTest, modVars
<1>8. CASE Read \/ ReadDone \/ Random \/ Reseed \/ KeyGen \/ PctFirst
  BY <1>1, <1>8 DEF Read, ReadDone, Random, Reseed, KeyGen, PctFirst, modVars
<1>9. CASE TestPasses
  <2>1. CASE NextStage(pc) = "idle"
    BY <1>9, <2>1 DEF TestPasses, NextStage, Return, IInv, Standing, Control, TypeOK,
       TestStages, Services, Drawing, NotDrawing, RandomStages, PctStages, modVars,
       Service!AnswerCall, Service!Answers
  <2>2. CASE NextStage(pc) # "idle"
    BY <1>1, <1>9, <2>2 DEF TestPasses, modVars
  <2> QED BY <2>1, <2>2
<1>10. CASE RunDrawing \/ RunPlain \/ PctSecond
  <2>1. state = "operational"
    BY <1>10 DEF RunDrawing, RunPlain, PctSecond, IInv, Control, Standing, TypeOK, Services,
       Drawing, NotDrawing, BootStages, TestStages
  <2> QED
    BY <1>10, <2>1 DEF RunDrawing, RunPlain, PctSecond, Return, modVars,
       Service!AnswerCall, Service!Answers
<1>11. CASE UNCHANGED vars
  BY <1>1, <1>11 DEF vars, modVars
<1> QED
  BY <1>1, <1>2, <1>3, <1>4, <1>5, <1>6, <1>7, <1>8, <1>9, <1>10, <1>11
  DEF Next, Run, Application, Failing

\* The safety part of ImplementsService: whatever happens inside, the module
\* answers only while operational and never leaves the error state but by a
\* restart.
THEOREM ServiceSafety ==
  Spec => Service!ServiceInit /\ [][Service!ServiceNext]_(Service!serviceVars)
<1>1. Init => Service!ServiceInit
  BY DEF Init, Service!ServiceInit
<1> QED BY <1>1, ServiceMaps, Invariance, PTL DEF Spec

===============================================================================
