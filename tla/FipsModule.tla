------------------------------- MODULE FipsModule ------------------------------
(***************************************************************************)
(* The FIPS module of one process: index.js (start-up, the service         *)
(* dispatch, the error state), module.js (the services and their use of    *)
(* the DRBG) and entropy.js (reading the random device).                   *)
(*                                                                         *)
(* One thread of control runs through it.  `pc' is where it is: a stage of *)
(* the self-tests, a read of the device, a point inside a service, or idle.*)
(* What the module does not decide is nondeterministic: whether a self-test*)
(* passes, how much a read returns or that it fails, what the algorithms   *)
(* say of the caller's keys, how a pairwise consistency test ends, and     *)
(* when the process is killed and started again.                           *)
(*                                                                         *)
(* Key and random bytes are abstracted to where they are: `mem' names the  *)
(* arrays the module's code makes that hold a secret and have not been     *)
(* overwritten, the copies that concat makes inside the DRBG included.     *)
(* The DRBG is its contract (Drbg) with the counter the code keeps;        *)
(* HmacDrbg shows that src/fips/drbg.js keeps that contract.               *)
(***************************************************************************)
EXTENDS Naturals, FiniteSets

CONSTANTS
  Kem, Dsa,          \* the parameter sets offered, KEM and DSA
  ReseedInterval,    \* RESEED_INTERVAL
  EntropyBytes,      \* ENTROPY_BYTES, in units of a shortest read
  NonceBytes,        \* NONCE_BYTES
  MaxRestarts        \* bound: how often the process is killed

ASSUME ConstantsAssumption ==
  /\ ReseedInterval \in Nat \ {0}
  /\ EntropyBytes \in Nat \ {0}
  /\ NonceBytes \in Nat \ {0}
  /\ MaxRestarts \in Nat
  /\ Kem \cap Dsa = {}

VARIABLES
  state,       \* "self-test", "operational" or "error"
  services,    \* whether index.js holds the service table
  pc,          \* the control point
  op,          \* the service that runs, or "boot"
  alg,         \* its parameter set
  draw,        \* which call of random() runs: the service's or the PCT's
  filled,      \* bytes read of the entropy buffer being filled
  keyed,       \* the DRBG is instantiated
  counter,     \* its #counter
  mem,         \* the arrays that hold a secret and are not overwritten
  reply,       \* outcome of the last call
  fault,       \* history: something the module depends on has failed
  served,      \* history: DRBG requests answered since the last seeding
  seedLen,     \* history: bytes read into the last seed
  passed,      \* history: tests the pair being generated has passed
  restarts     \* number of restarts so far

modVars  == <<state, services>>
callVars == <<pc, op, alg, draw, filled>>
drbg     == <<keyed, counter, served>>
vars == <<modVars, callVars, drbg, mem, reply, fault, seedLen, passed, restarts>>

Algorithms == Kem \cup Dsa
NoAlg == "none"

\* Services that need random bytes, and those that do not.
Drawing    == {"generateKeypair", "encapsulate", "sign"}
NotDrawing == {"keypairFromSeed", "decapsulate", "verify"}
Services   == Drawing \cup NotDrawing

Offers(o) ==
  CASE o \in {"encapsulate", "decapsulate"} -> Kem
    [] o \in {"sign", "verify"} -> Dsa
    [] OTHER -> Algorithms

\* What concat (drbg.js) copies and nobody overwrites: the entropy input and nonce
\* the DRBG is seeded with, and V after a request, which is what was drawn.
Copies  == {"seedCopy", "drawnCopy"}
Secrets == Copies \cup
  {"entropy", "nonce", "keySeed", "secretKey", "draw", "pctDraw", "pctShared"}
TestStages  == {"protocol", "integrityCasts", "integrityTest", "import", "algorithmCasts"}
ReadStages  == {"entropy", "nonce", "reseedEntropy"}

-------------------------------------------------------------------------------
Init ==
  /\ state = "self-test" /\ services = FALSE
  /\ pc = "protocol" /\ op = "boot" /\ alg = NoAlg /\ draw = "main" /\ filled = 0
  /\ keyed = FALSE /\ counter = 0 /\ served = 0
  /\ mem = {}
  /\ reply = "none"
  /\ fault = FALSE /\ seedLen = 0 /\ passed = {}
  /\ restarts = 0

\* The running call ends: control goes back to the application.
Return(r) ==
  /\ pc' = "idle" /\ op' = "none" /\ alg' = NoAlg /\ draw' = "main" /\ filled' = 0
  /\ reply' = r

\* enterError: the services are given up and the DRBG destroyed with them.
enterError ==
  /\ state' = "error"
  /\ services' = FALSE
  /\ IF services THEN keyed' = FALSE /\ counter' = 0 /\ served' = 0
                 ELSE UNCHANGED drbg
  /\ Return(IF op = "boot" THEN reply ELSE "enteredError")

-------------------------------------------------------------------------------
\* The stages of start-up and of selfTest(), in the order they run.
NextStage(s) ==
  CASE s = "protocol"       -> "integrityCasts"
    [] s = "integrityCasts" -> "integrityTest"
    [] s = "integrityTest"  -> IF op = "boot" THEN "import" ELSE "algorithmCasts"
    [] s = "import"         -> "algorithmCasts"
    [] OTHER                -> IF op = "boot" THEN "entropy" ELSE "idle"

TestPasses ==
  /\ pc \in TestStages
  /\ IF NextStage(pc) = "idle" THEN Return("result")
                               ELSE pc' = NextStage(pc) /\ UNCHANGED <<op, alg, draw, filled, reply>>
  /\ UNCHANGED <<modVars, drbg, mem, fault, seedLen, passed, restarts>>

\* Mutant of TestFails: a self-test that fails on demand is only reported.
TestFailsReported ==
  /\ pc \in TestStages
  /\ fault' = TRUE
  /\ IF op = "boot" THEN enterError ELSE Return("enteredError") /\ UNCHANGED <<modVars, drbg>>
  /\ UNCHANGED <<mem, seedLen, passed, restarts>>

TestFails ==
  /\ pc \in TestStages
  /\ fault' = TRUE
  /\ enterError
  /\ UNCHANGED <<mem, seedLen, passed, restarts>>

\* getEntropy: read until the buffer is full, however little a read returns.
Wanted == IF pc = "nonce" THEN NonceBytes ELSE EntropyBytes
Buffer == IF pc = "nonce" THEN "nonce" ELSE "entropy"

Read ==
  /\ pc \in ReadStages /\ filled < Wanted
  /\ \E n \in 1..(Wanted - filled) : filled' = filled + n
  /\ mem' = mem \cup {Buffer}
  /\ UNCHANGED <<modVars, pc, op, alg, draw, drbg, reply, fault, seedLen, passed, restarts>>

\* The device is missing, returns nothing, or fails.
ReadFails ==
  /\ pc \in ReadStages /\ filled < Wanted
  /\ fault' = TRUE
  /\ enterError
  /\ UNCHANGED <<mem, seedLen, passed, restarts>>

ReadDone ==
  /\ pc \in ReadStages /\ filled >= Wanted
  /\ pc' = CASE pc = "entropy" -> "nonce"
             [] pc = "nonce"   -> "instantiate"
             [] OTHER          -> "reseed"
  /\ filled' = 0
  /\ seedLen' = IF pc = "nonce" THEN seedLen ELSE filled
  /\ UNCHANGED <<modVars, op, alg, draw, drbg, mem, reply, fault, passed, restarts>>

\* The end of start(): the module becomes operational.
Instantiate ==
  /\ pc = "instantiate"
  /\ keyed' = TRUE /\ counter' = 1 /\ served' = 0
  /\ mem' = (mem \ {"entropy", "nonce"}) \cup {"seedCopy"}
  /\ state' = "operational" /\ services' = TRUE
  /\ Return(reply)
  /\ UNCHANGED <<fault, seedLen, passed, restarts>>

-------------------------------------------------------------------------------
\* call() and selfTest() outside the operational state.
Refuse ==
  /\ pc = "idle" /\ state # "operational"
  /\ reply' = "refused"
  /\ UNCHANGED <<modVars, callVars, drbg, mem, fault, seedLen, passed, restarts>>

\* A parameter set, type or length the service's checks reject.
Misuse ==
  /\ pc = "idle" /\ state = "operational"
  /\ reply' = "callerError"
  /\ UNCHANGED <<modVars, callVars, drbg, mem, fault, seedLen, passed, restarts>>

Call(o, a) ==
  /\ pc = "idle" /\ state = "operational"
  /\ a \in Offers(o)
  /\ op' = o /\ alg' = a
  /\ pc' = IF o \in Drawing THEN "random" ELSE "run"
  /\ draw' = "main"
  /\ passed' = {}
  /\ UNCHANGED <<modVars, filled, drbg, mem, reply, fault, seedLen, restarts>>

SelfTest ==
  /\ pc = "idle" /\ state = "operational"
  /\ op' = "selfTest" /\ pc' = "integrityCasts"
  /\ UNCHANGED <<modVars, alg, draw, filled, drbg, mem, reply, fault, seedLen, passed, restarts>>

\* random(): reseed when the DRBG asks for it.
reseedRequired == counter > ReseedInterval

\* Mutant of Random: it waits one request longer than the DRBG allows.
RandomLate ==
  /\ pc = "random"
  /\ pc' = IF counter > ReseedInterval + 1 THEN "reseedEntropy" ELSE "generate"
  /\ UNCHANGED <<modVars, op, alg, draw, filled, drbg, mem, reply, fault, seedLen, passed, restarts>>

Random ==
  /\ pc = "random"
  /\ pc' = IF reseedRequired THEN "reseedEntropy" ELSE "generate"
  /\ UNCHANGED <<modVars, op, alg, draw, filled, drbg, mem, reply, fault, seedLen, passed, restarts>>

\* Mutant of Reseed: the counter is left as it was and the check repeated.
ReseedKeepsCounter ==
  /\ pc = "reseed"
  /\ served' = 0
  /\ mem' = (mem \ {"entropy"}) \cup {"seedCopy"}
  /\ pc' = "random"
  /\ UNCHANGED <<modVars, op, alg, draw, filled, keyed, counter, reply, fault, seedLen, passed, restarts>>

Reseed ==
  /\ pc = "reseed"
  /\ counter' = 1 /\ served' = 0
  /\ mem' = (mem \ {"entropy"}) \cup {"seedCopy"}
  /\ pc' = "generate"
  /\ UNCHANGED <<modVars, op, alg, draw, filled, keyed, reply, fault, seedLen, passed, restarts>>

\* drbg.generate throws unless it is instantiated and within its interval, and
\* random() makes that fatal.
DrbgServes == keyed /\ ~reseedRequired

Drawn == IF draw = "pct" THEN "pctDraw" ELSE IF op = "generateKeypair" THEN "keySeed" ELSE "draw"

\* Mutant of Generate: the request is not counted.
GenerateUncounted ==
  /\ pc = "generate"
  /\ IF DrbgServes
     THEN /\ served' = served + 1
          /\ mem' = mem \cup {Drawn, "drawnCopy"}
          /\ pc' = IF draw = "pct" THEN "pctFirst" ELSE "run"
          /\ UNCHANGED <<modVars, op, alg, draw, filled, keyed, counter, reply>>
     ELSE enterError /\ UNCHANGED mem
  /\ UNCHANGED <<fault, seedLen, passed, restarts>>

Generate ==
  /\ pc = "generate"
  /\ IF DrbgServes
     THEN /\ counter' = counter + 1 /\ served' = served + 1
          /\ mem' = mem \cup {Drawn, "drawnCopy"}
          /\ pc' = IF draw = "pct" THEN "pctFirst" ELSE "run"
          /\ UNCHANGED <<modVars, op, alg, draw, filled, keyed, reply>>
     ELSE enterError /\ UNCHANGED mem
  /\ UNCHANGED <<fault, seedLen, passed, restarts>>

-------------------------------------------------------------------------------
\* The key pair is made from the seed; its test draws random bytes of its own.
KeyGen ==
  /\ pc = "run" /\ op = "generateKeypair"
  /\ mem' = mem \cup {"secretKey"}
  /\ draw' = "pct" /\ pc' = "random"
  /\ UNCHANGED <<modVars, op, alg, filled, drbg, reply, fault, seedLen, passed, restarts>>

\* encapsulate and sign: the random bytes are overwritten whether the algorithm
\* returns or rejects the caller's key.
RunDrawing ==
  /\ pc = "run" /\ op \in {"encapsulate", "sign"}
  /\ mem' = mem \ {"draw"}
  /\ \E r \in {"result", "callerError"} : Return(r)
  /\ UNCHANGED <<modVars, drbg, fault, seedLen, passed, restarts>>

\* The others draw nothing.  Only decapsulate can still reject what the caller
\* gave: verify turns every rejection into a result.
RunPlain ==
  /\ pc = "run" /\ op \in NotDrawing
  /\ \E r \in {"result", "callerError"} :
       /\ op # "decapsulate" => r = "result"
       /\ Return(r)
  /\ UNCHANGED <<modVars, drbg, mem, fault, seedLen, passed, restarts>>

\* The pairwise test, first half: encapsulate to the new key, or sign with it.
\* pctDsa overwrites its random bytes here, pctKem with the rest at the end.
PctFirst ==
  /\ pc = "pctFirst"
  /\ mem' = IF alg \in Kem THEN mem \cup {"pctShared"} ELSE mem \ {"pctDraw"}
  /\ passed' = passed \cup {"pctFirst"}
  /\ pc' = "pctSecond"
  /\ UNCHANGED <<modVars, op, alg, draw, filled, drbg, reply, fault, seedLen, restarts>>

\* Second half: decapsulate and compare, or verify.  The pair goes to the
\* operator, whose it is from then on.
PctSecond ==
  /\ pc = "pctSecond"
  /\ mem' = mem \ {"pctDraw", "pctShared", "keySeed", "secretKey"}
  /\ passed' = passed \cup {"pctSecond"}
  /\ Return("keypair")
  /\ UNCHANGED <<modVars, drbg, fault, seedLen, restarts>>

\* The two halves disagree: pctKem has overwritten its values by then.
PctMismatch ==
  /\ pc = "pctSecond"
  /\ mem' = mem \ {"pctDraw", "pctShared"}
  /\ fault' = TRUE
  /\ enterError
  /\ UNCHANGED <<seedLen, passed, restarts>>

\* Mutant of PctThrows: an exception inside the test is swallowed.
PctThrowsSwallowed ==
  /\ pc \in {"pctFirst", "pctSecond"}
  /\ fault' = TRUE
  /\ mem' = {}
  /\ Return("keypair")
  /\ UNCHANGED <<modVars, drbg, seedLen, passed, restarts>>

\* An algorithm throws inside the test: straight to the error.
PctThrows ==
  /\ pc \in {"pctFirst", "pctSecond"}
  /\ fault' = TRUE
  /\ enterError
  /\ UNCHANGED <<mem, seedLen, passed, restarts>>

\* The process is killed, at any point, and started again.
Restart ==
  /\ restarts < MaxRestarts
  /\ restarts' = restarts + 1
  /\ state' = "self-test" /\ services' = FALSE
  /\ pc' = "protocol" /\ op' = "boot" /\ alg' = NoAlg /\ draw' = "main" /\ filled' = 0
  /\ keyed' = FALSE /\ counter' = 0 /\ served' = 0
  /\ mem' = {}
  /\ reply' = "none"
  /\ fault' = FALSE /\ seedLen' = 0 /\ passed' = {}

Application ==
  \/ Refuse
  \/ Misuse
  \/ \E o \in Services, a \in Algorithms : Call(o, a)
  \/ SelfTest

Run ==
  \/ TestPasses
  \/ TestFails
  \/ Read
  \/ ReadFails
  \/ ReadDone
  \/ Instantiate
  \/ Random
  \/ Reseed
  \/ Generate
  \/ KeyGen
  \/ RunDrawing
  \/ RunPlain
  \/ PctFirst
  \/ PctSecond
  \/ PctMismatch
  \/ PctThrows

Next == Application \/ Run \/ Restart

\* Start-up and every call run to their end once begun: synchronous code, apart
\* from the one import that start-up awaits.
Spec == Init /\ [][Next]_vars /\ WF_vars(Run)

-------------------------------------------------------------------------------
TypeOK ==
  /\ state \in {"self-test", "operational", "error"}
  /\ services \in BOOLEAN
  /\ pc \in TestStages \cup ReadStages \cup
            {"idle", "instantiate", "random", "reseed", "generate", "run", "pctFirst", "pctSecond"}
  /\ op \in Services \cup {"boot", "selfTest", "none"}
  /\ alg \in Algorithms \cup {NoAlg}
  /\ draw \in {"main", "pct"}
  /\ filled \in 0..(EntropyBytes + NonceBytes)
  /\ keyed \in BOOLEAN
  /\ counter \in 0..(ReseedInterval + 1)
  /\ mem \in SUBSET Secrets
  /\ reply \in {"none", "result", "keypair", "callerError", "refused", "enteredError"}
  /\ fault \in BOOLEAN
  /\ served \in 0..ReseedInterval
  /\ seedLen \in 0..EntropyBytes
  /\ passed \in SUBSET {"pctFirst", "pctSecond"}
  /\ restarts \in 0..MaxRestarts

\* The module is in the error state exactly when something failed: no failure is
\* survived, and the module never fails by its own doing, as it would if
\* random() asked the DRBG for more than the DRBG is willing to serve.
ErrorIffFault == state = "error" <=> fault

\* In the error state nothing can be served and nothing secret of the DRBG is
\* left; while operational there is a keyed DRBG behind the service table.
ErrorDestroysDrbg ==
  /\ state = "error" => ~services /\ ~keyed
  /\ state = "operational" => services /\ keyed

\* A DRBG in use was seeded with as many bytes as the module asks for, however
\* short the reads of the device were.
SeedIsWhole == keyed => seedLen = EntropyBytes

\* A generated key pair leaves the module only after both halves of its own
\* pairwise test.
OnlyTestedPairsLeave ==
  pc = "idle" /\ reply = "keypair" => passed = {"pctFirst", "pctSecond"}

\* Between calls, also after calls that threw, an operational module has
\* overwritten the buffers it read entropy into, what it drew, its test values
\* and the operator's keys: all that still holds a secret are the copies concat
\* made of the DRBG's inputs and of V (drbg.js), which no code overwrites.
NothingLeftBehind == pc = "idle" /\ state = "operational" => mem \subseteq Copies

\* Whatever the service mix, the DRBG is used within its contract, and random()
\* reseeds it when its requests are used up and not before.
DrbgContract == INSTANCE Drbg WITH requests <- served, usedUp <- reseedRequired
UsesDrbgAsPromised == DrbgContract!DrbgSpec

\* The module is the service FipsService describes.
Service == INSTANCE FipsService WITH
  mode <- IF state = "self-test" THEN "starting" ELSE state
ImplementsService == Service!ServiceSpec

\* Start-up comes to a decision and every call returns.
CallsReturn == pc # "idle" ~> pc = "idle"

\* The state machine of index.js and module.js: the error state is entered on a
\* failure and on nothing else, with the DRBG destroyed; a keyed DRBG has a whole
\* seed; and of a call's secrets nothing is left but the DRBG's concat copies.
ModuleInv ==
  /\ TypeOK
  /\ ErrorIffFault
  /\ ErrorDestroysDrbg
  /\ SeedIsWhole
  /\ NothingLeftBehind

===============================================================================
