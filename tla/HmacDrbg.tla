------------------------------- MODULE HmacDrbg -------------------------------
(***************************************************************************)
(* HMAC_DRBG (src/fips/drbg.js), one object of the class, block by block.  *)
(*                                                                         *)
(* A block is the 64 bytes SHA-512 outputs.  Blocks are numbered: block 0  *)
(* is the all-zero K and block 1 the all-0x01 V that instantiate starts    *)
(* from; every other block is the answer to an HMAC query.  HMAC is an     *)
(* ideal function: `oracle' remembers every query, the same query gets the *)
(* same block, and two different queries get different blocks.  The        *)
(* numbers are thus determined by what the code feeds to hmac, and "the    *)
(* output never repeats" is a fact about the code's feedback of K and V.   *)
(*                                                                         *)
(* One call runs as several steps: the checks, each #step of #update, each *)
(* turn of the output loop, the bookkeeping at the end.                    *)
(***************************************************************************)
EXTENDS Integers, Sequences, FiniteSets

CONSTANTS
  ReseedInterval,       \* RESEED_INTERVAL
  MaxBytesPerRequest,   \* MAX_BYTES_PER_REQUEST
  OutLen,               \* OUTLEN, bytes in a block
  MinEntropy,           \* MIN_ENTROPY_BYTES
  MinNonce,             \* MIN_NONCE_BYTES
  Inputs,               \* values of the entropy and additional inputs
  Empty,                \* the empty input
  Null,                 \* an absent block, null in the code
  MaxQueries            \* bound: no call starts once this many HMACs ran

ASSUME ConstantsAssumption ==
  /\ ReseedInterval \in Nat \ {0}
  /\ MaxBytesPerRequest \in Nat \ {0}
  /\ OutLen \in Nat \ {0}
  /\ MinEntropy \in Nat \ {0}
  /\ MinNonce \in Nat \ {0}
  /\ MaxQueries \in Nat
  /\ Empty \notin Inputs
  /\ Null \notin Nat

VARIABLES
  K, V,        \* #K, #V: block numbers, or Null
  counter,     \* #counter
  buffers,     \* blocks in a K or V buffer nothing has overwritten
  copies,      \* blocks in a concat() result, which nothing overwrites
  copied,      \* inputs in one: entropy input, nonce, additional input
  pc,          \* where the running call is
  provided,    \* the running #update's argument
  owed,        \* the #step call it has to make next, or "none"
  bytes,       \* length asked of generate
  filled,      \* bytes of the output filled so far
  oracle,      \* history: the HMAC queries since instantiate, in order
  issued,      \* history: blocks copied to an output since instantiate
  served,      \* history: generate calls answered since the last seeding
  answer       \* what the last finished call returned

workVars == <<K, V, counter>>
memVars  == <<buffers, copies, copied>>
callVars == <<pc, provided, owed, bytes, filled>>
histVars == <<oracle, issued, served>>
vars == <<workVars, memVars, callVars, histVars, answer>>

Zeros == 0
Ones  == 1

Query(key, val, tag, data) == [key |-> key, val |-> val, tag |-> tag, data |-> data]
Queries == [key : Nat, val : Nat, tag : {"step0", "step1", "value"}, data : Inputs \cup {Empty}]

\* The oracle's answer to q after the queries asked, and the queries after it.
Asked(q, asked)  == \E i \in DOMAIN asked : asked[i] = q
Answer(q, asked) == IF Asked(q, asked) THEN 1 + CHOOSE i \in DOMAIN asked : asked[i] = q
                                       ELSE Len(asked) + 2
After(q, asked)  == IF Asked(q, asked) THEN asked ELSE Append(asked, q)

-------------------------------------------------------------------------------
Init ==
  /\ K = Null /\ V = Null /\ counter = 0
  /\ buffers = {} /\ copies = {} /\ copied = {}
  /\ pc = "idle" /\ provided = Empty /\ owed = "none" /\ bytes = 0 /\ filled = 0
  /\ oracle = <<>> /\ issued = <<>> /\ served = 0
  /\ answer = "none"

\* #update makes one #step for an empty argument, otherwise two.
NextOwed == IF owed = "step0" /\ provided # Empty THEN "step1" ELSE "none"

StartUpdate(at, data) ==
  /\ pc' = at
  /\ provided' = data
  /\ owed' = "step0"

Instantiated == K # Null

reseedRequired == counter > ReseedInterval

\* A call that fails one of its checks throws before it touches the state.
Refuse(ok) ==
  /\ pc = "idle" /\ ~ok
  /\ answer' = "refused"
  /\ UNCHANGED <<workVars, memVars, callVars, histVars>>

InstantiateOK(entropyLen, nonceLen) == entropyLen >= MinEntropy /\ nonceLen >= MinNonce
ReseedOK(entropyLen) == Instantiated /\ entropyLen >= MinEntropy
LengthOK(n) == n >= 1 /\ n <= MaxBytesPerRequest
GenerateOK(n) == Instantiated /\ LengthOK(n) /\ ~reseedRequired

\* Every caller in the repository instantiates an object it has just made, so an
\* instantiated one never is.  concat() copies the seed material.  The histories
\* and the account of memory start over with the instantiation.
instantiate(data, entropyLen, nonceLen) ==
  /\ pc = "idle" /\ ~Instantiated
  /\ InstantiateOK(entropyLen, nonceLen)
  /\ K' = Zeros /\ V' = Ones
  /\ buffers' = {Zeros, Ones} /\ copies' = {} /\ copied' = {data}
  /\ StartUpdate("instantiate", data)
  /\ oracle' = <<>> /\ issued' = <<>>
  /\ answer' = "none"
  /\ UNCHANGED <<counter, bytes, filled, served>>

reseed(data, entropyLen) ==
  /\ pc = "idle" /\ Len(oracle) < MaxQueries
  /\ ReseedOK(entropyLen)
  /\ StartUpdate("reseed", data)
  /\ copied' = copied \cup {data}
  /\ answer' = "none"
  /\ UNCHANGED <<workVars, buffers, copies, bytes, filled, histVars>>

\* The additional input is mixed in first when there is any.
generate(n, data) ==
  /\ pc = "idle" /\ Len(oracle) < MaxQueries
  /\ GenerateOK(n)
  /\ IF data = Empty THEN pc' = "loop" /\ provided' = data /\ UNCHANGED owed
                     ELSE StartUpdate("mix", data)
  /\ bytes' = n /\ filled' = 0
  /\ answer' = "none"
  /\ UNCHANGED <<workVars, memVars, histVars>>

uninstantiate ==
  /\ pc = "idle"
  /\ buffers' = buffers \ {K, V}
  /\ K' = Null /\ V' = Null /\ counter' = 0
  /\ answer' = "none"
  /\ UNCHANGED <<copies, copied, callVars, histVars>>

-------------------------------------------------------------------------------
\* Mutant of Step: the superseded K keeps its buffer.
StepLeavesKey ==
  /\ owed # "none"
  /\ LET keyQuery == Query(K, V, owed, provided)
         newK     == Answer(keyQuery, oracle)
         asked    == After(keyQuery, oracle)
         valQuery == Query(newK, V, "value", Empty)
         newV     == Answer(valQuery, asked)
     IN  /\ K' = newK
         /\ V' = newV
         /\ oracle' = After(valQuery, asked)
         /\ buffers' = (buffers \ {V}) \cup {newK, newV}
         /\ copies' = copies \cup {V}
         /\ copied' = copied \cup ({provided} \ {Empty})
  /\ owed' = NextOwed
  /\ UNCHANGED <<counter, pc, provided, bytes, filled, issued, served, answer>>

\* #step: K = HMAC(K, V || byte || data), V = HMAC(K, V), overwrite both old
\* buffers.  The concat() that held V || byte || data is left as it is.
Step ==
  /\ owed # "none"
  /\ LET keyQuery == Query(K, V, owed, provided)
         newK     == Answer(keyQuery, oracle)
         asked    == After(keyQuery, oracle)
         valQuery == Query(newK, V, "value", Empty)
         newV     == Answer(valQuery, asked)
     IN  /\ K' = newK
         /\ V' = newV
         /\ oracle' = After(valQuery, asked)
         /\ buffers' = (buffers \ {K, V}) \cup {newK, newV}
         /\ copies' = copies \cup {V}
         /\ copied' = copied \cup ({provided} \ {Empty})
  /\ owed' = NextOwed
  /\ UNCHANGED <<counter, pc, provided, bytes, filled, issued, served, answer>>

\* Mutant of Block: the output is not fed back into V.
BlockNotFedBack ==
  /\ pc = "loop" /\ filled < bytes
  /\ LET q == Query(K, V, "value", Empty)
         newV == Answer(q, oracle)
         take == IF OutLen < bytes - filled THEN OutLen ELSE bytes - filled
     IN  /\ oracle' = After(q, oracle)
         /\ issued' = Append(issued, newV)
         /\ filled' = filled + take
  /\ UNCHANGED <<workVars, memVars, pc, provided, owed, bytes, served, answer>>

\* One turn of the output loop: the new V is copied out, up to the length
\* asked.  The V it replaces keeps its buffer.
Block ==
  /\ pc = "loop" /\ filled < bytes
  /\ LET q == Query(K, V, "value", Empty)
         newV == Answer(q, oracle)
         take == IF OutLen < bytes - filled THEN OutLen ELSE bytes - filled
     IN  /\ V' = newV
         /\ oracle' = After(q, oracle)
         /\ buffers' = buffers \cup {newV}
         /\ issued' = Append(issued, newV)
         /\ filled' = filled + take
  /\ UNCHANGED <<K, counter, copies, copied, pc, provided, owed, bytes, served, answer>>

\* Mutant of LoopDone: the closing #update is skipped.
LoopDoneNoUpdate ==
  /\ pc = "loop" /\ filled >= bytes
  /\ pc' = "close" /\ owed' = "none"
  /\ UNCHANGED <<workVars, memVars, provided, bytes, filled, histVars, answer>>

\* The loop ends and the closing #update starts.
LoopDone ==
  /\ pc = "loop" /\ filled >= bytes
  /\ StartUpdate("close", provided)
  /\ UNCHANGED <<workVars, memVars, bytes, filled, histVars, answer>>

Idle ==
  /\ pc' = "idle" /\ provided' = Empty /\ bytes' = 0 /\ filled' = 0
  /\ UNCHANGED owed

SeedDone ==
  /\ pc \in {"instantiate", "reseed"} /\ owed = "none"
  /\ counter' = 1 /\ served' = 0
  /\ Idle
  /\ answer' = "done"
  /\ UNCHANGED <<K, V, memVars, oracle, issued>>

MixDone ==
  /\ pc = "mix" /\ owed = "none"
  /\ pc' = "loop"
  /\ UNCHANGED <<workVars, memVars, provided, owed, bytes, filled, histVars, answer>>

\* Mutant of GenerateDone: the request is not counted.
GenerateDoneUncounted ==
  /\ pc = "close" /\ owed = "none"
  /\ served' = served + 1
  /\ Idle
  /\ answer' = "done"
  /\ UNCHANGED <<workVars, memVars, oracle, issued>>

GenerateDone ==
  /\ pc = "close" /\ owed = "none"
  /\ counter' = counter + 1 /\ served' = served + 1
  /\ Idle
  /\ answer' = "done"
  /\ UNCHANGED <<K, V, memVars, oracle, issued>>

-------------------------------------------------------------------------------
\* The lengths that tell the checks apart: one short, and enough.
EntropyLens == {MinEntropy - 1, MinEntropy}
NonceLens   == {MinNonce - 1, MinNonce}
Lengths     == 0..(MaxBytesPerRequest + 1)

Caller ==
  \/ \E d \in Inputs, e \in EntropyLens, n \in NonceLens : instantiate(d, e, n)
  \/ \E d \in Inputs, e \in EntropyLens : reseed(d, e)
  \/ \E n \in Lengths, d \in Inputs \cup {Empty} : generate(n, d)
  \/ \E e \in EntropyLens, n \in NonceLens : ~Instantiated /\ Refuse(InstantiateOK(e, n))
  \/ \E e \in EntropyLens : Refuse(ReseedOK(e))
  \/ \E n \in Lengths : Refuse(GenerateOK(n))
  \/ uninstantiate

\* The rest of a call that has started.
Run ==
  \/ Step
  \/ Block
  \/ LoopDone
  \/ SeedDone
  \/ MixDone
  \/ GenerateDone

Next == Caller \/ Run

\* A started call runs on: it is one synchronous JavaScript function.
Spec == Init /\ [][Next]_vars /\ WF_vars(Run)

-------------------------------------------------------------------------------
TypeOK ==
  /\ K \in Nat \cup {Null} /\ V \in Nat \cup {Null}
  /\ counter \in 0..(ReseedInterval + 1)
  /\ buffers \in SUBSET Nat /\ copies \in SUBSET Nat /\ copied \in SUBSET Inputs
  /\ pc \in {"idle", "instantiate", "reseed", "mix", "loop", "close"}
  /\ provided \in Inputs \cup {Empty}
  /\ owed \in {"none", "step0", "step1"}
  /\ bytes \in 0..MaxBytesPerRequest
  /\ filled \in 0..MaxBytesPerRequest
  /\ oracle \in Seq(Queries)
  /\ issued \in Seq(Nat)
  /\ served \in 0..ReseedInterval
  /\ answer \in {"none", "done", "refused"}

\* No block of output is ever output again, across requests, reseeds and
\* repeated entropy or additional inputs, until the next instantiation.
NoBlockRepeats ==
  \A i, j \in DOMAIN issued : issued[i] = issued[j] => i = j

\* Blocks that someone who holds the blocks of `known', and every input, can
\* compute with the queries made so far.
Derivable(known) ==
  LET D[i \in 0..Len(oracle)] ==
        IF i = 0 THEN known
        ELSE LET before == D[i - 1]
             IN  IF {oracle[i].key, oracle[i].val} \subseteq before
                 THEN before \cup {i + 1} ELSE before
  IN  D[Len(oracle)]

\* Between calls the working state K, V neither is nor gives back anything that
\* was output before: every generate ends with an #update that moves past it.
PastUnreachable ==
  pc = "idle" /\ Instantiated =>
    Derivable({K, V}) \cap {issued[i] : i \in DOMAIN issued} = {}

\* Between calls the only key left in memory is the present one, and after
\* uninstantiate there is none.
KeysOverwritten ==
  pc = "idle" => \A i \in DOMAIN oracle :
                   oracle[i].key \in buffers \cup copies => oracle[i].key = K

\* The output loop fills exactly the length asked for, a partial last block
\* included: a request for a multiple of OutLen takes no extra block.
OutputExact ==
  /\ filled <= bytes
  /\ pc = "close" => filled = bytes

\* The promise of Drbg: a seed serves ReseedInterval requests and no more, a new
\* one is asked for (reseedRequired) when they are used up and not before,
\* nothing is served without a seed, and refused calls change nothing.  `served'
\* counts the answers, so an error in #counter shows.
Contract == INSTANCE Drbg WITH
  keyed    <- counter > 0,
  requests <- IF counter > 0 THEN served ELSE 0,
  usedUp   <- reseedRequired

KeepsContract == Contract!DrbgSpec

\* The generator (drbg.js) between and within calls: typed, the loop fills what
\* was asked for, and #step overwrites every key it replaces.
DrbgInv ==
  /\ TypeOK
  /\ OutputExact
  /\ KeysOverwritten

===============================================================================
