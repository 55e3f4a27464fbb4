---------------------------- MODULE HmacDrbg_proofs ----------------------------
(***************************************************************************)
(* Proofs about HmacDrbg, for every interval, block length, request limit  *)
(* and set of inputs.                                                      *)
(*                                                                         *)
(* The argument.  Blocks are numbered in the order the oracle hands them   *)
(* out, so every recorded query is about blocks older than its answer      *)
(* (Ordered).  V is always the newest block (Newest).  A query that        *)
(* mentions the newest block cannot have been asked before, hence its      *)
(* answer is a new block (FreshAnswer): output never repeats, a block that *)
(* was once a key is never again a value, and the state moves on.  Between *)
(* calls no query can have been about the V at hand, so nothing that was   *)
(* asked can be asked again from K and V alone (Past).                     *)
(***************************************************************************)
EXTENDS HmacDrbg, SequenceTheorems, WellFoundedInduction, TLAPS

Ordered(asked) ==
  \A i \in DOMAIN asked : asked[i].key <= i /\ asked[i].val <= i

\* How the control point, the counter and the history go together.
Phase ==
  /\ K = Null <=> V = Null
  /\ K = Null => pc = "idle" /\ counter = 0
  /\ pc = "instantiate" => counter = 0
  /\ counter = 0 /\ K # Null => pc = "instantiate"
  /\ counter > 0 => served = counter - 1
  /\ pc \in {"mix", "loop", "close"} => counter <= ReseedInterval
  /\ pc \in {"idle", "loop"} => owed = "none"

Newest ==
  /\ Ordered(oracle)
  /\ K # Null => V = Len(oracle) + 1 /\ K < V
  /\ \A j \in DOMAIN issued : issued[j] <= Len(oracle) + 1
  /\ \A b \in buffers \cup copies : b <= Len(oracle) + 1

\* Keys other than the present one have left memory, at every step of a call.
OldKeysGone ==
  /\ \A i \in DOMAIN oracle : oracle[i].key \in buffers \cup copies => oracle[i].key = K
  /\ K \notin copies

IInv == TypeOK /\ Phase /\ Newest /\ OldKeysGone /\ NoBlockRepeats /\ OutputExact

-------------------------------------------------------------------------------
\* A query about the newest block was never asked: its answer is a new block.
LEMMA FreshAnswer ==
  ASSUME NEW asked \in Seq(Queries), Ordered(asked),
         NEW q \in Queries, q.key = Len(asked) + 1 \/ q.val = Len(asked) + 1
  PROVE  /\ Answer(q, asked) = Len(asked) + 2
         /\ After(q, asked) = Append(asked, q)
<1>1. ~Asked(q, asked)
  <2> SUFFICES ASSUME NEW i \in DOMAIN asked, asked[i] = q PROVE FALSE
    BY DEF Asked
  <2>1. i \in 1..Len(asked) /\ Len(asked) \in Nat
    OBVIOUS
  <2>2. asked[i].key <= i /\ asked[i].val <= i
    BY DEF Ordered
  <2> QED BY <2>1, <2>2 DEF Queries
<1> QED BY <1>1 DEF Answer, After

\* One more query about blocks no newer than the newest keeps the order.
LEMMA OrderedAppend ==
  ASSUME NEW asked \in Seq(Queries), Ordered(asked),
         NEW q \in Queries, q.key <= Len(asked) + 1, q.val <= Len(asked) + 1
  PROVE  /\ Append(asked, q) \in Seq(Queries)
         /\ Len(Append(asked, q)) = Len(asked) + 1
         /\ Ordered(Append(asked, q))
BY DEF Ordered

\* The keys of the recorded queries are older than the newest block.
LEMMA OldQueries ==
  ASSUME NEW asked \in Seq(Queries), Ordered(asked)
  PROVE  \A j \in DOMAIN asked : asked[j].key \in Nat /\ asked[j].key <= Len(asked)
<1> TAKE j \in DOMAIN asked
<1>1. j \in 1..Len(asked) /\ Len(asked) \in Nat /\ asked[j] \in Queries
  OBVIOUS
<1>2. asked[j].key \in Nat
  BY <1>1 DEF Queries
<1> QED BY <1>1, <1>2 DEF Ordered

LEMMA InitIInv == Init => IInv
BY ConstantsAssumption
DEF Init, IInv, TypeOK, Phase, Newest, Ordered, OldKeysGone, NoBlockRepeats, OutputExact

-------------------------------------------------------------------------------
\* What the checks at the start of a call leave alone they cannot break.
LEMMA CallerStep ==
  ASSUME IInv, Caller
  PROVE  IInv'
<1> USE ConstantsAssumption
<1>1. ASSUME NEW d \in Inputs, NEW e \in EntropyLens, NEW n \in NonceLens,
             instantiate(d, e, n)
      PROVE  IInv'
  BY <1>1 DEF IInv, TypeOK, Phase, Newest, Ordered, OldKeysGone, NoBlockRepeats,
     OutputExact, instantiate, StartUpdate, Instantiated, Zeros, Ones
<1>2. ASSUME NEW d \in Inputs, NEW e \in EntropyLens, reseed(d, e)
      PROVE  IInv'
  BY <1>2 DEF IInv, TypeOK, Phase, Newest, Ordered, OldKeysGone, NoBlockRepeats,
     OutputExact, reseed, ReseedOK, StartUpdate, Instantiated,
     workVars, memVars, histVars
<1>3. ASSUME NEW n \in Lengths, NEW d \in Inputs \cup {Empty}, generate(n, d)
      PROVE  IInv'
  BY <1>3 DEF IInv, TypeOK, Phase, Newest, Ordered, OldKeysGone, NoBlockRepeats,
     OutputExact, generate, GenerateOK, LengthOK, reseedRequired, StartUpdate,
     Instantiated, Lengths, workVars, memVars, histVars
<1>4. ASSUME NEW ok \in BOOLEAN, Refuse(ok)
      PROVE  IInv'
  BY <1>4 DEF IInv, TypeOK, Phase, Newest, Ordered, OldKeysGone, NoBlockRepeats,
     OutputExact, Refuse, workVars, memVars, callVars, histVars
<1>5. CASE uninstantiate
  <2>1. TypeOK'
    BY <1>5 DEF IInv, TypeOK, uninstantiate, callVars, histVars
  <2>4. Phase' /\ NoBlockRepeats' /\ OutputExact'
    BY <1>5 DEF IInv, Phase, NoBlockRepeats, OutputExact, uninstantiate,
       callVars, histVars
  <2>2. Newest'
    BY <1>5 DEF IInv, TypeOK, Newest, Ordered, uninstantiate, callVars, histVars
  <2>3. OldKeysGone'
    BY <1>5 DEF IInv, TypeOK, OldKeysGone, uninstantiate, callVars, histVars
  <2> QED BY <2>1, <2>2, <2>3, <2>4 DEF IInv
<1> QED
  BY <1>1, <1>2, <1>3, <1>4, <1>5
  DEF Caller, InstantiateOK, ReseedOK, GenerateOK, LengthOK, Instantiated, reseedRequired

-------------------------------------------------------------------------------
\* Between them the two queries of #step make the two newest blocks.
LEMMA StepStep ==
  ASSUME IInv, Step
  PROVE  IInv'
<1> DEFINE keyQuery == Query(K, V, owed, provided)
           newK     == Answer(keyQuery, oracle)
           asked    == After(keyQuery, oracle)
           valQuery == Query(newK, V, "value", Empty)
           newV     == Answer(valQuery, asked)
           n        == Len(oracle)
<1> USE ConstantsAssumption
<1> HIDE DEF keyQuery, newK, asked, valQuery, newV
<1>1. owed \in {"step0", "step1"} /\ NextOwed \in {"none", "step1"}
  BY DEF Step, NextOwed, IInv, TypeOK
<1>2. K \in Nat /\ V \in Nat /\ V = n + 1 /\ K < V /\ n \in Nat /\ pc \notin {"idle", "loop"}
  BY <1>1 DEF IInv, TypeOK, Phase, Newest
<1>3. oracle \in Seq(Queries) /\ Ordered(oracle)
  BY DEF IInv, TypeOK, Newest
<1>4. keyQuery \in Queries /\ keyQuery.key = K /\ keyQuery.val = V
  BY <1>1, <1>2 DEF keyQuery, Query, Queries, IInv, TypeOK
<1>5. newK = n + 2 /\ asked = Append(oracle, keyQuery)
  BY <1>2, <1>3, <1>4, FreshAnswer DEF newK, asked
<1>6. asked \in Seq(Queries) /\ Len(asked) = n + 1 /\ Ordered(asked)
  BY <1>2, <1>3, <1>4, <1>5, OrderedAppend
<1>7. valQuery \in Queries /\ valQuery.key = newK /\ valQuery.val = V
  BY <1>2, <1>5 DEF valQuery, Query, Queries
<1>71. valQuery.key = Len(asked) + 1 /\ valQuery.key <= Len(asked) + 1 /\ valQuery.val <= Len(asked) + 1
  BY <1>2, <1>5, <1>6, <1>7
<1>72. Answer(valQuery, asked) = Len(asked) + 2 /\ After(valQuery, asked) = Append(asked, valQuery)
  BY <1>6, <1>7, <1>71, FreshAnswer
<1>8. newV = n + 3 /\ After(valQuery, asked) = Append(asked, valQuery)
  BY <1>2, <1>6, <1>72 DEF newV
<1>9. /\ Append(asked, valQuery) \in Seq(Queries)
      /\ Len(Append(asked, valQuery)) = n + 2
      /\ Ordered(Append(asked, valQuery))
  BY <1>2, <1>6, <1>7, <1>71, OrderedAppend
<1>10. /\ K' = n + 2 /\ V' = n + 3
       /\ oracle' = Append(asked, valQuery)
       /\ buffers' = (buffers \ {K, V}) \cup {n + 2, n + 3}
       /\ copies' = copies \cup {V}
       /\ copied' = copied \cup ({provided} \ {Empty})
       /\ owed' = NextOwed
       /\ UNCHANGED <<counter, pc, provided, bytes, filled, issued, served, answer>>
  BY <1>5, <1>8 DEF Step, keyQuery, newK, asked, valQuery, newV
<1> HIDE DEF n
<1>11. TypeOK'
  BY <1>1, <1>2, <1>9, <1>10 DEF IInv, TypeOK
<1>12. Phase'
  BY <1>1, <1>2, <1>10 DEF IInv, Phase
<1>13. Newest'
  BY <1>2, <1>9, <1>10 DEF IInv, Newest, TypeOK, n
<1>14. \A i \in DOMAIN oracle' : oracle'[i].key \in {oracle[j].key : j \in DOMAIN oracle} \cup {K, n + 2}
  BY <1>3, <1>4, <1>5, <1>6, <1>7, <1>10
<1>15. \A j \in DOMAIN oracle : oracle[j].key \in Nat /\ oracle[j].key <= n
  BY <1>3, OldQueries DEF n
<1>16. OldKeysGone'
  <2>1. ASSUME NEW i \in DOMAIN oracle', oracle'[i].key \in buffers' \cup copies'
        PROVE  oracle'[i].key = K'
    <3>1. oracle'[i].key # K
      BY <1>2, <1>10, <2>1 DEF IInv, OldKeysGone
    <3>2. CASE oracle'[i].key = n + 2
      BY <1>10, <3>2
    <3>3. ASSUME NEW j \in DOMAIN oracle, oracle'[i].key = oracle[j].key
          PROVE  FALSE
      <4>1. oracle[j].key \in buffers \cup copies
        BY <1>2, <1>10, <1>15, <2>1, <3>3
      <4> QED BY <3>1, <3>3, <4>1 DEF IInv, OldKeysGone
    <3> QED BY <1>14, <3>1, <3>2, <3>3
  <2>2. K' \notin copies'
    BY <1>2, <1>10 DEF IInv, Newest, n
  <2> QED BY <2>1, <2>2 DEF OldKeysGone
<1>17. NoBlockRepeats' /\ OutputExact'
  BY <1>10 DEF IInv, NoBlockRepeats, OutputExact
<1> QED BY <1>11, <1>12, <1>13, <1>16, <1>17 DEF IInv

\* The output loop's query is about the newest block too.
LEMMA BlockStep ==
  ASSUME IInv, Block
  PROVE  IInv'
<1> DEFINE q    == Query(K, V, "value", Empty)
           newV == Answer(q, oracle)
           n    == Len(oracle)
           take == IF OutLen < bytes - filled THEN OutLen ELSE bytes - filled
<1> USE ConstantsAssumption
<1>1. pc = "loop" /\ filled < bytes
  BY DEF Block
<1>2. K \in Nat /\ V \in Nat /\ V = n + 1 /\ K < V /\ n \in Nat
  BY <1>1 DEF IInv, TypeOK, Phase, Newest
<1>3. oracle \in Seq(Queries) /\ Ordered(oracle)
  BY DEF IInv, TypeOK, Newest
<1>4. q \in Queries /\ q.key = K /\ q.val = V
  BY <1>2 DEF Query, Queries
<1>5. newV = n + 2 /\ After(q, oracle) = Append(oracle, q)
  BY <1>2, <1>3, <1>4, FreshAnswer
<1>6. /\ Append(oracle, q) \in Seq(Queries)
      /\ Len(Append(oracle, q)) = n + 1
      /\ Ordered(Append(oracle, q))
  BY <1>2, <1>3, <1>4, OrderedAppend
<1>7. /\ V' = n + 2
      /\ oracle' = Append(oracle, q)
      /\ buffers' = buffers \cup {n + 2}
      /\ issued' = Append(issued, n + 2)
      /\ filled' = filled + take
      /\ UNCHANGED <<K, counter, copies, copied, pc, provided, owed, bytes, served, answer>>
  BY <1>5 DEF Block
<1>8. \A i \in DOMAIN oracle' : oracle'[i].key \in {oracle[j].key : j \in DOMAIN oracle} \cup {K}
  BY <1>3, <1>4, <1>7
<1>9. \A j \in DOMAIN oracle : oracle[j].key \in Nat /\ oracle[j].key <= n
  BY <1>3, OldQueries
<1>10. filled' \in 0..MaxBytesPerRequest /\ filled' <= bytes
  BY <1>1, <1>7 DEF IInv, TypeOK
<1>11. issued \in Seq(Nat) /\ \A j \in DOMAIN issued : issued[j] <= n + 1
  BY DEF IInv, TypeOK, Newest
<1> HIDE DEF q, newV, take
<1>12. TypeOK'
  <2>0. n + 2 \in Nat /\ buffers \in SUBSET Nat
    BY <1>2 DEF IInv, TypeOK
  <2>1. issued' \in Seq(Nat) /\ V' \in Nat /\ buffers' \in SUBSET Nat
    <3>1. issued \in Seq(Nat)
      BY <1>11
    <3> DEFINE b == n + 2
    <3> HIDE DEF b
    <3>2. b \in Nat /\ V' = b /\ buffers' = buffers \cup {b} /\ issued' = Append(issued, b)
      BY <2>0, <1>7 DEF b
    <3>3. issued' \in Seq(Nat)
      BY <3>1, <3>2
    <3> QED BY <2>0, <3>2, <3>3
  <2>2. oracle' \in Seq(Queries)
    BY <1>6, <1>7
  <2>3. UNCHANGED <<K, counter, copies, copied, pc, provided, owed, bytes, served, answer>>
    BY <1>7
  <2> QED BY <2>1, <2>2, <2>3, <1>10 DEF IInv, TypeOK
<1>13. Phase'
  BY <1>1, <1>2, <1>7 DEF IInv, Phase
<1>14. Newest'
  BY <1>2, <1>6, <1>7, <1>11 DEF IInv, Newest, TypeOK
<1>15. OldKeysGone'
  <2>1. ASSUME NEW i \in DOMAIN oracle', oracle'[i].key \in buffers' \cup copies'
        PROVE  oracle'[i].key = K'
    <3>1. CASE oracle'[i].key = K
      BY <1>7, <3>1
    <3>2. ASSUME NEW j \in DOMAIN oracle, oracle'[i].key = oracle[j].key
          PROVE  oracle'[i].key = K'
      <4>1. oracle[j].key \in buffers \cup copies
        BY <1>2, <1>7, <1>9, <2>1, <3>2
      <4> QED BY <1>7, <3>2, <4>1 DEF IInv, OldKeysGone
    <3> QED BY <1>8, <3>1, <3>2
  <2>2. K' \notin copies'
    BY <1>7 DEF IInv, OldKeysGone
  <2> QED BY <2>1, <2>2 DEF OldKeysGone
<1>16. NoBlockRepeats'
  BY <1>2, <1>7, <1>11 DEF IInv, NoBlockRepeats
<1>17. OutputExact'
  BY <1>1, <1>7, <1>10 DEF IInv, OutputExact
<1> QED BY <1>12, <1>13, <1>14, <1>15, <1>16, <1>17 DEF IInv

\* The bookkeeping steps of a call touch neither K, V nor the oracle.
LEMMA BookkeepingStep ==
  ASSUME IInv, LoopDone \/ SeedDone \/ MixDone \/ GenerateDone
  PROVE  IInv'
<1> USE ConstantsAssumption
<1>1. CASE LoopDone
  BY <1>1 DEF IInv, TypeOK, Phase, Newest, Ordered, OldKeysGone, NoBlockRepeats,
     OutputExact, LoopDone, StartUpdate, workVars, memVars, histVars
<1>2. CASE SeedDone
  BY <1>2 DEF IInv, TypeOK, Phase, Newest, Ordered, OldKeysGone, NoBlockRepeats,
     OutputExact, SeedDone, Idle, memVars
<1>3. CASE MixDone
  BY <1>3 DEF IInv, TypeOK, Phase, Newest, Ordered, OldKeysGone, NoBlockRepeats,
     OutputExact, MixDone, workVars, memVars, histVars
<1>4. CASE GenerateDone
  BY <1>4 DEF IInv, TypeOK, Phase, Newest, Ordered, OldKeysGone, NoBlockRepeats,
     OutputExact, GenerateDone, Idle, memVars
<1> QED BY <1>1, <1>2, <1>3, <1>4

LEMMA NextIInv == IInv /\ [Next]_vars => IInv'
<1> SUFFICES ASSUME IInv, [Next]_vars PROVE IInv'
  OBVIOUS
<1>1. CASE Caller
  BY <1>1, CallerStep
<1>2. CASE Step
  BY <1>2, StepStep
<1>3. CASE Block
  BY <1>3, BlockStep
<1>4. CASE LoopDone \/ SeedDone \/ MixDone \/ GenerateDone
  BY <1>4, BookkeepingStep
<1>5. CASE UNCHANGED vars
  BY <1>5 DEF IInv, TypeOK, Phase, Newest, Ordered, OldKeysGone, NoBlockRepeats,
     OutputExact, vars, workVars, memVars, callVars, histVars
<1> QED BY <1>1, <1>2, <1>3, <1>4, <1>5 DEF Next, Run

-------------------------------------------------------------------------------
\* The inductive invariant: every block is newer than the queries recorded
\* before it, V is the newest, and the counter follows the history.
THEOREM Invariance == Spec => []IInv
BY InitIInv, NextIInv, PTL DEF Spec

\* The generator's state keeps its type; in particular #counter (drbg.js) never
\* exceeds the interval by more than one.
THEOREM TypeCorrect == Spec => []TypeOK
<1>1. IInv => TypeOK
  BY DEF IInv
<1> QED BY <1>1, Invariance, PTL

\* The output loop of drbg.js and the #update after it never output the same
\* block twice between two instantiations.
THEOREM OutputNeverRepeats == Spec => []NoBlockRepeats
<1>1. IInv => NoBlockRepeats
  BY DEF IInv
<1> QED BY <1>1, Invariance, PTL

\* Between calls no key but the present one is in a buffer or a copy: #step
\* overwrites each superseded K, and uninstantiate the last one.
THEOREM OldKeysOverwritten == Spec => []KeysOverwritten
<1>1. IInv => KeysOverwritten
  BY DEF IInv, OldKeysGone, KeysOverwritten
<1> QED BY <1>1, Invariance, PTL

\* generate (drbg.js) fills exactly the length it was asked for.
THEOREM OutputLength == Spec => []OutputExact
<1>1. IInv => OutputExact
  BY DEF IInv
<1> QED BY <1>1, Invariance, PTL

\* The three together, as drbg.js is model-checked.
THEOREM DrbgInvHolds == Spec => []DrbgInv
BY TypeCorrect, OutputLength, OldKeysOverwritten, PTL DEF DrbgInv

-------------------------------------------------------------------------------
(* What the working state gives back of the past. *)

\* A set of naturals has a least element, and so induction over one is sound.
LEMMA Least ==
  ASSUME NEW T, T \subseteq Nat, T # {}
  PROVE  \E m \in T : \A k \in T : m <= k
<1> DEFINE R == OpToRel(<, Nat)
<1>1. IsWellFoundedOn(R, Nat)
  BY NatLessThanWellFounded, Zenon
<1>2. \A x, y \in Nat : x < y => <<x, y>> \in R
  BY DEF OpToRel
<1> HIDE DEF R
<1>3. PICK m \in T : \A k \in T : ~(<<k, m>> \in R)
  BY <1>1, WFMin
<1>4. ASSUME NEW k \in T PROVE m <= k
  <2>1. m \in Nat /\ k \in Nat
    OBVIOUS
  <2>2. ~(k < m)
    BY <1>2, <1>3, <2>1
  <2> QED BY <2>1, <2>2
<1> QED BY <1>4

LEMMA SetInduction ==
  ASSUME NEW S, 0 \in S, \A n \in Nat : n \in S => n + 1 \in S
  PROVE  Nat \subseteq S
<1> SUFFICES ASSUME NEW x \in Nat, x \notin S PROVE FALSE
  OBVIOUS
<1> DEFINE T == {n \in Nat : n \notin S}
<1>1. PICK m \in T : \A k \in T : m <= k
  BY Least
<1>2. m \in Nat /\ m # 0 /\ m - 1 \in Nat
  BY <1>1
<1>3. m - 1 \in S
  BY <1>1, <1>2
<1> QED BY <1>1, <1>2, <1>3

\* D is the function that Derivable computes, up to the n-th query.
Reaches(asked, known, n, D) ==
  D = [i \in 0..n |->
        IF i = 0 THEN known
        ELSE IF {asked[i].key, asked[i].val} \subseteq D[i - 1]
             THEN D[i - 1] \cup {i + 1} ELSE D[i - 1]]

LEMMA ReachesExists ==
  ASSUME NEW asked, NEW known
  PROVE  \A n \in Nat : \E D : Reaches(asked, known, n, D)
<1> DEFINE S == {n \in Nat : \E D : Reaches(asked, known, n, D)}
<1>1. 0 \in S
  <2> DEFINE D0 == [i \in {0} |-> known]
  <2>1. Reaches(asked, known, 0, D0)
    <3>1. 0..0 = {0}
      OBVIOUS
    <3> QED BY <3>1 DEF Reaches
  <2> QED BY <2>1
<1>2. ASSUME NEW n \in Nat, n \in S PROVE n + 1 \in S
  <2>1. PICK D : Reaches(asked, known, n, D)
    BY <1>2
  <2> DEFINE more == IF {asked[n + 1].key, asked[n + 1].val} \subseteq D[n]
                     THEN D[n] \cup {(n + 1) + 1} ELSE D[n]
             E == [i \in 0..(n + 1) |-> IF i = n + 1 THEN more ELSE D[i]]
  <2>2. ASSUME NEW i \in 0..(n + 1)
        PROVE E[i] = IF i = 0 THEN known
                     ELSE IF {asked[i].key, asked[i].val} \subseteq E[i - 1]
                          THEN E[i - 1] \cup {i + 1} ELSE E[i - 1]
    <3>1. CASE i = n + 1
      <4>1. i - 1 = n /\ i - 1 \in 0..(n+1) /\ i - 1 # n + 1 /\ i # 0
        BY <3>1
      <4>2. E[i - 1] = D[n] /\ E[i] = more
        BY <3>1, <4>1
      <4> QED BY <3>1, <4>1, <4>2
    <3>2. CASE i # n + 1
      <4>1. i \in 0..n /\ (i # 0 => i - 1 \in 0..(n + 1) /\ i - 1 # n + 1)
        BY <3>2
      <4>2. E[i] = D[i] /\ (i # 0 => E[i - 1] = D[i - 1])
        BY <3>2, <4>1
      <4>3. D[i] = IF i = 0 THEN known
                     ELSE IF {asked[i].key, asked[i].val} \subseteq D[i - 1]
                          THEN D[i - 1] \cup {i + 1} ELSE D[i - 1]
        BY <2>1, <4>1 DEF Reaches
      <4> HIDE DEF E
      <4> QED BY <4>2, <4>3
    <3> QED BY <3>1, <3>2
  <2>3. E = [i \in 0..(n + 1) |-> E[i]]
    OBVIOUS
  <2> HIDE DEF E
  <2>4. Reaches(asked, known, n + 1, E)
    BY <2>2, <2>3 DEF Reaches
  <2> QED BY <2>4
<1> HIDE DEF S
<1>3. Nat \subseteq S
  BY <1>1, <1>2, SetInduction
<1> QED BY <1>3 DEF S

\* Who holds blocks of a set, every query among which is answered in it, never
\* leaves the set.
LEMMA DerivableInside ==
  ASSUME oracle \in Seq(Queries), NEW known, NEW T, known \subseteq T,
         \A i \in DOMAIN oracle : {oracle[i].key, oracle[i].val} \subseteq T => i + 1 \in T
  PROVE  Derivable(known) \subseteq T
<1> DEFINE D == CHOOSE D : Reaches(oracle, known, Len(oracle), D)
<1>0. Len(oracle) \in Nat
  OBVIOUS
<1>1. Reaches(oracle, known, Len(oracle), D)
  BY <1>0, ReachesExists
<1>2. Derivable(known) = D[Len(oracle)]
  BY DEF Derivable, Reaches
<1> HIDE DEF D
<1> DEFINE S == {n \in Nat : n <= Len(oracle) => D[n] \subseteq T}
<1>3. 0 \in S
  BY <1>0, <1>1 DEF Reaches
<1>4. ASSUME NEW n \in Nat, n \in S PROVE n + 1 \in S
  <2> SUFFICES ASSUME n + 1 <= Len(oracle) PROVE D[n + 1] \subseteq T
    OBVIOUS
  <2>1. n + 1 \in DOMAIN oracle /\ D[n] \subseteq T /\ n + 1 \in 0..Len(oracle) /\ n + 1 # 0 /\ (n + 1) - 1 = n
    BY <1>0, <1>4
  <2>2. D[n + 1] = IF {oracle[n + 1].key, oracle[n + 1].val} \subseteq D[n]
                   THEN D[n] \cup {(n + 1) + 1} ELSE D[n]
    BY <1>1, <2>1 DEF Reaches
  <2> QED BY <2>1, <2>2
<1> HIDE DEF S
<1>5. Nat \subseteq S
  BY <1>3, <1>4, SetInduction
<1> QED BY <1>0, <1>2, <1>5 DEF S

\* No output is the present key, and no output is the present V once the closing
\* #update has made its first #step.  A key is never HMACed with itself.
Past ==
  /\ \A i \in DOMAIN oracle : oracle[i].key # oracle[i].val
  /\ K # Null => \A j \in DOMAIN issued : issued[j] # K
  /\ K # Null /\ pc # "loop" /\ ~(pc = "close" /\ owed = "step0") =>
       \A j \in DOMAIN issued : issued[j] # V

\* Each #step makes a key and a V that are newer than all output.
LEMMA PastStep ==
  ASSUME IInv, Past, Step
  PROVE  Past'
<1> DEFINE keyQuery == Query(K, V, owed, provided)
           newK     == Answer(keyQuery, oracle)
           asked    == After(keyQuery, oracle)
           valQuery == Query(newK, V, "value", Empty)
           newV     == Answer(valQuery, asked)
           n        == Len(oracle)
<1> USE ConstantsAssumption
<1> HIDE DEF keyQuery, newK, asked, valQuery, newV
<1>1. owed \in {"step0", "step1"} /\ pc \notin {"idle", "loop"}
  BY DEF Step, IInv, TypeOK, Phase
<1>2. K \in Nat /\ V \in Nat /\ V = n + 1 /\ K < V /\ n \in Nat
  BY <1>1 DEF IInv, TypeOK, Phase, Newest
<1>3. oracle \in Seq(Queries) /\ Ordered(oracle)
  BY DEF IInv, TypeOK, Newest
<1>4. keyQuery \in Queries /\ keyQuery.key = K /\ keyQuery.val = V
  BY <1>1, <1>2 DEF keyQuery, Query, Queries, IInv, TypeOK
<1>5. newK = n + 2 /\ asked = Append(oracle, keyQuery)
  BY <1>2, <1>3, <1>4, FreshAnswer DEF newK, asked
<1>6. asked \in Seq(Queries) /\ Len(asked) = n + 1 /\ Ordered(asked)
  BY <1>2, <1>3, <1>4, <1>5, OrderedAppend
<1>7. valQuery \in Queries /\ valQuery.key = newK /\ valQuery.val = V
  BY <1>2, <1>5 DEF valQuery, Query, Queries
<1>8. valQuery.key = Len(asked) + 1
  BY <1>2, <1>5, <1>6, <1>7
<1>9. Answer(valQuery, asked) = Len(asked) + 2 /\ After(valQuery, asked) = Append(asked, valQuery)
  BY <1>6, <1>7, <1>8, FreshAnswer
<1>10. /\ K' = n + 2 /\ V' = n + 3
       /\ oracle' = Append(asked, valQuery)
       /\ UNCHANGED <<pc, issued>>
  BY <1>2, <1>5, <1>6, <1>9 DEF Step, keyQuery, newK, asked, valQuery, newV
<1>11. \A i \in DOMAIN asked : asked[i].key # asked[i].val
  BY <1>2, <1>3, <1>4, <1>5 DEF Past
<1>12. \A i \in DOMAIN oracle' : oracle'[i].key # oracle'[i].val
  BY <1>2, <1>5, <1>6, <1>7, <1>10, <1>11
<1>13. \A j \in DOMAIN issued : issued[j] \in Nat /\ issued[j] <= n + 1
  BY DEF IInv, TypeOK, Newest
<1> HIDE DEF n
<1>14. \A j \in DOMAIN issued' : issued'[j] # K' /\ issued'[j] # V'
  BY <1>2, <1>10, <1>13
<1> QED BY <1>12, <1>14 DEF Past

\* A block of output is newer than the key it was made with.
LEMMA PastBlock ==
  ASSUME IInv, Past, Block
  PROVE  Past'
<1> DEFINE q == Query(K, V, "value", Empty)
           n == Len(oracle)
<1> USE ConstantsAssumption
<1>1. pc = "loop"
  BY DEF Block
<1>2. K \in Nat /\ V \in Nat /\ V = n + 1 /\ K < V /\ n \in Nat
  BY <1>1 DEF IInv, TypeOK, Phase, Newest
<1>3. oracle \in Seq(Queries) /\ Ordered(oracle)
  BY DEF IInv, TypeOK, Newest
<1>4. q \in Queries /\ q.key = K /\ q.val = V
  BY <1>2 DEF Query, Queries
<1>5. Answer(q, oracle) = n + 2 /\ After(q, oracle) = Append(oracle, q)
  BY <1>2, <1>3, <1>4, FreshAnswer
<1>6. oracle' = Append(oracle, q) /\ issued' = Append(issued, n + 2) /\ UNCHANGED <<K, pc>>
  BY <1>5 DEF Block
<1> HIDE DEF q
<1>7. \A i \in DOMAIN oracle' : oracle'[i].key # oracle'[i].val
  BY <1>2, <1>3, <1>4, <1>6 DEF Past
<1>8. \A j \in DOMAIN issued' : issued'[j] # K'
  BY <1>2, <1>6 DEF Past, IInv, TypeOK
<1> QED BY <1>1, <1>6, <1>7, <1>8 DEF Past

LEMMA PastCaller ==
  ASSUME IInv, Past, Caller
  PROVE  Past'
<1> USE ConstantsAssumption
<1>1. ASSUME NEW d, NEW e, NEW n, instantiate(d, e, n) PROVE Past'
  BY <1>1 DEF Past, instantiate
<1>2. ASSUME NEW d, NEW e, reseed(d, e) PROVE Past'
  BY <1>2 DEF Past, reseed, StartUpdate, workVars, histVars
<1>3. ASSUME NEW n, NEW d, generate(n, d) PROVE Past'
  BY <1>3 DEF Past, generate, StartUpdate, workVars, histVars
<1>4. ASSUME NEW ok, Refuse(ok) PROVE Past'
  BY <1>4 DEF Past, Refuse, workVars, callVars, histVars
<1>5. uninstantiate => Past'
  BY DEF Past, uninstantiate, histVars
<1> QED BY <1>1, <1>2, <1>3, <1>4, <1>5 DEF Caller

LEMMA PastInductive == IInv /\ Past /\ [Next]_vars => Past'
<1> SUFFICES ASSUME IInv, Past, [Next]_vars PROVE Past'
  OBVIOUS
<1>1. CASE LoopDone
  BY <1>1 DEF Past, LoopDone, StartUpdate, workVars, histVars
<1>2. CASE SeedDone
  BY <1>2 DEF Past, SeedDone, Idle
<1>3. CASE MixDone
  BY <1>3 DEF Past, MixDone, workVars, histVars
<1>4. CASE GenerateDone
  BY <1>4 DEF Past, GenerateDone, Idle
<1>5. CASE UNCHANGED vars
  BY <1>5 DEF Past, vars, workVars, callVars, histVars
<1> QED BY <1>1, <1>2, <1>3, <1>4, <1>5, PastCaller, PastStep, PastBlock DEF Next, Run

\* With the state between calls nothing can be asked that was asked before: every
\* query was about other blocks, since none was about the newest, V.
LEMMA NothingToDerive ==
  ASSUME IInv, Past, Instantiated
  PROVE  Derivable({K, V}) \subseteq {K, V}
<1>1. oracle \in Seq(Queries) /\ Ordered(oracle) /\ V = Len(oracle) + 1 /\ K \in Nat
  BY DEF IInv, TypeOK, Newest, Instantiated
<1>2. ASSUME NEW i \in DOMAIN oracle, {oracle[i].key, oracle[i].val} \subseteq {K, V}
      PROVE  FALSE
  <2>1. i \in 1..Len(oracle) /\ Len(oracle) \in Nat
    BY <1>1
  <2>2. oracle[i].key # V /\ oracle[i].val # V
    BY <1>1, <2>1 DEF Ordered
  <2> QED BY <1>2, <2>2 DEF Past
<1> QED BY <1>1, <1>2, DerivableInside

\* Who sees K and V between calls of drbg.js gets none of the output from them
\* that was given out before: each generate ends with an #update.
THEOREM PastStaysUnreachable == Spec => []PastUnreachable
<1>1. Init => Past
  BY DEF Init, Past
<1>2. IInv /\ Past => PastUnreachable
  BY NothingToDerive DEF PastUnreachable, Past, Instantiated
<1> QED BY <1>1, <1>2, PastInductive, Invariance, PTL DEF Spec

-------------------------------------------------------------------------------
\* A generator that was just seeded, or destroyed, asks for no seed.
LEMMA FreshSeed ==
  /\ counter = 0 => reseedRequired = FALSE
  /\ counter' = 0 \/ counter' = 1 => reseedRequired' = FALSE
BY ConstantsAssumption DEF reseedRequired

\* Every step of the object is a step of the contract, or invisible to it.
LEMMA ContractStep ==
  ASSUME IInv, [Next]_vars
  PROVE  [Contract!DrbgNext]_(Contract!drbgVars)
<1> USE ConstantsAssumption
    DEF Contract!DrbgNext, Contract!drbgVars
<1>1. CASE UNCHANGED <<counter, served>>
  BY <1>1 DEF reseedRequired
<1>2. CASE SeedDone
  <2>1. CASE pc = "instantiate"
    BY <1>2, <2>1, FreshSeed DEF SeedDone, IInv, Phase, Contract!Instantiate
  <2>2. CASE pc = "reseed"
    BY <1>2, <2>2, FreshSeed DEF SeedDone, IInv, Phase, TypeOK, Contract!Reseed
  <2> QED BY <1>2, <2>1, <2>2 DEF SeedDone
<1>3. CASE GenerateDone
  <2>1. /\ counter \in Nat /\ counter > 0 /\ served = counter - 1
        /\ counter <= ReseedInterval
    <3>1. counter \in Nat /\ pc = "close" /\ K # Null /\ counter # 0
      BY <1>3 DEF GenerateDone, IInv, Phase, TypeOK
    <3> QED BY <1>3, <3>1 DEF GenerateDone, IInv, Phase
  <2>2. counter' = counter + 1 /\ served' = served + 1
    BY <1>3 DEF GenerateDone
  <2>3. reseedRequired' = (served + 1 = ReseedInterval)
    BY <2>1, <2>2 DEF reseedRequired
  <2> QED BY <2>1, <2>2, <2>3 DEF Contract!Serve
<1>4. CASE uninstantiate
  BY <1>4, FreshSeed DEF uninstantiate, histVars, Contract!Uninstantiate
<1>5. CASE Step \/ Block \/ LoopDone \/ MixDone
  BY <1>1, <1>5 DEF Step, Block, LoopDone, MixDone, workVars, histVars
<1>6. ASSUME NEW d \in Inputs, NEW e \in EntropyLens, NEW n \in NonceLens,
             instantiate(d, e, n)
      PROVE  UNCHANGED <<counter, served>>
  BY <1>6 DEF instantiate
<1>7. ASSUME NEW d \in Inputs, NEW e \in EntropyLens, reseed(d, e)
      PROVE  UNCHANGED <<counter, served>>
  BY <1>7 DEF reseed, workVars, histVars
<1>8. ASSUME NEW n \in Lengths, NEW d \in Inputs \cup {Empty}, generate(n, d)
      PROVE  UNCHANGED <<counter, served>>
  BY <1>8 DEF generate, workVars, histVars
<1>9. ASSUME NEW ok, Refuse(ok)
      PROVE  UNCHANGED <<counter, served>>
  BY <1>9 DEF Refuse, workVars, histVars
<1>10. CASE UNCHANGED vars
  BY <1>1, <1>10 DEF vars, workVars, histVars
<1> QED
  BY <1>1, <1>2, <1>3, <1>4, <1>5, <1>6, <1>7, <1>8, <1>9, <1>10
  DEF Next, Caller, Run

\* HmacDrbg implements Drbg: whatever its caller does, one seed serves
\* ReseedInterval requests (RESEED_INTERVAL in drbg.js) and no more, a new seed
\* is asked for exactly then, and a refused call changes nothing.
THEOREM Implementation == Spec => KeepsContract
<1>1. Init => Contract!DrbgInit
  BY ConstantsAssumption, FreshSeed DEF Init, Contract!DrbgInit
<1> QED
  BY <1>1, ContractStep, Invariance, PTL DEF Spec, KeepsContract, Contract!DrbgSpec

===============================================================================
