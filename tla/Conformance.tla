------------------------------ MODULE Conformance ------------------------------
(***************************************************************************)
(* A conformance job, as conformance.yml has it: fetch-vectors.mjs brings  *)
(* and verifies the pinned vectors (AcvpVectors), and if it succeeds a     *)
(* grader puts them to an implementation (AcvpAnswers).  The cache may be  *)
(* an old one, and any number of fetches may have been killed before.      *)
(***************************************************************************)
EXTENDS AcvpAnswers

CONSTANTS Sets, Changed, Torn, MayEdit, MaxTouches  \* of AcvpVectors

VARIABLES lock, git, files, pc, writeLock, pinned, touches

vectors == <<lock, git, files, pc, writeLock, pinned, touches>>

\* The sets of acvp-lock.json, each named once.
ASSUME ConformanceAssumption ==
  /\ Len(Sets) \in Nat \ {0} /\ \A i, j \in 1..Len(Sets) : Sets[i] = Sets[j] => i = j
  /\ DOMAIN Sets = 1..Len(Sets) /\ MaxTouches \in Nat

Vectors == INSTANCE AcvpVectors

JobInit == Init /\ Vectors!Init

Fetching == status = "idle" /\ Vectors!Next /\ UNCHANGED vars

\* The step after a fetch that exits with 0; nothing of it reads the lock again.
Grading ==
  /\ status = "idle" => pc = "idle" /\ pinned /\ ~writeLock
  /\ Next /\ UNCHANGED vectors

JobNext == Fetching \/ Grading

JobSpec == JobInit /\ [][JobNext]_<<vars, vectors>>

--------------------------------------------------------------------------------
(* Properties. *)

VectorsTypeOK == Vectors!TypeOK
FetchedIsPinned == Vectors!FetchedIsPinned
PromptsComeLast == Vectors!PromptsComeLast

\* The vectors a job grades are the pinned ones, whatever the cache has been
\* through (fetch-vectors.mjs), and every test of theirs is counted once
\* (run-acvp.mjs).
JobInv ==
  /\ TypeOK
  /\ VectorsTypeOK
  /\ PromptsComeLast
  /\ FetchedIsPinned

================================================================================
