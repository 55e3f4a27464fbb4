------------------------------ MODULE AcvpVectors ------------------------------
(***************************************************************************)
(* The pinned NIST vectors: fetch-vectors.mjs fills a cache directory from *)
(* the commit that acvp-lock.json names and compares digests, run-acvp.mjs *)
(* reads the cache.  A fetch may be killed while git writes the files, the *)
(* lock may change under a cache that stays, and a run needs no fetch.     *)
(*                                                                         *)
(* A file's content is the file and the commit that last changed it; a     *)
(* digest is the content itself.  External: git, the network, the editor.  *)
(***************************************************************************)
EXTENDS Naturals, Sequences

CONSTANTS
  Sets,      \* sequence of vector sets, in the order git writes them
  Changed,   \* the files the second commit changes
  Torn,      \* the content of a file of which only the beginning was written
  MayEdit,   \* bound: the maintainer edits the commit in the lock
  MaxTouches \* bound: changes of a cached file by something else

Parts == <<"expectedResults", "prompt">>

\* Git writes the index in order: the expected results of a set, then its prompt.
Order == [i \in 1..(2 * Len(Sets)) |-> <<Sets[(i + 1) \div 2], Parts[2 - (i % 2)]>>]
Files == {Order[i] : i \in DOMAIN Order}
Content(c, f) == <<f, IF f \in Changed THEN c ELSE 1>>
Tree(c) == [f \in Files |-> Content(c, f)]

VARIABLES
  lock,     \* acvp-lock.json: the commit, and digests of files
  git, files,  \* the cache: whether .git is there, and the files written so far
  pc,       \* "idle", "fetching", "checkout", "verify"
  writeLock,
  pinned,   \* a fetch has succeeded, and lock and cache are as it left them
  touches

vars == <<lock, git, files, pc, writeLock, pinned, touches>>

Init ==
  /\ lock = [commit |-> 1, digests |-> Tree(1)]
  /\ git = FALSE /\ files = <<>> /\ pc = "idle" /\ writeLock = FALSE
  /\ pinned = FALSE /\ touches = 0

--------------------------------------------------------------------------------
(* fetch-vectors.mjs. *)

AlreadyThere == git /\ \A i \in DOMAIN Sets : <<Sets[i], "prompt">> \in DOMAIN files

\* ACVP_FORCE_FETCH, or a cache that is not there: rmSync, git init.
Fetch ==
  /\ pc = "idle"
  /\ writeLock' \in BOOLEAN /\ pinned' = FALSE
  /\ \/ AlreadyThere /\ pc' = "verify" /\ UNCHANGED <<git, files>>
     \/ pc' = "fetching" /\ git' = TRUE /\ files' = <<>>
  /\ UNCHANGED <<lock, touches>>

\* The partial fetch, or the plain one after it; both may fail.
FetchCommit ==
  /\ pc = "fetching" /\ pc' \in {"checkout", "idle"}
  /\ UNCHANGED <<lock, git, files, writeLock, pinned, touches>>

Put(f, content) == [g \in DOMAIN files \cup {f} |-> IF g = f THEN content ELSE files[g]]

NextFile ==
  Order[CHOOSE i \in DOMAIN Order :
          Order[i] \notin DOMAIN files /\ \A j \in 1..(i - 1) : Order[j] \in DOMAIN files]

Checkout ==
  /\ pc = "checkout" /\ DOMAIN files # Files
  /\ files' = Put(NextFile, Content(lock.commit, NextFile))
  /\ pc' = IF DOMAIN files' = Files THEN "verify" ELSE pc
  /\ UNCHANGED <<lock, git, writeLock, pinned, touches>>

\* Ctrl-C, a job's time limit: git may be in the middle of a file.
Kill ==
  /\ pc # "idle" /\ pc' = "idle"
  /\ \/ UNCHANGED files
     \/ pc = "checkout" /\ files' = Put(NextFile, Torn)
  /\ UNCHANGED <<lock, git, writeLock, pinned, touches>>

\* Mutant of Matches: digests of the prompts are compared, the answers are not.
MatchesPrompt(f) == f[2] = "prompt" /\ f \in DOMAIN lock.digests => files[f] = lock.digests[f]

\* A file of which the lock has no digest matches.
Matches(f) == f \in DOMAIN lock.digests => files[f] = lock.digests[f]

\* verify(): a missing file throws, a mismatch throws unless the lock is written.
Verify ==
  /\ pc = "verify" /\ pc' = "idle"
  /\ LET there == Files \subseteq DOMAIN files IN
     IF there /\ writeLock
     THEN lock' = [lock EXCEPT !.digests = files] /\ pinned' = TRUE
     ELSE pinned' = (there /\ \A f \in Files : Matches(f)) /\ UNCHANGED lock
  /\ UNCHANGED <<git, files, writeLock, touches>>

--------------------------------------------------------------------------------
(* What happens to the lock and the cache. *)

\* The work tree moves to a revision whose lock pins the second commit.
Pull ==
  /\ pc = "idle" /\ lock.commit = 1
  /\ lock' = [commit |-> 2, digests |-> Tree(2)] /\ pinned' = FALSE
  /\ UNCHANGED <<git, files, pc, writeLock, touches>>

\* The maintainer moves to a newer commit: the commit is edited, and with it
\* perhaps the digests of some sets deleted, of which there are none until
\* --write-lock "regenerates the digests" (11-12).
Edit ==
  /\ MayEdit /\ pc = "idle" /\ lock.commit = 1
  /\ \E kept \in SUBSET {f[1] : f \in Files} :
       lock' = [commit |-> 2,
                digests |-> [f \in {f \in DOMAIN lock.digests : f[1] \in kept} |-> lock.digests[f]]]
  /\ pinned' = FALSE
  /\ UNCHANGED <<git, files, pc, writeLock, touches>>

Touch ==
  /\ touches < MaxTouches /\ pc = "idle" /\ touches' = touches + 1 /\ pinned' = FALSE
  /\ \E f \in DOMAIN files : files' = Put(f, <<f, 3>>)
  /\ UNCHANGED <<lock, git, pc, writeLock>>

Next == Fetch \/ FetchCommit \/ Checkout \/ Kill \/ Verify \/ Pull \/ Edit \/ Touch

Spec == Init /\ [][Next]_vars

--------------------------------------------------------------------------------
(* Properties. *)

\* Types; the files of an interrupted checkout are a beginning of git's order.
TypeOK ==
  /\ lock.commit \in {1, 2} /\ DOMAIN lock.digests \subseteq Files
  /\ DOMAIN files \in {{Order[i] : i \in 1..n} : n \in 0..Len(Order)}
  /\ pc \in {"idle", "fetching", "checkout", "verify"} /\ (pc # "idle" => git)
  /\ {git, writeLock, pinned} \subseteq BOOLEAN /\ touches \in 0..MaxTouches

\* A fetch that succeeded has left all vectors, and each as the lock has it,
\* whether the cache was there, torn, of another commit or changed (5-7).  Of a
\* file without a digest the lock says nothing: it may be of another commit.
FetchedIsPinned ==
  pinned => DOMAIN files = Files /\ \A f \in DOMAIN lock.digests : files[f] = lock.digests[f]

\* What alreadyThere infers from the prompts: no interrupted fetch leaves them
\* all without the expected results, so that verify() never throws for a file
\* that only another fetch would bring.
PromptsComeLast == AlreadyThere => DOMAIN files = Files
=================================================================================
