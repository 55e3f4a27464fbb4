-------------------------------- MODULE Evidence --------------------------------
(***************************************************************************)
(* build-evidence.mjs: builds of the evidence bundle into one directory,   *)
(* which outlives the process.  A build empties the directory, runs one    *)
(* command after the other, lists what it finds in the manifest and says   *)
(* in README.md what failed.  It may be killed between any two steps, and  *)
(* the command it was running then may outlive it and write its report     *)
(* later.  The release workflow, evidence.yml, publishes a finished bundle *)
(* once its own assertions hold of it.                                     *)
(*                                                                         *)
(* A file is [name, build, cap, bad]: the build it comes from, the cap on  *)
(* ACVP vectors per group it was made with, and whether it reports a       *)
(* failure.  Commands are external: they pass, fail after their report was *)
(* written, or crash before it.                                            *)
(***************************************************************************)
EXTENDS Naturals, Sequences

CONSTANTS
  Nothing,
  Docs,       \* the documents a bundle copies when the repository has them
  MaxBuilds   \* bound: builds

NoCap == 0

VARIABLES
  dir,        \* files of the output directory
  builds, full,
  todo,       \* steps this build has still to take
  steps,      \* the steps it records: set of [name, ok, optional]
  docs,       \* documents the repository has
  exitCode,
  orphans,    \* reports that commands of killed builds have still to write
  intruded,   \* one of them was written since the directory was last emptied
  published   \* the bundle on the release

account == <<builds, full, steps, docs>>
evidenceVars == <<dir, todo, exitCode, account, orphans, intruded, published>>

Building == todo # <<>>

\* A step: how its file comes about, the cap it passes on, and whether it may fail.
\* "report": the command writes the file; "output": its output becomes the file.
Step(name, file, by, optional, cap) ==
  [name |-> name, file |-> file, by |-> by, optional |-> optional, cap |-> cap]

\* Every step, in order; without --full the runner is capped.
AllSteps(f) ==
  <<Step("identity", "01-identity", "write", FALSE, NoCap),
    Step("acvp", "02-conformance-acvp", "report", FALSE, IF f THEN NoCap ELSE 25),
    Step("acvp-fips205", "02b-conformance-acvp-fips205", "report", TRUE, NoCap),
    Step("acvp-fips205-siggen", "02d-conformance-acvp-fips205-siggen", "report", TRUE, 1),
    Step("siggen-note", "02c-fips205-siggen-SAMPLED", "write", FALSE, NoCap),
    Step("interop", "03-conformance-interop", "report", TRUE, NoCap),
    Step("tests", "04-tests", "output", FALSE, NoCap),
    Step("sbom", "05-sbom.cyclonedx", "output", TRUE, NoCap),
    Step("cbom", "05b-cbom.cyclonedx", "output", FALSE, NoCap),
    Step("npm-audit-signatures", "06-npm-audit-signatures", "output", TRUE, NoCap),
    Step("docs", "07", "copy", FALSE, NoCap),
    Step("manifest", "00-MANIFEST", "write", FALSE, NoCap),
    Step("readme", "README", "write", FALSE, NoCap)>>

\* FIPS 205 is run with --full only.
Plan(f) == IF f THEN AllSteps(f) ELSE [i \in 1..10 |-> AllSteps(f)[IF i < 3 THEN i ELSE i + 3]]

Fallback == Step("dependency-tree", "05-dependencies", "output", TRUE, NoCap)

\* Documents get names of their own, beginning with 07.
SectionFiles == {AllSteps(TRUE)[i].file : i \in 1..13} \cup {Fallback.file}
StepNames == {AllSteps(TRUE)[i].name : i \in 1..13} \cup {Fallback.name}

ASSUME EvidenceAssumption ==
  /\ MaxBuilds \in Nat /\ Docs \cap SectionFiles = {}
  /\ Nothing \notin {0, 1}

\* The manifest and README.md are the bundle's own account of itself.
Accounts == {"00-MANIFEST", "README"}

File(name, cap, bad) ==
  [name |-> name, build |-> builds, cap |-> cap, bad |-> bad]

\* Written over files of the same name.
Put(files) == {f \in dir : \A g \in files : f.name # g.name} \cup files

FailedSteps(ss) == {s.name : s \in {s \in ss : ~s.ok}}

EvidenceInit ==
  /\ dir = {} /\ builds = 0 /\ full = FALSE /\ todo = <<>> /\ steps = {}
  /\ docs \in SUBSET Docs /\ exitCode = Nothing
  /\ orphans = {} /\ intruded = FALSE /\ published = {}

--------------------------------------------------------------------------------
(* A build. *)

\* Mutant of Emptied: the directory is created and not emptied.
EmptiedNot == dir

\* rmSync before mkdirSync.
Emptied == {}

\* Parameters and the directory.  --full and its absence are both used; a runner
\* that has published builds no more.
Start ==
  /\ ~Building /\ builds < MaxBuilds /\ published = {}
  /\ builds' = builds + 1 /\ dir' = Emptied /\ steps' = {} /\ exitCode' = Nothing
  /\ full' \in BOOLEAN /\ todo' = Plan(full') /\ intruded' = FALSE
  /\ UNCHANGED <<docs, orphans, published>>

\* Mutant of Recorded: an optional step that failed is not worth a record.
RecordedRequired(s, ok) ==
  IF ok \/ ~s.optional THEN {[name |-> s.name, ok |-> ok, optional |-> s.optional]} ELSE {}

\* What run() pushes.
Recorded(s, ok) == {[name |-> s.name, ok |-> ok, optional |-> s.optional]}

\* The file a command leaves: its own report, or its output if it passed.
Kept(s, outcome) ==
  IF outcome = "passed" \/ (s.by = "report" /\ outcome = "failed")
  THEN Put({File(s.file, s.cap, outcome # "passed")}) ELSE dir

\* run() and the write() of its output; a failed SBOM is replaced by the tree.
Run ==
  /\ Building /\ Head(todo).by \in {"report", "output"}
  /\ LET s == Head(todo) IN
     \E outcome \in {"passed", "failed", "crashed"} :
       /\ steps' = steps \cup Recorded(s, outcome = "passed")
       /\ dir' = Kept(s, outcome)
       /\ todo' = IF s.name = "sbom" /\ outcome # "passed" THEN [todo EXCEPT ![1] = Fallback] ELSE Tail(todo)
  /\ UNCHANGED <<builds, full, docs, exitCode, orphans, intruded, published>>

\* write(), for what the script composes itself before the manifest.
Write ==
  /\ Building /\ Head(todo).name \in {"identity", "siggen-note"}
  /\ dir' = Put({File(Head(todo).file, Head(todo).cap, FALSE)}) /\ todo' = Tail(todo)
  /\ UNCHANGED <<account, exitCode, orphans, intruded, published>>

Doc(d) == File(d, NoCap, FALSE)

CopyDocs ==
  /\ Building /\ Head(todo).by = "copy"
  /\ dir' = Put({Doc(d) : d \in docs}) /\ todo' = Tail(todo)
  /\ UNCHANGED <<account, exitCode, orphans, intruded, published>>

\* The files whose digests the manifest lists.
Listed == {f \in dir : f.name \notin Accounts}

Manifest ==
  /\ Building /\ Head(todo).name = "manifest"
  /\ dir' = Put({[name |-> "00-MANIFEST", build |-> builds,
                       failed |-> FailedSteps(steps), full |-> full, files |-> Listed]})
  /\ todo' = Tail(todo)
  /\ UNCHANGED <<account, exitCode, orphans, intruded, published>>

Required(ss) == {s \in ss : ~s.ok /\ ~s.optional}

\* The human summary and the exit status.
Readme ==
  /\ Building /\ Head(todo).name = "readme"
  /\ dir' = Put({[name |-> "README", build |-> builds,
                       failed |-> FailedSteps(steps), full |-> full, copied |-> docs]})
  /\ todo' = <<>> /\ exitCode' = IF Required(steps) = {} THEN 0 ELSE 1
  /\ UNCHANGED <<account, orphans, intruded, published>>

\* The process ends at the job's or the operator's hand; the directory stays, and
\* with it perhaps the command that was running, which writes its report itself.
Kill ==
  /\ Building /\ todo' = <<>> /\ exitCode' = Nothing
  /\ \/ UNCHANGED orphans
     \/ /\ Head(todo).by = "report"
        /\ \E bad \in BOOLEAN : orphans' = orphans \cup {File(Head(todo).file, Head(todo).cap, bad)}
  /\ UNCHANGED <<dir, account, intruded, published>>

\* ... into the directory as it is by then.
LateReport ==
  /\ \E f \in orphans : dir' = Put({f}) /\ orphans' = orphans \ {f}
  /\ intruded' = TRUE
  /\ UNCHANGED <<account, todo, exitCode, published>>

--------------------------------------------------------------------------------
(* The release workflow. *)

Complete == exitCode # Nothing
Has(name) == \E f \in dir : f.name = name
Named(name) == CHOOSE f \in dir : f.name = name

\* Mutant of Demanded: the report of FIPS 205 need only be there.
DemandedIsThere ==
  \A name \in {"02-conformance-acvp", "02b-conformance-acvp-fips205", "02c-fips205-siggen-SAMPLED",
               "02d-conformance-acvp-fips205-siggen"} : Has(name)

\* What a full bundle must hold, and the report that may have no failure.
Demanded ==
  /\ \A name \in {"02-conformance-acvp", "02b-conformance-acvp-fips205", "02c-fips205-siggen-SAMPLED",
                  "02d-conformance-acvp-fips205-siggen"} : Has(name)
  /\ ~Named("02b-conformance-acvp-fips205").bad

\* Steps "Build evidence", "Assert" and "Publish": a release is built with --full,
\* on a runner of its own, where no command of an earlier build can be alive.
Publish ==
  /\ Complete /\ exitCode = 0 /\ full /\ Demanded /\ ~intruded
  /\ published' = dir
  /\ UNCHANGED <<dir, account, todo, exitCode, orphans, intruded>>

EvidenceNext ==
  \/ Start \/ Run \/ Write \/ CopyDocs \/ Manifest \/ Readme
  \/ Kill \/ LateReport \/ Publish

EvidenceSpec == EvidenceInit /\ [][EvidenceNext]_evidenceVars

--------------------------------------------------------------------------------
(* Properties. *)

TheManifest == Named("00-MANIFEST")

\* Types: what is left to do is the end of the plan for this build's arguments,
\* after the replacement of a failed SBOM; and no file name occurs twice.
EvidenceTypeOK ==
  /\ builds \in 0..MaxBuilds /\ full \in BOOLEAN /\ docs \subseteq Docs
  /\ exitCode \in {Nothing, 0, 1} /\ intruded \in BOOLEAN /\ (Complete => ~Building)
  /\ Building => \E n \in 1..Len(Plan(full)) :
       LET rest == SubSeq(Plan(full), n, Len(Plan(full))) IN
       todo = rest \/ (Plan(full)[n].name = "sbom" /\ todo = [rest EXCEPT ![1] = Fallback])
  /\ steps \subseteq [name : StepNames, ok : BOOLEAN, optional : BOOLEAN]
  /\ \A f, g \in dir : f.name = g.name => f = g

\* A bundle that is the build's own account: finished, and no command that a
\* killed build left behind has written into it.
Finished == Complete /\ ~intruded

\* A finished bundle holds the files of its own build and of no other, whatever
\* builds were killed before it and whichever sets they ran, so that no more "a
\* file written by an earlier run survived into the next bundle" (34-38).
BundleIsOfOneBuild == Finished => \A f \in dir : f.build = builds

\* Every file of a finished bundle but the two that describe it has its digest in
\* the manifest, and every digest in it is of a file the bundle holds.
ManifestCoversTheBundle ==
  Finished => TheManifest.files = {f \in dir : f.name \notin Accounts}

\* A section that is not in the bundle, or reports a failure, belongs to a step
\* the manifest and the README name as failed, and a full bundle that lacks no
\* failed step has FIPS 205: "a missing section is recorded rather than hidden"
\* (360).  The bill of materials is its second choice at worst.
Sections == {"acvp", "interop", "tests", "cbom", "npm-audit-signatures"} \cup
            (IF full THEN {"acvp-fips205", "acvp-fips205-siggen"} ELSE {})
FileOf ==
  [s \in {"acvp", "acvp-fips205", "acvp-fips205-siggen", "interop", "tests", "cbom", "npm-audit-signatures"} |->
     CASE s = "acvp"                 -> "02-conformance-acvp"
       [] s = "acvp-fips205"         -> "02b-conformance-acvp-fips205"
       [] s = "acvp-fips205-siggen"  -> "02d-conformance-acvp-fips205-siggen"
       [] s = "interop"              -> "03-conformance-interop"
       [] s = "tests"                -> "04-tests"
       [] s = "cbom"                 -> "05b-cbom.cyclonedx"
       [] s = "npm-audit-signatures" -> "06-npm-audit-signatures"]
MissingIsRecorded ==
  Finished =>
    /\ \A s \in Sections : ~Has(FileOf[s]) \/ Named(FileOf[s]).bad => s \in TheManifest.failed
    /\ Has("05-sbom.cyclonedx") \/ Has("05-dependencies") \/
         {"sbom", "dependency-tree"} \subseteq TheManifest.failed
    /\ TheManifest.failed = Named("README").failed
    /\ {d \in Docs : Has(d)} = Named("README").copied

\* The exit status is about the vectors of FIPS 203 and 204, the tests and the CBOM
\* alone: they are there without failures, or the build fails (383-386).
ExitIsOfTheRequired ==
  Finished =>
    (exitCode = 0 <=> \A s \in {"acvp", "tests", "cbom"} :
                     Has(FileOf[s]) /\ ~Named(FileOf[s]).bad)

\* Only the report of 02 without --full and that of SLH-DSA signature generation
\* are capped, and the second never travels without the note that says so.  That
\* is less than README.md says of a full bundle, which holds both: "No group was
\* subsampled" (353).
CapsAreNoted ==
  Finished =>
    \A f \in dir : f.name \notin Accounts /\ f.cap # NoCap =>
      \/ f.name = "02-conformance-acvp" /\ ~Named("README").full
      \/ f.name = "02d-conformance-acvp-fips205-siggen" /\ Has("02c-fips205-siggen-SAMPLED")

\* A finished bundle is an account of one build: its own files, each with its
\* digest, none capped without a note, and an exit status (build-evidence.mjs).
BundleInv ==
  /\ EvidenceTypeOK
  /\ BundleIsOfOneBuild
  /\ ManifestCoversTheBundle
  /\ ExitIsOfTheRequired
  /\ CapsAreNoted

Public(name) == \E f \in published : f.name = name
PublicWhole(s) == \E f \in published : f.name = FileOf[s] /\ ~f.bad

\* What the release carries is of one build.  It shows FIPS 203 and 204, keys and
\* verification of FIPS 205, the tests and the CBOM without a failure, and of
\* signature generation the report and the note, "the bundle must show it"
\* (evidence.yml:159); whatever else is missing or failed is named in the manifest
\* beside it.
PublishedIsWhole ==
  published # {} =>
    /\ \A f, g \in published : f.build = g.build
    /\ \A s \in {"acvp", "acvp-fips205", "tests", "cbom"} : PublicWhole(s)
    /\ Public(FileOf["acvp-fips205-siggen"]) /\ Public("02c-fips205-siggen-SAMPLED")
    /\ \A s \in {"acvp-fips205-siggen", "interop", "npm-audit-signatures"} :
         PublicWhole(s) \/ \E m \in published : m.name = "00-MANIFEST" /\ s \in m.failed

=================================================================================
