------------------------------ MODULE FipsIntegrity -----------------------------
(***************************************************************************)
(* The integrity test of the FIPS module (src/fips/index.js), the files it *)
(* tests and the code that is loaded around it, while an installer         *)
(* replaces one release by another under it.                               *)
(*                                                                         *)
(* Part of the code is loaded before the test (the static imports of       *)
(* index.js), part after it has passed (the import of module.js).  Every   *)
(* read of the disk is a step of its own: code is read to be run, the      *)
(* manifest and its signature are read to be verified, the directory is    *)
(* walked (here in one step), each file is read again to be hashed.        *)
(*                                                                         *)
(* A file's content stands for its SHA-256 digest, and a manifest for the  *)
(* release whose manifest it is: digests do not collide, and only a        *)
(* release's own signature verifies over its manifest.  Installers are not *)
(* part of this code: this one replaces the files one after the other, in  *)
(* any order, and may be killed between two of them and never finish.      *)
(***************************************************************************)
EXTENDS Naturals, FiniteSets

CONSTANTS
  Early,       \* code files loaded before the test
  Late,        \* code files loaded after it
  Data,        \* the other files of the directory
  Releases,    \* releases, the installed one and the one that replaces it
  Installed, Target,
  Content,     \* Content[r][f]: what release r ships as f, or NoFile
  MaxRestarts  \* bound: how often the process is started again

NoFile == "absent"
Torn   == "torn"       \* a file half written
Nothing == "nothing"   \* not read, not loaded, not tested

Code  == Early \cup Late
Files == Code \cup Data
MANIFEST  == "integrity.json"
SIGNATURE == "integrity.json.sig"
Written == {MANIFEST, SIGNATURE}
Paths == Files \cup Written
Contents == {Content[r][f] : r \in Releases, f \in Files} \ {NoFile}

ASSUME ReleaseAssumption ==
  /\ Installed \in Releases /\ Target \in Releases
  /\ Written \cap Files = {} /\ Early \cap Late = {} /\ Code \cap Data = {}
  /\ Nothing \notin Files
  /\ \A r \in Releases, f \in Code : Content[r][f] # NoFile
  /\ {NoFile, Torn, Nothing} \cap (Releases \cup Contents) = {}
  /\ MaxRestarts \in Nat

VARIABLES
  disk,       \* the directory src/fips of the installed package
  writing,    \* the file the installer has open, or Nothing
  todo,       \* paths it has not replaced yet
  state, version, pc,
  op,         \* "boot" or "selfTest"
  manifest,   \* what integrityTest has read as the manifest
  left,       \* listed files it has still to hash
  loaded,     \* the code in memory
  disturbed,  \* history: the disk has changed since the process started
  seen,       \* history: releases the directory was exactly, since the test began
  restarts

install == <<disk, writing, todo>>
test    == <<manifest, left>>
vars == <<install, state, version, pc, op, test, loaded, disturbed, seen, restarts>>

-------------------------------------------------------------------------------
\* The release build: the manifest lists every file of the directory but itself
\* and its signature, which is then made over it.
Listed(r) == {f \in Files : Content[r][f] # NoFile}
Shipped(r) == [p \in Paths |-> IF p \in Written THEN r ELSE Content[r][p]]
Whole(d) == {r \in Releases : d = Shipped(r)}

NothingLoaded == [f \in Code |-> Nothing]
Mixed == ~ \E r \in Releases : \A f \in Code : loaded[f] \in {Nothing, Content[r][f]}

Init ==
  /\ disk = Shipped(Installed) /\ writing = Nothing /\ todo = Paths
  /\ state = "self-test" /\ version = Nothing /\ pc = "load" /\ op = "boot"
  /\ manifest = Nothing /\ left = {}
  /\ loaded = NothingLoaded
  /\ disturbed = FALSE /\ seen = {} /\ restarts = 0

-------------------------------------------------------------------------------
\* Every change of the disk, seen from the process.
Change(d) ==
  /\ disk' = d
  /\ disturbed' = TRUE
  /\ seen' = IF manifest = Nothing THEN seen ELSE seen \cup Whole(d)
  /\ UNCHANGED <<state, version, pc, op, test, loaded, restarts>>

\* A file is replaced in place or deleted first.
Open(p) ==
  /\ writing = Nothing /\ p \in todo
  /\ Shipped(Target)[p] # NoFile
  /\ writing' = p /\ UNCHANGED todo
  /\ \E c \in {Torn, NoFile} : Change([disk EXCEPT ![p] = c])

Close ==
  /\ writing # Nothing
  /\ writing' = Nothing /\ todo' = todo \ {writing}
  /\ Change([disk EXCEPT ![writing] = Shipped(Target)[writing]])

Remove(p) ==
  /\ writing = Nothing /\ p \in todo
  /\ Shipped(Target)[p] = NoFile
  /\ todo' = todo \ {p} /\ UNCHANGED writing
  /\ Change([disk EXCEPT ![p] = NoFile])

Installer == Close \/ \E p \in Paths : Open(p) \/ Remove(p)

-------------------------------------------------------------------------------
\* A test ends: integrityTest holds nothing of what it read any more.
TestOver == manifest' = Nothing /\ left' = {} /\ seen' = {}

enterError ==
  /\ state' = "error" /\ pc' = "idle" /\ op' = "none"
  /\ TestOver
  /\ UNCHANGED <<install, version, loaded, disturbed, restarts>>

\* Loading one code file.  Half a file may still parse.
Read(f) ==
  /\ disk[f] # NoFile
  /\ loaded' = [loaded EXCEPT ![f] = disk[f]]
  /\ UNCHANGED <<install, state, version, pc, op, test, disturbed, seen, restarts>>

\* The static imports, before any code of index.js runs.
LoadEarly ==
  /\ pc = "load"
  /\ \E f \in Early : loaded[f] = Nothing /\ Read(f)

\* A file of them is missing or does not parse: the import is rejected and
\* there is no module.
LoadRejected ==
  /\ pc = "load"
  /\ \E f \in Early : loaded[f] = Nothing /\ disk[f] \in {NoFile, Torn}
  /\ pc' = "down"
  /\ UNCHANGED <<install, state, version, op, test, loaded, disturbed, seen, restarts>>

Loaded ==
  /\ pc = "load" /\ \A f \in Early : loaded[f] # Nothing
  /\ pc' = "casts"
  /\ UNCHANGED <<install, state, version, op, test, loaded, disturbed, seen, restarts>>

\* runIntegrityCasts and, later, the algorithm self-tests with start(): code of
\* one release passes them, a mixture may or may not.
Casts ==
  /\ pc = "casts"
  /\ pc' = "manifest"
  /\ UNCHANGED <<install, state, version, op, test, loaded, disturbed, seen, restarts>>

CastsFail == pc \in {"casts", "start"} /\ Mixed /\ enterError

-------------------------------------------------------------------------------
\* integrityTest: the manifest is read ...
ReadManifest ==
  /\ pc = "manifest"
  /\ disk[MANIFEST] # NoFile
  /\ manifest' = disk[MANIFEST]
  /\ seen' = Whole(disk)
  /\ pc' = "signature"
  /\ UNCHANGED <<install, state, version, op, left, loaded, disturbed, restarts>>

\* ... then its signature, which must verify over what was read ...
Verifies == disk[SIGNATURE] = manifest /\ manifest \in Releases

ReadSignature ==
  /\ pc = "signature"
  /\ Verifies
  /\ pc' = "list"
  /\ UNCHANGED <<install, state, version, op, test, loaded, disturbed, seen, restarts>>

\* Mutant of NotAsListed: only missing files are looked for.
MissingOnly == pc = "list" /\ \E f \in Listed(manifest) : disk[f] = NoFile

\* ... then the directory must hold the listed files and no other ...
filesIn == {p \in Paths : disk[p] # NoFile} \ Written

NotAsListed == pc = "list" /\ filesIn # Listed(manifest)

List ==
  /\ pc = "list" /\ ~NotAsListed
  /\ left' = Listed(manifest)
  /\ pc' = "digest"
  /\ UNCHANGED <<install, state, version, op, manifest, loaded, disturbed, seen, restarts>>

\* Mutant of Digest: the loop does not move on.
DigestAgain ==
  /\ pc = "digest"
  /\ \E f \in left : disk[f] = Content[manifest][f]
  /\ UNCHANGED <<install, state, version, pc, op, test, loaded, disturbed, seen, restarts>>

\* ... and each listed file must have its digest, one read after the other.
Digest ==
  /\ pc = "digest"
  /\ \E f \in left : disk[f] = Content[manifest][f] /\ left' = left \ {f}
  /\ UNCHANGED <<install, state, version, pc, op, manifest, loaded, disturbed, seen, restarts>>

TestFails ==
  /\ \/ pc = "manifest" /\ disk[MANIFEST] = NoFile
     \/ pc = "signature" /\ ~Verifies
     \/ NotAsListed
     \/ pc = "digest" /\ \E f \in left : disk[f] # Content[manifest][f]
  /\ enterError

\* Mutant of TestPasses: the last file is taken on trust.
TestPassesEarly ==
  /\ pc = "digest" /\ Cardinality(left) <= 1
  /\ pc' = "import" /\ version' = manifest
  /\ TestOver
  /\ UNCHANGED <<install, state, op, loaded, disturbed, restarts>>

\* The files are those of a release.  At start-up the rest of the code is
\* loaded next; on demand the algorithm self-tests are what is left.
TestPasses ==
  /\ pc = "digest" /\ left = {}
  /\ IF op = "boot" THEN pc' = "import" /\ version' = manifest
                    ELSE pc' = "start" /\ UNCHANGED version
  /\ TestOver
  /\ UNCHANGED <<install, state, op, loaded, disturbed, restarts>>

\* await import('./module.js')
Import ==
  /\ pc = "import"
  /\ \E f \in Late : loaded[f] = Nothing /\ Read(f)

ImportFails ==
  /\ pc = "import"
  /\ \E f \in Late : loaded[f] = Nothing /\ disk[f] \in {NoFile, Torn}
  /\ enterError

Imported ==
  /\ pc = "import" /\ \A f \in Late : loaded[f] # Nothing
  /\ pc' = "start"
  /\ UNCHANGED <<install, state, version, op, test, loaded, disturbed, seen, restarts>>

\* start(), or the end of selfTest().
Start ==
  /\ pc = "start"
  /\ state' = "operational" /\ pc' = "idle" /\ op' = "none"
  /\ UNCHANGED <<install, version, test, loaded, disturbed, seen, restarts>>

selfTest ==
  /\ pc = "idle" /\ state = "operational"
  /\ op' = "selfTest" /\ pc' = "casts"
  /\ UNCHANGED <<install, state, version, test, loaded, disturbed, seen, restarts>>

\* The process is killed, at any point, and started on what the disk holds.
Restart ==
  /\ restarts < MaxRestarts
  /\ restarts' = restarts + 1
  /\ state' = "self-test" /\ version' = Nothing /\ pc' = "load" /\ op' = "boot"
  /\ TestOver
  /\ loaded' = NothingLoaded
  /\ disturbed' = FALSE
  /\ UNCHANGED install

Run ==
  \/ LoadEarly
  \/ LoadRejected
  \/ Loaded
  \/ Casts
  \/ CastsFail
  \/ ReadManifest
  \/ ReadSignature
  \/ List
  \/ Digest
  \/ TestFails
  \/ TestPasses
  \/ Import
  \/ ImportFails
  \/ Imported
  \/ Start

Next == Installer \/ Run \/ selfTest \/ Restart

\* What the process has begun it carries on with.  Nothing obliges the
\* installer to go on.
Spec == Init /\ [][Next]_vars /\ WF_vars(Run)

-------------------------------------------------------------------------------
TypeOK ==
  /\ disk \in [Paths -> Contents \cup Releases \cup {NoFile, Torn}]
  /\ writing \in Paths \cup {Nothing}
  /\ todo \in SUBSET Paths
  /\ state \in {"self-test", "operational", "error"}
  /\ version \in Releases \cup {Nothing}
  /\ pc \in {"load", "casts", "manifest", "signature", "list", "digest", "import",
             "start", "idle", "down"}
  /\ op \in {"boot", "selfTest", "none"}
  /\ manifest \in Releases \cup {Torn, Nothing}
  /\ left \in SUBSET Files
  /\ loaded \in [Code -> Contents \cup {Torn, Nothing}]
  /\ disturbed \in BOOLEAN
  /\ seen \in SUBSET Releases
  /\ restarts \in 0..MaxRestarts

\* On a disk nobody writes to, half installed or not, a module that offers
\* services runs exactly the code of the release it reports.
TestedIsLoaded ==
  state = "operational" /\ ~disturbed => \A f \in Code : loaded[f] = Content[version][f]

\* The test reads file after file while an installer may be writing.  When it
\* passes there was still one moment, while it ran, at which the directory held
\* that release, whole and with nothing beside it.
TestSeesARelease ==
  pc = "digest" /\ left = {} => manifest \in seen

\* A module on a whole release that nobody touches never enters the error state,
\* at start-up or on demand, as far as the files and the code go (FipsModule has
\* the entropy source and the algorithms fail as well).
NoFalseAlarm == state = "error" /\ ~disturbed => Whole(disk) = {}

\* A start on a whole release, with no installer and no kill to come, ends with
\* the module operational.
WholeInstallStarts ==
  /\ pc = "load" /\ restarts = MaxRestarts
  /\ todo = {} /\ ~disturbed
  ~> state = "operational"

\* integrityTest (fips/index.js) decides rightly both ways: what it passes was a
\* release at one moment, and a whole release at rest it never fails.
IntegrityInv ==
  /\ TypeOK
  /\ NoFalseAlarm
  /\ TestSeesARelease

===============================================================================
