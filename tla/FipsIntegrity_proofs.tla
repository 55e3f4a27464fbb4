------------------------- MODULE FipsIntegrity_proofs --------------------------
(***************************************************************************)
(* Proofs about FipsIntegrity, for any two releases and any files.         *)
(*                                                                         *)
(* What the test may conclude from separate reads rests on what an         *)
(* installer can have done between them.  Disk says what it has done at    *)
(* any time; Seen says of a test that is running and has not met its       *)
(* release yet that it will not pass as things are: something it has still *)
(* to read is wrong.                                                       *)
(***************************************************************************)
EXTENDS FipsIntegrity, TLAPS

Old(p) == Shipped(Installed)[p]
New(p) == Shipped(Target)[p]

\* One file is open at most; the others are as they were or as they will be.
Disk ==
  /\ writing # Nothing => writing \in todo /\ New(writing) # NoFile /\ disk[writing] \in {Torn, NoFile}
  /\ \A p \in Paths : (p \in todo /\ p # writing => disk[p] = Old(p)) /\ (p \notin todo => disk[p] = New(p))

Testing == pc \in {"signature", "list", "digest"}

Control ==
  /\ manifest # Nothing <=> Testing
  /\ pc \in {"list", "digest"} => manifest \in Releases
  /\ pc = "digest" => left \subseteq Listed(manifest)
  /\ pc # "digest" => left = {}

\* What the running test has still to read.
Unread == CASE pc = "signature" -> Paths \ {MANIFEST}
            [] pc = "list"      -> Files
            [] OTHER            -> left

\* A path that is what it will be.
Settled(p) == p \notin todo \/ Old(p) = New(p)

\* A path of U has been replaced by another content ...
Stuck(U) == \E p \in U : ~(p \in todo) /\ Old(p) # New(p)
\* ... or one is open and nothing else has changed.
Half(U) == writing \in U /\ \A p \in Paths \ {writing} : disk[p] = Old(p)

\* A test for release m that has still to read U, and has not met m.
Unseen(m, U) ==
  /\ m = Target => /\ \E p \in U : disk[p] # New(p)
                   /\ \A p \in Paths \ U : Settled(p)
  /\ m # Target => m = Installed /\ (Stuck(U) \/ Half(U))

Seen ==
  Testing /\ manifest \in Releases /\ manifest \notin seen =>
    disk # Shipped(manifest) /\ Unseen(manifest, Unread)

\* As long as nobody writes, what is read is what is there.
Rest ==
  ~disturbed =>
    /\ \A f \in Code : loaded[f] \in {Nothing, disk[f]}
    /\ Testing => manifest = disk[MANIFEST]
    /\ pc = "digest" => \A f \in Listed(manifest) \ left : disk[f] = Content[manifest][f]
    /\ version # Nothing => \A f \in Code : disk[f] = Content[version][f]
    /\ state = "error" => Whole(disk) = {}

\* What is in memory, by where the process is.
Memory ==
  /\ pc \notin {"load", "down"} /\ state # "error" => \A f \in Early : loaded[f] # Nothing
  /\ pc = "start" \/ op = "selfTest" \/ state = "operational" =>
       version # Nothing /\ \A f \in Code : loaded[f] # Nothing
  /\ pc = "import" => version # Nothing
  /\ state = "error" => pc = "idle" /\ op = "none"
  /\ op = "none" => pc = "idle"

IInv == TypeOK /\ Disk /\ Control /\ Seen /\ Rest /\ Memory

-------------------------------------------------------------------------------
\* What a release ships.
LEMMA ShippedAt ==
  ASSUME NEW r \in Releases, NEW p \in Paths
  PROVE  /\ Shipped(r)[p] = IF p \in Written THEN r ELSE Content[r][p]
         /\ Shipped(r)[p] \in Contents \cup Releases \cup {NoFile}
         /\ p \in Files => Shipped(r)[p] = Content[r][p] /\ Shipped(r)[p] \in Contents \cup {NoFile}
         /\ p \in Code => Shipped(r)[p] \in Contents
<1>1. p \in Files => p \notin Written
  BY ReleaseAssumption
<1>2. p \notin Written => p \in Files
  BY DEF Paths
<1>3. p \in Files => Content[r][p] \in Contents \cup {NoFile}
  BY DEF Contents
<1>4. p \in Code => p \in Files /\ Content[r][p] # NoFile
  BY ReleaseAssumption DEF Files
<1> QED BY <1>1, <1>2, <1>3, <1>4 DEF Shipped

\* A directory that holds at every path what a release ships is that release.
LEMMA SameDisk ==
  ASSUME NEW S, NEW d \in [Paths -> S], NEW r \in Releases, d # Shipped(r)
  PROVE  \E p \in Paths : d[p] # Shipped(r)[p]
BY DEF Shipped

\* The words for files that are not there, and the paths.
LEMMA Distinct ==
  /\ NoFile \notin Releases /\ Torn \notin Releases /\ Nothing \notin Releases
  /\ NoFile \notin Contents /\ Torn \notin Contents /\ Nothing \notin Contents
  /\ NoFile # Torn /\ Torn # Nothing /\ NoFile # Nothing
  /\ Nothing \notin Paths
  /\ MANIFEST \in Paths /\ SIGNATURE \in Paths /\ MANIFEST # SIGNATURE
  /\ Installed \in Releases /\ Target \in Releases
  /\ Code \subseteq Files /\ Early \subseteq Code /\ Files \subseteq Paths /\ Late \subseteq Code
  /\ Paths \ {MANIFEST, SIGNATURE} = Files /\ MANIFEST \notin Files /\ SIGNATURE \notin Files
BY ReleaseAssumption DEF NoFile, Torn, Nothing, Paths, Written, MANIFEST, SIGNATURE, Code, Files

\* The installed release, whole.
LEMMA InitInv == Init => IInv
<1> SUFFICES ASSUME Init PROVE IInv
  OBVIOUS
<1> USE DEF Init
<1>1. TypeOK
  <2>1. disk \in [Paths -> Contents \cup Releases \cup {NoFile, Torn}]
    BY ShippedAt, Distinct DEF Shipped
  <2>2. loaded \in [Code -> Contents \cup {Torn, Nothing}]
    BY DEF NothingLoaded
  <2>3. restarts \in 0..MaxRestarts
    BY ReleaseAssumption
  <2> QED BY <2>1, <2>2, <2>3 DEF TypeOK
<1>2. Disk
  BY Distinct DEF Disk, Old, New
<1>3. Control /\ Seen /\ Memory
  BY Distinct DEF Control, Seen, Memory, Testing
<1>4. Rest
  BY Distinct DEF Rest, Testing, NothingLoaded
<1> QED BY <1>1, <1>2, <1>3, <1>4 DEF IInv

-------------------------------------------------------------------------------
\* Reading what m has at a path brings a test for m no further.
LEMMA ReadRight ==
  ASSUME TypeOK, Disk, NEW m \in Releases, disk # Shipped(m),
         NEW V \in SUBSET Paths, NEW U \in SUBSET V,
         \A p \in V \ U : disk[p] = Shipped(m)[p],
         Unseen(m, V)
  PROVE  Unseen(m, U)
<1>1. ASSUME m = Target
      PROVE  (\E p \in U : disk[p] # New(p)) /\ \A p \in Paths \ U : Settled(p)
  <2>1. \E p \in U : disk[p] # New(p)
    BY <1>1 DEF Unseen, New
  <2>2. ASSUME NEW p \in V \ U PROVE Settled(p)
    <3>1. disk[p] = New(p) /\ p \in Paths
      BY <1>1 DEF New
    <3>2. New(p) # Torn
      BY <3>1, ShippedAt, Distinct DEF New
    <3>3. p # writing
      BY <3>1, <3>2, Distinct DEF Disk
    <3> QED BY <3>1, <3>3 DEF Disk, Settled
  <2> QED BY <1>1, <2>1, <2>2 DEF Unseen
<1>2. ASSUME m # Target
      PROVE  m = Installed /\ (Stuck(U) \/ Half(U))
  <2>1. m = Installed /\ (Stuck(V) \/ Half(V))
    BY <1>2 DEF Unseen
  <2>2. Stuck(V) => Stuck(U)
    <3> SUFFICES ASSUME NEW p \in V, p \notin todo, Old(p) # New(p) PROVE p \in U
      BY DEF Stuck
    <3>1. disk[p] = New(p)
      BY DEF Disk
    <3> QED BY <2>1, <3>1 DEF Old
  <2>3. Half(V) => Half(U)
    <3> SUFFICES ASSUME Half(V), writing \notin U PROVE FALSE
      BY DEF Half
    <3>1. \A p \in Paths : disk[p] = Shipped(m)[p]
      BY <2>1 DEF Half, Old
    <3> QED BY <3>1, SameDisk DEF TypeOK
  <2> QED BY <2>1, <2>2, <2>3
<1> QED BY <1>1, <1>2 DEF Unseen

\* A test that has just read its manifest, and nothing else.
LEMMA ReadFirst ==
  ASSUME TypeOK, Disk, disk[MANIFEST] \in Releases, disk # Shipped(disk[MANIFEST])
  PROVE  Unseen(disk[MANIFEST], Paths)
<1> DEFINE m == disk[MANIFEST]
<1>1. PICK p \in Paths : disk[p] # Shipped(m)[p]
  BY SameDisk DEF TypeOK
<1>2. m # Target => m = Installed /\ MANIFEST \in todo
  <2>1. New(MANIFEST) = Target /\ Old(MANIFEST) = Installed
    BY ShippedAt, Distinct DEF New, Old, Written
  <2> QED BY <2>1, Distinct DEF Disk
<1>3. ASSUME m # Target, ~Stuck(Paths)
      PROVE  Half(Paths)
  <2>1. \A q \in Paths : q \notin todo => Old(q) = New(q)
    BY <1>3 DEF Stuck
  <2>2. \A q \in Paths : q # writing => disk[q] = Old(q)
    BY <2>1 DEF Disk
  <2>3. p = writing
    BY <1>1, <1>2, <1>3, <2>2 DEF Old
  <2> QED BY <2>2, <2>3 DEF Half
<1> QED BY <1>1, <1>2, <1>3 DEF Unseen, New

-------------------------------------------------------------------------------
\* A file is opened, closed or removed.
LEMMA InstallerStep ==
  ASSUME IInv, Installer
  PROVE  IInv'
<1> USE DEF IInv
<1>1. PICK d : /\ disk' = d /\ disturbed' = TRUE
               /\ seen' = IF manifest = Nothing THEN seen ELSE seen \cup Whole(d)
               /\ UNCHANGED <<state, version, pc, op, manifest, left, loaded, restarts>>
  BY DEF Installer, Open, Close, Remove, Change, test
<1>2. \/ \E p \in todo, c \in {Torn, NoFile} :
           /\ writing = Nothing /\ writing' = p /\ todo' = todo
           /\ New(p) # NoFile /\ disk' = [disk EXCEPT ![p] = c]
      \/ /\ writing # Nothing /\ writing' = Nothing /\ todo' = todo \ {writing}
         /\ disk' = [disk EXCEPT ![writing] = New(writing)]
      \/ \E p \in todo :
           /\ writing = Nothing /\ writing' = Nothing /\ todo' = todo \ {p}
           /\ New(p) = NoFile /\ disk' = [disk EXCEPT ![p] = NoFile]
  BY DEF Installer, Open, Close, Remove, Change, New
<1>3. TypeOK'
  <2>1. \A p \in Paths : New(p) \in Contents \cup Releases \cup {NoFile}
    BY ShippedAt, Distinct DEF New
  <2>2. /\ disk' \in [Paths -> Contents \cup Releases \cup {NoFile, Torn}]
        /\ writing' \in Paths \cup {Nothing} /\ todo' \in SUBSET Paths
    BY <1>2, <2>1, Distinct DEF TypeOK
  <2>3. seen' \in SUBSET Releases
    BY <1>1 DEF TypeOK, Whole
  <2> QED BY <1>1, <2>2, <2>3 DEF TypeOK
<1>4. Disk'
  BY <1>2, Distinct DEF Disk, TypeOK, New, Old
<1>5. Control' /\ Memory' /\ Rest' /\ Unread' = Unread /\ Testing' = Testing
  BY <1>1 DEF Control, Memory, Rest, Unread, Testing
<1>6. Seen'
  <2> SUFFICES ASSUME Testing', manifest' \in Releases, manifest' \notin seen'
      PROVE  disk' # Shipped(manifest) /\ Unseen(manifest, Unread)'
    BY <1>1 DEF Seen
  <2>1. /\ manifest' = manifest /\ manifest \in Releases /\ manifest \notin seen
        /\ disk' # Shipped(manifest) /\ Unseen(manifest, Unread)
    BY <1>1, <1>5, Distinct DEF Seen, Whole
  <2>2. Unread \subseteq Paths
    BY Distinct DEF Unread, TypeOK
  <2>3. todo' \subseteq todo
    BY <1>2
  <2>4. ASSUME manifest = Target
        PROVE  (\E p \in Unread : disk'[p] # New(p)) /\ \A p \in Paths \ Unread : Settled(p)'
    <3>1. \A p \in Paths \ Unread : Settled(p)'
      BY <2>1, <2>3, <2>4 DEF Unseen, Settled, Old, New
    <3>2. CASE writing' = Nothing
      <4>1. PICK p \in Paths : disk'[p] # New(p)
        BY <1>3, <2>1, <2>4, SameDisk DEF TypeOK, New
      <4>2. p \in todo' /\ disk'[p] = Old(p)
        BY <1>4, <3>2, <4>1, Distinct DEF Disk, Old, New
      <4> QED BY <3>1, <4>1, <4>2 DEF Settled, Old, New
    <3>3. CASE writing' # Nothing
      <4>1. PICK q \in todo, c \in {Torn, NoFile} :
              New(q) # NoFile /\ disk' = [disk EXCEPT ![q] = c]
        BY <1>2, <3>3
      <4>2. PICK p \in Unread : disk[p] # New(p)
        BY <2>1, <2>4 DEF Unseen
      <4>3. New(q) # Torn /\ q \in Paths
        BY ShippedAt, Distinct DEF New, TypeOK
      <4> QED BY <2>2, <3>1, <4>1, <4>2, <4>3 DEF TypeOK
    <3> QED BY <3>1, <3>2, <3>3
  <2>5. ASSUME manifest # Target
        PROVE  manifest = Installed /\ (Stuck(Unread)' \/ Half(Unread)')
    <3>1. manifest = Installed /\ (Stuck(Unread) \/ Half(Unread))
      BY <2>1, <2>5 DEF Unseen
    <3>2. Stuck(Unread) => Stuck(Unread)'
      BY <1>5, <2>3 DEF Stuck, Old, New
    <3>3. ASSUME Half(Unread) PROVE Stuck(Unread)'
      <4>1. /\ writing \in Paths /\ writing # Nothing /\ writing' = Nothing /\ todo' = todo \ {writing}
            /\ disk' = [disk EXCEPT ![writing] = New(writing)]
        BY <1>2, <2>2, <3>3, Distinct DEF Half
      <4>2. Old(writing) # New(writing)
        <5> SUFFICES ASSUME Old(writing) = New(writing) PROVE FALSE
          OBVIOUS
        <5>1. \A p \in Paths : disk'[p] = Shipped(manifest)[p]
          BY <3>1, <3>3, <4>1 DEF Half, Old, TypeOK
        <5> QED BY <1>3, <2>1, <5>1, SameDisk DEF TypeOK
      <4> QED BY <1>5, <3>3, <4>1, <4>2 DEF Stuck, Half, Old, New
    <3> QED BY <3>1, <3>2, <3>3
  <2> QED BY <1>5, <2>1, <2>4, <2>5 DEF Unseen, New
<1> QED BY <1>3, <1>4, <1>5, <1>6

-------------------------------------------------------------------------------
\* A process that enters the error state on a disk nobody has written to since it
\* started has not met a whole release there.
LEMMA ErrorStep ==
  ASSUME IInv, enterError, disturbed \/ Whole(disk) = {}
  PROVE  IInv'
<1> USE DEF IInv, enterError, TestOver, install
<1>1. TypeOK'
  BY DEF TypeOK
<1>2. Disk'
  BY DEF Disk, Old, New
<1>3. Control' /\ Seen' /\ Memory'
  BY DEF Control, Seen, Memory, Testing
<1>4. Rest'
  BY Distinct DEF Rest, Testing, Whole
<1> QED BY <1>1, <1>2, <1>3, <1>4

\* Code is read to be run.
LEMMA ReadStep ==
  ASSUME IInv, NEW f \in Code, Read(f), ~Testing
  PROVE  IInv'
<1> USE DEF IInv, Read, install, test
<1>1. disk[f] \in Contents \cup {Torn}
  <2>1. f \in Paths /\ Old(f) \in Contents /\ New(f) \in Contents
    BY ShippedAt, Distinct DEF Old, New
  <2>2. f # writing => disk[f] \in Contents
    BY <2>1 DEF Disk, TypeOK
  <2>3. f = writing => disk[f] \in {Torn, NoFile}
    BY <2>1, Distinct DEF Disk
  <2> QED BY <2>2, <2>3
<1>2. loaded' = [loaded EXCEPT ![f] = disk[f]]
  OBVIOUS
<1>3. loaded' \in [Code -> Contents \cup {Torn, Nothing}]
  BY <1>1, <1>2 DEF TypeOK
<1>4. TypeOK'
  BY <1>3 DEF TypeOK
<1>5. Disk'
  BY DEF Disk, Old, New
<1>6. Control' /\ Seen'
  BY DEF Control, Seen, Testing
<1>7. \A g \in Code : loaded'[g] = IF g = f THEN disk[f] ELSE loaded[g]
  BY <1>2 DEF TypeOK
<1>8. Memory'
  BY <1>1, <1>7, Distinct DEF Memory
<1>9. Rest'
  BY <1>7 DEF Rest, Testing, Whole
<1> QED BY <1>4, <1>5, <1>6, <1>8, <1>9

\* The steps around the reads of code.
LEMMA LoadStep ==
  ASSUME IInv, LoadEarly \/ LoadRejected \/ Loaded \/ Casts \/ CastsFail
  PROVE  IInv'
<1>1. CASE LoadEarly
  BY <1>1, ReadStep, Distinct DEF LoadEarly, Testing
<1>2. CASE LoadRejected \/ Loaded \/ Casts
  <2> USE <1>2 DEF IInv, LoadRejected, Loaded, Casts, install, test
  <2>1. TypeOK'
    BY DEF TypeOK
  <2>2. Disk'
    BY DEF Disk, Old, New
  <2>3. Control' /\ Seen'
    BY DEF Control, Seen, Testing
  <2>4. Memory' /\ Rest'
    BY DEF Memory, Rest, Testing, Whole
  <2> QED BY <2>1, <2>2, <2>3, <2>4
<1>3. CASE CastsFail
  <2>1. ASSUME ~disturbed, NEW r \in Whole(disk) PROVE FALSE
    <3>1. disk = Shipped(r) /\ r \in Releases
      BY <2>1 DEF Whole
    <3>2. \A f \in Code : disk[f] = Content[r][f]
      BY <3>1, ShippedAt, Distinct
    <3> QED BY <1>3, <2>1, <3>1, <3>2 DEF IInv, Rest, CastsFail, Mixed
  <2> QED BY <1>3, <2>1, ErrorStep DEF CastsFail, IInv, TypeOK
<1> QED BY <1>1, <1>2, <1>3

\* integrityTest begins.
LEMMA ReadManifestStep ==
  ASSUME IInv, ReadManifest
  PROVE  IInv'
<1> USE DEF IInv, ReadManifest, install
<1>1. disk[MANIFEST] \in Releases \cup {Torn}
  <2>1. Old(MANIFEST) \in Releases /\ New(MANIFEST) \in Releases
    BY ShippedAt, Distinct DEF Old, New, Written
  <2>2. MANIFEST # writing => disk[MANIFEST] \in Releases
    BY <2>1, Distinct DEF Disk
  <2>3. MANIFEST = writing => disk[MANIFEST] \in {Torn, NoFile}
    BY Distinct DEF Disk
  <2> QED BY <2>2, <2>3
<1>2. TypeOK'
  BY <1>1 DEF TypeOK, Whole
<1>3. Disk'
  BY DEF Disk, Old, New
<1>4. Control'
  BY <1>1, Distinct DEF Control, Testing
<1>5. Memory' /\ Rest'
  BY DEF Memory, Rest, Testing, Whole
<1>6. Seen'
  <2> SUFFICES ASSUME manifest' \in Releases, manifest' \notin seen'
      PROVE  disk' # Shipped(manifest') /\ Unseen(manifest, Unread)'
    BY DEF Seen
  <2>1. /\ manifest' = disk[MANIFEST] /\ disk' = disk /\ Unread' = Paths \ {MANIFEST}
        /\ writing' = writing /\ todo' = todo
    BY DEF Unread
  <2>2. disk # Shipped(disk[MANIFEST])
    BY <2>1 DEF Whole
  <2>3. Unseen(disk[MANIFEST], Paths)
    BY <2>1, <2>2, ReadFirst
  <2>4. disk[MANIFEST] = Shipped(disk[MANIFEST])[MANIFEST]
    BY <2>1, ShippedAt, Distinct DEF Written
  <2>5. Unseen(disk[MANIFEST], Paths \ {MANIFEST})
    BY <2>1, <2>2, <2>3, <2>4, ReadRight
  <2> QED BY <2>1, <2>2, <2>5 DEF Unseen, Stuck, Half, Settled, Old, New
<1> QED BY <1>2, <1>3, <1>4, <1>5, <1>6

\* The signature is read and verifies.
LEMMA ReadSignatureStep ==
  ASSUME IInv, ReadSignature
  PROVE  IInv'
<1> USE DEF IInv, ReadSignature, install, test
<1>1. manifest \in Releases /\ disk[SIGNATURE] = manifest
  BY DEF Verifies
<1>2. TypeOK'
  BY DEF TypeOK
<1>3. Disk'
  BY DEF Disk, Old, New
<1>4. Control' /\ Memory' /\ Rest'
  BY <1>1 DEF Control, Memory, Rest, Testing, Whole
<1>5. Seen'
  <2> SUFFICES ASSUME manifest \notin seen
      PROVE  disk # Shipped(manifest) /\ Unseen(manifest, Unread)'
    BY DEF Seen
  <2>1. Unread = Paths \ {MANIFEST} /\ Unread' = Files
    BY DEF Unread
  <2>2. disk # Shipped(manifest) /\ Unseen(manifest, Paths \ {MANIFEST})
    BY <1>1, <2>1 DEF Seen, Testing
  <2>3. disk[SIGNATURE] = Shipped(manifest)[SIGNATURE]
    BY <1>1, ShippedAt, Distinct DEF Written
  <2>4. \A p \in (Paths \ {MANIFEST}) \ Files : p = SIGNATURE
    BY Distinct
  <2>5. Files \in SUBSET (Paths \ {MANIFEST})
    BY Distinct
  <2>6. Unseen(manifest, Files)
    BY <1>1, <2>2, <2>3, <2>4, <2>5, ReadRight
  <2> QED BY <2>1, <2>2, <2>6 DEF Unseen, Stuck, Half, Settled, Old, New
<1> QED BY <1>2, <1>3, <1>4, <1>5

\* The directory holds the listed files and no other.
LEMMA ListStep ==
  ASSUME IInv, List
  PROVE  IInv'
<1> USE DEF IInv, List, install
<1>1. manifest \in Releases /\ filesIn = Listed(manifest) /\ Listed(manifest) \subseteq Files
  BY DEF NotAsListed, Control, Listed
<1>2. TypeOK'
  BY <1>1 DEF TypeOK
<1>3. Disk'
  BY DEF Disk, Old, New
<1>4. Control' /\ Memory' /\ Rest'
  BY <1>1 DEF Control, Memory, Rest, Testing, Whole
<1>5. Seen'
  <2> SUFFICES ASSUME manifest \notin seen
      PROVE  disk # Shipped(manifest) /\ Unseen(manifest, Unread)'
    BY DEF Seen
  <2>1. Unread = Files /\ Unread' = Listed(manifest)
    BY DEF Unread
  <2>2. disk # Shipped(manifest) /\ Unseen(manifest, Files)
    BY <1>1, <2>1 DEF Seen, Testing
  <2>3. ASSUME NEW f \in Files \ Listed(manifest)
        PROVE  disk[f] = Shipped(manifest)[f]
    <3>1. Content[manifest][f] = NoFile /\ f \in Paths /\ f \notin Written
      BY Distinct, ReleaseAssumption DEF Listed
    <3>2. disk[f] = NoFile
      BY <1>1, <3>1 DEF filesIn
    <3> QED BY <1>1, <3>1, <3>2, ShippedAt
  <2>4. Files \in SUBSET Paths /\ Listed(manifest) \in SUBSET Files
    BY <1>1, Distinct
  <2>5. Unseen(manifest, Listed(manifest))
    BY <1>1, <2>2, <2>3, <2>4, ReadRight
  <2> QED BY <2>1, <2>2, <2>5 DEF Unseen, Stuck, Half, Settled, Old, New
<1> QED BY <1>2, <1>3, <1>4, <1>5

\* A listed file has its digest.
LEMMA DigestStep ==
  ASSUME IInv, Digest
  PROVE  IInv'
<1> USE DEF IInv, Digest, install
<1>1. PICK f \in left : disk[f] = Content[manifest][f] /\ left' = left \ {f}
  OBVIOUS
<1>2. manifest \in Releases /\ left \subseteq Files /\ f \in Files
  BY DEF Control, Listed
<1>3. TypeOK'
  BY <1>1 DEF TypeOK
<1>4. Disk'
  BY DEF Disk, Old, New
<1>5. Control' /\ Memory'
  BY <1>1 DEF Control, Memory, Testing
<1>6. Rest'
  BY <1>1 DEF Rest, Testing, Whole
<1>7. Seen'
  <2> SUFFICES ASSUME manifest \notin seen
      PROVE  disk # Shipped(manifest) /\ Unseen(manifest, Unread)'
    BY DEF Seen
  <2>1. Unread = left /\ Unread' = left \ {f}
    BY <1>1 DEF Unread
  <2>2. disk # Shipped(manifest) /\ Unseen(manifest, left)
    BY <1>2, <2>1 DEF Seen, Testing
  <2>3. disk[f] = Shipped(manifest)[f]
    BY <1>1, <1>2, ShippedAt, Distinct
  <2>4. left \in SUBSET Paths /\ left \ {f} \in SUBSET left
    BY <1>2, Distinct
  <2>5. Unseen(manifest, left \ {f})
    BY <1>2, <2>2, <2>3, <2>4, ReadRight
  <2> QED BY <2>1, <2>2, <2>5 DEF Unseen, Stuck, Half, Settled, Old, New
<1> QED BY <1>3, <1>4, <1>5, <1>6, <1>7

\* The test fails, and on a disk at rest it does so for a reason.
LEMMA TestFailsStep ==
  ASSUME IInv, TestFails
  PROVE  IInv'
<1> USE DEF IInv
<1>1. ASSUME ~disturbed, NEW r \in Whole(disk) PROVE FALSE
  <2>1. disk = Shipped(r) /\ r \in Releases
    BY <1>1 DEF Whole
  <2>2. disk[MANIFEST] = r /\ disk[SIGNATURE] = r
    BY <2>1, ShippedAt, Distinct DEF Written
  <2>3. Testing => manifest = r
    BY <1>1, <2>2 DEF Rest
  <2>4. CASE pc = "manifest" /\ disk[MANIFEST] = NoFile
    BY <2>1, <2>2, <2>4, Distinct
  <2>5. CASE pc = "signature" /\ ~Verifies
    BY <2>1, <2>2, <2>3, <2>5 DEF Verifies, Testing
  <2>6. CASE NotAsListed
    <3>1. \A f \in Files : disk[f] = Content[r][f]
      BY <2>1, ShippedAt, Distinct
    <3>2. filesIn = {f \in Files : disk[f] # NoFile}
      BY ReleaseAssumption DEF filesIn, Paths
    <3>3. filesIn = Listed(r)
      BY <3>1, <3>2 DEF Listed
    <3> QED BY <2>3, <2>6, <3>3 DEF NotAsListed, Testing
  <2>7. CASE pc = "digest" /\ \E f \in left : disk[f] # Content[manifest][f]
    <3>1. left \subseteq Files /\ manifest = r
      BY <2>3, <2>7 DEF Testing, TypeOK
    <3> QED BY <2>1, <2>7, <3>1, ShippedAt, Distinct
  <2> QED BY <2>4, <2>5, <2>6, <2>7 DEF TestFails
<1> QED BY <1>1, ErrorStep DEF TestFails, TypeOK

\* The test passes: on a disk at rest the code there is that of the release.
LEMMA TestPassesStep ==
  ASSUME IInv, TestPasses
  PROVE  IInv'
<1> USE DEF IInv, TestPasses, TestOver, install
<1>1. manifest \in Releases /\ pc = "digest"
  BY DEF Control
<1>2. TypeOK'
  BY <1>1 DEF TypeOK
<1>3. Disk'
  BY DEF Disk, Old, New
<1>4. Control' /\ Seen'
  BY DEF Control, Seen, Testing
<1>5. Memory'
  BY <1>1, Distinct DEF Memory, TypeOK
<1>6. ~disturbed => \A f \in Code : disk[f] = Content[manifest][f]
  BY <1>1, ReleaseAssumption, Distinct DEF Rest, Listed
<1>7. Rest'
  BY <1>6 DEF Rest, Testing, Whole
<1> QED BY <1>2, <1>3, <1>4, <1>5, <1>7

\* The rest of the code is loaded, or cannot be.
LEMMA ImportStep ==
  ASSUME IInv, Import \/ ImportFails \/ Imported
  PROVE  IInv'
<1> USE DEF IInv
<1>1. CASE Import
  BY <1>1, ReadStep, Distinct DEF Import, Testing
<1>2. CASE ImportFails
  <2>1. ASSUME ~disturbed, NEW r \in Whole(disk) PROVE FALSE
    <3>1. disk = Shipped(r) /\ r \in Releases
      BY <2>1 DEF Whole
    <3>2. \A f \in Late : disk[f] \in Contents
      BY <3>1, ShippedAt, Distinct
    <3> QED BY <1>2, <3>2, Distinct DEF ImportFails
  <2> QED BY <1>2, <2>1, ErrorStep DEF ImportFails, TypeOK
<1>3. CASE Imported
  <2> USE <1>3 DEF Imported, install, test
  <2>1. TypeOK'
    BY DEF TypeOK
  <2>2. Disk'
    BY DEF Disk, Old, New
  <2>3. Control' /\ Seen' /\ Rest'
    BY DEF Control, Seen, Rest, Testing, Whole
  <2>4. \A f \in Code : loaded[f] # Nothing
    BY DEF Memory, Code
  <2>5. Memory'
    BY <2>4 DEF Memory
  <2> QED BY <2>1, <2>2, <2>3, <2>5
<1> QED BY <1>1, <1>2, <1>3

\* Services begin, self-tests are asked for, the process is started again.
LEMMA OtherStep ==
  ASSUME IInv, Start \/ selfTest \/ Restart
  PROVE  IInv'
<1> USE DEF IInv, install, test
<1>1. CASE Start \/ selfTest
  <2> USE <1>1 DEF Start, selfTest
  <2>1. TypeOK'
    BY DEF TypeOK
  <2>2. Disk'
    BY DEF Disk, Old, New
  <2>3. Control' /\ Seen' /\ Rest'
    BY DEF Control, Seen, Rest, Testing, Whole
  <2>4. Memory'
    BY Distinct DEF Memory, TypeOK, Code
  <2> QED BY <2>1, <2>2, <2>3, <2>4
<1>2. CASE Restart
  <2> USE <1>2 DEF Restart, TestOver
  <2>1. loaded' \in [Code -> {Nothing}]
    BY DEF NothingLoaded
  <2>2. restarts' \in 0..MaxRestarts
    BY ReleaseAssumption DEF TypeOK
  <2>3. TypeOK'
    BY <2>1, <2>2 DEF TypeOK
  <2>4. Disk'
    BY DEF Disk, Old, New
  <2>5. Control' /\ Seen' /\ Memory'
    BY DEF Control, Seen, Memory, Testing
  <2>6. Rest'
    BY <2>1 DEF Rest, Testing
  <2> QED BY <2>3, <2>4, <2>5, <2>6
<1> QED BY <1>1, <1>2

\* No step breaks the invariant.
LEMMA NextInv == IInv /\ [Next]_vars => IInv'
<1> SUFFICES ASSUME IInv, [Next]_vars PROVE IInv'
  OBVIOUS
<1>1. CASE Installer
  BY <1>1, InstallerStep
<1>2. CASE LoadEarly \/ LoadRejected \/ Loaded \/ Casts \/ CastsFail
  BY <1>2, LoadStep
<1>3. CASE ReadManifest \/ ReadSignature \/ List \/ Digest
  BY <1>3, ReadManifestStep, ReadSignatureStep, ListStep, DigestStep
<1>4. CASE TestFails \/ TestPasses
  BY <1>4, TestFailsStep, TestPassesStep
<1>5. CASE Import \/ ImportFails \/ Imported
  BY <1>5, ImportStep
<1>6. CASE Start \/ selfTest \/ Restart
  BY <1>6, OtherStep
<1>7. CASE UNCHANGED vars
  <2> USE <1>7 DEF IInv, vars, install, test
  <2>1. TypeOK' /\ Disk'
    BY DEF TypeOK, Disk, Old, New
  <2>2. Control' /\ Rest' /\ Memory'
    BY DEF Control, Rest, Memory, Testing, Whole
  <2>3. Seen'
    BY DEF Seen, Testing, Unread, Unseen, Stuck, Half, Settled, Old, New
  <2> QED BY <2>1, <2>2, <2>3
<1> QED BY <1>1, <1>2, <1>3, <1>4, <1>5, <1>6, <1>7 DEF Next, Run

-------------------------------------------------------------------------------
\* The invariant holds in every behaviour of the module.
THEOREM Invariance == Spec => []IInv
BY InitInv, NextInv, PTL DEF Spec

\* The state of the module and of the disk has its type.
THEOREM TypeCorrect == Spec => []TypeOK
<1>1. IInv => TypeOK
  BY DEF IInv
<1> QED BY <1>1, Invariance, PTL

\* integrityTest (fips/index.js) passes only what was a whole release at one
\* moment of the test, whatever an installer does meanwhile.
THEOREM SeesARelease == Spec => []TestSeesARelease
<1>1. IInv => TestSeesARelease
  <2> SUFFICES ASSUME IInv, pc = "digest", left = {}, manifest \notin seen PROVE FALSE
    BY DEF TestSeesARelease
  <2>1. manifest \in Releases /\ Unread = {}
    BY DEF IInv, Control, Unread
  <2> QED BY <2>1 DEF IInv, Seen, Testing, Unseen, Stuck, Half
<1> QED BY <1>1, Invariance, PTL

\* A whole release at rest is never refused, by the tests of the files or by
\* the loading of the code.
THEOREM NeverFalselyAlarmed == Spec => []NoFalseAlarm
<1>1. IInv => NoFalseAlarm
  BY DEF IInv, Rest, NoFalseAlarm
<1> QED BY <1>1, Invariance, PTL

\* The module that offers services on a disk nobody writes to runs the code of
\* the release it has tested and reports, the code loaded before the test
\* included.
THEOREM LoadedIsTested == Spec => []TestedIsLoaded
<1>1. IInv => TestedIsLoaded
  BY DEF IInv, Rest, Memory, TestedIsLoaded
<1> QED BY <1>1, Invariance, PTL

\* integrityTest decides rightly both ways.
THEOREM IntegrityInvHolds == Spec => []IntegrityInv
BY TypeCorrect, SeesARelease, NeverFalselyAlarmed, PTL DEF IntegrityInv

================================================================================
