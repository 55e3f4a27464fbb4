# Specifications of kxco-post-quantum

TLA+ models of the parts of this package that have state, order, decisions or
failure to get wrong: the FIPS module with its random bit generator and its
integrity test, the choice between OpenSSL and JavaScript, the keys, tokens and
webhooks built on the algorithms, and the programs that test and certify the
package: conformance, interoperability, the evidence bundle and the ACVTS
client. TLC checks small instances; the safety properties are also proved with TLAPS,
for every value of the constants.

Paths below are those of the repository. `PROJECT.json` maps each definition
to the lines it stands for and lists runs, mutants, findings, hazards and
theorems.

    tlc -config MCFipsModule.cfg MCFipsModule      # any run of the table below
    tlapm FipsModule_proofs.tla                    # the proofs

## 1. The system

The package is a library of post-quantum signatures and key encapsulation, a
self-contained FIPS module beside it, and the tools that test, certify and
release both.

| Part | Code | State it keeps | Operations | Hard behaviour |
|---|---|---|---|---|
| HMAC_DRBG | `src/fips/drbg.js` | K, V, reseed counter | instantiate, reseed, generate, uninstantiate | a request in the middle of which keys change; the 2^20th request; old keys in memory |
| FIPS services | `src/fips/index.js`, `module.js`, `entropy.js` | module state, service table, DRBG | six services, `selfTest`, `status`, start-up | failures at every step of every service; reseeds in the middle of a key generation; short reads |
| FIPS integrity test | `index.js`, `scripts/build-fips-manifest.mjs` | files on disk, code in memory | the test at start-up and on demand | files replaced while they are read; half an installation |
| Self-test vectors | `selftest.js`, `kat.js` | none | known-answer tests | none beyond when they run |
| Backend selection, wrappers | `backend.js`, `_native.node.js`, `ml-dsa*.js`, `ml-kem*.js`, `slh-dsa.js`, `_context.js` | probe results | choose OpenSSL or JavaScript per call | requirement checked at one time, dispatch decided at another, signer and verifier on different runtimes |
| Seeds, derivation | `seed.js`, `derive.js` | a stored file | derive, export, import | files cut, appended to or mixed; lengths that a file declares |
| JWS | `jws.js` | none | sign, verify | tokens put together from others; what a caller pins |
| Webhooks | `webhook.js` | none (clock) | sign, verify a delivery | clocks apart, replays, moved boundaries, key rotation |
| ACVP vectors and runner | `conformance/fetch-vectors.mjs`, `run-acvp.mjs` | a cache and its lock; tallies | fetch, verify, grade | fetches killed in a checkout, a lock that moved; exceptions read as answers |
| ACVTS responders | `acvts/responders.mjs`, `responders-native.mjs`, `register.mjs`, `selftest.mjs` | none | answer or refuse a group | two programs that must agree; options that a backend ignores |
| ACVTS session | `acvts/client.mjs`, `run-session.mjs` | a kept directory; on the server: sessions, answers, tokens | register, poll, answer, submit, resume | runs that die anywhere, lost replies, repeated POSTs, expiring tokens |
| ACVTS resources, certification | `create-resources.mjs`, `publish.mjs` | state file; records on the server | create and poll; PUT and poll | death between the server's record and the local one |
| Interoperability | `interop/run-interop.mjs` | peer processes, waiting requests, rows | ask, match answers, check, stop | late answers, deaths, noise on the pipe, answers that lack what they say they have, a peer that agrees to anything |
| Evidence bundle | `scripts/build-evidence.mjs` | the output directory | run every check, hash, write | commands that fail before or after their report, or outlive a killed build; files of an earlier build |
| Release workflows | `publish.yml`, `evidence.yml`, `sign-release.mjs` | npm, a GitHub release | one publish job, two evidence legs | a hosted service's own |
| Reports, measurement | `build-cbom.mjs`, `audit/`, `bench/`, `fuzz/`, `protocol/` | files | sequential scripts | none of note |
| Vendored algorithms | `src/fips/vendor/` | none | field and lattice arithmetic | out of a finite model's reach |

How they interact: `index.js` runs the integrity test, then imports
`module.js`, calls into it through the service table and is told of fatal
errors by an exception; `module.js` owns the one DRBG and reads `entropy.js`
to seed it; all of this is synchronous but for the one awaited import. The
build signs the manifest the integrity test reads. A master secret becomes a
key (`derive.js`, `seed.js`), a file, the key again, and a signer of tokens
(`jws.js`). `run-acvp.mjs` grades what `fetch-vectors.mjs` has verified; the
responders compute for NIST's server what the runner checks against NIST's
files, and a session (`run-session.mjs`) carries their answers. The evidence
bundle runs the runner, the interoperability matrix and the tests, and a
workflow publishes a full bundle that exits with 0 once it holds FIPS 205 too. The ACVTS scripts talk to a
server over HTTPS and to one another only through files and the one-time
password they share.

What makes each part correct: the DRBG never repeats output, gives up its past
and serves exactly its interval; the FIPS module enters its error state exactly
on a failure, takes the DRBG with it and overwrites its own buffers; the
integrity test vouches for what runs; a requirement on the backend holds for
every call, and whatever signed, whatever verifies; a stored key loads as
itself or not at all; a token or a delivery that is accepted was issued so, and
is accepted no longer than its window; an exit status tells the
implementation, whatever died, hung or was cached on the way; a session claims
success only for what the server passed and never loses or doubles an answer;
the files later runs build upon name what they say they name.

## 2. Modules

| Module | Models | Extends / instantiates |
|---|---|---|
| `Drbg` | what a DRBG promises its user: no service before a seed or past the interval, a new seed asked for when the interval is used up and not before | |
| `HmacDrbg` | `drbg.js` block by block | implements `Drbg` |
| `FipsService` | what the application sees of the FIPS module | |
| `FipsModule` | `index.js`, `module.js`, `entropy.js` step by step | uses `Drbg`, implements `FipsService` |
| `FipsIntegrity` | `integrityTest` and the imports over a disk that changes | |
| `Backend` | `_native.node.js`, `backend.js` and the dispatch of the wrappers | |
| `SeedForm` | `seed.js` and the derivations: keys, PKCS#8 bytes, JWKs, files that come back changed | |
| `Jws` | `signJws`, `verifyJws` over everything that can be put together | |
| `KeyCustody` | an issuer whose key lives in a file | extends `Jws`, instantiates `SeedForm` |
| `WebhookDelivery` | `signDelivery`, the network, `verifyDelivery`, two clocks | |
| `AcvpVectors` | the cache of `fetch-vectors.mjs` | |
| `AcvpAnswers` | the runner, the two responders, the registration, three graders | |
| `Conformance` | a job: fetch, then grade | extends `AcvpAnswers`, instantiates `AcvpVectors` |
| `AcvtsSession` | `run-session.mjs` over `client.mjs` | |
| `AcvtsRecords` | `create-resources.mjs` beside `publish.mjs` | |
| `Interop` | `run-interop.mjs` and its peers | |
| `Evidence` | `build-evidence.mjs`, and what `evidence.yml` publishes | |
| `Signing_proofs` | the proofs about tokens, stored keys and deliveries | extends `KeyCustody`, `WebhookDelivery` |
| `Conformance_proofs` | the proofs about the programs that say what conforms: matrix, bundle, vectors and graders | extends `Conformance`, `Interop`, `Evidence` |
| other `..._proofs` | the proofs | extend their module and `TLAPS` |
| `MC...` | the instances TLC checks, with the `.cfg` of the same name | extend their module |

Definitions called "Mutant of X" directly before a definition `X` are `X` with
a plausible mistake. They are part of no specification; for each property of
a passing run one of them, put in the place of `X`, makes TLC report it. An
invariant called `...Inv` is the conjunction of a module's type invariant and
the named parts that are explained beside it.

### HmacDrbg

`K`, `V` and `counter` are the private fields, `pc` the point inside an
operation, and one step one HMAC of `#step` or one block of the output loop.
HMAC-SHA-512 is an ideal function: a table (`oracle`) gives every new pair of
key and input a fresh value, and the same pair the same value. Fresh values
are numbers, so the instance bounds how many calls it makes. `buffers` and
`copies` are the byte arrays left in memory that hold a former K or V, the
`concat` copies included, and `copied` the inputs that `concat` has copied;
`issued`, `served` and `answer` are history.
Input data is a small set: what is fed in matters only as equal or different.

### FipsModule

`pc` walks through start-up (`TestStages`, the two reads, `instantiate`),
through `selfTest`, and through a service: `random` → (`reseedEntropy` →
`reseed`) → `generate` → `run`, and for a key pair once more through `random`
for the draw of its pairwise test, then `pctFirst` and `pctSecond`. Whether a
test passes, how long a read is and what an algorithm says of the caller's key
are choices. Bytes are abstracted to places: `mem` is the set of the module's
own buffers that hold a secret; a pair leaves it when it is returned, because
from then on it is the operator's. The DRBG inside is its contract with the
counter the code keeps, which `HmacDrbg` is shown to implement; so the reseed
counter is the same variable in both and the two meet in `Drbg`. `mem` also has
what `drbg.js` copies and nobody overwrites (`Copies`): the seed material, from
`Instantiate` and `Reseed` on, and the V behind what was drawn. Start-up is the
only caller of `instantiate` outside the self-tests, which make an object of
their own, so neither module instantiates a live DRBG again.

### FipsIntegrity

`disk` maps paths to contents, and a content stands for its digest. Early code
(`index.js`, `selftest.js`, `release-key.js`, `kat.js`, the vendored files) is
read when the module is imported, before the test; late code (`module.js`,
`drbg.js`, `entropy.js`) after it. Between any two reads an installer may open,
finish or remove a file. `loaded` is the code in memory, `seen` the releases
the directory has been, exactly, since the running test began, `disturbed`
whether anything was written since the process started. `Listed` and `Shipped`
are `build-fips-manifest.mjs`. The walk of the directory is one step.

### Backend

One process after another, each started on a runtime and in an environment of
the operator's choice; nothing but signatures outlives a process. `native` is
the export of `#native`, loaded with whichever module of the package is
imported first: a wrapper by its own path (`ImportWrapper`) or the package
(`ImportIndex`), which alone loads `backend.js`. `contextHonoured` is the
answer of the context probe, asked for by the first call that needs it.
`call` is what the last call was, where it ran, what came of it and what
should have; `wire` the last signature, with the context it is really bound
to. What OpenSSL does with a context (`Bind`) is external, and the same for
all sets of a runtime, as `_native.node.js:94-97` reports: the probe asks one
set, ML-DSA-44, for all. Which private keys a runtime imports (`imports`) is
independent of which it generates; the probe tries the import for JWKs only.

### SeedForm, Jws, KeyCustody

`stored` is the file an issuer keeps: the PKCS#8 bytes that `exportSeedPkcs8`
writes, or the private or public JWK, whole, cut at any byte, appended to, or
with one member of another key's. `loaded` is what the importers make of it.
PKCS#8 is modelled byte by byte, with the DER lengths, because whether a cut or
a declared length is noticed is decided there; seeds and public keys are short
strings of bytes from a table, distinct per set, master and label. Base64url in
a token is a segment that is canonical or not; an adversary of no kind is
needed: `Tokens` is everything that segments of issued tokens, and a few of
other contents, can be put together to, and `Valid` is `verifyJws` on it.
`KeyCustody` lets only a key that was loaded sign for the issuer, and asks the
published key to verify.

### WebhookDelivery

Timestamps and bodies are strings of characters, because the envelope is one
string and the boundary in it the question. `Fresh` and `TsNum` are the code's
parsing and comparison; `now` is the receiver's clock, and the sender's is ahead
by one of `Skews`. The network keeps every delivery, gives it to anyone at any
time, moves the boundary, and exchanges headers; the receivers hold any secret
or key, with or without a kid.

### AcvpVectors, AcvpAnswers, Conformance

`files` is a cache that a checkout fills in git's order and a kill leaves in the
middle; `lock` may move to another commit between two fetches, lose the digests
of some sets on the way, and a file of the cache may be changed. Groups are records of what the programs look at: set,
function, interface, pre-hash, externalMu, and per test the wanted result and
the hash. `Returns` is the backend: it accepts, rejects, computes or throws, by
the options it is called with; an implementation is right or wrong on one of its
`Surfaces`. `RunnerGrade` and `SelftestGrade` are the two ways to grade.

### AcvtsSession

`pc` is the request or file write in progress. `call()`'s repetition is
`NoAnswer`, which every request can meet before or after the server has acted;
`authed()` is `Unauthorized` → `refresh` → `KeepToken` → the same request.
`Crash` kills the run anywhere and may leave the file being written torn.
`Start` is any invocation on the same `--keep` directory, with or without
`--resume`. The server is external and does what the code relies on.

### AcvtsRecords

Two processes over one state file: `pc` walks the eight create calls, each a
POST (`Post`, perhaps repeated after a lost reply), polls of the request it
made, and the save; `ppc` reads the file, sends the PUT and polls. The server
approves or rejects each request when it likes, or never. A kill may leave the
file torn.

### Interop

Each peer is a process that answers, prints noise, hangs or dies, and belongs to
one of a few kinds of implementation. `stdin`, `stdout` and `buffer` are the
pipes between them: lines and half lines, answers with their ids, late ones
included. `Check` is the rule from an answer to `ok`, and rows are recorded also
when they are cut short. Two exceptions that nothing catches end the run
(`exit` = "thrown"): `DataThrows`, a line that is `null`, and `ContinueThrows`,
an answer that says ok and has no signature or ciphertext.
The peers ask one question at a time, as `run-interop.mjs` does.

### Evidence

`dir` is the output directory, a set of files with the build that wrote them,
the cap they were made under and whether they report a failure. A build is a
sequence of steps (`Plan`), each a command whose report is written by itself or
from its output, and ends in the manifest, the README and the exit status.
`execFileSync` waits for a child that does not end with it: a killed build may
leave one behind (`orphans`), which writes its report into whatever is there
then (`LateReport`); `intruded` remembers that it did. `Publish` is
`evidence.yml`, which builds with `--full` on a runner of its own, and asserts
that the sections of FIPS 205 are there (`Demanded`) before it uploads.

## 3. Runs

| Run | Instance | Shows |
|---|---|---|
| `hmac_drbg` | interval 2, two inputs, requests of 0 to 3 blocks and halves | `NoBlockRepeats`; `PastUnreachable` (backtracking resistance); `DrbgInv` (`KeysOverwritten`, `OutputExact`); `KeepsContract` (refinement of `Drbg`) |
| `fips_module` | one KEM and one DSA set, interval 2, short reads, one kill | `ModuleInv` (`ErrorIffFault`, `ErrorDestroysDrbg`, `SeedIsWhole`, `NothingLeftBehind`); `OnlyTestedPairsLeave`; `UsesDrbgAsPromised` and `ImplementsService` (refinements of `Drbg` and `FipsService`); `CallsReturn` |
| `fips_integrity` | two releases, five files, one start and one restart | `TestedIsLoaded`; `IntegrityInv` (`TestSeesARelease`, `NoFalseAlarm`); `WholeInstallStarts` |
| `backend` | a browser, a Node without the primitives and 27 builds that generate and import some or all; every environment; three wrappers | `SignaturesInterop`; `BackendInv` (`NothingThrows`, `PinIsObeyed`, `AbsentMeansItCannot`); `RequirementHolds` |
| `key_custody` | every parameter set and form, every cut and mix, another issuer, two tokens | `PublishedKeyVerifies`; `CustodyInv` (`LoadedIsTheKeptKey`, `JwkIsOfOneKey`, `IntactLoads`); `ValidIsAsIssued`; `ValidIsAsPinned` |
| `seed_form_whole` | the same | violated: `ImportedSeedIsWhole` |
| `webhook` | window 1, sender ahead by 2, two deliveries, a rotation | `AcceptedIsAsSent`; `ReplayEndsWithTheWindow`; `UndisturbedIsAccepted` |
| `conformance` | two vector sets, two commits, one change of a file; groups of every kind | `JobInv` (`FetchedIsPinned`, `PromptsComeLast`); `ExitTellsTheImplementation`; `RespondersAnswer` (`RespondersFollowTheRunner`, `RegisteredIsAnsweredElsewhere`); `NativeNeverGuesses` |
| `acvts_session` | two vector sets, two environments, two runs, two lost messages, one expiry | `ExitZeroMeansPassed`; `SessionInv` (`OneAnswerPerPrompt`, `SubmittedIsKept`, `RecordIsOfTheAnswers`); `KeptAnswersStay`; `RunEnds` |
| `records` | two runs of each script side by side, one lost reply or crash | `RecordsInv` (`SavedIsARecord`, `RecordsNameRecords`); `RerunsReuse`; `ExitTellsTheCertificate`; `ScriptsEnd` |
| `interop` | a KEM peer that accepts anything, a signature peer of five kinds; one late answer, one line of noise or `null` | `RowsTellThePeer`; `MatrixInv` (`AnswersAreToTheQuestion`, `ExitCoversTheMatrix`); `RunEnds` |
| `evidence` | two builds of either kind, one optional document | `BundleInv` (`BundleIsOfOneBuild`, `ManifestCoversTheBundle`, `ExitIsOfTheRequired`, `CapsAreNoted`); `MissingIsRecorded`; `PublishedIsWhole` |

### Why the bounds are enough

- *Reseed interval.* The code's 2^20 enters only by comparison with a counter.
  Two puts the boundary at every draw of a service: before the first, between
  the seed and the pairwise draw of a key generation, and after the last. The
  proofs are for every interval.
- *Blocks.* Three blocks have a first, a middle and a last; odd lengths end in
  a partial block.
- *Reads.* A buffer of three units can be filled in one read or in several
  short ones.
- *Releases and files.* Two releases in which early code changes, late code
  changes, a vendored file does not, one file goes and one comes: every case
  the comparison of files with a manifest distinguishes. One restart is enough
  to start on every half-way disk.
- *Backends.* Only whether a set is keyed by PKCS8 or a JWK, signs or
  encapsulates, and is the probed one makes a difference: one of each. The
  builds lack each of these in turn, and the import of either form of private key. Two contexts are a right and a wrong one,
  and one signature on the wire meets every later process.
- *Keys and tokens.* Seeds have their real lengths, so that every DER length
  and every cut is a real one; the bytes of the streams include DER tags and
  lengths. Two tokens are what it takes to exchange a segment between two. For
  tokens the theorems are for any number.
- *Deliveries.* A window of one second and a difference of two make a delivery
  early, in time and late; a body with a digit and a dot in front is the one
  whose start can be read as the end of a timestamp. The theorems are for every
  window, difference and body.
- *Vectors.* A second commit that changes the results of one of two sets, but
  no prompt: the case in which a look at the prompts is not enough. A lock edited
  by hand keeps the digests of both, one or no set. The groups
  are one of each kind that the programs treat apart, one of each with a test
  that has no result.
- *Sessions and records.* Two runs give every pair of a death and its
  resumption, two lost messages exhaust the repetitions of a request
  (`Attempts` = 2 stands for 3, `Logins` = 2 for 4, `MaxPolls` = 2 for 60, 90
  and 40). Two vector sets have a boundary between them. The records run has
  every step of `create-resources.mjs`. The theorems are for any number of
  runs, tries, polls, vector sets and lost messages.
- *Peers.* One peer after another is asked; two are enough for a failure of
  the first to touch the second. One late answer meets each later question.
- *Builds.* A second build finds everything a first one can leave.

### Finding

`seed_form_whole`: `importSeedPkcs8` refuses a seed "must be 32 bytes, got ..."
(`seed.js:376-377`) by the length the file declares, and returns what there is
(379), shorter if the file was cut. `keypairFromSeed` refuses it, so that no
wrong key comes of it (`LoadedIsTheKeptKey`); a caller who stores or compares
the seed itself is not told. The run shows it of one file; `CutSeedsImport`
proves it of every seed of each set and every place in it.

### Divergences met while modelling

Places where the models, which follow the code, do not have what a text beside
it says. No property of a run depends on them; the properties above are stated
so that they hold, and each leaves out what is listed here.

| Code | What it does | The text |
|---|---|---|
| `drbg.js:113`, `79` | the `concat` copy with the old V, and the V that the output loop replaces, are not overwritten (`buffers`, `copies` in `HmacDrbg`); `KeysOverwritten` is about keys | `drbg.js:102-103`: "no earlier internal state outlives the update" |
| `drbg.js:51`, `59`, `113` | `concat` copies the entropy input, the nonce and the additional input, at 113 once more, and nobody overwrites the copies; `module.js:77` and `85` overwrite the originals only (`copied` in `HmacDrbg`, `Copies` in `FipsModule`, which `NothingLeftBehind` excepts by name) | `SECURITY-POLICY.md:197-198`: "Overwritten by the module as soon as used: the entropy input and nonce after instantiation, and the entropy input after each reseed"; 9.4: zeroised "after use" |
| `module.js:103` | an algorithm that throws inside a pairwise test leaves the test's values in memory (`PctThrows` leaves `mem`); the module is in the error state then | `SECURITY-POLICY.md` 9.3: overwritten as soon as used |
| `fips/index.js:129` | the service files are read again after the check; an upgrade in between is loaded unchecked (`Import` reads `disk`, `TestedIsLoaded` assumes it undisturbed) | `README.md:400`: every file is checked before any service loads |
| `fips/index.js:153` | `selfTest` looks at the disk: after an upgrade under a running process it passes for another release than the one in memory | none |
| `backend.js:156` | `KXCO_PQ_REQUIRE_NATIVE` is looked at by `backend.js` only, which a wrapper imported by its own path does not load (`ImportWrapper`) | `README.md:345` |
| `ml-dsa-87.js:118` | with a context, a signature falls back when the probe says no, also after `requireBackend` (`RequirementHolds` is about calls without one) | `README.md:348`: removes the silent fallback |
| `backend.js:52` | a pin is the reported reason also on a runtime that could not have run anything (`Reason`) | `README.md:391` |
| `_native.node.js:166` | the import of a private key is probed for JWKs only; a build that generates keys of a PKCS8 set and does not import them would throw in `sign` and `decapsulate` (`Untried`, which `NothingThrows` excepts) | `_native.node.js:160-161`: "The import sign() makes is probed too" |
| `jws.js:82` | an empty payload, and `crit` or `b64` in `opts.header`, are signed and never verify | `jws.js:4-5` |
| `fetch-vectors.mjs:136` | `--write-lock` over a cache of an older commit hashes the old files under the new commit | its purpose |
| `fetch-vectors.mjs:108`, `125` | a file of which the lock has no digest is accepted unverified, with a warning at most (`Matches`; `FetchedIsPinned` is about the digests there are) | `fetch-vectors.mjs:5-8` |
| `fetch-vectors.mjs:140` | a prompt left torn makes every later fetch fail until the cache is removed | none |
| `run-acvp.mjs:423` | reports the lock's commit whatever the cache holds; only a fetch before it compares (`Conformance` has that order) | the report |
| `responders.mjs:80` | passes `externalMu` to SLH-DSA's internal interface, which refuses it | `responders.mjs:4-6`: identical to the runner |
| `run-session.mjs:61` | a resumed run rewrites `environment.json` and keeps the answers (`RecordIsOfTheAnswers` is about fresh ones) | `run-session.mjs:54-56` |
| `run-session.mjs:46` | a write killed in the middle leaves half a file, on which every later `--resume` throws | none |
| `run-session.mjs:85` | a registration whose reply was lost is repeated: the first session stays on the server, unknown | none |
| `client.mjs:101` | two scripts that log in within 30 seconds contend for one one-time password | none |
| `create-resources.mjs:38` | a record whose URL was not saved is created again (`RerunsReuse` is about what was saved) | `create-resources.mjs:6-9` |
| `create-resources.mjs:83` | the vendor is read without a look at the status: a module may be made without its address (`RecordsNameRecords` leaves it out) | `create-resources.mjs:81` |
| `run-interop.mjs:236` | `stop()` waits without a timeout for a peer that hangs: the one place where the run stands for ever (`RunEnds` says so) | none |
| `run-interop.mjs:167` | a line that is `null` parses, and `msg.id` throws outside the `try`: the run ends with exit code 1 and without a report (`DataThrows`) | `run-interop.mjs:157-158`: "A peer that prints to stdout would otherwise crash the run here. Its output is not protocol, so note it and carry on rather than dying" |
| `run-interop.mjs:441`, `528` | an answer with `ok` and without a signature, or without a ciphertext of the right length, throws and ends the run (`ContinueThrows`) | `run-interop.mjs:204-205`, of a dead peer: "degrades the affected rows instead of aborting the whole matrix" |
| `run-interop.mjs:556` | a negative control passes on any error, a dead peer's too (`RowsTellThePeer` is about peers without trouble), also that of a KEM peer that refuses a corrupted ciphertext | `run-interop.mjs:537-538`: a corrupted ciphertext must yield a different secret, "not an error" |
| `build-evidence.mjs:172`, `353`, `290` | signature generation of FIPS 205 is capped at one vector per group with `--full` too, and `02d` is made so; there is a note beside it (`CapsAreNoted`), but the bundle's README and manifest say otherwise | `build-evidence.mjs:353`, into the README: "This is a full pass. No group was subsampled."; 290: `full: true`; `evidence.yml:17-18`: "A subsampled bundle is never presented as a full-suite claim" |
| `build-evidence.mjs:51` | a command that outlives a killed build writes its report into the next build's directory (`LateReport`); `BundleIsOfOneBuild` is about bundles nothing was written into | `build-evidence.mjs:34-36`: an empty directory, so that no earlier file survives into the next bundle |
| `build-evidence.mjs:383-386` | exits with 0 also when FIPS 205, the matrix, the SBOM or the audit are missing or failed (`ExitIsOfTheRequired`); of a full bundle `evidence.yml:147-169` asks for FIPS 205, of others nothing | `evidence.yml:123-124`: "reaching here means the bundle is complete" |
| `build-evidence.mjs:112` | the commit is read before the commands run: a checkout in between is reported as the first | none |

### A result worth reading: TestSeesARelease

The integrity test is a sequence of separate reads and looks as if an upgrade
could lead it to accept a directory that never existed. It cannot, as long as
the installer writes one file after the other and each once: when the test
passes there was one moment during it at which the directory held exactly that
release. An installer that writes several files at a time is outside this
result, and so is one that is run twice.

## 4. Fairness and deadlock

Weak fairness is assumed of a component's own steps and of nothing else. In
the FIPS module they are consecutive statements of synchronous code, and the
one awaited import settles. In `AcvtsSession` and `AcvtsRecords` a request has
a timeout of 180 s and every sleep ends. In `Interop` a request has a timer, a
process that is up reads its pipe and answers what it reads, until it hangs or
dies, which it may at any time, and ends when it is told to stop. No fairness is
assumed of callers, of the device, the server, the network, an installer or of a
kill. Liveness is `CallsReturn`, `WholeInstallStarts`, the two `RunEnds`,
`ScriptsEnd` and the start-up fairness of `FipsService`.

`Backend`, `Jws`, `SeedForm` and `WebhookDelivery` have no liveness: every call
returns in one step. `AcvpVectors`, `AcvpAnswers` and `Evidence` are straight
scripts whose questions are all about what is there when they end.

Deadlock is checked where the system goes on for ever: `HmacDrbg`,
`FipsModule`, `Backend`. Elsewhere the system really stops, and each `.cfg`
says where: a script ends, an error state waits for a restart, the bounded
deliveries or tokens are used up.

## 5. Proofs

The proof modules follow one plan: an inductive invariant, a lemma for each
action that it is preserved, and each property as a consequence. The named
assumption of each module (`ConstantsAssumption`, `BackendAssumption`,
`JwsAssumption`, ...) is all that is assumed, and every run evaluates it: that
counts are counts, and that words for what is missing are no values.

- **HmacDrbg.** The properties speak of what the caller sees or of the state
  between operations; the invariant has to say what holds after every single
  HMAC. Blocks are numbered in the order the oracle hands them out. `Ordered`:
  every query is about blocks older than its answer. `Newest`: V is always the
  newest block and K an older one. So every query of the code mentions a block
  no earlier query can have mentioned and its answer is new (`FreshAnswer`),
  from which `OutputNeverRepeats` follows. `OldKeysGone` says the same of
  superseded keys at every step that `KeysOverwritten` says between calls, and
  `Phase` ties counter and control point together, which `Implementation`
  (every step is a step of `Drbg` or a stutter, and `reseedRequired` is the
  contract's `usedUp`) needs. `PastUnreachable` is about
  a closure that is computed along the table of queries (`Derivable`). A least
  element of a set of naturals (`Least`) gives induction over such sets, by
  which the computation is what it says (`ReachesExists`) and stays inside every
  closed set (`DerivableInside`). `Past` says that no block is ever HMACed with
  itself and that between calls neither K nor V was output; since no query can
  have been about V, the newest block, {K, V} is closed (`NothingToDerive`).
- **FipsModule.** `ErrorIffFault` is not inductive: that `generate` never
  refuses rests on what `random` saw one or several steps earlier. `Standing`
  carries the fact (`counter <= ReseedInterval` at `generate`), `Control` says
  which service can be where, `Seeding` how far a read is, `Memory` which
  buffers may hold a secret at each point (`Held`; the copies of `drbg.js` at
  any), and `Testing` what is
  known of the pair being made. `DrbgUse` and `ServiceSafety` are the two
  refinements, each step mapped to one of the contract's or to a stutter.
- **Backend.** A call's outcome depends on what was found out before it, and
  each such fact is a conjunct: `Import` (pin, probe and module), `Context` (a
  probe that said yes was of a runtime that honours contexts, `ProbeSound`),
  `Requirement` (what `requireBackend` let pass is on OpenSSL), `Wire` (a
  signature is bound to the context its signer meant). `NativeBinds` and
  `NormalizeMeans` then give `Interoperable`: whatever implementations made and
  checked a signature, it verifies exactly under the context that was meant.
- **FipsIntegrity.** A test that reads file after file while others are replaced
  can be fooled unless what it has already read says something about what it
  will read. `Disk` says what an installer can have done: one file is open, each
  other is as it was or as it will be. `Seen` is the argument: a running test
  for the new release that has not met it yet has read only paths that are
  settled, so the wrong one is still to come; one for the old release finds,
  among what is left to read, a path that has changed for good, or the only one
  that is open. `ReadRight` shows that a read that finds what it wants keeps
  this, `InstallerStep` that a write does. When nothing is left to read both
  cases are empty (`SeesARelease`). `Rest` says that on a disk at rest what was
  read is what is there, from which `NeverFalselyAlarmed` and `LoadedIsTested`.
- **Signing: Jws.** `Log` says of every token that circulates what it was issued for:
  its header, payload and signature belong together because a signature is made
  over both segments. A token that verifies carries a signature that was issued,
  so the segments are the issued ones (`ValidTokensAreIssued`), and what the
  caller pinned is what the signer was asked for (`ValidTokensAreAsPinned`).
- **Signing: SeedForm, KeyCustody.** `StoreInv` says of a file that it is a
  `Kept` one: a seeded or an expanded PKCS#8 encoding that was perhaps cut or
  appended to, or a JWK whose members are of keys the issuer derived; and of
  what is loaded, that it is what the importers make of that file. Most of the
  proof is about the reader. `Framed` says where the parts of a DER frame are,
  for length fields of one to three bytes, and a file that was cut or appended
  to `Agrees` with the whole one wherever both have a byte. `At` follows the
  importer stage by stage: it has the position that it has on the whole file, or
  it has thrown, which it has if a byte it needed is missing. So what
  the importer returns of a file is where its seed was, as far as there is a
  file, or nothing (`ImportKept`): the whole seed if nothing of it was cut off,
  whatever follows (`SeedsRoundTrip`), its first bytes if the cut is in it
  (`CutSeedsImport`). From an expanded key it returns nothing
  (`ImportExpanded`), whatever its size up to that of ML-DSA-87's. `LoadKept` and `LoadJwk` add the comparisons of the loaders, and
  `CustodyInvHolds` follows. A key that can sign is then the one that was
  derived (`SigningKey`), and nothing happens to a file once it is loaded
  (`LoadedStays`), so what the log of `Jws` holds under the issuer's key was
  signed with the published pair (`PublishedVerifies`). `CustodyAssumption`
  says that seeds are bytes, what is derived is a key, and words for what throws
  or is missing are none of these.
- **Signing: WebhookDelivery.** `EnvelopeIsInjective`: timestamps are digits, so the
  first dot of an envelope ends the timestamp, and equal envelopes have equal
  timestamps and bodies. A valid MAC or signature is then of the delivery
  itself (`AcceptedWasSent`). `ReplaysEnd` is arithmetic over the two times of
  acceptance, for any window and any difference of the clocks.
- **Conformance: Interop.** `TransportInv` follows the pipes of the one peer
  that runs. A message in them was asked for earlier, and one that has the id
  awaited is about the question that is open (`Fits`): ids only grow, and a
  late answer, a half line or noise has none that is awaited. So what resolves
  a promise is `TheAnswer`, or a `Failure` of a peer that is then counted as
  troubled. `RowsInv` adds the position in the row: so far a check has failed
  exactly if one of the steps before is one the peer fails (`FailsBefore`).
  `Continue` needs every part at once, since one step notes an answer, may end
  the row, and asks again (`ContinueTransport`, `ContinueRows`). The parsing of
  lines (`MessagesAre`, `RestIs`) is about any text a pipe can hold.
- **Conformance: Evidence.** Files and log lag one another: a command's file is
  there before its entry, and the bill of materials has a second choice that is
  in no plan. `Past` says what the first n steps have left behind: `Files` (each
  file is owned by a step taken, once, of this build), `Logged` (each command's
  entry is true of its file, and no entry is of anything else) and `Told` (the
  manifest says what the log and the directory say now, which later steps keep,
  because what they write are `Accounts`). `At` ties n to what is left to do,
  `EachStep` and `StepsAreDistinct` are the plan itself: names and files occur
  once, so no step overwrites another's. All of this is of a directory that no
  command of a killed build has written into since it was emptied
  (`AccountInv`); of others the invariant says nothing but types. A finished
  build is `Past` its last step, whatever was killed before it, and the
  properties are read off (`BundleIsOneBuild`, `MissingSectionsAreRecorded`,
  `ReleasesAreWhole`: the last joins what exit status 0 says of the required
  sections with what the workflow asserts of the others).
- **Conformance: vectors and graders.** `VectorsInv`: what a cache holds is a
  beginning of git's order (`Begun`), so that the last prompt is there only if
  every file before it is, and a cache that is pinned equals the lock's digests
  file by file, of the files it has one of. `AnswersInv` is about the books: for each parameter set the
  tallies are the tests of the groups graded so far (`Books`), no graded test
  was one the program dies of, and the exit status says whether one failed.
  Tests are counted by cardinality, of groups of any number and length
  (`GradedNext`). Apart from the invariants, `RunnerAsksRightly`,
  `ResponderAsksAlike`, `RegisteredIsSupported` and `NativeIsRight` are facts
  of the operators for every group of NIST's: the options a program passes are
  those the backend knows, or the group is refused. `Group` says what a group of
  NIST's is; the run's groups are members of it.
- **AcvtsSession.** A refresh of the token can happen inside every request.
  `Doing` is the request it interrupted, and the invariant speaks of that, so
  that one lemma (`QuietStep`) covers requests, refreshes, waits and ends.
  `Kept` says that an answer file holds an answer to its own prompt and that
  nothing but its content was submitted (`AnsweredOnce`,
  `KeptBeforeSubmitted`, `AnswersStay`). `InHand` says why a run may write: the
  prompt has no file yet. `Fresh` says which files a run that began its session
  can have written, so that the environment on record is that of all its
  answers (`RecordIsRight`). `Results` says that what a run was told the server
  still says (`ZeroMeansPassed`). `Room` and `Known` are about sessions: each
  was made by a run or by a repeated request, and nobody has the number of one
  that is not made.
- **AcvtsRecords.** While `create-resources.mjs` runs, the file is its state
  object, each step it has passed is in it, and what is in it is an approved
  record of that kind (`State`). A record names only what earlier steps made
  (`EarlierSteps`), so at a POST everything it names is approved (`Named`), and
  an approved record stays one (`RecordsStand`). With it `RecordsInvHolds`,
  `NothingIsMadeTwice` (a run never creates again what the file has) and, for
  `publish.mjs`, `ExitIsTrue`.

`Signing_proofs` and `Conformance_proofs` hold the proofs of several models:
those of `Interop`, `Evidence` and `Conformance`, like tokens and deliveries,
share no variable, and a theorem names the specification it is about.

Only model-checked: liveness (fairness and ENABLED are beyond the prover), with
it the fairness conjunct of `ImplementsService`.

## 6. What is idealised

HMAC-SHA-512 and HKDF give unrelated values to different inputs. SHA-256
digests do not collide. A signature or MAC verifies for what was signed, with
the key of the pair, and no one makes one without the key; only the release key
signs a manifest. The algorithms of the vendored libraries do not fail of
themselves in a way the caller's key or a fault does not explain: every outcome
of theirs that the code distinguishes is a choice. A JavaScript engine may copy
buffers; the models count the arrays that `drbg.js` and `module.js` name or
create, not what the vendored HMAC keeps inside. An answer that lacks what it
says it has is "malformed" where the harness takes it apart. A release is built
on a runner of its own, where no command of an earlier build is alive
(`Publish`). git writes a checkout in the order of its index and each file from
its beginning. NIST's servers, peers, commands and installers do anything the
code distinguishes.

## 7. Not modelled

The algorithms themselves (`src/fips/vendor`, third-party) are beyond a finite
model. Bills of materials, audit, benchmarks, fuzzing and the protocol tests
write reports, one after another, without a decision that depends on an earlier
one beyond a count of failures; `query` scripts read and print. A key identifier
is one hash. Of the release workflows, `Evidence` has what `evidence.yml` builds,
asserts and publishes; the rest are straight-line jobs of a hosted service.
`responders-fips.mjs` and `selftest-fips.mjs` repeat the responders for the FIPS
module's own algorithms.
Malformed keys and messages, hex conversions, type declarations, logging and
formatting are left out of the wrappers.

## 8. Plan

Done in the order the sections have. What is left:

1. Composition: `FipsModule` with `HmacDrbg` in place of the contract, and
   `AcvtsSession` with `AcvpAnswers` for what it submits.
2. The release: the two legs of `evidence.yml` on one GitHub release, each of
   which uploads over what is there.
