----------------------------- MODULE AcvtsRecords -----------------------------
(***************************************************************************)
(* create-resources.mjs, which registers the records a certificate names,  *)
(* one after the other, and publish.mjs, which asks for the certificate.   *)
(* They share a state file; each may die anywhere and be started again.    *)
(*                                                                         *)
(* The server answers a creation with a request, or with the record, and   *)
(* approves or rejects requests in its own time.  client.mjs repeats a call *)
(* whose reply is lost, whether or not the server has seen it.  A record is *)
(* named by the number of the request that created it.                     *)
(***************************************************************************)
EXTENDS Naturals, Sequences

CONSTANTS
  None, Torn,         \* nothing; a file the process died writing
  Attempts,           \* tries of one call: 3
  MaxPolls,           \* polls of a request: 60, or 30 for a certificate
  MaxStarts, MaxPublishes, MaxLost  \* bounds: starts, calls without a reply

\* Mutant of Steps: the contact comes before the vendor it belongs to.
StepsPersonFirst == <<"person", "vendor", "address", "dependency-os", "dependency-cpu", "oe", "module">>

Steps == <<"vendor", "address", "person", "dependency-os", "dependency-cpu", "oe", "module">>
Kinds == {Steps[i] : i \in 1..7}

\* What the body of a record names.
Deps(kind) ==
  CASE kind = "person" -> {"vendor"} [] kind = "oe" -> {"dependency-os", "dependency-cpu"}
    [] kind = "module" -> {"vendor", "address", "person"} [] OTHER -> {}

Statuses == {"initial", "approved", "rejected"}

ASSUME RecordsAssumption ==
  /\ {Attempts, MaxPolls} \subseteq Nat \ {0} /\ {MaxStarts, MaxPublishes, MaxLost} \subseteq Nat
  /\ None \notin Nat /\ None \notin {"already", "certified", "queued"}
  /\ Torn \notin [Kinds -> Nat \cup {None}]

VARIABLES
  pc, at,       \* create-resources: where it is, and which step of Steps it is on
  attempt,      \* which try of the running POST
  polls, url,   \* which poll of the running loop, and the request it polls
  state,        \* its state object: kind -> record, or None
  file,         \* the state file, or Torn
  requests,     \* server: [kind, deps, status], by number
  ppc,          \* publish: where it is
  ptry, ppolls, purl, body,  \* its try, its poll, its request, and the body it sends
  pexit,        \* publish: how it ended
  certs,        \* server: certification requests [module, oe, status], by number
  starts, pstarts, lost

creator == <<pc, at, attempt, polls, url, state, file, requests>>
publisher == <<ppc, ptry, ppolls, purl, body, pexit, certs>>
vars == <<creator, publisher, starts, pstarts, lost>>

NoRecords == [k \in Kinds |-> None]

Init ==
  /\ pc = "down" /\ at = 1 /\ attempt = 1 /\ polls = 1 /\ url = None
  /\ state = NoRecords /\ file = NoRecords /\ requests = <<>>
  /\ ppc = "down" /\ ptry = 1 /\ ppolls = 1 /\ purl = None
  /\ body = [module |-> None, oe |-> None] /\ pexit = None /\ certs = <<>>
  /\ starts = 0 /\ pstarts = 0 /\ lost = 0

Kind == Steps[at]
Lose == lost < MaxLost /\ lost' = lost + 1

--------------------------------------------------------------------------------
(* create-resources.mjs. *)

\* A file that does not parse ends the run.
Start ==
  /\ pc = "down" /\ starts < MaxStarts /\ starts' = starts + 1
  /\ IF file = Torn THEN UNCHANGED creator
     ELSE /\ pc' = "step" /\ at' = 1 /\ state' = file /\ url' = None
          /\ UNCHANGED <<attempt, polls, file, requests>>
  /\ UNCHANGED <<publisher, pstarts, lost>>

\* Mutant of Have: only what this run has created.
HaveNot(kind) == FALSE

\* What is in the state already is not created again.
Have(kind) == state[kind] # None

Step ==
  /\ pc = "step"
  /\ IF at > Len(Steps) THEN pc' = "down" /\ UNCHANGED <<at, attempt>>
     ELSE IF Have(Kind) THEN at' = at + 1 /\ UNCHANGED <<pc, attempt>>
     ELSE /\ pc' = IF Kind = "address" THEN "address" ELSE "post"
          /\ attempt' = 1 /\ UNCHANGED at
  /\ UNCHANGED <<polls, url, state, file, requests, publisher, starts, pstarts, lost>>

Created(status) ==
  requests' = Append(requests, [kind |-> Kind, deps |-> [d \in Deps(Kind) |-> state[d]], status |-> status])

\* The reply carries the request to poll, or the record itself.
Post ==
  /\ pc = "post"
  /\ \E status \in {"initial", "approved"} :
       /\ Created(status)
       /\ pc' = IF status = "approved" THEN "save" ELSE "poll"
  /\ url' = Len(requests) + 1 /\ polls' = 1
  /\ UNCHANGED <<at, attempt, state, file, publisher, starts, pstarts, lost>>

\* No reply: the server may have done it.  After the last try call() throws.
PostNoReply ==
  /\ pc = "post" /\ Lose
  /\ UNCHANGED requests \/ Created("initial")
  /\ IF attempt < Attempts THEN attempt' = attempt + 1 /\ UNCHANGED pc
     ELSE pc' = "down" /\ UNCHANGED attempt
  /\ UNCHANGED <<at, polls, url, state, file, publisher, starts, pstarts>>

Approved(n) == requests[n].status = "approved"

\* Mutant of NextPoll: the polls are not counted.
NextPollSame(n) == n

NextPoll(n) == IF n < MaxPolls THEN n + 1 ELSE n

\* A rejected request throws, and so does the last poll.
Poll ==
  /\ pc = "poll"
  /\ pc' = IF Approved(url) THEN "save"
           ELSE IF requests[url].status = "rejected" \/ polls = MaxPolls THEN "down" ELSE "poll"
  /\ polls' = NextPoll(polls)
  /\ UNCHANGED <<at, attempt, url, state, file, requests, publisher, starts, pstarts, lost>>

Save ==
  /\ pc = "save"
  /\ state' = [state EXCEPT ![Kind] = url] /\ file' = state'
  /\ pc' = "step" /\ at' = at + 1
  /\ UNCHANGED <<attempt, polls, url, requests, publisher, starts, pstarts, lost>>

\* The vendor's address, from whatever the server answers: an error has none.
Address ==
  /\ pc = "address"
  /\ \/ state' = [state EXCEPT !["address"] = state["vendor"]] /\ UNCHANGED lost
     \/ Lose /\ UNCHANGED state
  /\ file' = state' /\ pc' = "step" /\ at' = at + 1
  /\ UNCHANGED <<attempt, polls, url, requests, publisher, starts, pstarts>>

\* The run is killed, or a call throws; either save may be cut short.
Crash ==
  /\ pc # "down" /\ pc' = "down" /\ Lose
  /\ file' \in {file} \cup (IF pc \in {"save", "address"} THEN {Torn} ELSE {})
  /\ UNCHANGED <<at, attempt, polls, url, state, requests, publisher, starts, pstarts>>

Creates == Step \/ Post \/ Poll \/ Save \/ Address

--------------------------------------------------------------------------------
(* publish.mjs, for a session that has passed. *)

Published == \E n \in DOMAIN certs : certs[n].status = "approved"

Publish ==
  /\ ppc = "down" /\ pstarts < MaxPublishes /\ pstarts' = pstarts + 1
  /\ file # Torn
  /\ body' = [module |-> file["module"], oe |-> file["oe"]]
  /\ ppc' = "read" /\ pexit' = None
  /\ UNCHANGED <<creator, ptry, ppolls, purl, certs, starts, lost>>

\* A published session is left alone; a dry run sends nothing.
Read ==
  /\ ppc = "read"
  /\ \/ Published /\ ppc' = "down" /\ pexit' = "already"
     \/ ~Published /\ ppc' = "put" /\ UNCHANGED pexit
     \/ ~Published /\ ppc' = "down" /\ pexit' = "dry"
  /\ ptry' = 1
  /\ UNCHANGED <<creator, ppolls, purl, body, certs, starts, pstarts, lost>>

\* The server takes a request that names both records, and refuses another.
Taken == body.module # None /\ body.oe # None
Ask == certs' = Append(certs, [module |-> body.module, oe |-> body.oe, status |-> "initial"])

Put ==
  /\ ppc = "put"
  /\ IF Taken THEN Ask /\ ppc' = "poll" /\ purl' = Len(certs) + 1 /\ UNCHANGED pexit
     ELSE ppc' = "down" /\ pexit' = "refused" /\ UNCHANGED <<certs, purl>>
  /\ ppolls' = 1
  /\ UNCHANGED <<creator, ptry, body, starts, pstarts, lost>>

PutNoReply ==
  /\ ppc = "put" /\ Lose
  /\ UNCHANGED certs \/ (Taken /\ Ask)
  /\ IF ptry < Attempts THEN ptry' = ptry + 1 /\ UNCHANGED <<ppc, pexit>>
     ELSE ppc' = "down" /\ pexit' = "threw" /\ UNCHANGED ptry
  /\ UNCHANGED <<creator, ppolls, purl, body, starts, pstarts>>

\* Mutant of Granted: a request that is not rejected is granted.
GrantedUnlessRejected(n) == certs[n].status # "rejected"
Granted(n) == certs[n].status = "approved"

\* After the last poll the request is left in the queue.
PollCert ==
  /\ ppc = "poll"
  /\ pexit' = IF Granted(purl) THEN "certified"
              ELSE IF certs[purl].status = "rejected" THEN "rejected"
              ELSE IF ppolls = MaxPolls THEN "queued" ELSE pexit
  /\ ppc' = IF pexit' = None THEN "poll" ELSE "down"
  /\ ppolls' = NextPoll(ppolls)
  /\ UNCHANGED <<creator, ptry, purl, body, certs, starts, pstarts, lost>>

PublishCrash ==
  /\ ppc # "down" /\ ppc' = "down" /\ pexit' = "threw" /\ Lose
  /\ UNCHANGED <<creator, ptry, ppolls, purl, body, certs, starts, pstarts>>

Publishes == Read \/ Put \/ PollCert

--------------------------------------------------------------------------------
(* The server, and the specification. *)

Decide(status) ==
  \/ \E n \in DOMAIN requests :
       /\ requests[n].status = "initial" /\ requests' = [requests EXCEPT ![n].status = status]
       /\ UNCHANGED <<pc, at, attempt, polls, url, state, file, publisher, starts, pstarts, lost>>
  \/ \E n \in DOMAIN certs :
       /\ certs[n].status = "initial" /\ certs' = [certs EXCEPT ![n].status = status]
       /\ UNCHANGED <<creator, ppc, ptry, ppolls, purl, body, pexit, starts, pstarts, lost>>

Next ==
  \/ Start \/ Creates \/ PostNoReply \/ Crash
  \/ Publish \/ Publishes \/ PutNoReply \/ PublishCrash
  \/ \E status \in {"approved", "rejected"} : Decide(status)

\* Every call returns or times out (client.mjs:69-75), so a script that runs goes on.
Spec == Init /\ [][Next]_vars /\ WF_vars(Creates) /\ WF_vars(Publishes)

--------------------------------------------------------------------------------
(* Properties. *)

\* Types.
TypeOK ==
  /\ pc \in {"down", "step", "post", "poll", "save", "address"} /\ at \in 1..8
  /\ ppc \in {"down", "read", "put", "poll"} /\ {attempt, ptry} \subseteq 1..Attempts
  /\ {polls, ppolls} \subseteq 1..MaxPolls
  /\ \A n \in DOMAIN requests : requests[n].kind \in Kinds /\ requests[n].status \in Statuses
  /\ file = Torn \/ \A k \in Kinds : file[k] \in {None} \cup DOMAIN requests

Record(n, kind) ==
  requests[n].status = "approved" /\ requests[n].kind = IF kind = "address" THEN "vendor" ELSE kind

\* What the state file names is a record, of the kind it is filed under: never the
\* request for it, which "reading the POST body as if it were the created record"
\* would leave there (11-13).
SavedIsARecord ==
  file # Torn => \A k \in Kinds : file[k] # None => Record(file[k], k)

\* A record names records that exist when it is asked for, in whatever run they
\* were made; only the address may be missing.
RecordsNameRecords ==
  \A n \in DOMAIN requests : \A d \in Deps(requests[n].kind) \ {"address"} :
    requests[n].deps[d] # None /\ Record(requests[n].deps[d], d)

\* A re-run reuses what is in the state file: nothing that was saved is asked for
\* again (6-8).
RerunsReuse ==
  [][Len(requests') > Len(requests) =>
       file # Torn /\ file[requests'[Len(requests')].kind] = None]_vars

\* publish.mjs says that a certificate is there only when it is.
ExitTellsTheCertificate ==
  /\ pexit \in {"already", "certified"} => Published
  /\ pexit = "queued" => \E n \in DOMAIN certs : certs[n].module = body.module /\ certs[n].oe = body.oe

\* Each script ends, whether the server decides or not.
ScriptsEnd == (pc # "down" ~> pc = "down") /\ (ppc # "down" ~> ppc = "down")

\* Whatever create-resources.mjs finds in its file is a record to build on, and so
\* is everything a record names.
RecordsInv ==
  /\ TypeOK
  /\ SavedIsARecord
  /\ RecordsNameRecords

===============================================================================
