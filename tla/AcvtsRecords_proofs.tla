-------------------------- MODULE AcvtsRecords_proofs --------------------------
(***************************************************************************)
(* Proofs about AcvtsRecords, for any number of runs, tries and polls.     *)
(***************************************************************************)
EXTENDS AcvtsRecords, SequenceTheorems, TLAPS

Values == Nat \cup {None}

Request == UNION {[kind : {k}, deps : [Deps(k) -> Values], status : Statuses] : k \in Kinds}
Cert == [module : Values, oe : Values, status : Statuses]

\* What TypeOK leaves open: that logs are sequences and files functions.
Shape ==
  /\ TypeOK
  /\ requests \in Seq(Request) /\ certs \in Seq(Cert)
  /\ state \in [Kinds -> Values] /\ file \in [Kinds -> Values] \cup {Torn}
  /\ body \in [module : Values, oe : Values]

\* Everything in the state object is a record; and what the run has passed is in
\* it, but perhaps for the address.
State ==
  /\ \A k \in Kinds : state[k] # None => state[k] \in DOMAIN requests /\ Record(state[k], k)
  /\ pc # "down" => file = state
  /\ pc # "down" => \A i \in 1..7 : i < at /\ Steps[i] # "address" => state[Steps[i]] # None

\* What the run is making.
Making ==
  /\ pc \in {"post", "poll", "save", "address"} => at \in 1..7 /\ state[Kind] = None
  /\ pc \in {"post", "poll", "save"} => Kind # "address"
  /\ pc = "address" => Kind = "address"
  /\ pc \in {"poll", "save"} => url \in DOMAIN requests /\ requests[url].kind = Kind
  /\ pc = "save" => Approved(url)

\* What a request or a file names is there, of its kind.
Named ==
  /\ file # Torn => \A k \in Kinds : file[k] # None => file[k] \in DOMAIN requests /\ Record(file[k], k)
  /\ \A n \in DOMAIN requests : \A d \in Deps(requests[n].kind) \ {"address"} :
       /\ requests[n].deps[d] \in DOMAIN requests
       /\ Record(requests[n].deps[d], d)

\* What publish.mjs is waiting for.
Asked ==
  /\ ppc # "down" => pexit = None
  /\ ppc = "poll" => /\ purl \in DOMAIN certs
                     /\ certs[purl].module = body.module /\ certs[purl].oe = body.oe

IInv == Shape /\ State /\ Making /\ Named /\ Asked /\ ExitTellsTheCertificate

-------------------------------------------------------------------------------
\* The words for what is not there.
LEMMA Words ==
  /\ None \notin Nat /\ None \notin {"already", "certified", "queued"}
  /\ Torn \notin [Kinds -> Values]
  /\ Attempts \in Nat \ {0} /\ MaxPolls \in Nat \ {0} /\ MaxLost \in Nat
BY RecordsAssumption DEF Values

\* The steps, one by one.
LEMMA TheSteps ==
  /\ Len(Steps) = 7
  /\ Steps[1] = "vendor" /\ Steps[2] = "address" /\ Steps[3] = "person"
  /\ Steps[4] = "dependency-os" /\ Steps[5] = "dependency-cpu" /\ Steps[6] = "oe" /\ Steps[7] = "module"
BY DEF Steps

\* What there is to create.
LEMMA TheKinds ==
  Kinds = {"vendor", "address", "person", "dependency-os", "dependency-cpu", "oe", "module"}
<1>1. \A i \in 1..7 : i = 1 \/ i = 2 \/ i = 3 \/ i = 4 \/ i = 5 \/ i = 6 \/ i = 7
  OBVIOUS
<1> QED BY <1>1, TheSteps DEF Kinds

\* What a record names is made by an earlier step.
LEMMA EarlierSteps ==
  ASSUME NEW i \in 1..7, NEW d \in Deps(Steps[i])
  PROVE  d \in Kinds /\ \E j \in 1..7 : j < i /\ Steps[j] = d
<1>1. i = 1 \/ i = 2 \/ i = 3 \/ i = 4 \/ i = 5 \/ i = 6 \/ i = 7
  OBVIOUS
<1>2. CASE i \in {1, 2, 4, 5}
  BY <1>2, TheSteps DEF Deps
<1>3. CASE i = 3
  BY <1>3, TheSteps, TheKinds DEF Deps
<1>4. CASE i = 6
  BY <1>4, TheSteps, TheKinds DEF Deps
<1>5. CASE i = 7
  BY <1>5, TheSteps, TheKinds DEF Deps
<1> QED BY <1>1, <1>2, <1>3, <1>4, <1>5

\* A run at a step is about a kind of record.
LEMMA KindOf ==
  ASSUME at \in 1..7
  PROVE  Kind \in Kinds
BY DEF Kind, Kinds

\* Nothing is created, and nothing is asked for.
LEMMA InitInv == Init => IInv
<1> SUFFICES ASSUME Init PROVE IInv
  OBVIOUS
<1> USE DEF Init
<1>1. NoRecords \in [Kinds -> Values] /\ \A k \in Kinds : NoRecords[k] = None
  BY DEF NoRecords, Values
<1>2. file # Torn
  BY <1>1, Words
<1>3. Shape
  BY <1>1, Words DEF Shape, TypeOK, Values
<1>4. State /\ Making /\ Named
  BY <1>1 DEF State, Making, Named
<1>5. Asked /\ ExitTellsTheCertificate
  BY Words DEF Asked, ExitTellsTheCertificate
<1> QED BY <1>3, <1>4, <1>5 DEF IInv

-------------------------------------------------------------------------------
\* The server's log of requests only grows, and what it has approved it stands by.
Extended ==
  \A n \in DOMAIN requests :
    /\ n \in DOMAIN requests' /\ requests'[n].kind = requests[n].kind
    /\ requests'[n].deps = requests[n].deps
    /\ Approved(n) => Approved(n)'

\* A record, in the log as it will be.
RecordNext(n, kind) ==
  requests'[n].status = "approved" /\ requests'[n].kind = IF kind = "address" THEN "vendor" ELSE kind

\* A record stays a record.
LEMMA RecordsStand ==
  ASSUME Extended, NEW n \in DOMAIN requests, NEW k, Record(n, k)
  PROVE  n \in DOMAIN requests' /\ RecordNext(n, k)
BY DEF Extended, Record, RecordNext, Approved

\* A request is appended.
LEMMA CreatedStep ==
  ASSUME IInv, NEW status \in {"initial", "approved"}, pc = "post", Created(status)
  PROVE  /\ requests' \in Seq(Request) /\ Extended
         /\ DOMAIN requests' = DOMAIN requests \cup {Len(requests) + 1} /\ Len(requests') = Len(requests) + 1
         /\ requests'[Len(requests) + 1].kind = Kind /\ requests'[Len(requests) + 1].status = status
         /\ requests'[Len(requests) + 1].deps = [d \in Deps(Kind) |-> state[d]]
         /\ \A d \in Deps(Kind) \ {"address"} : state[d] \in DOMAIN requests /\ Record(state[d], d)
<1> DEFINE r == [kind |-> Kind, deps |-> [d \in Deps(Kind) |-> state[d]], status |-> status]
<1>1. at \in 1..7 /\ Kind \in Kinds /\ requests \in Seq(Request)
  BY KindOf DEF IInv, Making, Shape
<1>2. \A d \in Deps(Kind) : d \in Kinds /\ \E j \in 1..7 : j < at /\ Steps[j] = d
  BY <1>1, EarlierSteps DEF Kind
<1>3. r \in Request
  <2>1. [d \in Deps(Kind) |-> state[d]] \in [Deps(Kind) -> Values]
    BY <1>2 DEF IInv, Shape
  <2> QED BY <1>1, <2>1 DEF Request, Statuses
<1>4. requests' = Append(requests, r)
  BY DEF Created
<1> HIDE DEF r
<1>5. /\ requests' \in Seq(Request) /\ Len(requests') = Len(requests) + 1
      /\ requests'[Len(requests) + 1] = r /\ \A n \in DOMAIN requests : requests'[n] = requests[n]
      /\ DOMAIN requests' = DOMAIN requests \cup {Len(requests) + 1}
  BY <1>1, <1>3, <1>4
<1>6. Extended
  BY <1>5 DEF Extended, Approved
<1>7. \A d \in Deps(Kind) \ {"address"} : state[d] \in DOMAIN requests /\ Record(state[d], d)
  BY <1>2 DEF IInv, State
<1> QED BY <1>5, <1>6, <1>7 DEF r

\* What is named stays a record when nothing of it is renamed.
LEMMA NamedStays ==
  ASSUME IInv, Extended,
         \A n \in DOMAIN requests' \ DOMAIN requests : \A d \in Deps(requests'[n].kind) \ {"address"} :
           requests'[n].deps[d] \in DOMAIN requests /\ Record(requests'[n].deps[d], d),
         \/ file' = Torn \/ file' = file
         \/ \A k \in Kinds : file'[k] # None => file'[k] \in DOMAIN requests /\ Record(file'[k], k)
  PROVE  Named'
<1>1. ASSUME file' # Torn, NEW k \in Kinds, file'[k] # None
      PROVE  file'[k] \in DOMAIN requests' /\ RecordNext(file'[k], k)
  <2>1. file'[k] \in DOMAIN requests /\ Record(file'[k], k)
    BY <1>1 DEF IInv, Named
  <2> QED BY <2>1, RecordsStand
<1>2. ASSUME NEW n \in DOMAIN requests', NEW d \in Deps(requests'[n].kind) \ {"address"}
      PROVE  requests'[n].deps[d] \in DOMAIN requests' /\ RecordNext(requests'[n].deps[d], d)
  <2>1. n \in DOMAIN requests =>
          requests'[n].deps[d] \in DOMAIN requests /\ Record(requests'[n].deps[d], d)
    BY <1>2 DEF Extended, IInv, Named
  <2>2. n \notin DOMAIN requests =>
          requests'[n].deps[d] \in DOMAIN requests /\ Record(requests'[n].deps[d], d)
    BY <1>2
  <2> QED BY <2>1, <2>2, RecordsStand
<1> QED BY <1>1, <1>2 DEF Named, Record, RecordNext

\* Each request of the log has its type.
LEMMA LogTypes ==
  ASSUME NEW n \in DOMAIN requests', requests' \in Seq(Request)
  PROVE  requests'[n].kind \in Kinds /\ requests'[n].status \in Statuses
<1>1. requests'[n] \in Request
  OBVIOUS
<1> QED BY <1>1 DEF Request

\* The state keeps its type when its file and its logs keep theirs.
LEMMA ShapeStays ==
  ASSUME IInv, Named', requests' \in Seq(Request), certs' \in Seq(Cert),
         state' \in [Kinds -> Values], file' \in [Kinds -> Values] \cup {Torn},
         body' \in [module : Values, oe : Values],
         pc' \in {"down", "step", "post", "poll", "save", "address"}, at' \in 1..8,
         ppc' \in {"down", "read", "put", "poll"}, {attempt', ptry'} \subseteq 1..Attempts,
         {polls', ppolls'} \subseteq 1..MaxPolls
  PROVE  Shape'
<1>1. \A n \in DOMAIN requests' : requests'[n].kind \in Kinds /\ requests'[n].status \in Statuses
  BY LogTypes
<1>2. file' = Torn \/ \A k \in Kinds : file'[k] \in {None} \cup DOMAIN requests'
  BY DEF Named
<1> QED BY <1>1, <1>2 DEF Shape, TypeOK

\* What the publisher waits for depends on the publisher alone.
LEMMA PublisherRests ==
  ASSUME IInv, UNCHANGED publisher
  PROVE  Asked' /\ ExitTellsTheCertificate'
BY DEF IInv, publisher, Asked, ExitTellsTheCertificate, Published

\* The request is made, or the run does not know.
LEMMA PostStep ==
  ASSUME IInv, Post \/ PostNoReply
  PROVE  IInv'
<1>1. /\ pc = "post" /\ UNCHANGED <<at, state, file, publisher>> /\ at \in 1..7
      /\ attempt' \in 1..Attempts /\ polls' \in 1..MaxPolls
      /\ pc' \in {"down", "post", "poll", "save"}
  <2>1. /\ pc = "post" /\ UNCHANGED <<at, state, file, publisher>> /\ pc' \in {"down", "post", "poll", "save"}
        /\ attempt' = attempt \/ (attempt < Attempts /\ attempt' = attempt + 1)
        /\ polls' \in {1, polls}
    BY DEF Post, PostNoReply
  <2>2. attempt \in 1..Attempts /\ polls \in 1..MaxPolls /\ at \in 1..7
    BY <2>1 DEF IInv, Shape, TypeOK, Making
  <2>3. 1 \in 1..MaxPolls /\ (attempt < Attempts => attempt + 1 \in 1..Attempts)
    BY <2>2, Words
  <2> QED BY <2>1, <2>2, <2>3
<1>2. CASE requests' = requests
  <2>1. pc' \in {"down", "post"} /\ requests' = requests /\ UNCHANGED url
    <3>1. ~Post
      <4>1. \A status \in {"initial", "approved"} : Created(status) => Len(requests') = Len(requests) + 1
        BY <1>1, CreatedStep
      <4>2. Len(requests) \in Nat
        BY DEF IInv, Shape
      <4> QED BY <1>2, <4>1, <4>2 DEF Post
    <3> QED BY <1>1, <1>2, <3>1 DEF PostNoReply
  <2>2. Named'
    BY <1>1, <2>1 DEF IInv, Named, Record
  <2>3. Shape'
    BY <1>1, <2>1, <2>2, ShapeStays DEF IInv, Shape, TypeOK, publisher
  <2>4. State' /\ Making'
    BY <1>1, <2>1 DEF IInv, State, Making, Record, Kind, Approved
  <2> QED BY <1>1, <2>2, <2>3, <2>4, PublisherRests DEF IInv
<1>3. ASSUME NEW status \in {"initial", "approved"}, Created(status),
             \/ pc' \in {"down", "post"}
             \/ url' = Len(requests) + 1 /\ pc' = IF status = "approved" THEN "save" ELSE "poll"
      PROVE  IInv'
  <2>1. /\ requests' \in Seq(Request) /\ Extended
        /\ DOMAIN requests' = DOMAIN requests \cup {Len(requests) + 1}
        /\ requests'[Len(requests) + 1].kind = Kind /\ requests'[Len(requests) + 1].status = status
        /\ requests'[Len(requests) + 1].deps = [d \in Deps(Kind) |-> state[d]]
        /\ \A d \in Deps(Kind) \ {"address"} : state[d] \in DOMAIN requests /\ Record(state[d], d)
    BY <1>1, <1>3, CreatedStep
  <2>2. Named'
    BY <1>1, <2>1, NamedStays
  <2>3. Shape'
    BY <1>1, <2>1, <2>2, ShapeStays DEF IInv, Shape, TypeOK, publisher
  <2>4. State'
    <3>1. \A k \in Kinds : state[k] # None => state[k] \in DOMAIN requests' /\ RecordNext(state[k], k)
      BY <2>1, RecordsStand DEF IInv, State
    <3> QED BY <1>1, <3>1 DEF IInv, State, Record, RecordNext
  <2>5. Making'
    BY <1>1, <1>3, <2>1 DEF IInv, Making, Kind, Approved
  <2> QED BY <1>1, <2>2, <2>3, <2>4, <2>5, PublisherRests DEF IInv
<1> QED BY <1>2, <1>3 DEF Post, PostNoReply

\* A run starts, goes on, or dies: the log is as it was.
LEMMA GoOnStep ==
  ASSUME IInv, Start \/ Step \/ Poll \/ Crash
  PROVE  IInv'
<1>1. /\ UNCHANGED <<requests, publisher>> /\ file' \in {file, Torn}
      /\ state' = state \/ state' = file
      /\ attempt' \in 1..Attempts /\ polls' \in 1..MaxPolls /\ at' \in 1..8
      /\ pc' \in {"down", "step", "post", "poll", "save", "address"}
  <2>1. /\ attempt \in 1..Attempts /\ polls \in 1..MaxPolls /\ at \in 1..8
        /\ MaxPolls \in Nat /\ Attempts \in Nat \ {0}
    BY Words DEF IInv, Shape, TypeOK
  <2>2. 1 \in 1..Attempts /\ 1 \in 1..8 /\ NextPoll(polls) \in 1..MaxPolls /\ (at <= 7 => at + 1 \in 1..8)
    BY <2>1 DEF NextPoll
  <2>3. CASE Start
    BY <2>1, <2>2, <2>3 DEF Start, creator, IInv, Shape, TypeOK
  <2>4. CASE Step
    BY <2>1, <2>2, <2>4, TheSteps DEF Step
  <2>5. CASE Poll \/ Crash
    BY <2>1, <2>2, <2>5 DEF Poll, Crash
  <2> QED BY <2>3, <2>4, <2>5
<1>2. Extended
  BY <1>1 DEF Extended, Approved
<1>3. Named'
  BY <1>1, <1>2, NamedStays
<1>4. state' \in [Kinds -> Values]
  BY DEF Start, Step, Poll, Crash, creator, IInv, Shape
<1>5. Shape'
  BY <1>1, <1>3, <1>4, ShapeStays DEF IInv, Shape, TypeOK, publisher
<1>6. State'
  <2>1. \A k \in Kinds : state'[k] # None => state'[k] \in DOMAIN requests' /\ RecordNext(state'[k], k)
    BY <1>1, Words DEF Start, Step, Poll, Crash, creator, IInv, State, Named, Record, RecordNext
  <2>2. pc' # "down" => file' = state'
    BY DEF Start, Step, Poll, Crash, creator, IInv, State
  <2>3. ASSUME pc' # "down", NEW i \in 1..7, i < at', Steps[i] # "address"
        PROVE  state'[Steps[i]] # None
    <3>1. CASE Start
      BY <2>3, <3>1 DEF Start, creator, IInv, State
    <3>2. CASE Poll \/ Crash
      BY <2>3, <3>2 DEF Poll, Crash, IInv, State
    <3>3. CASE Step
      <4>1. state' = state /\ pc # "down"
        BY <3>3 DEF Step
      <4>2. at' = at \/ (at' = at + 1 /\ Have(Kind))
        BY <3>3 DEF Step
      <4>3. i \in Nat /\ at \in Nat /\ (at' = at + 1 => i < at \/ i = at)
        BY <2>3 DEF IInv, Shape, TypeOK
      <4>4. i < at \/ (i = at /\ Have(Kind))
        BY <2>3, <4>2, <4>3
      <4> QED BY <2>3, <4>1, <4>4 DEF IInv, State, Have, Kind
    <3> QED BY <3>1, <3>2, <3>3
  <2> QED BY <2>1, <2>2, <2>3 DEF State, Record, RecordNext
<1>7. Making'
  <2>1. CASE Start
    BY <2>1 DEF Start, creator, IInv, Making, State, Kind, Approved
  <2>2. CASE Step
    <3>1. at \in 1..8
      BY DEF IInv, Shape, TypeOK
    <3> QED BY <2>2, <3>1, TheSteps DEF Step, Have, Kind, Making
  <2>3. CASE Poll
    BY <2>3 DEF Poll, IInv, Making, Kind, Approved
  <2>4. CASE Crash
    BY <2>4 DEF Crash, Making
  <2> QED BY <2>1, <2>2, <2>3, <2>4
<1> QED BY <1>1, <1>3, <1>5, <1>6, <1>7, PublisherRests DEF IInv

\* A record, or an address, is written to the state file.
LEMMA SaveStep ==
  ASSUME IInv, Save \/ Address
  PROVE  IInv'
<1>1. /\ UNCHANGED <<requests, attempt, polls, publisher>> /\ at' = at + 1 /\ pc' = "step" /\ file' = state'
      /\ at \in 1..7 /\ Kind \in Kinds
  BY KindOf DEF Save, Address, IInv, Making
<1>2. \E v \in Values :
        /\ state' = state \/ state' = [state EXCEPT ![Kind] = v]
        /\ v # None => v \in DOMAIN requests /\ Record(v, Kind)
        /\ Kind # "address" => v # None /\ state' # state
  <2>1. CASE Save
    <3>1. url \in DOMAIN requests /\ requests[url].kind = Kind /\ Approved(url) /\ Kind # "address"
      BY <2>1 DEF Save, IInv, Making
    <3>2. url \in Nat
      BY <3>1 DEF IInv, Shape
    <3>3. Record(url, Kind) /\ url # None /\ url \in Values
      BY <3>1, <3>2, Words DEF Record, Approved, Values
    <3>4. state' = [state EXCEPT ![Kind] = url] /\ state[Kind] = None
      BY <2>1 DEF Save, IInv, Making
    <3>5. state' # state
      BY <1>1, <3>3, <3>4 DEF IInv, Shape
    <3> QED BY <3>1, <3>3, <3>4, <3>5
  <2>2. CASE Address
    <3>1. Kind = "address" /\ state["vendor"] \in Values
      BY <2>2, TheKinds DEF Address, IInv, Making, Shape
    <3>2. state["vendor"] # None => state["vendor"] \in DOMAIN requests /\ Record(state["vendor"], "address")
      BY TheKinds DEF IInv, State, Record
    <3> QED BY <1>1, <2>2, <3>1, <3>2 DEF Address
  <2> QED BY <2>1, <2>2
<1>3. PICK v \in Values :
        /\ state' = state \/ state' = [state EXCEPT ![Kind] = v]
        /\ v # None => v \in DOMAIN requests /\ Record(v, Kind)
        /\ Kind # "address" => v # None /\ state' # state
  BY <1>2
<1>4. \A k \in Kinds : state'[k] = state[k] \/ (k = Kind /\ state'[k] = v)
  BY <1>1, <1>3 DEF IInv, Shape
<1>5. state' \in [Kinds -> Values]
  BY <1>3 DEF IInv, Shape
<1>6. \A k \in Kinds : state'[k] # None => state'[k] \in DOMAIN requests /\ Record(state'[k], k)
  BY <1>3, <1>4 DEF IInv, State
<1>7. Extended
  BY <1>1 DEF Extended, Approved
<1>8. Named'
  BY <1>1, <1>6, <1>7, NamedStays
<1>9. Shape'
  <2>1. at' \in 1..8
    BY <1>1
  <2> QED BY <1>1, <1>5, <1>8, <2>1, ShapeStays DEF IInv, Shape, TypeOK, publisher
<1>10. State'
  <2>1. \A k \in Kinds : state'[k] # None => state'[k] \in DOMAIN requests' /\ RecordNext(state'[k], k)
    BY <1>6, <1>7, RecordsStand
  <2>2. ASSUME NEW i \in 1..7, i < at', Steps[i] # "address"
        PROVE  state'[Steps[i]] # None
    <3>1. Steps[i] \in Kinds
      BY DEF Kinds
    <3>2. i < at \/ i = at
      BY <1>1, <2>2
    <3>3. CASE i < at
      <4>1. state[Steps[i]] # None /\ state[Kind] = None
        BY <2>2, <3>3 DEF IInv, State, Making, Save, Address
      <4> QED BY <1>4, <3>1, <4>1
    <3>4. CASE i = at
      <4>1. Steps[i] = Kind /\ Kind # "address"
        BY <2>2, <3>4 DEF Kind
      <4> QED BY <1>1, <1>3, <4>1 DEF IInv, Shape
    <3> QED BY <3>2, <3>3, <3>4
  <2> QED BY <1>1, <2>1, <2>2 DEF State, Record, RecordNext
<1>11. Making'
  BY <1>1 DEF Making
<1> QED BY <1>1, <1>8, <1>9, <1>10, <1>11, PublisherRests DEF IInv

-------------------------------------------------------------------------------
\* The publisher's own steps.
LEMMA PublisherStep ==
  ASSUME IInv, Publish \/ Read \/ Put \/ PutNoReply \/ PollCert \/ PublishCrash
  PROVE  IInv'
<1>1. UNCHANGED creator
  BY DEF Publish, Read, Put, PutNoReply, PollCert, PublishCrash
<1>2. /\ certs' = certs \/ (Taken /\ Ask)
      /\ ppc' \in {"down", "read", "put", "poll"} /\ ptry' \in 1..Attempts /\ ppolls' \in 1..MaxPolls
      /\ body' \in [module : Values, oe : Values]
  <2>1. ptry \in 1..Attempts /\ ppolls \in 1..MaxPolls /\ MaxPolls \in Nat \ {0} /\ Attempts \in Nat \ {0}
    BY Words DEF IInv, Shape, TypeOK
  <2>2. /\ 1 \in 1..Attempts /\ 1 \in 1..MaxPolls /\ NextPoll(ppolls) \in 1..MaxPolls
        /\ ptry < Attempts => ptry + 1 \in 1..Attempts
    BY <2>1 DEF NextPoll
  <2>3. file # Torn => file["module"] \in Values /\ file["oe"] \in Values
    BY TheKinds DEF IInv, Shape
  <2>4. body' \in [module : Values, oe : Values]
    BY <2>3 DEF Publish, Read, Put, PutNoReply, PollCert, PublishCrash, IInv, Shape
  <2> QED BY <2>1, <2>2, <2>4 DEF Publish, Read, Put, PutNoReply, PollCert, PublishCrash, IInv, Shape, TypeOK
<1>3. /\ certs' \in Seq(Cert) /\ DOMAIN certs \subseteq DOMAIN certs'
      /\ \A n \in DOMAIN certs : certs'[n] = certs[n]
      /\ Ask => /\ Len(certs) + 1 \in DOMAIN certs'
                /\ certs'[Len(certs) + 1].module = body.module /\ certs'[Len(certs) + 1].oe = body.oe
  <2> DEFINE c == [module |-> body.module, oe |-> body.oe, status |-> "initial"]
  <2>1. c \in Cert /\ certs \in Seq(Cert)
    BY DEF IInv, Shape, Cert, Statuses
  <2>2. c.module = body.module /\ c.oe = body.oe /\ (Ask <=> certs' = Append(certs, c))
    BY DEF Ask
  <2> HIDE DEF c
  <2>3. CASE Ask
    <3>1. certs' = Append(certs, c)
      BY <2>2, <2>3
    <3>2. /\ certs' \in Seq(Cert) /\ Len(certs') = Len(certs) + 1
          /\ \A n \in 1..Len(certs) : certs'[n] = certs[n]
          /\ certs'[Len(certs) + 1] = c
      BY <2>1, <3>1, AppendProperties
    <3>3. DOMAIN certs = 1..Len(certs) /\ DOMAIN certs' = 1..Len(certs') /\ Len(certs) \in Nat
      BY <2>1, <3>2
    <3>4. DOMAIN certs \subseteq DOMAIN certs' /\ Len(certs) + 1 \in DOMAIN certs'
      BY <3>2, <3>3
    <3> QED BY <2>2, <3>2, <3>3, <3>4
  <2>4. CASE ~Ask
    <3>1. certs' = certs
      BY <1>2, <2>4
    <3> QED BY <2>1, <2>4, <3>1
  <2> QED BY <2>3, <2>4
<1>4. Named'
  BY <1>1 DEF IInv, Named, Record, creator
<1>5. Shape'
  BY <1>1, <1>2, <1>3, <1>4, ShapeStays DEF IInv, Shape, TypeOK, creator
<1>6. State' /\ Making'
  BY <1>1 DEF IInv, State, Making, Record, Kind, Approved, creator
<1>7. Asked'
  <2>1. CASE Publish \/ Read \/ PutNoReply \/ PublishCrash
    BY <1>3, <2>1 DEF Publish, Read, PutNoReply, PublishCrash, IInv, Asked
  <2>2. CASE Put
    BY <1>3, <2>2 DEF Put, IInv, Asked
  <2>3. CASE PollCert
    BY <1>3, <2>3 DEF PollCert, IInv, Asked
  <2> QED BY <2>1, <2>2, <2>3
<1>8. ExitTellsTheCertificate'
  <2>1. Published => Published'
    BY <1>3 DEF Published
  <2>2. CASE Publish \/ PublishCrash
    BY <2>2, Words DEF Publish, PublishCrash, ExitTellsTheCertificate
  <2>3. CASE Read \/ Put \/ PutNoReply
    BY <2>1, <2>3, Words DEF Read, Put, PutNoReply, ExitTellsTheCertificate, IInv, Asked
  <2>4. CASE PollCert
    BY <1>3, <2>1, <2>4, Words DEF PollCert, Granted, Published, ExitTellsTheCertificate, IInv, Asked
  <2> QED BY <2>2, <2>3, <2>4
<1> QED BY <1>4, <1>5, <1>6, <1>7, <1>8 DEF IInv

\* The server decides what it has not decided yet.
LEMMA DecideStep ==
  ASSUME IInv, NEW status \in {"approved", "rejected"}, Decide(status)
  PROVE  IInv'
<1>1. CASE \E n \in DOMAIN requests :
             /\ requests[n].status = "initial" /\ requests' = [requests EXCEPT ![n].status = status]
             /\ UNCHANGED <<pc, at, attempt, polls, url, state, file, publisher, starts, pstarts, lost>>
  <2>1. PICK n \in DOMAIN requests :
             /\ requests[n].status = "initial" /\ requests' = [requests EXCEPT ![n].status = status]
             /\ UNCHANGED <<pc, at, attempt, polls, url, state, file, publisher>>
    BY <1>1
  <2>2. /\ requests \in Seq(Request) /\ requests[n] \in Request
        /\ [requests[n] EXCEPT !.status = status] \in Request
        /\ [requests[n] EXCEPT !.status = status].kind = requests[n].kind
        /\ [requests[n] EXCEPT !.status = status].deps = requests[n].deps
    <3>1. requests \in Seq(Request)
      BY DEF IInv, Shape
    <3>2. PICK r \in Request : r = requests[n]
      BY <3>1
    <3>3. /\ [r EXCEPT !.status = status] \in Request
          /\ [r EXCEPT !.status = status].kind = r.kind
          /\ [r EXCEPT !.status = status].deps = r.deps
      BY DEF Request, Statuses
    <3> QED BY <3>1, <3>2, <3>3, Zenon
  <2>3. /\ requests' \in Seq(Request) /\ DOMAIN requests' = DOMAIN requests
        /\ \A m \in DOMAIN requests : requests'[m] =
             IF m = n THEN [requests[n] EXCEPT !.status = status] ELSE requests[m]
    BY <2>1, <2>2
  <2>4. Extended
    BY <2>1, <2>2, <2>3 DEF Extended, Approved
  <2>5. Named'
    BY <2>1, <2>3, <2>4, NamedStays
  <2>6. Shape'
    BY <2>1, <2>3, <2>5, ShapeStays DEF IInv, Shape, TypeOK, publisher
  <2>7. \A k \in Kinds : state[k] # None => state[k] \in DOMAIN requests' /\ RecordNext(state[k], k)
    BY <2>4, RecordsStand DEF IInv, State
  <2>8. State' /\ Making'
    BY <2>1, <2>4, <2>7 DEF IInv, State, Making, Record, RecordNext, Kind, Extended, Approved
  <2> QED BY <2>1, <2>5, <2>6, <2>8, PublisherRests DEF IInv
<1>2. CASE \E n \in DOMAIN certs :
             /\ certs[n].status = "initial" /\ certs' = [certs EXCEPT ![n].status = status]
             /\ UNCHANGED <<creator, ppc, ptry, ppolls, purl, body, pexit, starts, pstarts, lost>>
  <2>1. PICK n \in DOMAIN certs :
             /\ certs[n].status = "initial" /\ certs' = [certs EXCEPT ![n].status = status]
             /\ UNCHANGED <<creator, ppc, ptry, ppolls, purl, body, pexit>>
    BY <1>2
  <2>2. /\ certs \in Seq(Cert) /\ certs[n] \in Cert
        /\ [certs[n] EXCEPT !.status = status] \in Cert
        /\ [certs[n] EXCEPT !.status = status].module = certs[n].module
        /\ [certs[n] EXCEPT !.status = status].oe = certs[n].oe
    <3>1. certs \in Seq(Cert) /\ certs[n] \in Cert
      BY DEF IInv, Shape
    <3> QED BY <3>1 DEF Cert, Statuses
  <2>3. /\ certs' \in Seq(Cert) /\ DOMAIN certs' = DOMAIN certs
        /\ \A m \in DOMAIN certs : certs'[m] = IF m = n THEN [certs[n] EXCEPT !.status = status] ELSE certs[m]
    BY <2>1, <2>2
  <2>4. Named' /\ State' /\ Making'
    <3>1. Named'
      BY <2>1 DEF IInv, Named, Record, creator
    <3>2. State' /\ Making'
      BY <2>1 DEF IInv, State, Making, Record, Kind, Approved, creator
    <3> QED BY <3>1, <3>2
  <2>5. Shape'
    BY <2>1, <2>3, <2>4, ShapeStays DEF IInv, Shape, TypeOK, creator
  <2>6. Asked' /\ ExitTellsTheCertificate'
    BY <2>1, <2>2, <2>3 DEF IInv, Asked, ExitTellsTheCertificate, Published
  <2> QED BY <2>4, <2>5, <2>6 DEF IInv
<1> QED BY <1>1, <1>2 DEF Decide

\* No step breaks the invariant.
LEMMA NextInv == IInv /\ [Next]_vars => IInv'
<1> SUFFICES ASSUME IInv, [Next]_vars PROVE IInv'
  OBVIOUS
<1>1. CASE Next
  BY <1>1, GoOnStep, PostStep, SaveStep, PublisherStep, DecideStep DEF Next, Creates, Publishes
<1>2. CASE UNCHANGED vars
  <2> USE <1>2 DEF vars, creator, publisher
  <2>1. Shape'
    BY DEF IInv, Shape, TypeOK
  <2>2. State' /\ Making' /\ Named'
    BY DEF IInv, State, Making, Named, Record, Kind, Approved
  <2> QED BY <2>1, <2>2, PublisherRests DEF IInv
<1> QED BY <1>1, <1>2

-------------------------------------------------------------------------------
\* The invariant holds in every behaviour of the scripts.
THEOREM Invariance == Spec => []IInv
BY InitInv, NextInv, PTL DEF Spec

\* What create-resources.mjs finds in its file is a record of the kind it is filed
\* under, and what a record names is one too.
THEOREM RecordsInvHolds == Spec => []RecordsInv
<1>1. IInv => RecordsInv
  <2> SUFFICES ASSUME IInv PROVE RecordsInv
    OBVIOUS
  <2>1. TypeOK /\ SavedIsARecord
    BY DEF IInv, Shape, Named, SavedIsARecord
  <2>2. RecordsNameRecords
    <3>1. None \notin DOMAIN requests
      BY Words DEF IInv, Shape
    <3> QED BY <3>1 DEF IInv, Named, RecordsNameRecords
  <2> QED BY <2>1, <2>2 DEF RecordsInv
<1> QED BY <1>1, Invariance, PTL

\* publish.mjs says that a certificate is there only when it is.
THEOREM ExitIsTrue == Spec => []ExitTellsTheCertificate
<1>1. IInv => ExitTellsTheCertificate
  BY DEF IInv
<1> QED BY <1>1, Invariance, PTL

\* Nothing that is in the state file is asked for again, by any later run.
THEOREM NothingIsMadeTwice == Spec => RerunsReuse
<1>1. IInv /\ [Next]_vars =>
        [Len(requests') > Len(requests) => file # Torn /\ file[requests'[Len(requests')].kind] = None]_vars
  <2> SUFFICES ASSUME IInv, Next, Len(requests') > Len(requests)
      PROVE  file # Torn /\ file[requests'[Len(requests')].kind] = None
    OBVIOUS
  <2>1. requests' # requests
    <3>1. Len(requests) \in Nat
      BY DEF IInv, Shape
    <3> QED BY <3>1
  <2>2. CASE Post \/ PostNoReply
    <3>1. pc = "post" /\ \E status \in {"initial", "approved"} : Created(status)
      BY <2>1, <2>2 DEF Post, PostNoReply
    <3>2. Len(requests') = Len(requests) + 1 /\ requests'[Len(requests) + 1].kind = Kind
      BY <3>1, CreatedStep
    <3>3. file = state /\ state[Kind] = None /\ file # Torn
      BY <3>1, Words DEF IInv, State, Making, Shape
    <3> QED BY <3>2, <3>3
  <2>3. CASE ~(Post \/ PostNoReply)
    <3>1. PICK status \in {"approved", "rejected"} : Decide(status)
      BY <2>1, <2>3 DEF Next, Creates, Publishes, Start, Step, Poll, Save, Address, Crash, Publish,
         Read, Put, PutNoReply, PollCert, PublishCrash, creator
    <3>2. PICK n \in DOMAIN requests : requests' = [requests EXCEPT ![n].status = status]
      BY <2>1, <3>1 DEF Decide, creator
    <3>3. Len(requests') = Len(requests) /\ Len(requests) \in Nat
      <4>1. /\ requests \in Seq(Request) /\ requests[n] \in Request
        BY DEF IInv, Shape
      <4>2. [requests[n] EXCEPT !.status = status] \in Request
        BY <4>1 DEF Request, Statuses
      <4> QED BY <3>2, <4>1, <4>2
    <3> QED BY <3>3
  <2> QED BY <2>2, <2>3
<1> QED BY <1>1, Invariance, PTL DEF Spec, RerunsReuse

================================================================================
