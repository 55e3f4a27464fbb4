-------------------------- MODULE AcvtsSession_proofs --------------------------
(***************************************************************************)
(* Proofs about AcvtsSession, for any number of runs, vector sets, tries,  *)
(* lost messages and expiries.                                             *)
(*                                                                         *)
(* A refresh in the middle of a request is a detour: what the run is doing *)
(* is the request it was called for, and the invariant speaks of that.     *)
(***************************************************************************)
EXTENDS AcvtsSession, FiniteSetTheorems, TLAPS

Doing == IF pc \in {"refresh", "keepToken"} THEN after ELSE pc

\* What is known at each point of a run.
Where ==
  /\ pc \in {"refresh", "keepToken"} => after \in Authed
  /\ Doing \in Authed \cup {"keepSession", "compute", "keepAnswer"} => session \in Sessions
  /\ Doing \in {"login", "register", "resumed", "keepSession"} => vs = 1
  /\ Doing \in {"register", "keepSession"} => ~resume
  /\ Doing = "resumed" => resume
  /\ Doing # "down" => exit = None

\* Each session was made by a run of its own or by a repeated request.
Room ==
  /\ created <= starts + lost
  /\ Doing \in {"login", "register"} => created < starts + lost

\* Nobody knows of sessions the server has not made.
Known ==
  /\ session <= created
  /\ sessionFile \in Sessions => sessionFile <= created
  /\ \A s \in Sessions, n \in 1..VectorSets :
       s > created => answerFile[<<s, n>>] = None /\ submitted[<<s, n>>] = {}

\* A file holds an answer to its own prompt, and what was submitted.
Kept ==
  \A p \in Prompts :
    /\ answerFile[p] \in Answers => answerFile[p].prompt = p
    /\ \A a \in submitted[p] : answerFile[p] = a

\* A session begun by this run has only answers of this run: none to the vector
\* sets it has not come to, and each computed in the environment on record.
Fresh ==
  /\ Doing # "down" \/ exit = "0" => envFile = env
  /\ ~resume /\ session \in Sessions =>
       \A n \in 1..VectorSets :
         /\ answerFile[<<session, n>>] \in Answers => answerFile[<<session, n>>].env = env
         /\ \/ n > vs /\ Doing # "down"
            \/ n = vs /\ Doing \notin {"submit", "disposition", "final", "down"}
            => answerFile[<<session, n>>] = None

\* The answer being worked on.
InHand ==
  /\ Doing \in {"compute", "keepAnswer"} => answerFile[Prompt] = None
  /\ Doing = "keepAnswer" => answer = [prompt |-> Prompt, env |-> env]
  /\ Doing = "submit" => answer \in Answers /\ answer = answerFile[Prompt]

\* What the run has been told, the server still says.
Results ==
  /\ \A n \in 1..VectorSets :
       /\ results[n] = "passed" => session \in Sessions /\ judged[<<session, n>>] = "passed"
       /\ n >= vs /\ Doing \notin {"final", "down"} => results[n] = None
  /\ exit = "0" => session \in Sessions /\ \A n \in 1..VectorSets : results[n] = "passed"

IInv == TypeOK /\ Where /\ Room /\ Known /\ Kept /\ Fresh /\ InHand /\ Results

-------------------------------------------------------------------------------
\* Words for what is not there are nothing else.
LEMMA Distinct ==
  /\ None # Torn /\ None # "passed" /\ None # "0"
  /\ None \notin Sessions /\ Torn \notin Sessions
  /\ None \notin Answers /\ Torn \notin Answers
BY SessionAssumption

\* The numbers of sessions, and how many there are.
LEMMA SessionNumbers ==
  /\ Sessions = 1..(MaxStarts + MaxLost) /\ MaxStarts \in Nat /\ MaxLost \in Nat
  /\ Cardinality(Sessions) = MaxStarts + MaxLost
  /\ VectorSets \in Nat \ {0} /\ 1 \in 1..VectorSets
<1>1. MaxStarts \in Nat /\ MaxLost \in Nat /\ VectorSets \in Nat \ {0}
  BY SessionAssumption
<1>2. Cardinality(1..(MaxStarts + MaxLost)) = MaxStarts + MaxLost
  <2> DEFINE last == MaxStarts + MaxLost
  <2>1. last \in Nat
    BY <1>1
  <2> HIDE DEF last
  <2>2. Cardinality(1..last) = IF 1 > last THEN 0 ELSE last - 1 + 1
    BY <2>1, FS_Interval
  <2>3. Cardinality(1..last) = last
    BY <2>1, <2>2
  <2> QED BY <2>3 DEF last
<1> QED BY <1>1, <1>2 DEF Sessions

\* A prompt is a session and one of its vector sets.
LEMMA PromptParts ==
  /\ \A p \in Prompts : \E s \in Sessions, n \in 1..VectorSets : p = <<s, n>>
  /\ \A s \in Sessions, n \in 1..VectorSets : <<s, n>> \in Prompts
  /\ session \in Sessions /\ vs \in 1..VectorSets => Prompt \in Prompts
BY DEF Prompts, Prompt

\* No run, no file, nothing on the server.
LEMMA InitInv == Init => IInv
<1> SUFFICES ASSUME Init PROVE IInv
  OBVIOUS
<1> USE DEF Init
<1>1. TypeOK
  <2>1. /\ attempt \in 1..Attempts /\ logins \in 1..Logins /\ polls \in 1..MaxPolls
        /\ starts \in 0..MaxStarts /\ lost \in 0..MaxLost /\ expiries \in 0..MaxExpiries
        /\ vs \in 1..VectorSets /\ created \in 0..Cardinality(Sessions)
    BY SessionAssumption, SessionNumbers
  <2> QED BY <2>1 DEF TypeOK
<1>2. Where /\ Room /\ Known
  BY Distinct, PromptParts DEF Where, Room, Known, Doing, Authed
<1>3. Kept /\ Fresh /\ InHand /\ Results
  BY Distinct, SessionNumbers DEF Kept, Fresh, InHand, Results, Doing, Sessions
<1> QED BY <1>1, <1>2, <1>3 DEF IInv

-------------------------------------------------------------------------------
\* A step that changes nothing that was computed, kept or submitted: requests,
\* refreshes, waits, ends.
Quiet ==
  /\ UNCHANGED <<process, envFile, answerFile, server, starts>>
  /\ sessionFile' \in {sessionFile, session, Torn}
  /\ lost' >= lost
  /\ pc' \in {"refresh", "keepToken"} => after' \in Authed
  /\ \/ Doing' = Doing /\ exit' = exit
     \/ /\ Doing # "down" /\ Doing' = "down"
        /\ exit' = "0" => /\ Doing = "final"
                          /\ \A n \in 1..VectorSets : results[n] = "passed"

\* A quiet step keeps everything but where the run is.
LEMMA QuietStep ==
  ASSUME IInv, TypeOK', Quiet
  PROVE  IInv'
<1> USE DEF IInv, Quiet, process, server
<1>1. Where'
  BY DEF Where, Authed
<1>2. Room'
  <2>1. {starts, lost, created, starts', lost', created'} \subseteq Nat
    BY SessionNumbers DEF TypeOK
  <2> QED BY <2>1 DEF Room
<1>3. Known'
  BY Distinct DEF Known
<1>4. Kept'
  BY DEF Kept
<1>5. Fresh'
  BY DEF Fresh
<1>6. InHand'
  BY DEF InHand, Prompt
<1>7. Results'
  BY DEF Results, Where, Authed
<1> QED BY <1>1, <1>2, <1>3, <1>4, <1>5, <1>6, <1>7

\* Steps that are quiet.
LEMMA QuietSteps ==
  ASSUME IInv, TypeOK',
         \/ UNCHANGED vars \/ NewWindow \/ Expire
         \/ RequestLost \/ LoginUnanswered \/ Refused \/ Renewed
         \/ Unauthorized \/ KeepToken \/ Pending \/ ErrorStatus \/ Final
         \/ Resume /\ pc' = "down"
         \/ Crash /\ UNCHANGED answerFile
         \/ PromptReady /\ pc' = "down"
  PROVE  IInv'
<1>1. lost' >= lost /\ UNCHANGED starts
  <2>1. lost \in Nat
    BY SessionNumbers DEF IInv, TypeOK
  <2>2. (lost' = lost \/ lost' = lost + 1) /\ UNCHANGED starts
    BY DEF vars, bounds, NewWindow, Expire, RequestLost, NoAnswer, LoginUnanswered, Refused,
       Renewed, Unauthorized, KeepToken, Pending, ErrorStatus, Final, Resume, Crash, PromptReady
  <2> QED BY <2>1, <2>2
<1> USE DEF process, files, server
<1>2. CASE UNCHANGED vars \/ NewWindow \/ Expire
  <2>1. Quiet
    BY <1>1, <1>2 DEF Quiet, Doing, vars, loops, NewWindow, Expire, IInv, Where
  <2> QED BY <2>1, QuietStep
<1>3. CASE RequestLost \/ LoginUnanswered
  <2>1. Quiet
    BY <1>1, <1>3, Distinct DEF Quiet, Doing, loops, RequestLost, LoginUnanswered, NoAnswer,
       Throw, Ends, IInv, Where, Authed
  <2> QED BY <2>1, QuietStep
<1>4. CASE Refused \/ Renewed
  <2>1. Quiet
    BY <1>1, <1>4, Distinct DEF Quiet, Doing, loops, bounds, Refused, Renewed, Goto,
       Throw, Ends, IInv, Where, Authed
  <2> QED BY <2>1, QuietStep
<1>5. CASE Unauthorized \/ KeepToken
  <2>1. Quiet
    BY <1>1, <1>5 DEF Quiet, Doing, loops, bounds, Unauthorized, KeepToken, Goto, IInv, Where, Authed
  <2> QED BY <2>1, QuietStep
<1>6. CASE Pending \/ ErrorStatus
  <2>1. Quiet
    BY <1>1, <1>6 DEF Quiet, Doing, loops, bounds, Pending, ErrorStatus, Authorized, Goto,
       Throw, Ends, IInv, Where, Authed
  <2> QED BY <2>1, QuietStep
<1>7. CASE Final
  <2>1. Quiet
    BY <1>1, <1>7 DEF Quiet, Doing, loops, bounds, Final, Authorized, Ends
  <2> QED BY <2>1, QuietStep
<1>8. CASE Resume /\ pc' = "down"
  <2>1. Quiet
    BY <1>1, <1>8 DEF Quiet, Doing, loops, bounds, Resume, Throw, Ends
  <2> QED BY <2>1, QuietStep
<1>9. CASE Crash /\ UNCHANGED answerFile
  <2>1. Quiet
    BY <1>1, <1>9 DEF Quiet, Doing, loops, bounds, Crash, Ends, IInv, Where, Authed
  <2> QED BY <2>1, QuietStep
<1>10. CASE PromptReady /\ pc' = "down"
  <2>1. Quiet
    BY <1>1, <1>10 DEF Quiet, Doing, loops, bounds, PromptReady, Authorized, Ends, Goto
  <2> QED BY <2>1, QuietStep
<1> QED BY <1>2, <1>3, <1>4, <1>5, <1>6, <1>7, <1>8, <1>9, <1>10

-------------------------------------------------------------------------------
\* A counter that has not come to its end can be counted on.
LEMMA CountsOn ==
  /\ \A n \in Nat \ {0} : 1 \in 1..n /\ \A i \in 1..n : i < n => i + 1 \in 1..n
  /\ \A n \in Nat : \A i \in 0..n : i < n => i + 1 \in 0..n
OBVIOUS

\* Counters stay within their bounds, and a session a run registers is one of
\* Sessions.
LEMMA TypeStep ==
  ASSUME IInv, Next
  PROVE  TypeOK'
<1> USE DEF TypeOK, process, loops, files, server, bounds, Ends, Throw, Goto
<1>1. TypeOK
  BY DEF IInv
<1>2. /\ {Attempts, Logins, MaxPolls, VectorSets} \subseteq Nat \ {0}
      /\ {MaxStarts, MaxLost, MaxExpiries} \subseteq Nat
      /\ {starts, lost, created, attempt, logins, polls, expiries, vs} \subseteq Nat
  BY <1>1, SessionAssumption, SessionNumbers
<1>3. pc = "register" => created + 1 \in Sessions /\ created + 1 \in 0..Cardinality(Sessions)
  BY <1>1, <1>2, SessionNumbers DEF IInv, Room, Doing
<1>0. /\ 1 \in 1..VectorSets /\ 1 \in 1..Attempts /\ 1 \in 1..Logins /\ 1 \in 1..MaxPolls
      /\ attempt < Attempts => attempt + 1 \in 1..Attempts
      /\ logins < Logins => logins + 1 \in 1..Logins
      /\ polls < MaxPolls => polls + 1 \in 1..MaxPolls
      /\ vs < VectorSets => vs + 1 \in 1..VectorSets
      /\ starts < MaxStarts => starts + 1 \in 0..MaxStarts
      /\ lost < MaxLost => lost + 1 \in 0..MaxLost
      /\ expiries < MaxExpiries => expiries + 1 \in 0..MaxExpiries
  <2>1. /\ attempt \in 1..Attempts /\ logins \in 1..Logins /\ polls \in 1..MaxPolls /\ vs \in 1..VectorSets
        /\ starts \in 0..MaxStarts /\ lost \in 0..MaxLost /\ expiries \in 0..MaxExpiries
    BY <1>1
  <2>2. /\ Attempts \in Nat \ {0} /\ Logins \in Nat \ {0} /\ MaxPolls \in Nat \ {0} /\ VectorSets \in Nat \ {0}
        /\ MaxStarts \in Nat /\ MaxLost \in Nat /\ MaxExpiries \in Nat
    BY <1>2
  <2> QED BY <2>1, <2>2, CountsOn, Zenon
<1>4. CASE Start
  BY <1>0, <1>1, <1>4 DEF Start, KeepEnvironment, Working
<1>5. CASE Crash
  <2>1. pc = "keepAnswer" => Prompt \in Prompts
    BY <1>1, PromptParts DEF IInv, Where, Doing
  <2>2. answerFile' \in [Prompts -> Answers \cup {None, Torn}]
    BY <1>1, <1>5, <2>1 DEF Crash
  <2> QED BY <1>1, <1>5, <2>2 DEF Crash
<1>6. CASE NewWindow \/ Expire
  BY <1>0, <1>1, <1>6 DEF NewWindow, Expire
<1>7. CASE RequestLost \/ LoginUnanswered \/ RegisterUnanswered
  <2>1. NoAnswer /\ UNCHANGED <<submitted, judged>>
    BY <1>7 DEF RequestLost, LoginUnanswered, RegisterUnanswered
  <2>2. attempt' \in 1..Attempts /\ lost' \in 0..MaxLost /\ pc' \in Working \cup {"down"}
        /\ exit' \in {None, "0", "1", "threw"}
    BY <1>0, <1>1, <2>1 DEF NoAnswer
  <2>3. UNCHANGED <<process, token, logins, polls, after, files, starts, expiries>>
    BY <2>1 DEF NoAnswer
  <2>4. created' \in 0..Cardinality(Sessions) /\ spent' \in BOOLEAN
    BY <1>1, <1>3, <1>7 DEF RequestLost, LoginUnanswered, RegisterUnanswered
  <2> QED BY <1>1, <2>1, <2>2, <2>3, <2>4
<1>8. CASE Refused \/ LoggedIn \/ Renewed
  BY <1>0, <1>1, <1>8 DEF Refused, LoggedIn, Renewed, Working
<1>9. CASE Register \/ KeepSession \/ Unauthorized
  BY <1>0, <1>1, <1>3, <1>9 DEF Register, KeepSession, Unauthorized, Working, Authed, IInv, Where, Doing
<1>10. CASE Resume \/ KeepToken
  BY <1>0, <1>1, <1>10 DEF Resume, KeepToken, Working, Authed, IInv, Where, Doing
<1>11. CASE Pending \/ ErrorStatus \/ Final
  BY <1>0, <1>1, <1>11 DEF Pending, ErrorStatus, Final, Authorized
<1>12. CASE PromptReady
  <2>1. Prompt \in Prompts
    BY <1>1, <1>12, PromptParts DEF IInv, Where, Doing, PromptReady, Authorized, Authed
  <2>2. Reuses /\ answerFile[Label(Prompt)] # Torn => answerFile[Prompt] \in Answers
    BY <1>1, <2>1 DEF Reuses, Label
  <2> QED BY <1>0, <1>1, <1>12, <2>2 DEF PromptReady, Working, Authed, Label
<1>13. CASE Compute \/ KeepAnswer
  <2>1. Prompt \in Prompts
    BY <1>1, <1>13, PromptParts DEF IInv, Where, Doing, Compute, KeepAnswer
  <2>2. pc = "compute" => [prompt |-> Prompt, env |-> env] \in Answers
    BY <1>1, <2>1 DEF Answers
  <2>3. pc = "keepAnswer" => answer \in Answers
    BY <1>1, <2>1 DEF IInv, InHand, Doing, Answers
  <2> QED BY <1>1, <1>13, <2>2, <2>3 DEF Compute, KeepAnswer, Working, Authed
<1>14. CASE Submit \/ SubmitUnanswered
  <2>1. Prompt \in Prompts /\ answer \in Answers
    BY <1>1, <1>14, PromptParts DEF IInv, Where, InHand, Doing, Submit, SubmitUnanswered, Authorized, Authed
  <2>2. submitted' \in [Prompts -> SUBSET Answers] /\ judged' \in [Prompts -> {None, "passed", "failed"}]
    BY <1>1, <1>14, <2>1 DEF Submit, SubmitUnanswered, Take
  <2>3. CASE Submit
    BY <1>0, <1>1, <2>2, <2>3 DEF Submit, Take, Working, Authed
  <2>4. CASE SubmitUnanswered
    BY <1>0, <1>1, <2>2, <2>4 DEF SubmitUnanswered, Take, NoAnswer
  <2> QED BY <1>14, <2>3, <2>4
<1>15. CASE Judge
  BY <1>1, <1>15 DEF Judge
<1>16. CASE Disposition
  <2>1. Prompt \in Prompts
    BY <1>1, <1>16, PromptParts DEF IInv, Where, Doing, Disposition, Authorized, Authed
  <2>2. results' \in [1..VectorSets -> {None, "passed", "failed"}]
    BY <1>1, <1>16, <2>1 DEF Disposition
  <2> QED BY <1>0, <1>1, <1>16, <2>2 DEF Disposition, Working, Authed
<1> QED BY <1>4, <1>5, <1>6, <1>7, <1>8, <1>9, <1>10, <1>11, <1>12, <1>13, <1>14, <1>15, <1>16
     DEF Next, Run, Network

-------------------------------------------------------------------------------
\* A run has been told nothing of vector sets it has not come to, and a run
\* without a session nothing at all.
LEMMA NothingYet ==
  ASSUME IInv
  PROVE  /\ vs \in 1..VectorSets
         /\ Doing \notin {"final", "down"} =>
              results[vs] = None /\ \A n \in 1..VectorSets : n > vs => results[n] = None
         /\ Doing \in {"login", "register", "resumed"} => \A n \in 1..VectorSets : results[n] = None
<1>1. vs \in 1..VectorSets /\ VectorSets \in Nat /\ vs \in Nat
  BY SessionNumbers DEF IInv, TypeOK
<1>2. \A n \in 1..VectorSets : (n > vs => n >= vs) /\ (vs = 1 => n >= vs)
  BY <1>1
<1>3. vs >= vs
  BY <1>1
<1>4. \A n \in 1..VectorSets : n >= vs /\ Doing \notin {"final", "down"} => results[n] = None
  BY DEF IInv, Results
<1>5. Doing \in {"login", "register", "resumed"} => vs = 1
  BY DEF IInv, Where
<1> QED BY <1>1, <1>2, <1>3, <1>4, <1>5

\* A run begins.
LEMMA StartStep ==
  ASSUME IInv, TypeOK', Start
  PROVE  IInv'
<1> USE DEF IInv, Start, server
<1>1. Where'
  BY DEF Where, Doing, Authed
<1>2. Room'
  <2>1. {starts, lost, created, starts', lost', created'} \subseteq Nat
    BY SessionNumbers DEF TypeOK
  <2> QED BY <2>1 DEF Room
<1>3. Known' /\ Kept'
  BY DEF Known, Kept, TypeOK
<1>4. Fresh' /\ InHand'
  BY Distinct, SessionNumbers DEF Fresh, InHand, Doing, KeepEnvironment
<1>5. Results'
  BY Distinct DEF Results, Doing
<1> QED BY <1>1, <1>2, <1>3, <1>4, <1>5

\* It has logged in, and registers or reads session.json.
LEMMA LoggedInStep ==
  ASSUME IInv, TypeOK', LoggedIn
  PROVE  IInv'
<1> USE DEF IInv, LoggedIn, Goto, process, files, server, bounds
<1>1. Doing = "login" /\ Doing' = IF resume THEN "resumed" ELSE "register"
  BY DEF Doing
<1>2. Where'
  BY <1>1 DEF Where, Authed
<1>3. Room'
  BY <1>1 DEF Room
<1>4. Known' /\ Kept'
  BY DEF Known, Kept
<1>5. Fresh' /\ InHand' /\ Results'
  BY <1>1, Distinct DEF Fresh, InHand, Results, Where
<1> QED BY <1>2, <1>3, <1>4, <1>5

\* The server makes a session, and the run learns of it or not.
LEMMA RegisterStep ==
  ASSUME IInv, TypeOK', Register \/ RegisterUnanswered
  PROVE  IInv'
<1>1. {starts, lost, created, starts', lost', created'} \subseteq Nat
  BY SessionNumbers DEF TypeOK, IInv
<1>2. session \in Sessions => session \in Nat
  BY SessionNumbers
<1>3. CASE Register
  <2> USE <1>3 DEF IInv, Register, Goto, files, bounds
  <2>1. Doing = "register" /\ Doing' = "keepSession" /\ session' = created + 1 /\ created' = created + 1
    BY DEF Doing
  <2>2. created + 1 \in Sessions
    BY <1>1, <2>1, SessionNumbers DEF Room, TypeOK
  <2>3. Where' /\ Room'
    BY <1>1, <2>1, <2>2 DEF Where, Room, Authed
  <2>4. Known'
    BY <1>1, <2>1, SessionNumbers DEF Known
  <2>5. Kept' /\ InHand'
    BY <2>1 DEF Kept, InHand
  <2>8. \A n \in 1..VectorSets : results[n] = None
    BY <2>1, NothingYet
  <2>9. Results'
    BY <2>1, <2>8, Distinct DEF Results, Where
  <2>6. \A n \in 1..VectorSets : answerFile[<<created + 1, n>>] = None
    BY <1>1, <2>2 DEF Known
  <2>7. Fresh'
    BY <2>1, <2>6, Distinct DEF Fresh, Where
  <2> QED BY <2>3, <2>4, <2>5, <2>7, <2>9
<1>4. CASE RegisterUnanswered
  <2> USE <1>4 DEF IInv, RegisterUnanswered, NoAnswer, Throw, Ends, process, files
  <2>1. Doing = "register" /\ Doing' \in {"register", "down"} /\ created' = created + 1 /\ lost' = lost + 1
    BY DEF Doing
  <2>2. Doing' = "register" => exit' = exit
    BY <2>1 DEF Doing
  <2>3. exit' # "0" /\ pc' \notin {"refresh", "keepToken"}
    BY <2>1, Distinct DEF Where
  <2>4. Where'
    BY <2>1, <2>2, <2>3 DEF Where, Authed
  <2>5. Room'
    BY <1>1, <2>1 DEF Room
  <2>6. Known'
    <3>1. UNCHANGED <<session, sessionFile, answerFile, submitted>>
      OBVIOUS
    <3>2. session \in Nat /\ \A s \in Sessions : s \in Nat
      BY SessionNumbers DEF TypeOK
    <3>3. \A i \in Nat : (i <= created => i <= created') /\ (i > created' => i > created)
      BY <1>1, <2>1
    <3> QED BY <3>1, <3>2, <3>3 DEF Known
  <2>7. Kept' /\ InHand' /\ Results'
    BY <2>1, <2>3 DEF Kept, InHand, Results
  <2>8. Fresh'
    BY <2>1, <2>3 DEF Fresh
  <2> QED BY <2>4, <2>5, <2>6, <2>7, <2>8
<1> QED BY <1>3, <1>4

\* The run has its session: its own, just made, or the one of session.json.
LEMMA SessionStep ==
  ASSUME IInv, TypeOK', KeepSession \/ (Resume /\ pc' # "down")
  PROVE  IInv'
<1>1. CASE KeepSession
  <2> USE <1>1 DEF IInv, KeepSession, process, server, bounds
  <2>1. Doing = "keepSession" /\ Doing' = "prompt"
    BY DEF Doing
  <2>2. Where' /\ Room' /\ Known'
    BY <2>1 DEF Where, Room, Known, Authed
  <2>3. Kept' /\ Fresh'
    BY <2>1 DEF Kept, Fresh
  <2>4. InHand' /\ Results'
    BY <2>1 DEF InHand, Results
  <2> QED BY <2>2, <2>3, <2>4
<1>2. CASE Resume /\ pc' # "down"
  <2> USE <1>2 DEF IInv, Resume, Throw, Ends, files, server, bounds
  <2>1. Doing = "resumed" /\ Doing' = "prompt" /\ session' = sessionFile /\ resume
    BY DEF Doing, Where
  <2>2. sessionFile \in Sessions
    BY DEF TypeOK
  <2>3. Where' /\ Room' /\ Known'
    BY <2>1, <2>2 DEF Where, Room, Known, Authed
  <2>4. Kept' /\ Fresh'
    BY <2>1 DEF Kept, Fresh, Where
  <2>5. \A n \in 1..VectorSets : results[n] = None
    BY <2>1, NothingYet
  <2>6. InHand' /\ Results'
    BY <2>1, <2>5, Distinct DEF InHand, Results, Where
  <2> QED BY <2>3, <2>4, <2>6
<1> QED BY <1>1, <1>2

-------------------------------------------------------------------------------
\* The prompt is there: an answer on disk is taken, or one is computed.
LEMMA PromptReadyStep ==
  ASSUME IInv, TypeOK', PromptReady, pc' # "down"
  PROVE  IInv'
<1> USE DEF IInv, PromptReady, Authorized, Ends, Goto, files, server, bounds
<1>1. /\ Doing = "prompt" /\ session \in Sessions /\ Prompt \in Prompts
      /\ Doing' = pc' /\ Prompt' = Prompt
  BY PromptParts DEF Doing, Where, TypeOK, Authed, Prompt
<1>2. CASE Reuses
  <2>1. Doing' = "submit" /\ answer' = answerFile[Prompt] /\ resume
    BY <1>1, <1>2 DEF Reuses, Label
  <2>2. answerFile[Prompt] \in Answers
    BY <1>1, <1>2 DEF Reuses, Label, TypeOK
  <2>3. Where' /\ Room'
    BY <1>1, <2>1 DEF Where, Room, Authed
  <2>4. Known' /\ Kept' /\ Fresh'
    BY <1>1, <2>1 DEF Known, Kept, Fresh
  <2>5. InHand' /\ Results'
    BY <1>1, <2>1, <2>2 DEF InHand, Results
  <2> QED BY <2>3, <2>4, <2>5
<1>3. CASE ~Reuses
  <2>1. Doing' = "compute"
    BY <1>1, <1>3
  <2>2. answerFile[Prompt] = None
    BY <1>1, <1>3 DEF Reuses, Label, Fresh, Prompt, TypeOK
  <2>3. Where' /\ Room'
    BY <1>1, <2>1 DEF Where, Room, Authed
  <2>4. Known' /\ Kept' /\ Fresh'
    BY <1>1, <2>1 DEF Known, Kept, Fresh
  <2>5. InHand' /\ Results'
    BY <1>1, <2>1, <2>2 DEF InHand, Results
  <2> QED BY <2>3, <2>4, <2>5
<1> QED BY <1>2, <1>3

\* The answer is computed, here and now.
LEMMA ComputeStep ==
  ASSUME IInv, TypeOK', Compute
  PROVE  IInv'
<1> USE DEF IInv, Compute, loops, files, server, bounds
<1>1. Doing = "compute" /\ Doing' = "keepAnswer" /\ Prompt' = Prompt
  BY DEF Doing, Prompt
<1>2. Where' /\ Room'
  BY <1>1 DEF Where, Room, Authed
<1>3. Known' /\ Kept' /\ Fresh'
  BY <1>1 DEF Known, Kept, Fresh
<1>4. InHand' /\ Results'
  BY <1>1 DEF InHand, Results
<1> QED BY <1>2, <1>3, <1>4

\* An answer is written where there was none, or half of it by a run that dies.
LEMMA WriteStep ==
  ASSUME IInv, TypeOK', KeepAnswer \/ (Crash /\ answerFile' # answerFile)
  PROVE  IInv'
<1> USE DEF IInv, process, loops, server, bounds
<1>1. /\ pc = "keepAnswer" /\ Doing = "keepAnswer" /\ session \in Sessions /\ Prompt \in Prompts
      /\ answerFile[Prompt] = None /\ answer = [prompt |-> Prompt, env |-> env]
  BY PromptParts DEF Doing, KeepAnswer, Crash, Where, InHand, TypeOK
<1>2. \/ Doing' = "submit" /\ answerFile' = [answerFile EXCEPT ![Prompt] = answer] /\ exit' = exit
      \/ Doing' = "down" /\ answerFile' = [answerFile EXCEPT ![Prompt] = Torn] /\ exit' = "threw"
  BY <1>1 DEF Doing, KeepAnswer, Crash, Ends, Label
<1>3. /\ UNCHANGED <<resume, env, session, vs, answer, results, envFile, created, submitted, judged, starts, lost>>
      /\ sessionFile' \in {sessionFile, Torn} /\ pc' \notin {"refresh", "keepToken"}
  BY <1>1 DEF KeepAnswer, Crash, Ends
<1>4. submitted[Prompt] = {}
  <2>1. submitted[Prompt] \subseteq Answers
    BY <1>1 DEF TypeOK
  <2>2. \A a \in submitted[Prompt] : answerFile[Prompt] = a
    BY <1>1 DEF Kept
  <2> QED BY <1>1, <2>1, <2>2, Distinct
<1>5. Prompt' = Prompt
  BY <1>3 DEF Prompt
<1>6. answer \in Answers /\ answer.prompt = Prompt /\ answer.env = env
  BY <1>1 DEF Answers, TypeOK
<1>7. answerFile'[Prompt] \in {answer, Torn} /\ \A p \in Prompts : p # Prompt => answerFile'[p] = answerFile[p]
  BY <1>1, <1>2 DEF TypeOK
<1>8. Where' /\ Room'
  BY <1>1, <1>2, <1>3 DEF Where, Room, Authed
<1>9. Known'
  <2>1. \A s \in Sessions, n \in 1..VectorSets : s > created => <<s, n>> # Prompt
    BY SessionNumbers DEF Known, Prompt, TypeOK
  <2> QED BY <1>3, <1>7, <2>1, Distinct, PromptParts DEF Known
<1>10. Kept'
  BY <1>3, <1>4, <1>6, <1>7, Distinct DEF Kept
<1>11. Fresh'
  <2>1. \A n \in 1..VectorSets : <<session, n>> \in Prompts /\ (n # vs => <<session, n>> # Prompt) /\ <<session, vs>> = Prompt
    BY <1>1, PromptParts DEF Prompt
  <2>2. \A n \in 1..VectorSets : n > vs => n # vs
    BY DEF TypeOK
  <2>3. exit' # "0" /\ envFile = env
    BY <1>1, <1>2, Distinct DEF Where, Fresh
  <2>4. \A n \in 1..VectorSets : ~resume /\ answerFile'[<<session, n>>] \in Answers => answerFile'[<<session, n>>].env = env
    BY <1>1, <1>6, <1>7, <2>1, Distinct DEF Fresh
  <2>5. \A n \in 1..VectorSets : ~resume /\ n > vs => answerFile'[<<session, n>>] = None
    BY <1>1, <1>7, <2>1, <2>2 DEF Fresh
  <2> QED BY <1>2, <1>3, <2>3, <2>4, <2>5 DEF Fresh
<1>12. InHand'
  BY <1>1, <1>2, <1>3, <1>5, <1>6 DEF InHand, TypeOK
<1>13. Results'
  BY <1>1, <1>2, <1>3 DEF Results, Where
<1> QED BY <1>8, <1>9, <1>10, <1>11, <1>12, <1>13

\* The server has taken the answer, and the run learns of it or not.
LEMMA SubmitStep ==
  ASSUME IInv, TypeOK', Submit \/ SubmitUnanswered
  PROVE  IInv'
<1> USE DEF IInv, process, files
<1>1. /\ Doing = "submit" /\ session \in Sessions /\ Prompt \in Prompts
      /\ answer \in Answers /\ answerFile[Prompt] = answer
  BY PromptParts DEF Doing, Submit, SubmitUnanswered, Authorized, Where, InHand, TypeOK, Authed
<1>2. Take
  BY DEF Submit, SubmitUnanswered
<1>3. /\ UNCHANGED <<resume, env, session, vs, answer, results, sessionFile, envFile, answerFile, created, starts>>
      /\ lost' = lost \/ lost' = lost + 1
  BY DEF Submit, SubmitUnanswered, Take, NoAnswer, Throw, bounds
<1>4. /\ pc' \notin {"refresh", "keepToken"} /\ exit' # "0"
      /\ (Doing' \in {"submit", "disposition"} /\ exit' = exit) \/ Doing' = "down"
  BY <1>1, Distinct DEF Doing, Submit, SubmitUnanswered, NoAnswer, Throw, Ends, Goto, Authorized, Where
<1>5. Prompt' = Prompt
  BY <1>3 DEF Prompt
<1>6. /\ submitted'[Prompt] = submitted[Prompt] \cup {answer}
      /\ \A p \in Prompts : p # Prompt => submitted'[p] = submitted[p] /\ judged'[p] = judged[p]
  BY <1>1, <1>2 DEF Take, TypeOK
<1>7. Where'
  BY <1>1, <1>3, <1>4 DEF Where, Authed
<1>8. Room'
  <2>1. {starts, lost, created, starts', lost', created'} \subseteq Nat
    BY SessionNumbers DEF TypeOK
  <2> QED BY <1>3, <1>4, <2>1 DEF Room
<1>9. Known'
  <2>1. \A s \in Sessions, n \in 1..VectorSets : s > created => <<s, n>> # Prompt
    BY SessionNumbers DEF Known, Prompt, TypeOK
  <2> QED BY <1>3, <1>6, <2>1, PromptParts DEF Known
<1>10. Kept'
  BY <1>1, <1>3, <1>6 DEF Kept
<1>11. Fresh' /\ InHand'
  BY <1>1, <1>3, <1>4, <1>5 DEF Fresh, InHand
<1>12. Results'
  <2>1. results[vs] = None /\ vs \in 1..VectorSets
    BY <1>1, NothingYet
  <2>2. \A n \in 1..VectorSets : results[n] = "passed" => <<session, n>> \in Prompts /\ <<session, n>> # Prompt
    BY <1>1, <2>1, Distinct, PromptParts DEF Prompt
  <2> QED BY <1>1, <1>3, <1>4, <1>6, <2>2 DEF Results
<1> QED BY <1>7, <1>8, <1>9, <1>10, <1>11, <1>12

\* The server judges what has not been judged yet.
LEMMA JudgeStep ==
  ASSUME IInv, TypeOK', Judge
  PROVE  IInv'
<1> USE DEF IInv, Judge, process, loops, files, bounds
<1>1. Doing' = Doing /\ Prompt' = Prompt
  BY DEF Doing, Prompt
<1>2. Where' /\ Room' /\ Known'
  BY <1>1 DEF Where, Room, Known
<1>3. Kept' /\ Fresh' /\ InHand'
  BY <1>1 DEF Kept, Fresh, InHand
<1>4. \A p \in Prompts : judged[p] = "passed" => judged'[p] = "passed"
  BY Distinct DEF TypeOK
<1>5. Results'
  BY <1>1, <1>4, PromptParts DEF Results
<1> QED BY <1>2, <1>3, <1>5

\* The run hears the disposition and goes on to the next vector set.
LEMMA DispositionStep ==
  ASSUME IInv, TypeOK', Disposition
  PROVE  IInv'
<1> USE DEF IInv, Disposition, Goto, files, server, bounds
<1>1. Doing = "disposition" /\ session \in Sessions /\ exit = None /\ Prompt \in Prompts
  BY PromptParts DEF Doing, Authorized, Where, TypeOK, Authed
<1>2. \/ vs < VectorSets /\ vs' = vs + 1 /\ Doing' = "prompt"
      \/ vs' = vs /\ Doing' = "final"
  BY DEF Doing
<1>3. pc' = Doing' /\ exit' = exit /\ vs \in Nat
  BY <1>2, SessionNumbers DEF Doing, TypeOK
<1>4. Where' /\ Room' /\ Known'
  BY <1>1, <1>2, <1>3 DEF Where, Room, Known, Authed
<1>5. \A n \in 1..VectorSets : n >= vs' /\ Doing' = "prompt" => n > vs
  BY <1>2, <1>3, SessionNumbers
<1>6. Kept' /\ InHand'
  BY <1>1, <1>2 DEF Kept, InHand
<1>7. Fresh'
  <2>1. \A n \in 1..VectorSets : /\ (n > vs' \/ n = vs') /\ Doing' = "prompt" => n > vs
                                 /\ n > vs' => n > vs
    BY <1>2, <1>3, SessionNumbers
  <2>2. \A n \in 1..VectorSets : ~resume /\ n > vs => answerFile[<<session, n>>] = None
    BY <1>1 DEF Fresh
  <2>3. envFile = env
    BY <1>1 DEF Fresh
  <2> QED BY <1>1, <1>2, <1>3, <2>1, <2>2, <2>3 DEF Fresh
<1>8. Results'
  <2>1. \A n \in 1..VectorSets : results'[n] = IF n = vs THEN judged[Prompt] ELSE results[n]
    BY DEF TypeOK
  <2>2. \A n \in 1..VectorSets : results'[n] = "passed" => judged[<<session, n>>] = "passed"
    BY <2>1 DEF Results, Prompt
  <2>3. \A n \in 1..VectorSets : n > vs => results'[n] = None
    BY <1>1, <1>3, <2>1, NothingYet
  <2> QED BY <1>1, <1>2, <1>3, <1>5, <2>2, <2>3, Distinct DEF Results
<1> QED BY <1>4, <1>6, <1>7, <1>8

\* No step breaks the invariant.
LEMMA NextInv == IInv /\ [Next]_vars => IInv'
<1> SUFFICES ASSUME IInv, [Next]_vars PROVE IInv'
  OBVIOUS
<1>1. CASE UNCHANGED vars
  <2>1. TypeOK'
    BY <1>1 DEF IInv, TypeOK, vars, process, loops, files, server, bounds
  <2> QED BY <1>1, <2>1, QuietSteps
<1>2. CASE Next
  <2>1. TypeOK'
    BY <1>2, TypeStep
  <2>2. CASE NewWindow \/ Expire \/ RequestLost \/ LoginUnanswered \/ Refused \/ Renewed
             \/ Unauthorized \/ KeepToken \/ Pending \/ ErrorStatus \/ Final
    BY <2>1, <2>2, QuietSteps
  <2>3. CASE Start \/ LoggedIn \/ Register \/ RegisterUnanswered
    BY <2>1, <2>3, StartStep, LoggedInStep, RegisterStep
  <2>4. CASE KeepSession \/ Resume
    BY <2>1, <2>4, SessionStep, QuietSteps
  <2>5. CASE PromptReady \/ Compute
    BY <2>1, <2>5, PromptReadyStep, ComputeStep, QuietSteps
  <2>6. CASE KeepAnswer \/ Crash
    BY <2>1, <2>6, WriteStep, QuietSteps
  <2>7. CASE Submit \/ SubmitUnanswered \/ Judge \/ Disposition
    BY <2>1, <2>7, SubmitStep, JudgeStep, DispositionStep
  <2> QED BY <1>2, <2>2, <2>3, <2>4, <2>5, <2>6, <2>7 DEF Next, Run, Network
<1> QED BY <1>1, <1>2

-------------------------------------------------------------------------------
\* The invariant holds in every behaviour of the sessions.
THEOREM Invariance == Spec => []IInv
BY InitInv, NextInv, PTL DEF Spec

\* The state of runs, directory and server has its type.
THEOREM TypeCorrect == Spec => []TypeOK
<1>1. IInv => TypeOK
  BY DEF IInv
<1> QED BY <1>1, Invariance, PTL

\* run-session.mjs exits with 0 only when the server has passed every vector set
\* of the session, whatever was lost, repeated or resumed.
THEOREM ZeroMeansPassed == Spec => []ExitZeroMeansPassed
<1>1. IInv => ExitZeroMeansPassed
  BY DEF IInv, Results, ExitZeroMeansPassed
<1> QED BY <1>1, Invariance, PTL

\* What the server has been given is what is on disk.
THEOREM KeptBeforeSubmitted == Spec => []SubmittedIsKept
<1>1. IInv => SubmittedIsKept
  BY DEF IInv, Kept, SubmittedIsKept, Label
<1> QED BY <1>1, Invariance, PTL

\* The server is given one answer to a prompt at most, however many runs died and
\* however often the POST was repeated, and it is an answer to that prompt.
THEOREM AnsweredOnce == Spec => []OneAnswerPerPrompt
<1>1. IInv => OneAnswerPerPrompt
  <2> SUFFICES ASSUME IInv, NEW p \in Prompts
      PROVE  Cardinality(submitted[p]) <= 1 /\ \A a \in submitted[p] : a.prompt = p
    BY DEF OneAnswerPerPrompt
  <2>1. submitted[p] \subseteq Answers /\ \A a \in submitted[p] : a = answerFile[p]
    BY DEF IInv, Kept, TypeOK
  <2>2. submitted[p] = {} \/ submitted[p] = {answerFile[p]}
    BY <2>1
  <2>3. Cardinality(submitted[p]) = 0 \/ Cardinality(submitted[p]) = 1
    BY <2>2, FS_EmptySet, FS_Singleton
  <2>4. \A a \in submitted[p] : a.prompt = p
    BY <2>1 DEF IInv, Kept
  <2> QED BY <2>3, <2>4
<1> QED BY <1>1, Invariance, PTL

\* The environment on record is the one in which a session that was begun afresh,
\* and has passed, computed its answers.
THEOREM RecordIsRight == Spec => []RecordIsOfTheAnswers
<1>1. IInv => RecordIsOfTheAnswers
  <2> SUFFICES ASSUME IInv, exit = "0", ~resume, NEW n \in 1..VectorSets, NEW a \in submitted[<<session, n>>]
      PROVE  a.env = envFile
    BY DEF RecordIsOfTheAnswers
  <2>1. session \in Sessions /\ <<session, n>> \in Prompts
    BY PromptParts DEF IInv, Results
  <2>2. a \in Answers /\ a = answerFile[<<session, n>>]
    BY <2>1 DEF IInv, Kept, TypeOK
  <2> QED BY <2>1, <2>2 DEF IInv, Fresh
<1> QED BY <1>1, Invariance, PTL

\* What the disk, the server and the run know of each other.
THEOREM SessionInvHolds == Spec => []SessionInv
BY TypeCorrect, AnsweredOnce, KeptBeforeSubmitted, RecordIsRight, PTL DEF SessionInv

\* An answer once on disk stays there as it is: no run computes it again.
THEOREM AnswersStay == Spec => KeptAnswersStay
<1>1. IInv /\ [Next]_vars => [\A p \in Prompts : answerFile[p] \in Answers => answerFile'[p] = answerFile[p]]_vars
  <2> SUFFICES ASSUME IInv, Next, NEW p \in Prompts, answerFile[p] \in Answers
      PROVE  answerFile'[p] = answerFile[p]
    OBVIOUS
  <2>1. CASE answerFile' = answerFile
    BY <2>1
  <2>2. CASE answerFile' # answerFile
    <3>1. KeepAnswer \/ Crash
      BY <2>2 DEF Next, Run, Network, files, vars, Start, Judge, NewWindow, Expire, RequestLost,
         LoginUnanswered, RegisterUnanswered, SubmitUnanswered, NoAnswer, Refused, LoggedIn,
         Renewed, Register, KeepSession, Resume, Unauthorized, KeepToken, Pending, PromptReady,
         Compute, Submit, ErrorStatus, Disposition, Final
    <3>2. pc = "keepAnswer" /\ answerFile[Prompt] = None
      BY <2>2, <3>1 DEF KeepAnswer, Crash, IInv, InHand, Doing
    <3>3. p # Prompt
      BY <3>2, Distinct
    <3>4. \E a : answerFile' = [answerFile EXCEPT ![Prompt] = a]
      BY <2>2, <3>1 DEF KeepAnswer, Crash, Label
    <3> QED BY <3>3, <3>4 DEF IInv, TypeOK
  <2> QED BY <2>1, <2>2
<1> QED BY <1>1, Invariance, PTL DEF Spec, KeptAnswersStay

================================================================================
