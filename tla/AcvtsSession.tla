------------------------------ MODULE AcvtsSession ------------------------------
(***************************************************************************)
(* A test session with NIST's ACVTS server: run-session.mjs over the       *)
(* requests of client.mjs, with the run kept in a directory (--keep), runs *)
(* that die at any point, and runs that pick a kept one up (--resume) or   *)
(* start afresh in the same directory.                                     *)
(*                                                                         *)
(* The server is not part of this code and is modelled by what the code    *)
(* relies on: it accepts a one-time password once, answers 401 to an       *)
(* expired token, judges an answer by the prompt it is for, and may accept *)
(* or refuse a second submission.  A request may be lost before it reaches *)
(* the server or its reply after; client.mjs repeats it all the same.      *)
(*                                                                         *)
(* A prompt is the session and vector set it belongs to, an answer the     *)
(* prompt it was computed for and the environment it was computed in.      *)
(***************************************************************************)
EXTENDS Naturals, FiniteSets

CONSTANTS
  VectorSets,    \* vector sets of a session: 1..VectorSets
  Envs,          \* operating environments a run may execute in
  Attempts,      \* tries of one request in call(): 3
  Logins,        \* attempts of login() and refresh(): 4
  MaxPolls,      \* polls of a prompt and of a disposition: 60 and 90
  MaxStarts, MaxLost, MaxExpiries,  \* bounds: runs, lost messages, expiries
  None,          \* no value
  Torn           \* a file the process died writing

Sessions == 1..(MaxStarts + MaxLost)
Prompts == Sessions \X (1..VectorSets)
Answers == [prompt : Prompts, env : Envs]

ASSUME SessionAssumption ==
  /\ {VectorSets, Attempts, Logins, MaxPolls} \subseteq Nat \ {0}
  /\ {MaxStarts, MaxLost, MaxExpiries} \subseteq Nat
  /\ None # Torn /\ None \notin {"passed", "0"}
  /\ {None, Torn} \cap Sessions = {} /\ {None, Torn} \cap Answers = {}

VARIABLES
  pc, resume, env,
  token,       \* the session token the run holds: "live", "expired" or None
  session,     \* the session of the run, 0 for none
  vs,          \* the vector set being worked on
  answer,
  attempt,     \* which try of the running request
  logins,      \* which attempt of the running login() or refresh()
  polls,       \* which poll of the running loop
  after,       \* the request refresh() is called for
  results,     \* dispositions of this run
  exit,        \* how the run ended: None, "0", "1" or "threw"
  sessionFile, \* session.json: a session, None or Torn
  envFile,     \* environment.json
  answerFile,  \* -response.json, by label
  created,     \* server: sessions registered so far
  submitted,   \* server: the answers it has taken for each prompt
  judged,      \* server: its disposition of each prompt
  spent,       \* the one-time password of this window has been used
  starts, lost, expiries

process == <<resume, env, session, vs, answer, results>>
loops   == <<attempt, logins, polls, after>>
files   == <<sessionFile, envFile, answerFile>>
server  == <<created, submitted, judged>>
bounds  == <<starts, lost, expiries>>
vars == <<pc, process, token, loops, exit, files, server, spent, bounds>>

Prompt == <<session, vs>>

\* Requests that go through authed().
Authed == {"prompt", "submit", "disposition", "final"}
Working == Authed \cup {"login", "register", "refresh", "keepSession", "keepToken",
                        "resumed", "compute", "keepAnswer"}

Init ==
  /\ pc = "down" /\ resume = FALSE /\ env \in Envs
  /\ token = None /\ session = 0 /\ vs = 1 /\ answer = None
  /\ attempt = 1 /\ logins = 1 /\ polls = 1 /\ after = None
  /\ results = [n \in 1..VectorSets |-> None]
  /\ exit = None
  /\ sessionFile = None /\ envFile = None /\ answerFile = [p \in Prompts |-> None]
  /\ created = 0
  /\ submitted = [p \in Prompts |-> {}] /\ judged = [p \in Prompts |-> None]
  /\ spent = FALSE
  /\ starts = 0 /\ lost = 0 /\ expiries = 0

\* The environment is written down at each start.
KeepEnvironment == envFile' = env'

\* A run starts, in whatever environment, afresh or with --resume.
Start ==
  /\ pc = "down" /\ starts < MaxStarts
  /\ starts' = starts + 1
  /\ env' \in Envs /\ KeepEnvironment
  /\ resume' \in BOOLEAN
  /\ pc' = "login" /\ exit' = None
  /\ token' = None /\ session' = 0 /\ vs' = 1 /\ answer' = None
  /\ attempt' = 1 /\ logins' = 1 /\ polls' = 1 /\ after' = None
  /\ results' = [n \in 1..VectorSets |-> None]
  /\ UNCHANGED <<sessionFile, answerFile, server, spent, lost, expiries>>

Ends(code) == pc' = "down" /\ exit' = code

Throw ==
  /\ Ends("threw")
  /\ UNCHANGED <<process, token, loops>>

\* The run is killed, perhaps in the middle of writing a file.
Crash ==
  /\ pc # "down"
  /\ Ends("threw")
  /\ sessionFile' \in {sessionFile} \cup
       (IF pc \in {"keepSession", "keepToken"} THEN {Torn} ELSE {})
  /\ \/ UNCHANGED answerFile
     \/ pc = "keepAnswer" /\ answerFile' = [answerFile EXCEPT ![Prompt] = Torn]
  /\ UNCHANGED <<process, token, loops, envFile, server, spent, bounds>>

\* Time passes: a new password window, an expired session token.  A renewed
\* token outlives the request it was renewed for.
NewWindow ==
  /\ spent /\ pc \notin {"login", "refresh"}
  /\ spent' = FALSE
  /\ UNCHANGED <<pc, process, token, loops, exit, files, server, bounds>>

Expire ==
  /\ token = "live" /\ after = None /\ expiries < MaxExpiries
  /\ token' = "expired" /\ expiries' = expiries + 1
  /\ UNCHANGED <<pc, process, loops, exit, files, server, spent, starts, lost>>

-------------------------------------------------------------------------------
\* call(): a request that got no answer is repeated, whatever it was; the last
\* try throws.
NoAnswer ==
  /\ lost < MaxLost /\ lost' = lost + 1
  /\ IF attempt < Attempts
     THEN attempt' = attempt + 1 /\ UNCHANGED <<pc, process, token, logins, polls, after, exit>>
     ELSE Throw
  /\ UNCHANGED <<files, starts, expiries>>

\* Lost on the way there, any request.
RequestLost ==
  /\ pc \in Authed \cup {"login", "refresh", "register"}
  /\ NoAnswer
  /\ UNCHANGED <<server, spent>>

Goto(p) == pc' = p /\ attempt' = 1

\* login() and refresh(): no token, as when the password is spent.  The next
\* attempt waits for the next window.
Refused ==
  /\ pc \in {"login", "refresh"}
  /\ spent' = FALSE
  /\ IF logins < Logins
     THEN logins' = logins + 1 /\ Goto(pc) /\ UNCHANGED <<process, token, polls, after, exit>>
     ELSE Throw
  /\ UNCHANGED <<files, server, bounds>>

LoggedIn ==
  /\ pc = "login" /\ ~spent
  /\ spent' = TRUE
  /\ logins' = 1
  /\ Goto(IF resume THEN "resumed" ELSE "register")
  /\ UNCHANGED <<process, token, polls, after, exit, files, server, bounds>>

Renewed ==
  /\ pc = "refresh" /\ ~spent
  /\ spent' = TRUE
  /\ token' = "live" /\ logins' = 1
  /\ Goto("keepToken")
  /\ UNCHANGED <<process, polls, after, exit, files, server, bounds>>

\* The password is used and the reply lost.
LoginUnanswered ==
  /\ pc \in {"login", "refresh"} /\ ~spent
  /\ spent' = TRUE
  /\ NoAnswer
  /\ UNCHANGED server

-------------------------------------------------------------------------------
Register ==
  /\ pc = "register"
  /\ created' = created + 1
  /\ session' = created + 1 /\ token' = "live"
  /\ Goto("keepSession")
  /\ UNCHANGED <<resume, env, vs, answer, results, logins, polls, after, exit, files,
                 submitted, judged, spent, bounds>>

\* The session exists and this run does not know of it.
RegisterUnanswered ==
  /\ pc = "register"
  /\ created' = created + 1
  /\ NoAnswer
  /\ UNCHANGED <<submitted, judged, spent>>

KeepSession ==
  /\ pc = "keepSession"
  /\ sessionFile' = session
  /\ pc' = "prompt"
  /\ UNCHANGED <<process, token, loops, exit, envFile, answerFile, server, spent, bounds>>

\* --resume: session.json is read.  Its token may have expired meanwhile.
Resume ==
  /\ pc = "resumed"
  /\ IF sessionFile \in {None, Torn}
     THEN Throw
     ELSE /\ session' = sessionFile
          /\ token' \in {"live", "expired"}
          /\ pc' = "prompt"
          /\ UNCHANGED <<resume, env, vs, answer, results, loops, exit>>
  /\ UNCHANGED <<files, server, spent, bounds>>

\* authed(): 401, so the token is renewed, kept, and the request repeated.
Unauthorized ==
  /\ pc \in Authed /\ token = "expired"
  /\ after' = pc
  /\ Goto("refresh")
  /\ UNCHANGED <<process, token, logins, polls, exit, files, server, spent, bounds>>

KeepToken ==
  /\ pc = "keepToken"
  /\ sessionFile' = session
  /\ pc' = after
  /\ UNCHANGED <<process, token, loops, exit, envFile, answerFile, server, spent, bounds>>

-------------------------------------------------------------------------------
\* A request of authed() that the server answers.
Authorized(p) == pc = p /\ token = "live"

\* Mutant of Pending: the loops have no last round.
PendingForever ==
  /\ \E p \in {"prompt", "disposition"} : Authorized(p)
  /\ after' = None
  /\ Goto(pc)
  /\ UNCHANGED <<process, token, logins, polls, exit, files, server, spent, bounds>>

\* The loops that wait for a prompt and for a disposition.  The second takes
\* any error for "not yet".
Pending ==
  /\ \E p \in {"prompt", "disposition"} : Authorized(p)
  /\ after' = None
  /\ IF polls < MaxPolls
     THEN polls' = polls + 1 /\ Goto(pc) /\ UNCHANGED <<process, token, logins, exit>>
     ELSE Ends("threw") /\ UNCHANGED <<process, token, attempt, logins, polls>>
  /\ UNCHANGED <<files, server, spent, bounds>>

\* Mutant of Label: a file named for algorithm and mode alone.
LabelByAlgorithm(p) == <<p[1], 1>>

\* The label of a prompt's files: algorithm, mode and the vector set's own
\* number, which no other set of any session has.
Label(p) == p

\* Mutant of Reuses: an answer on disk is not looked for.
ReusesNothing == FALSE

\* A resumed run takes the answer it finds on disk; half a file throws.
Reuses == resume /\ answerFile[Label(Prompt)] # None

PromptReady ==
  /\ Authorized("prompt")
  /\ after' = None
  /\ IF Reuses /\ answerFile[Label(Prompt)] = Torn
     THEN Ends("threw") /\ UNCHANGED <<answer, attempt, polls>>
     ELSE /\ polls' = 1
          /\ IF Reuses THEN answer' = answerFile[Label(Prompt)] /\ Goto("submit")
                       ELSE Goto("compute") /\ UNCHANGED answer
          /\ UNCHANGED exit
  /\ UNCHANGED <<resume, env, session, vs, results, token, logins, files, server, spent, bounds>>

Compute ==
  /\ pc = "compute"
  /\ answer' = [prompt |-> Prompt, env |-> env]
  /\ pc' = "keepAnswer"
  /\ UNCHANGED <<resume, env, session, vs, results, token, loops, exit, files, server, spent, bounds>>

KeepAnswer ==
  /\ pc = "keepAnswer"
  /\ answerFile' = [answerFile EXCEPT ![Label(Prompt)] = answer]
  /\ pc' = "submit"
  /\ UNCHANGED <<process, token, loops, exit, sessionFile, envFile, server, spent, bounds>>

-------------------------------------------------------------------------------
\* The server takes an answer, a second one too if it wants to.
Take ==
  /\ submitted' = [submitted EXCEPT ![Prompt] = @ \cup {answer}]
  /\ judged' = [judged EXCEPT ![Prompt] = None]
  /\ UNCHANGED created

Submit ==
  /\ Authorized("submit")
  /\ Take
  /\ after' = None
  /\ Goto("disposition")
  /\ UNCHANGED <<process, token, logins, polls, exit, files, spent, bounds>>

SubmitUnanswered ==
  /\ Authorized("submit")
  /\ Take
  /\ NoAnswer
  /\ UNCHANGED spent

\* An error status, a second submission the server does not want among them.
ErrorStatus ==
  /\ pc = "register" \/ \E p \in {"prompt", "submit", "final"} : Authorized(p)
  /\ Throw
  /\ UNCHANGED <<files, server, spent, bounds>>

\* The server judges what it has been given, in its own time.
Judge ==
  /\ \E p \in Prompts :
       /\ submitted[p] # {} /\ judged[p] = None
       /\ \/ judged' = [judged EXCEPT ![p] = "failed"]
          \/ /\ \A a \in submitted[p] : a.prompt = p
             /\ judged' = [judged EXCEPT ![p] = "passed"]
  /\ UNCHANGED <<pc, process, token, loops, exit, files, created, submitted, spent, bounds>>

\* Mutant of Disposition: whatever the server says counts as passed.
DispositionAnything ==
  /\ Authorized("disposition") /\ judged[Prompt] # None
  /\ results' = [results EXCEPT ![vs] = "passed"]
  /\ after' = None /\ polls' = 1
  /\ IF vs < VectorSets THEN vs' = vs + 1 /\ Goto("prompt") ELSE Goto("final") /\ UNCHANGED vs
  /\ UNCHANGED <<resume, env, session, answer, token, logins, exit, files, server, spent, bounds>>

Disposition ==
  /\ Authorized("disposition") /\ judged[Prompt] # None
  /\ results' = [results EXCEPT ![vs] = judged[Prompt]]
  /\ after' = None /\ polls' = 1
  /\ IF vs < VectorSets THEN vs' = vs + 1 /\ Goto("prompt") ELSE Goto("final") /\ UNCHANGED vs
  /\ UNCHANGED <<resume, env, session, answer, token, logins, exit, files, server, spent, bounds>>

\* The session is read once more and the exit code says how the run went.
Final ==
  /\ Authorized("final")
  /\ Ends(IF \A n \in 1..VectorSets : results[n] = "passed" THEN "0" ELSE "1")
  /\ UNCHANGED <<process, token, loops, files, server, spent, bounds>>

Run ==
  \/ Refused
  \/ LoggedIn
  \/ Renewed
  \/ Register
  \/ KeepSession
  \/ Resume
  \/ Unauthorized
  \/ KeepToken
  \/ Pending
  \/ PromptReady
  \/ Compute
  \/ KeepAnswer
  \/ Submit
  \/ ErrorStatus
  \/ Disposition
  \/ Final

Network ==
  \/ RequestLost
  \/ LoginUnanswered
  \/ RegisterUnanswered
  \/ SubmitUnanswered

Next == Start \/ Run \/ Network \/ Judge \/ Crash \/ NewWindow \/ Expire

\* Requests have a timeout (180 s) and loops a last round: a run goes on.
Spec == Init /\ [][Next]_vars /\ WF_vars(Run)

-------------------------------------------------------------------------------
TypeOK ==
  /\ pc \in Working \cup {"down"}
  /\ resume \in BOOLEAN /\ env \in Envs
  /\ token \in {"live", "expired", None}
  /\ session \in Sessions \cup {0} /\ vs \in 1..VectorSets
  /\ answer \in Answers \cup {None}
  /\ attempt \in 1..Attempts /\ logins \in 1..Logins /\ polls \in 1..MaxPolls
  /\ after \in Authed \cup {None}
  /\ results \in [1..VectorSets -> {None, "passed", "failed"}]
  /\ exit \in {None, "0", "1", "threw"}
  /\ sessionFile \in Sessions \cup {None, Torn} /\ envFile \in Envs \cup {None}
  /\ answerFile \in [Prompts -> Answers \cup {None, Torn}]
  /\ created \in 0..Cardinality(Sessions)
  /\ submitted \in [Prompts -> SUBSET Answers]
  /\ judged \in [Prompts -> {None, "passed", "failed"}]
  /\ spent \in BOOLEAN
  /\ starts \in 0..MaxStarts /\ lost \in 0..MaxLost /\ expiries \in 0..MaxExpiries

\* Exit code 0 is said only of a session all of whose vector sets the server
\* has passed, across repeated submissions and resumed runs.
ExitZeroMeansPassed ==
  exit = "0" => \A n \in 1..VectorSets : judged[<<session, n>>] = "passed"

\* Whatever dies or is repeated, the server is given at most one answer to a
\* prompt, and it is an answer to that prompt.
OneAnswerPerPrompt ==
  \A p \in Prompts :
    /\ Cardinality(submitted[p]) <= 1
    /\ \A a \in submitted[p] : a.prompt = p

\* What the server has been given is also on disk, so that a later run never
\* computes it again.
SubmittedIsKept ==
  \A p \in Prompts : \A a \in submitted[p] : answerFile[Label(p)] = a

\* An answer once kept is never computed again, overwritten or torn.
KeptAnswersStay ==
  [][\A p \in Prompts : answerFile[p] \in Answers => answerFile'[p] = answerFile[p]]_vars

\* Every run comes to an end, however often tokens expire and replies are lost.
RunEnds == pc # "down" ~> pc = "down"

\* "A Demo result covers only the environment it ran on, so the kept run records
\* it itself" (54-56): when a session that was begun afresh has passed, whatever
\* runs died in the same directory before, the environment on record is the one
\* all its answers were computed in.  A resumed run rewrites the record.
RecordIsOfTheAnswers ==
  exit = "0" /\ ~resume =>
    \A n \in 1..VectorSets : \A a \in submitted[<<session, n>>] : a.env = envFile

\* What the disk, the server and the run know of each other (run-session.mjs): one
\* answer to a prompt, kept before it is submitted, and the environment it was
\* computed in on record.
SessionInv ==
  /\ TypeOK
  /\ OneAnswerPerPrompt
  /\ SubmittedIsKept
  /\ RecordIsOfTheAnswers

===============================================================================
