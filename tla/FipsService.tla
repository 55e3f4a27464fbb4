------------------------------ MODULE FipsService ------------------------------
(***************************************************************************)
(* What an application may rely on when it uses the FIPS module            *)
(* (src/fips/index.js), whatever happens inside: the module decides once   *)
(* whether it is operational; it answers only while it is; the error state *)
(* is final until the process starts again.                                *)
(***************************************************************************)
EXTENDS Naturals

VARIABLES
  mode,    \* starting, operational or in the error state
  reply    \* what the last call returned or threw

serviceVars == <<mode, reply>>

\* Answers: a result, a generated key pair, or an error that is the caller's.
Answers == {"result", "keypair", "callerError"}

ServiceTypeOK ==
  /\ mode \in {"starting", "operational", "error"}
  /\ reply \in Answers \cup {"none", "refused", "enteredError"}

ServiceInit ==
  /\ mode = "starting"
  /\ reply = "none"

StartSucceeds ==
  /\ mode = "starting"
  /\ mode' = "operational"
  /\ UNCHANGED reply

StartFails ==
  /\ mode = "starting"
  /\ mode' = "error"
  /\ UNCHANGED reply

\* A call is answered only by an operational module.
AnswerCall ==
  /\ mode = "operational"
  /\ reply' \in Answers
  /\ UNCHANGED mode

\* A failure is final: the call that met it gets no result.
Fail ==
  /\ mode = "operational"
  /\ mode' = "error"
  /\ reply' = "enteredError"

RefuseCall ==
  /\ mode = "error"
  /\ reply' = "refused"
  /\ UNCHANGED mode

Restart ==
  /\ mode' = "starting"
  /\ reply' = "none"

ServiceNext ==
  \/ StartSucceeds
  \/ StartFails
  \/ AnswerCall
  \/ Fail
  \/ RefuseCall
  \/ Restart

\* A start always ends one way or the other.
ServiceSpec ==
  /\ ServiceInit
  /\ [][ServiceNext]_serviceVars
  /\ WF_serviceVars(StartSucceeds \/ StartFails)

===============================================================================
