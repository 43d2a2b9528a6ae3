--------------------------- MODULE SubmitService ---------------------------
(***************************************************************************)
(* What ksmppd promises an ESME that submits a message: at most one        *)
(* submit_sm_resp, and ESME_ROK only when somebody else answers for the    *)
(* message from then on (bearerbox or the database has it, or bearerbox    *)
(* refused it for good after it was stored).                               *)
(***************************************************************************)
CONSTANT Msg

VARIABLES
  answer, \* the response each submission got
  kept    \* messages somebody other than the ESME answers for

vars == <<answer, kept>>

TypeOK == answer \in [Msg -> {"none", "ok", "error"}] /\ kept \subseteq Msg

Init == answer = [m \in Msg |-> "none"] /\ kept = {}

\* Bearerbox takes the message or the database stores it; neither gives it up.
Keep(m) ==
  /\ kept' = kept \cup {m}
  /\ UNCHANGED answer

AnswerOk(m) ==
  /\ answer[m] = "none" /\ m \in kept
  /\ answer' = [answer EXCEPT ![m] = "ok"]
  /\ UNCHANGED kept

\* An error promises nothing: bearerbox may have taken the message when the
\* connection broke before its ack arrived.
AnswerError(m) ==
  /\ answer[m] = "none"
  /\ answer' = [answer EXCEPT ![m] = "error"]
  /\ UNCHANGED kept

Next == \E m \in Msg : Keep(m) \/ AnswerOk(m) \/ AnswerError(m)

Spec == Init /\ [][Next]_vars

=============================================================================
