--------------------------- MODULE MtServiceProofs ---------------------------
(***************************************************************************)
(* What the mobile-terminated path promises, proved from the ownership of  *)
(* jobs: an ESME told to retry left nothing in the store, the message of a *)
(* store-primary account stays in the store, bearerbox gets a bounded      *)
(* number of copies, the prepaid balance has a floor, and the whole path   *)
(* implements the service of module SubmitService.                         *)
(***************************************************************************)
EXTENDS MtPathProofs, FiniteSetTheorems

USE MsgAssumption, SwitchAssumption, CreditAssumption, BoundAssumption
    DEF Gid, Job, NoJob, Phase, Resp, Status, AckStatus, WriterPc, ReaderPc

\* Only these steps answer a submission, touch the store's rows or learn what
\* bearerbox decided; every other one only adds callbacks.
LEMMA Quiet ==
  [Next]_vars =>
    \/ UNCHANGED <<phase, resp, rows, taken, refused>> /\ cb \subseteq cb'
    \/ \E m \in Msg : Submission(m)
    \/ \E j \in storing : InsertRow(j)
    \/ \E c \in cb : CallbackSubmit(c) \/ RequeueResult(c)
    \/ \E b \in Box : \E j \in sent[b] : BearerboxHandles(b, j)
    \/ Crash
  <1> SUFFICES ASSUME [Next]_vars,
                      ~ \E m \in Msg : Submission(m),
                      ~ \E j \in storing : InsertRow(j),
                      ~ \E c \in cb : CallbackSubmit(c) \/ RequeueResult(c),
                      ~ \E b \in Box : \E j \in sent[b] : BearerboxHandles(b, j),
                      ~ Crash
               PROVE  UNCHANGED <<phase, resp, rows, taken, refused>> /\ cb \subseteq cb'
    OBVIOUS
  <1> USE DEF boxVars, remoteVars, storeVars, queueVars, submitVars
  <1>1. CASE \E g \in releasing : ReleaseClaim(g)
    BY <1>1 DEF ReleaseClaim
  <1>2. CASE ClaimStored \/ \E j \in batch : RequeueStored(j)
    BY <1>2 DEF ClaimStored, RequeueStored
  <1>3. CASE \E b \in Box : Writer(b)
    BY <1>3 DEF Writer, WriterCheck, Consume, WriterLock, WriterDeliver, WriterRequeue,
                AddToQueue, Callback
  <1>4. CASE \E b \in Box : Reader(b) \/ SetStateDown(b)
    BY <1>4 DEF Reader, Reconnect, ReconnectFails, DropConnection, ReadAck, ReadFails,
                ReaderLeaves, SetStateDown, Callback
  <1>5. CASE UNCHANGED vars
    BY <1>5 DEF vars
  <1> QED
    BY <1>1, <1>2, <1>3, <1>4, <1>5 DEF Next

\* A callback for a submission is the one callback of its job.
LEMMA SubmitCallback ==
  ASSUME TypeOK, HeldInv, NEW c \in cb, CallbackSubmit(c)
  PROVE  \E m \in Msg : /\ c.job = SubmitJob(m) /\ c.job.msg = m /\ c.status \in Status
                        /\ phase[m] = "queued" /\ resp[m] = "none"
                        /\ phase'[m] = "answered" /\ resp'[m] = c.status
                        /\ \A n \in Msg \ {m} : phase'[n] = phase[n] /\ resp'[n] = resp[n]
                        /\ \A d \in cb : d.job = c.job => d = c
                        /\ UNCHANGED <<rows, taken, refused>> /\ cb' = cb \ {c}
  <1>1. HeldTypes /\ TypeSubmit
    BY HeldTyped DEF TypeOK
  <1>2. /\ c.job.gid = 0 /\ Answer(c.job.msg, c.status)
        /\ UNCHANGED <<rows, taken, refused>> /\ cb' = cb \ {c}
    BY DEF CallbackSubmit, remoteVars, storeVars
  <1>3. PICK m \in Msg : c.job = SubmitJob(m) /\ c.job.msg = m
    BY <1>1, <1>2 DEF HeldTypes, SubmitJob
  <1>4. phase[m] = "queued" /\ resp[m] = "none"
    BY <1>3 DEF HeldInv, SubmitLive, AnsweredOnce, IsLive, CallbackDue
  <1>5. /\ phase'[m] = "answered" /\ resp'[m] = c.status
        /\ \A n \in Msg \ {m} : phase'[n] = phase[n] /\ resp'[n] = resp[n]
    BY <1>1, <1>2, <1>3 DEF Answer, TypeSubmit
  <1>6. /\ c.status \in Status
        /\ \A d \in cb : d.job = c.job => d = c
    BY <1>1 DEF HeldTypes, HeldInv, QueuesApart
  <1> QED
    BY <1>2, <1>3, <1>4, <1>5, <1>6

\* A step of a submission's own handler answers it with an error or not at all.
LEMMA SubmissionAnswers ==
  ASSUME TypeOK, NEW m \in Msg, Submission(m)
  PROVE  /\ phase[m] \in {"new", "routing", "charging", "dispatch"}
         /\ \/ resp'[m] = resp[m] /\ phase'[m] \in {"routing", "charging", "dispatch", "queued"}
            \/ resp'[m] \in {"rejected", "submitfail"} /\ phase'[m] = "answered"
         /\ \A n \in Msg \ {m} : phase'[n] = phase[n] /\ resp'[n] = resp[n]
         /\ UNCHANGED <<rows, taken, refused>> /\ cb \subseteq cb'
  <1>1. TypeSubmit
    BY DEF TypeOK
  <1> USE DEF boxVars, remoteVars, storeVars, queueVars, submitVars
  <1>2. CASE HandleSubmit(m)
    BY <1>1, <1>2 DEF HandleSubmit, Answer, TypeSubmit
  <1>3. CASE RoutingDone(m)
    BY <1>1, <1>3 DEF RoutingDone, Answer, TypeSubmit
  <1>4. CASE DeductCredit(m)
    BY <1>1, <1>4 DEF DeductCredit, Answer, TypeSubmit
  <1>5. CASE Dispatch(m)
    BY <1>1, <1>5 DEF Dispatch, AddToQueue, Callback, TypeSubmit
  <1> QED
    BY <1>2, <1>3, <1>4, <1>5 DEF Submission

-----------------------------------------------------------------------------
(* An ESME told to retry left nothing in the store *)

OkDue(m) == [job |-> SubmitJob(m), status |-> "ok"]

\* A message with a row was answered with ok, is about to be, or was lost with
\* the server: the first row of a message comes from its own submission, later
\* ones are copies of a row.
Accepted(m) ==
  \/ resp[m] = "ok"
  \/ phase[m] = "lost"
  \/ phase[m] = "queued" /\ OkDue(m) \in cb

StoredInv == \A m \in Msg : Stored(m) => Accepted(m)

\* Every step keeps that.
LEMMA NextStored ==
  TypeOK /\ KeptInv /\ HeldInv /\ StoredInv /\ [Next]_vars => StoredInv'
  <1> SUFFICES ASSUME TypeOK, KeptInv, HeldInv, StoredInv, [Next]_vars, NEW m \in Msg, Stored(m)'
               PROVE  Accepted(m)'
    BY DEF StoredInv
  <1>a. HeldTypes /\ TypeSubmit /\ TypeStore
    BY HeldTyped DEF TypeOK
  <1>b. Stored(m) => Accepted(m)
    BY DEF StoredInv
  <1>c. OkDue(m).job = SubmitJob(m) /\ OkDue(m).status = "ok"
    BY DEF OkDue
  <1>d. OkDue(m)' = OkDue(m)
    BY DEF OkDue, SubmitJob
  <1> USE DEF Accepted
  <1>1. CASE UNCHANGED <<phase, resp, rows, taken, refused>> /\ cb \subseteq cb'
    BY <1>1, <1>b, <1>d DEF Stored
  <1>2. ASSUME NEW n \in Msg, Submission(n)
        PROVE  Accepted(m)'
    <2>1. Stored(m)
      BY <1>2, SubmissionAnswers DEF Stored
    <2>2. n # m
      BY <1>2, <1>b, <2>1, SubmissionAnswers DEF HeldInv, AnsweredOnce
    <2> QED
      BY <1>2, <1>b, <1>d, <2>1, <2>2, SubmissionAnswers
  <1>3. ASSUME NEW j \in storing, InsertRow(j)
        PROVE  Accepted(m)'
    <2>1. UNCHANGED <<phase, resp>> /\ cb \subseteq cb'
      BY <1>3 DEF InsertRow, Callback, submitVars
    <2>2. CASE Stored(m)
      BY <1>b, <1>d, <2>1, <2>2
    <2>3. CASE ~Stored(m)
      <3>1. /\ nextGid <= MaxGid /\ rows' = [rows EXCEPT ![nextGid] = j.msg]
            /\ Callback(j, "ok")
        BY <1>3, <2>3 DEF InsertRow, Stored
      <3>2. j.msg = m
        BY <1>a, <2>3, <3>1 DEF Stored, TypeStore
      <3>3. j \in Job /\ IsLive(j)
        BY <1>a DEF HeldTypes, IsLive
      <3>4. j.gid = 0
        <4> SUFFICES ASSUME j.gid # 0 PROVE FALSE
          OBVIOUS
        <4>1. rows[j.gid] = m /\ j.gid \in Gid
          BY <3>2, <3>3 DEF HeldInv, RowsClaimed
        <4> QED
          BY <2>3, <4>1 DEF Stored
      <3>5. j = SubmitJob(m)
        BY <3>2, <3>3, <3>4 DEF SubmitJob
      <3>6. phase[m] = "queued"
        BY <3>3, <3>5 DEF HeldInv, SubmitLive
      <3> QED
        BY <1>d, <2>1, <3>1, <3>5, <3>6 DEF Callback, OkDue
    <2> QED
      BY <2>2, <2>3
  <1>4. ASSUME NEW c \in cb, CallbackSubmit(c)
        PROVE  Accepted(m)'
    <2>1. PICK n \in Msg :
             /\ c.job = SubmitJob(n) /\ phase[n] = "queued" /\ resp[n] = "none"
             /\ resp'[n] = c.status
             /\ \A k \in Msg \ {n} : phase'[k] = phase[k] /\ resp'[k] = resp[k]
             /\ \A d \in cb : d.job = c.job => d = c
             /\ UNCHANGED rows /\ cb' = cb \ {c}
      BY <1>4, SubmitCallback
    <2>2. Stored(m)
      BY <2>1 DEF Stored
    <2>3. CASE n = m
      BY <1>b, <1>c, <2>1, <2>2, <2>3
    <2>4. CASE n # m
      <3>1. OkDue(m) # c
        BY <1>c, <2>1, <2>4 DEF SubmitJob
      <3> QED
        BY <1>b, <1>d, <2>1, <2>2, <2>4, <3>1
    <2> QED
      BY <2>3, <2>4
  <1>5. ASSUME NEW c \in cb, RequeueResult(c)
        PROVE  Accepted(m)'
    <2>1. UNCHANGED <<phase, resp>> /\ cb' = cb \ {c} /\ c.job.gid > 0
      BY <1>5 DEF RequeueResult, submitVars
    <2>2. Stored(m)
      <3>1. c.job.gid \in Gid
        BY <1>a, <2>1 DEF HeldTypes
      <3>2. PICK g \in Gid : rows'[g] = m
        BY DEF Stored
      <3>3. rows[g] = m
        BY <1>a, <1>5, <3>1, <3>2 DEF RequeueResult, TypeStore
      <3> QED
        BY <3>3 DEF Stored
    <2>3. OkDue(m) # c
      BY <1>c, <2>1, SubmitTyped
    <2> QED
      BY <1>b, <1>d, <2>1, <2>2, <2>3
  <1>6. ASSUME NEW b \in Box, NEW j \in sent[b], BearerboxHandles(b, j)
        PROVE  Accepted(m)'
    BY <1>6, <1>b, <1>d DEF BearerboxHandles, submitVars, queueVars, storeVars, Stored
  <1>7. CASE Crash
    <2>1. UNCHANGED <<resp, rows>>
      BY <1>7 DEF Crash
    <2>2. phase[m] \in {"lost", "queued"} => phase'[m] = "lost"
      BY <1>7 DEF Crash
    <2> QED
      BY <1>b, <2>1, <2>2 DEF Stored
  <1> QED
    BY <1>1, <1>2, <1>3, <1>4, <1>5, <1>6, <1>7, Quiet

\* In every reachable state a row belongs to a message that was accepted, is
\* being accepted, or was lost in a crash before its ESME heard of it.
THEOREM StoredInvariant == Spec => []StoredInv
  <1>1. Init => StoredInv
    BY DEF Init, StoredInv, Stored
  <1>2. Spec => [](TypeOK /\ KeptInv /\ HeldInv)
    BY TypeCorrect, KeptInvariant, HeldInvariant, PTL
  <1> QED
    BY <1>1, <1>2, NextStored, PTL DEF Spec

\* An ESME that got an error response may submit again without doubt about the
\* store: no row of its message is there to be sent besides the retry.
THEOREM RetryIsClean == Spec => []FailedIsNotStored
  <1>1. HeldInv /\ StoredInv => FailedIsNotStored
    <2> SUFFICES ASSUME HeldInv, StoredInv, NEW m \in Msg,
                        resp[m] \in {"rejected", "syserr", "submitfail"}, Stored(m)
                 PROVE  FALSE
      BY DEF FailedIsNotStored
    <2>1. phase[m] = "answered"
      BY DEF HeldInv, AnsweredOnce
    <2> QED
      BY <2>1 DEF StoredInv, Accepted
  <1> QED
    BY <1>1, HeldInvariant, StoredInvariant, PTL

-----------------------------------------------------------------------------
(* The messages of store-primary accounts *)

NotPrimary(j) == j.msg \notin PrimaryMsg

\* Nothing on its way to bearerbox belongs to a store-primary account, and
\* bearerbox has never decided about such a message.
PrimaryInv ==
  /\ \A j \in outq \cup batch : NotPrimary(j)
  /\ \A b \in Box : Carries(b) \/ wpc[b] = "locked" => NotPrimary(hand[b])
  /\ \A b \in Box : \A j \in sent[b] : NotPrimary(j)
  /\ \A m \in PrimaryMsg : taken[m] = 0 /\ m \notin refused

\* The drain's account filter and the routing callback's choice of the store
\* keep it; no later step looks at the account again.
LEMMA NextPrimary == TypeOK /\ HeldInv /\ PrimaryInv /\ [Next]_vars => PrimaryInv'
  <1> SUFFICES ASSUME TypeOK, HeldInv, PrimaryInv, [Next]_vars PROVE PrimaryInv'
    OBVIOUS
  <1>a. HeldTypes /\ TypeRemote /\ TypeStore
    BY HeldTyped DEF TypeOK
  <1>b. /\ \A j \in outq \cup batch : NotPrimary(j)
        /\ \A b \in Box : Carries(b) \/ wpc[b] = "locked" => NotPrimary(hand[b])
        /\ \A b \in Box : \A j \in sent[b] : NotPrimary(j)
        /\ \A m \in PrimaryMsg : taken[m] = 0 /\ m \notin refused
    BY DEF PrimaryInv
  <1> USE DEF boxVars, remoteVars, storeVars, queueVars, submitVars
  <1>1. ASSUME NEW m \in Msg, Submission(m) PROVE PrimaryInv'
    <2>1. UNCHANGED <<batch, wpc, hand, sent, taken, refused>>
      BY <1>1 DEF Submission, HandleSubmit, RoutingDone, DeductCredit, Dispatch
    <2>2. outq' = outq \/ (m \notin PrimaryMsg /\ outq' = outq \cup {SubmitJob(m)})
      BY <1>1 DEF Submission, HandleSubmit, RoutingDone, DeductCredit, Dispatch, AddToQueue
    <2>3. SubmitJob(m).msg = m
      BY DEF SubmitJob
    <2> QED
      BY <1>b, <2>1, <2>2, <2>3 DEF PrimaryInv, NotPrimary, Carries
  <1>2. CASE \/ \E j \in storing : InsertRow(j)
             \/ \E c \in cb : CallbackSubmit(c) \/ RequeueResult(c)
             \/ \E g \in releasing : ReleaseClaim(g)
    <2>1. UNCHANGED <<outq, batch, wpc, hand, sent, taken, refused>>
      BY <1>2 DEF InsertRow, CallbackSubmit, RequeueResult, ReleaseClaim
    <2> QED
      BY <1>b, <2>1 DEF PrimaryInv, Carries
  <1>3. CASE ClaimStored
    <2>1. /\ batch' = {[gid |-> g, msg |-> rows[g]] : g \in Drainable}
          /\ UNCHANGED <<outq, wpc, hand, sent, taken, refused>>
      BY <1>3 DEF ClaimStored
    <2>2. \A j \in batch' : NotPrimary(j)
      BY <2>1 DEF Drainable, NotPrimary
    <2> QED
      BY <1>b, <2>1, <2>2 DEF PrimaryInv, Carries
  <1>4. ASSUME NEW j \in batch, RequeueStored(j) PROVE PrimaryInv'
    <2>1. /\ batch' = batch \ {j} /\ outq' = outq \cup {j}
          /\ UNCHANGED <<wpc, hand, sent, taken, refused>>
      BY <1>4 DEF RequeueStored
    <2> QED
      BY <1>b, <2>1 DEF PrimaryInv, Carries
  <1>5. ASSUME NEW b \in Box, Writer(b) PROVE PrimaryInv'
    <2>1. UNCHANGED <<batch, taken, refused>>
      BY <1>5 DEF Writer, WriterCheck, Consume, WriterLock, WriterDeliver, WriterRequeue
    <2>2. /\ \A d \in Box \ {b} : wpc'[d] = wpc[d] /\ hand'[d] = hand[d] /\ sent'[d] = sent[d]
          /\ \A j \in outq' : j \in outq \/ ((Carries(b) \/ wpc[b] = "locked") /\ j = hand[b])
          /\ \A j \in sent'[b] : j \in sent[b] \/ ((Carries(b) \/ wpc[b] = "locked") /\ j = hand[b])
          /\ Carries(b)' \/ wpc'[b] = "locked" =>
                hand'[b] \in outq \/ ((Carries(b) \/ wpc[b] = "locked") /\ hand'[b] = hand[b])
      <3>1. CASE WriterCheck(b)
        BY <1>a, <3>1 DEF WriterCheck, HeldTypes, Carries
      <3>2. ASSUME NEW j \in outq, Consume(b, j) PROVE <2>2!:
        BY <1>a, <3>2 DEF Consume, HeldTypes, Carries
      <3>3. CASE WriterLock(b)
        BY <1>a, <3>3 DEF WriterLock, HeldTypes, Carries
      <3>4. CASE WriterDeliver(b)
        BY <1>a, <3>4 DEF WriterDeliver, HeldTypes, Carries
      <3>5. CASE WriterRequeue(b)
        BY <1>a, <3>5 DEF WriterRequeue, AddToQueue, HeldTypes, Carries
      <3> QED
        BY <1>5, <3>1, <3>2, <3>3, <3>4, <3>5 DEF Writer
    <2>3. \A j \in outq' \cup batch' : NotPrimary(j)
      BY <1>b, <2>1, <2>2
    <2>4. \A d \in Box : Carries(d)' \/ wpc'[d] = "locked" => NotPrimary(hand'[d])
      <3> SUFFICES ASSUME NEW d \in Box, Carries(d)' \/ wpc'[d] = "locked"
                   PROVE  NotPrimary(hand'[d])
        OBVIOUS
      <3>1. CASE d = b
        BY <1>b, <2>2, <3>1
      <3>2. CASE d # b
        BY <1>b, <2>2, <3>2 DEF Carries
      <3> QED
        BY <3>1, <3>2
    <2>5. \A d \in Box : \A j \in sent'[d] : NotPrimary(j)
      BY <1>b, <2>2
    <2> QED
      BY <1>b, <2>1, <2>3, <2>4, <2>5 DEF PrimaryInv, NotPrimary
  <1>6. ASSUME NEW b \in Box, Reader(b) \/ SetStateDown(b) PROVE PrimaryInv'
    <2>1. UNCHANGED <<outq, batch, wpc, hand, taken, refused>>
      BY <1>6 DEF Reader, Reconnect, ReconnectFails, DropConnection, ReadAck, ReadFails,
                  ReaderLeaves, SetStateDown
    <2>2. \A d \in Box : sent'[d] \subseteq sent[d]
      BY <1>a, <1>6 DEF Reader, Reconnect, ReconnectFails, DropConnection, ReadAck, ReadFails,
                  ReaderLeaves, SetStateDown, HeldTypes
    <2> QED
      BY <1>b, <2>1, <2>2 DEF PrimaryInv, Carries
  <1>7. ASSUME NEW b \in Box, NEW j \in sent[b], BearerboxHandles(b, j) PROVE PrimaryInv'
    <2>1. NotPrimary(j) /\ j \in Job
      BY <1>a, <1>b DEF HeldTypes
    <2>2. UNCHANGED <<outq, batch, wpc, hand>> /\ \A d \in Box : sent'[d] \subseteq sent[d]
      BY <1>a, <1>7 DEF BearerboxHandles, HeldTypes
    <2>3. \A m \in PrimaryMsg : taken'[m] = taken[m] /\ (m \in refused' => m \in refused)
      BY <1>a, <1>7, <2>1 DEF BearerboxHandles, NotPrimary, TypeRemote
    <2> QED
      BY <1>b, <2>2, <2>3 DEF PrimaryInv, Carries
  <1>8. CASE Crash
    <2>1. /\ outq' = {} /\ batch' = {} /\ UNCHANGED <<taken, refused>>
          /\ \A b \in Box : wpc'[b] = "check" /\ sent'[b] = {}
      BY <1>8 DEF Crash
    <2> QED
      BY <1>b, <2>1 DEF PrimaryInv, Carries
  <1>9. CASE UNCHANGED vars
    BY <1>b, <1>9 DEF vars, PrimaryInv, Carries
  <1> QED
    BY <1>1, <1>2, <1>3, <1>4, <1>5, <1>6, <1>7, <1>8, <1>9 DEF Next

\* The bearerbox drain never sends the message of a store-primary account, and
\* once its ESME was told ok the row is there for its external reader.
THEOREM PrimaryKept == Spec => []PrimaryStaysStored
  <1>1. Init => PrimaryInv
    BY DEF Init, PrimaryInv, Carries
  <1>2. Spec => []PrimaryInv
    BY <1>1, NextPrimary, TypeCorrect, HeldInvariant, PTL DEF Spec
  <1>3. PrimaryInv /\ OkIsKept => PrimaryStaysStored
    BY DEF PrimaryInv, OkIsKept, Kept, PrimaryStaysStored
  <1> QED
    BY <1>2, <1>3, OkAlwaysKept, PTL

-----------------------------------------------------------------------------
(* The refinement of SubmitService *)

\* The refinement mapping at one message.
AnswerOf(r) == CASE r = "none" -> "none" [] r = "ok" -> "ok" [] OTHER -> "error"

KeptMsgs == {m \in Msg : Kept(m)}

\* Equal responses map to equal answers; nothing kept, nothing to keep.
LEMMA MappingFrame ==
  /\ Answer2Service = [m \in Msg |-> AnswerOf(resp[m])]
  /\ UNCHANGED resp => UNCHANGED Answer2Service
  /\ UNCHANGED <<rows, taken, refused>> => UNCHANGED KeptMsgs
  BY DEF Answer2Service, AnswerOf, KeptMsgs, Kept, Stored

\* One response changed is one answer changed.
LEMMA MappingStep ==
  ASSUME NEW m \in Msg, \A n \in Msg \ {m} : resp'[n] = resp[n]
  PROVE  Answer2Service' = [Answer2Service EXCEPT ![m] = AnswerOf(resp'[m])]
  BY DEF Answer2Service, AnswerOf

\* Every step of the path is a step of the service, or none: routing and the
\* callbacks answer, an INSERT and bearerbox take a message into keeping, and
\* no other step (not a lost connection, not a DELETE, not a crash) is visible.
LEMMA StepSimulation ==
  TypeOK /\ KeptInv /\ HeldInv /\ [Next]_vars => [Service!Next]_(Service!vars)
  <1> SUFFICES ASSUME TypeOK, KeptInv, HeldInv, [Next]_vars
               PROVE  [Service!Next]_(Service!vars)
    OBVIOUS
  <1>a. HeldTypes /\ TypeSubmit /\ TypeStore /\ TypeRemote
    BY HeldTyped DEF TypeOK
  <1>b. Service!vars = <<Answer2Service, KeptMsgs>>
    BY DEF Service!vars, KeptMsgs
  <1>c. \A m \in Msg : KeptMsgs' = KeptMsgs \cup {m} /\ UNCHANGED Answer2Service => Service!Next
    BY DEF Service!Next, Service!Keep, KeptMsgs
  <1>d. \A m \in Msg : /\ Answer2Service[m] = "none" /\ m \in KeptMsgs
                       /\ Answer2Service' = [Answer2Service EXCEPT ![m] = "ok"]
                       /\ UNCHANGED KeptMsgs
                       => Service!Next
    BY DEF Service!Next, Service!AnswerOk, KeptMsgs
  <1>e. \A m \in Msg : /\ Answer2Service[m] = "none"
                       /\ Answer2Service' = [Answer2Service EXCEPT ![m] = "error"]
                       /\ UNCHANGED KeptMsgs
                       => Service!Next
    BY DEF Service!Next, Service!AnswerError, KeptMsgs
  <1>f. UNCHANGED <<Answer2Service, KeptMsgs>> => [Service!Next]_(Service!vars)
    BY <1>b DEF Service!vars, KeptMsgs
  <1>g. SUFFICES \/ UNCHANGED <<Answer2Service, KeptMsgs>>
                 \/ Service!Next
    BY <1>f
  <1>1. CASE UNCHANGED <<phase, resp, rows, taken, refused>>
    BY <1>1, MappingFrame
  <1>2. ASSUME NEW m \in Msg, Submission(m)
        PROVE  UNCHANGED <<Answer2Service, KeptMsgs>> \/ Service!Next
    <2>1. /\ phase[m] # "answered" /\ UNCHANGED <<rows, taken, refused>>
          /\ resp'[m] = resp[m] \/ resp'[m] \in {"rejected", "submitfail"}
          /\ \A n \in Msg \ {m} : resp'[n] = resp[n]
      BY <1>2, SubmissionAnswers
    <2>2. resp[m] = "none"
      BY <2>1 DEF HeldInv, AnsweredOnce
    <2>3. Answer2Service[m] = "none"
      BY <2>2, MappingFrame DEF AnswerOf
    <2>4. CASE resp'[m] = resp[m]
      <3>1. Answer2Service' = [Answer2Service EXCEPT ![m] = "none"]
        BY <2>1, <2>2, <2>4, MappingStep DEF AnswerOf
      <3>2. UNCHANGED Answer2Service
        BY <2>3, <3>1 DEF Answer2Service
      <3> QED
        BY <2>1, <3>2, MappingFrame
    <2>5. CASE resp'[m] \in {"rejected", "submitfail"}
      <3>1. Answer2Service' = [Answer2Service EXCEPT ![m] = "error"]
        BY <2>1, <2>5, MappingStep DEF AnswerOf
      <3> QED
        BY <1>e, <2>1, <2>3, <3>1, MappingFrame
    <2> QED
      BY <2>1, <2>4, <2>5
  <1>3. ASSUME NEW j \in storing, InsertRow(j)
        PROVE  UNCHANGED <<Answer2Service, KeptMsgs>> \/ Service!Next
    <2>1. UNCHANGED <<resp, taken, refused>> /\ UNCHANGED Answer2Service
      BY <1>3, MappingFrame DEF InsertRow, submitVars, remoteVars
    <2>2. CASE UNCHANGED rows
      BY <2>1, <2>2, MappingFrame
    <2>3. CASE nextGid <= MaxGid /\ rows' = [rows EXCEPT ![nextGid] = j.msg]
      <3>1. nextGid \in Gid /\ rows[nextGid] = NoMsg /\ j.msg \in Msg
        BY <1>a, <2>3 DEF KeptInv, RowsFresh, TypeStore, HeldTypes
      <3>2. \A m \in Msg : Stored(m)' <=> Stored(m) \/ m = j.msg
        BY <1>a, <2>3, <3>1 DEF Stored, TypeStore
      <3>3. KeptMsgs' = KeptMsgs \cup {j.msg}
        BY <2>1, <3>1, <3>2 DEF KeptMsgs, Kept
      <3> QED
        BY <1>c, <2>1, <3>1, <3>3
    <2> QED
      BY <1>3, <2>2, <2>3 DEF InsertRow
  <1>4. ASSUME NEW c \in cb, CallbackSubmit(c)
        PROVE  UNCHANGED <<Answer2Service, KeptMsgs>> \/ Service!Next
    <2>1. PICK m \in Msg : /\ c.job = SubmitJob(m) /\ c.status \in Status
                           /\ resp[m] = "none" /\ resp'[m] = c.status
                           /\ \A n \in Msg \ {m} : resp'[n] = resp[n]
                           /\ UNCHANGED <<rows, taken, refused>>
      BY <1>4, SubmitCallback
    <2>2. Answer2Service[m] = "none" /\ UNCHANGED KeptMsgs
      BY <2>1, MappingFrame DEF AnswerOf
    <2>3. CASE c.status = "ok"
      <3>1. Backed(c.job.msg, c.job.gid)
        BY <2>3 DEF KeptInv, CallbacksBacked
      <3>2. m \in KeptMsgs
        BY <2>1, <3>1 DEF SubmitJob, Backed, KeptMsgs, Kept, Stored
      <3>3. Answer2Service' = [Answer2Service EXCEPT ![m] = "ok"]
        BY <2>1, <2>3, MappingStep DEF AnswerOf
      <3> QED
        BY <1>d, <2>2, <3>2, <3>3
    <2>4. CASE c.status # "ok"
      <3>1. Answer2Service' = [Answer2Service EXCEPT ![m] = "error"]
        BY <2>1, <2>4, MappingStep DEF AnswerOf
      <3> QED
        BY <1>e, <2>2, <3>1
    <2> QED
      BY <2>3, <2>4
  <1>5. ASSUME NEW c \in cb, RequeueResult(c)
        PROVE  UNCHANGED <<Answer2Service, KeptMsgs>> \/ Service!Next
    <2>1. UNCHANGED <<resp, taken, refused>> /\ UNCHANGED Answer2Service
      BY <1>5, MappingFrame DEF RequeueResult, submitVars, remoteVars
    <2>2. \A m \in Msg : Kept(m) => Kept(m)'
      BY NextMonotone DEF Monotone
    <2>3. \A m \in Msg : Stored(m)' => Stored(m)
      BY <1>a, <1>5 DEF RequeueResult, Stored, TypeStore, HeldTypes
    <2>4. UNCHANGED KeptMsgs
      BY <2>1, <2>2, <2>3 DEF KeptMsgs, Kept
    <2> QED
      BY <2>1, <2>4
  <1>6. ASSUME NEW b \in Box, NEW j \in sent[b], BearerboxHandles(b, j)
        PROVE  UNCHANGED <<Answer2Service, KeptMsgs>> \/ Service!Next
    <2>1. UNCHANGED <<resp, rows>> /\ UNCHANGED Answer2Service /\ j.msg \in Msg
      BY <1>a, <1>6, MappingFrame DEF BearerboxHandles, submitVars, storeVars, HeldTypes
    <2>2. CASE UNCHANGED <<taken, refused>>
      BY <2>1, <2>2, MappingFrame
    <2>3. CASE taken' = [taken EXCEPT ![j.msg] = @ + 1] /\ UNCHANGED refused
      <3>1. \A m \in Msg : taken'[m] > 0 <=> taken[m] > 0 \/ m = j.msg
        BY <1>a, <2>1, <2>3 DEF TypeRemote
      <3>2. KeptMsgs' = KeptMsgs \cup {j.msg}
        BY <2>1, <2>3, <3>1 DEF KeptMsgs, Kept, Stored
      <3> QED
        BY <1>c, <2>1, <3>2
    <2>4. CASE refused' = refused \cup {j.msg} /\ UNCHANGED taken
      <3>1. KeptMsgs' = KeptMsgs \cup {j.msg}
        BY <2>1, <2>4 DEF KeptMsgs, Kept, Stored
      <3> QED
        BY <1>c, <2>1, <3>1
    <2> QED
      BY <1>6, <2>2, <2>3, <2>4 DEF BearerboxHandles
  <1>7. CASE Crash
    BY <1>7, MappingFrame DEF Crash, remoteVars
  <1> QED
    BY <1>1, <1>2, <1>3, <1>4, <1>5, <1>6, <1>7, Quiet

\* The whole path, for every number of messages, boxes, rows and faults,
\* implements the service an ESME relies on: one response at most, and ok only
\* for a message somebody else answers for from then on.
THEOREM ServiceImplemented == Spec => ImplementsService
  <1>1. Init => Service!Init
    BY DEF Init, Service!Init, Answer2Service, Kept, Stored
  <1>2. Spec => [](TypeOK /\ KeptInv /\ HeldInv)
    BY TypeCorrect, KeptInvariant, HeldInvariant, PTL
  <1> QED
    BY <1>1, <1>2, StepSimulation, PTL DEF Spec, ImplementsService, Service!Spec

-----------------------------------------------------------------------------
(* The prepaid balance *)

Charging == {n \in Msg : phase[n] = "charging"}
Busy == {n \in Msg : phase[n] \in {"charging", "dispatch"}}

\* With c no less than any cost: no thread that has passed the SELECT leaves the
\* balance above the floor, and with k of them the last one to pass has seen its
\* own cost covered, so that k - 1 more can be deducted.
Floor(c) ==
  /\ Charging = {} => credit >= -((RoutingThreads - 1) * c)
  /\ Charging # {} =>
       \E m \in Charging : credit - Cost[m] >= (Cardinality(Charging) - RoutingThreads) * c

CreditInv ==
  /\ IsFiniteSet(Busy) /\ Cardinality(Busy) <= RoutingThreads
  /\ \A c \in Nat : (\A n \in Msg : Cost[n] <= c) => Floor(c)

\* In any case the balance is above the floor of the property.
LEMMA FloorBounds ==
  ASSUME TypeSubmit, IsFiniteSet(Busy), NEW c \in Nat, Floor(c)
  PROVE  credit >= -((RoutingThreads - 1) * c)
  <1>1. CASE Charging = {}
    BY <1>1 DEF Floor
  <1>2. CASE Charging # {}
    <2>1. PICK m \in Charging : credit - Cost[m] >= (Cardinality(Charging) - RoutingThreads) * c
      BY <1>2 DEF Floor
    <2>2. IsFiniteSet(Charging)
      BY FS_Subset DEF Charging, Busy
    <2>3. Cardinality(Charging) \in Nat /\ Cardinality(Charging) # 0
      BY <1>2, <2>2, FS_CardinalityType, FS_EmptySet
    <2> DEFINE k == Cardinality(Charging)
    <2>4. k \in Nat /\ k >= 1 /\ credit - Cost[m] >= (k - RoutingThreads) * c
      BY <2>1, <2>3
    <2> HIDE DEF k
    <2>5. Cost[m] \in Nat /\ credit \in Int
      BY DEF Charging, TypeSubmit
    <2>6. (k - RoutingThreads) * c = (k - 1) * c - (RoutingThreads - 1) * c
      BY <2>4
    <2>7. (k - 1) * c >= 0 /\ (k - 1) * c \in Int /\ (RoutingThreads - 1) * c \in Int
      BY <2>4
    <2> QED
      BY <2>4, <2>5, <2>6, <2>7
  <1> QED
    BY <1>1, <1>2

\* Threads leave the two statements of deduct_credit: one that is charged takes
\* its cost off the balance, one that fails takes nothing.
LEMMA FloorLeave ==
  ASSUME TypeSubmit, IsFiniteSet(Busy), NEW c \in Nat, \A n \in Msg : Cost[n] <= c, Floor(c),
         NEW m \in Charging, Charging' = Charging \ {m},
         credit' = credit \/ credit' = credit - Cost[m]
  PROVE  Floor(c)'
  <1>1. IsFiniteSet(Charging)
    BY FS_Subset DEF Charging, Busy
  <1> DEFINE k == Cardinality(Charging)
  <1>2. k \in Nat /\ Cardinality(Charging \ {m}) = k - 1
    BY <1>1, FS_CardinalityType, FS_RemoveElement
  <1>3. PICK p \in Charging : credit - Cost[p] >= (k - RoutingThreads) * c
    BY DEF Floor
  <1>4. \A n \in Charging : Cost[n] \in Nat /\ Cost[n] <= c
    BY DEF Charging
  <1>5. credit \in Int
    BY DEF TypeSubmit
  <1>6. (k - 1 - RoutingThreads) * c = (k - RoutingThreads) * c - c /\ (k - RoutingThreads) * c \in Int
    BY <1>2
  <1>7. CASE Charging \ {m} = {}
    <2>1. k = 1 /\ p = m
      BY <1>1, <1>2, <1>3, <1>7, FS_EmptySet
    <2>2. (k - RoutingThreads) * c = -((RoutingThreads - 1) * c)
      BY <2>1
    <2> HIDE DEF k
    <2>3. credit' >= -((RoutingThreads - 1) * c)
      BY <1>3, <1>4, <1>5, <1>6, <2>1, <2>2
    <2> QED
      BY <1>7, <2>3 DEF Floor
  <1>8. CASE Charging \ {m} # {}
    <2>1. PICK q \in Charging \ {m} : p = m \/ q = p
      BY <1>8
    <2> HIDE DEF k
    <2>2. credit' - Cost[q] >= (k - 1 - RoutingThreads) * c
      <3>1. Cost[q] \in Nat /\ Cost[q] <= c /\ Cost[m] \in Nat /\ Cost[m] <= c
        BY <1>4, <2>1
      <3>2. CASE p = m
        BY <1>3, <1>5, <1>6, <3>1, <3>2
      <3>3. CASE q = p
        BY <1>3, <1>5, <1>6, <3>1, <3>3
      <3> QED
        BY <2>1, <3>2, <3>3
    <2>3. Cardinality(Charging') = k - 1
      BY <1>2
    <2> QED
      BY <1>8, <2>1, <2>2, <2>3 DEF Floor
  <1> QED
    BY <1>7, <1>8

\* A step that changes neither the balance nor who is being charged, or a crash.
LEMMA FloorFrame ==
  ASSUME TypeSubmit, IsFiniteSet(Busy), NEW c \in Nat, Floor(c), UNCHANGED credit,
         UNCHANGED Charging \/ Charging' = {}
  PROVE  Floor(c)'
  <1>1. CASE UNCHANGED Charging
    BY <1>1 DEF Floor
  <1>2. CASE Charging' = {}
    BY <1>2, FloorBounds DEF Floor
  <1> QED
    BY <1>1, <1>2

\* Every step keeps the floor: only the SELECT and the UPDATE of deduct_credit
\* change the balance or the threads between them.
LEMMA NextCredit == TypeOK /\ HeldInv /\ CreditInv /\ [Next]_vars => CreditInv'
  <1> SUFFICES ASSUME TypeOK, HeldInv, CreditInv, [Next]_vars PROVE CreditInv'
    OBVIOUS
  <1>a. TypeSubmit /\ IsFiniteSet(Busy) /\ Cardinality(Busy) <= RoutingThreads
    BY DEF TypeOK, CreditInv
  <1>b. Cardinality(Busy) \in Nat
    BY <1>a, FS_CardinalityType
  <1>c. ASSUME UNCHANGED credit, UNCHANGED Charging \/ Charging' = {}, Busy' \subseteq Busy
        PROVE  CreditInv'
    <2>1. IsFiniteSet(Busy') /\ Cardinality(Busy') <= Cardinality(Busy) /\ Cardinality(Busy') \in Nat
      BY <1>a, <1>c, FS_Subset, FS_CardinalityType
    <2>2. \A c \in Nat : (\A n \in Msg : Cost[n] <= c) => Floor(c)'
      BY <1>a, <1>c, FloorFrame DEF CreditInv
    <2> QED
      BY <1>a, <1>b, <2>1, <2>2 DEF CreditInv
  <1> USE DEF boxVars, remoteVars, storeVars, queueVars, submitVars
  <1>1. ASSUME NEW m \in Msg, RoutingDone(m), phase'[m] \in {"charging", "dispatch"} PROVE CreditInv'
    <2>1. /\ phase[m] = "routing" /\ Cardinality(Busy) < RoutingThreads
          /\ UNCHANGED credit
          /\ \A n \in Msg \ {m} : phase'[n] = phase[n]
          /\ phase'[m] = "charging" => credit >= Cost[m]
      BY <1>1, <1>a DEF RoutingDone, Answer, TypeSubmit, Busy
    <2>2. Busy' = Busy \cup {m} /\ m \notin Busy
      BY <1>1, <2>1 DEF Busy
    <2>3. IsFiniteSet(Busy') /\ Cardinality(Busy') <= RoutingThreads
      <3>1. IsFiniteSet(Busy \cup {m}) /\ Cardinality(Busy \cup {m}) = Cardinality(Busy) + 1
        BY <1>a, <2>2, FS_AddElement
      <3> QED
        BY <1>b, <2>1, <2>2, <3>1
    <2>4. CASE phase'[m] = "dispatch"
      <3>1. UNCHANGED Charging
        BY <2>1, <2>4 DEF Charging
      <3>2. \A c \in Nat : (\A n \in Msg : Cost[n] <= c) => Floor(c)'
        BY <1>a, <2>1, <3>1, FloorFrame DEF CreditInv
      <3> QED
        BY <2>3, <3>2 DEF CreditInv
    <2>5. CASE phase'[m] = "charging"
      <3>1. m \in Charging' /\ Charging' \subseteq Busy'
        BY <2>5 DEF Charging, Busy
      <3>2. Cardinality(Charging') \in Nat /\ Cardinality(Charging') <= RoutingThreads
        <4>1. IsFiniteSet(Charging') /\ Cardinality(Charging') <= Cardinality(Busy')
          BY <2>3, <3>1, FS_Subset
        <4>2. Cardinality(Charging') \in Nat /\ Cardinality(Busy') \in Nat
          BY <2>3, <4>1, FS_CardinalityType
        <4> QED
          BY <2>3, <4>1, <4>2
      <3> DEFINE k == Cardinality(Charging')
      <3>3. k \in Nat /\ k <= RoutingThreads
        BY <3>2
      <3>4. credit' - Cost[m] >= 0 /\ Cost[m] \in Nat /\ credit' \in Int
        BY <1>a, <2>1, <2>5 DEF TypeSubmit
      <3>5. ASSUME NEW c \in Nat PROVE Floor(c)'
        <4> HIDE DEF k
        <4>1. (k - RoutingThreads) * c <= 0 /\ (k - RoutingThreads) * c \in Int
          <5>1. (RoutingThreads - k) * c >= 0
            BY <3>3
          <5> QED
            BY <3>3, <5>1
        <4>2. credit' - Cost[m] >= (k - RoutingThreads) * c
          BY <3>4, <4>1
        <4> QED
          BY <3>1, <4>2 DEF Floor, k
      <3> QED
        BY <2>3, <3>5 DEF CreditInv
    <2> QED
      BY <1>1, <2>4, <2>5
  <1>2. ASSUME NEW m \in Msg, HandleSubmit(m) \/ RoutingDone(m) \/ Dispatch(m),
               ~(RoutingDone(m) /\ phase'[m] \in {"charging", "dispatch"})
        PROVE  CreditInv'
    <2>1. UNCHANGED credit /\ phase[m] # "charging" /\ phase'[m] \notin {"charging", "dispatch"}
      BY <1>a, <1>2 DEF HandleSubmit, RoutingDone, Dispatch, Answer, TypeSubmit
    <2>2. \A n \in Msg \ {m} : phase'[n] = phase[n]
      BY <1>a, <1>2 DEF HandleSubmit, RoutingDone, Dispatch, Answer, TypeSubmit
    <2> QED
      BY <1>c, <2>1, <2>2 DEF Charging, Busy
  <1>3. ASSUME NEW m \in Msg, DeductCredit(m) PROVE CreditInv'
    <2>1. /\ phase[m] = "charging" /\ phase'[m] # "charging"
          /\ \A n \in Msg \ {m} : phase'[n] = phase[n]
          /\ credit' = credit \/ credit' = credit - Cost[m]
      BY <1>a, <1>3 DEF DeductCredit, Answer, TypeSubmit
    <2>2. m \in Charging /\ Charging' = Charging \ {m} /\ Busy' \subseteq Busy
      BY <2>1 DEF Charging, Busy
    <2>3. IsFiniteSet(Busy') /\ Cardinality(Busy') <= Cardinality(Busy) /\ Cardinality(Busy') \in Nat
      BY <1>a, <2>2, FS_Subset, FS_CardinalityType
    <2>4. \A c \in Nat : (\A n \in Msg : Cost[n] <= c) => Floor(c)'
      BY <1>a, <2>1, <2>2, FloorLeave DEF CreditInv
    <2> QED
      BY <1>a, <1>b, <2>3, <2>4 DEF CreditInv
  <1>4. ASSUME NEW c \in cb, CallbackSubmit(c) PROVE CreditInv'
    <2>1. PICK m \in Msg : /\ phase[m] = "queued" /\ phase'[m] = "answered"
                           /\ \A n \in Msg \ {m} : phase'[n] = phase[n]
      BY <1>4, SubmitCallback
    <2>2. UNCHANGED credit
      BY <1>4 DEF CallbackSubmit
    <2> QED
      BY <1>c, <2>1, <2>2 DEF Charging, Busy
  <1>5. CASE Crash
    <2>1. UNCHANGED credit /\ \A n \in Msg : phase'[n] \notin {"charging", "dispatch"}
      BY <1>5 DEF Crash
    <2> QED
      BY <1>c, <2>1 DEF Charging, Busy
  <1>6. CASE UNCHANGED <<phase, credit>>
    BY <1>c, <1>6 DEF Charging, Busy
  <1>7. CASE \/ \E j \in storing : InsertRow(j)
             \/ \E c \in cb : RequeueResult(c)
             \/ \E g \in releasing : ReleaseClaim(g)
             \/ ClaimStored \/ \E j \in batch : RequeueStored(j)
             \/ \E b \in Box : \E j \in sent[b] : BearerboxHandles(b, j)
             \/ UNCHANGED vars
    BY <1>6, <1>7 DEF InsertRow, RequeueResult, ReleaseClaim, ClaimStored, RequeueStored,
                      BearerboxHandles, vars
  <1>8. ASSUME NEW b \in Box, Writer(b) \/ Reader(b) \/ SetStateDown(b) PROVE CreditInv'
    BY <1>6, <1>8 DEF Writer, WriterCheck, Consume, WriterLock, WriterDeliver, WriterRequeue,
                      Reader, Reconnect, ReconnectFails, DropConnection, ReadAck, ReadFails,
                      ReaderLeaves, SetStateDown
  <1> QED
    BY <1>1, <1>2, <1>3, <1>4, <1>5, <1>7, <1>8 DEF Next, Submission

\* The SELECT and the UPDATE of deduct_credit are two statements, so the balance
\* can go below zero, but never by more than all but one of the routing threads
\* can take together: for every number of threads, messages and costs.
THEOREM OverdraftHasFloor == Spec => []OverdraftBounded
  <1>1. Init => CreditInv
    <2> SUFFICES ASSUME Init PROVE CreditInv
      OBVIOUS
    <2>1. Busy = {} /\ Charging = {} /\ credit = InitialCredit
      BY DEF Init, Busy, Charging
    <2>2. \A c \in Nat : (RoutingThreads - 1) * c \in Nat
      OBVIOUS
    <2>3. \A c \in Nat : credit >= -((RoutingThreads - 1) * c)
      BY <2>1, <2>2
    <2> QED
      BY <2>1, <2>3, FS_EmptySet DEF CreditInv, Floor
  <1>2. Spec => []CreditInv
    BY <1>1, NextCredit, TypeCorrect, HeldInvariant, PTL DEF Spec
  <1>3. TypeOK /\ CreditInv => OverdraftBounded
    <2> SUFFICES ASSUME TypeOK, CreditInv, NEW m \in Msg, \A n \in Msg : Cost[n] <= Cost[m]
                 PROVE  credit >= -((RoutingThreads - 1) * Cost[m])
      BY DEF OverdraftBounded
    <2>1. Cost[m] \in Nat /\ Floor(Cost[m]) /\ IsFiniteSet(Busy) /\ TypeSubmit
      BY DEF CreditInv, TypeOK
    <2> QED
      BY <2>1, FloorBounds
  <1> QED
    BY <1>2, <1>3, TypeCorrect, PTL

-----------------------------------------------------------------------------
(* How many copies bearerbox can get *)

\* The job of row g of m, or of m's submission when g = 0.
JobOf(g, m) == [gid |-> g, msg |-> m]

\* j may still reach bearerbox: it is queued, carried, being written or written.
InFlight(j) ==
  \/ j \in outq \/ j \in storing \/ j \in batch \/ InHand(j)
  \/ \E b \in Box : wpc[b] = "locked" /\ hand[b] = j
  \/ \E b \in Box : j \in sent[b]

\* What can still bring m to bearerbox without another fault: its submission, a
\* job in flight, or a row that is, or is about to be, unclaimed.
Early == {"new", "routing", "charging", "dispatch"}
Token(m, g) ==
  \/ InFlight(JobOf(g, m))
  \/ g = 0 /\ phase[m] \in Early
  \/ g > 0 /\ rows[g] = m /\ (g \notin pending \/ g \in releasing)
Tokens(m) == {g \in 0 .. MaxGid : Token(m, g)}

\* What there is of m: its submission, or the rows of the store.
Copies(m) == {g \in 0 .. MaxGid : (g = 0 /\ Token(m, 0)) \/ (g > 0 /\ rows[g] = m)}

\* What can add a row: a row's job that is about to be inserted again, and a
\* writer that will find its box dead with a job in its hand.
Forks(m) == {g \in Gid : JobOf(g, m) \in storing}
Doomed == {b \in Box : wpc[b] = "requeue" \/ (~alive[b] /\ wpc[b] \in {"wait", "got"})}

\* d of the faults were lost connections and could each add a row; e of them were
\* crashes or failed DELETEs and could each send all the rows once more.
CopiesWithin(m, d, e) ==
  /\ d + e <= faults
  /\ Cardinality(Copies(m)) + Cardinality(Forks(m)) + Cardinality(Doomed) <= 1 + d
  /\ taken[m] + Cardinality(Tokens(m)) <= 1 + e * (1 + d)

CopiesInv ==
  /\ IsFiniteSet(Doomed)
  /\ \A m \in Msg : \E d, e \in Nat : CopiesWithin(m, d, e)

\* A set of row numbers is finite, and counting respects inclusion.
LEMMA GidSets ==
  ASSUME NEW S \in SUBSET (0 .. MaxGid), NEW T \in SUBSET S
  PROVE  /\ IsFiniteSet(S) /\ Cardinality(S) \in Nat
         /\ Cardinality(T) \in Nat /\ Cardinality(T) <= Cardinality(S)
  <1>1. IsFiniteSet(0 .. MaxGid)
    BY FS_Interval
  <1>2. IsFiniteSet(S)
    BY <1>1, FS_Subset
  <1> QED
    BY <1>2, FS_Subset, FS_CardinalityType

\* One element more is at most one more to count.
LEMMA AddOne ==
  ASSUME NEW S, IsFiniteSet(S), NEW x
  PROVE  /\ IsFiniteSet(S \cup {x}) /\ Cardinality(S \cup {x}) \in Nat
         /\ Cardinality(S) \in Nat /\ Cardinality(S \cup {x}) <= Cardinality(S) + 1
  <1>1. Cardinality(S) \in Nat
    BY FS_CardinalityType
  <1>2. CASE x \in S
    <2>1. S \cup {x} = S
      BY <1>2
    <2> QED
      BY <1>1, <2>1
  <1>3. CASE x \notin S
    <2>1. IsFiniteSet(S \cup {x}) /\ Cardinality(S \cup {x}) = Cardinality(S) + 1
      BY <1>3, FS_AddElement
    <2> QED
      BY <1>1, <2>1
  <1> QED
    BY <1>2, <1>3

\* One number more, one less, or one for another.
LEMMA GidAdd ==
  ASSUME NEW S \in SUBSET (0 .. MaxGid), NEW a \in 0 .. MaxGid, NEW T \in SUBSET (S \cup {a})
  PROVE  Cardinality(T) \in Nat /\ Cardinality(S) \in Nat /\ Cardinality(T) <= Cardinality(S) + 1
  <1>1. IsFiniteSet(S) /\ Cardinality(S) \in Nat
    BY GidSets
  <1>2. Cardinality(S \cup {a}) <= Cardinality(S) + 1
    BY <1>1, AddOne
  <1>3. S \cup {a} \in SUBSET (0 .. MaxGid)
    OBVIOUS
  <1>4. /\ Cardinality(T) \in Nat /\ Cardinality(S \cup {a}) \in Nat
        /\ Cardinality(T) <= Cardinality(S \cup {a})
    BY <1>3, GidSets
  <1> QED
    BY <1>1, <1>2, <1>4

\* Among row numbers: without an element a set is smaller.
LEMMA GidRemove ==
  ASSUME NEW S \in SUBSET (0 .. MaxGid), NEW a \in S, NEW T \in SUBSET (S \ {a})
  PROVE  Cardinality(T) \in Nat /\ Cardinality(S) \in Nat /\ Cardinality(T) + 1 <= Cardinality(S)
  <1>1. IsFiniteSet(S) /\ Cardinality(S) \in Nat
    BY GidSets
  <1>2. Cardinality(S \ {a}) = Cardinality(S) - 1
    BY <1>1, FS_RemoveElement
  <1>3. S \ {a} \in SUBSET (0 .. MaxGid)
    OBVIOUS
  <1>4. Cardinality(T) \in Nat /\ Cardinality(T) <= Cardinality(S \ {a})
    BY <1>3, GidSets
  <1> QED
    BY <1>1, <1>2, <1>4

\* Among row numbers: an element replaced by another adds nothing.
LEMMA GidSwap ==
  ASSUME NEW S \in SUBSET (0 .. MaxGid), NEW a \in S, NEW c \in 0 .. MaxGid,
         NEW T \in SUBSET ((S \ {a}) \cup {c})
  PROVE  Cardinality(T) \in Nat /\ Cardinality(S) \in Nat /\ Cardinality(T) <= Cardinality(S)
  <1>1. S \ {a} \in SUBSET (0 .. MaxGid)
    OBVIOUS
  <1>2. /\ Cardinality(T) \in Nat /\ Cardinality(S \ {a}) \in Nat
        /\ Cardinality(T) <= Cardinality(S \ {a}) + 1
    BY <1>1, GidAdd
  <1>3. Cardinality(S) \in Nat /\ Cardinality(S \ {a}) + 1 <= Cardinality(S)
    BY GidRemove
  <1> QED
    BY <1>2, <1>3

\* The sets that are counted are sets of row numbers, before and after a step.
LEMMA CountedSets ==
  ASSUME NEW m \in Msg
  PROVE  /\ Tokens(m) \in SUBSET (0 .. MaxGid) /\ Tokens(m)' \in SUBSET (0 .. MaxGid)
         /\ Copies(m) \in SUBSET (0 .. MaxGid) /\ Copies(m)' \in SUBSET (0 .. MaxGid)
         /\ Forks(m) \in SUBSET (0 .. MaxGid) /\ Forks(m)' \in SUBSET (0 .. MaxGid)
  BY DEF Tokens, Copies, Forks

\* A job is the job of its own row and message, and of no other.
LEMMA JobIsOf ==
  /\ \A j \in Job : JobOf(j.gid, j.msg) = j /\ j.gid \in 0 .. MaxGid /\ j.msg \in Msg
  /\ \A g \in 0 .. MaxGid, m \in Msg : /\ JobOf(g, m) \in Job
                                       /\ JobOf(g, m).gid = g /\ JobOf(g, m).msg = m
  BY DEF JobOf

\* A step that adds no token, no copy and no fork of any message.
Shrinks ==
  \A m \in Msg : /\ Tokens(m)' \subseteq Tokens(m)
                 /\ Copies(m)' \subseteq Copies(m)
                 /\ Forks(m)' \subseteq Forks(m)

\* Such a step keeps the bound, when it dooms no writer or when it is a fault
\* that dooms one.
LEMMA StepShrinks ==
  ASSUME TypeOK, TypeOK', CopiesInv, Shrinks, UNCHANGED taken,
         \/ Doomed' \subseteq Doomed /\ faults' >= faults
         \/ \E b \in Box : Doomed' \subseteq Doomed \cup {b} /\ faults' = faults + 1
  PROVE  CopiesInv'
  <1>a. /\ faults \in Nat /\ faults' \in Nat /\ IsFiniteSet(Doomed)
        /\ \A m \in Msg : taken[m] \in Nat
    BY DEF TypeOK, CopiesInv, TypeRemote
  <1>b. Cardinality(Doomed) \in Nat
    BY <1>a, FS_CardinalityType
  <1>c. \A m \in Msg : /\ Cardinality(Tokens(m)') \in Nat /\ Cardinality(Tokens(m)) \in Nat
                       /\ Cardinality(Tokens(m)') <= Cardinality(Tokens(m))
                       /\ Cardinality(Copies(m)') \in Nat /\ Cardinality(Copies(m)) \in Nat
                       /\ Cardinality(Copies(m)') <= Cardinality(Copies(m))
                       /\ Cardinality(Forks(m)') \in Nat /\ Cardinality(Forks(m)) \in Nat
                       /\ Cardinality(Forks(m)') <= Cardinality(Forks(m))
    <2> TAKE m \in Msg
    <2>1. /\ Tokens(m)' \in SUBSET Tokens(m) /\ Copies(m)' \in SUBSET Copies(m)
          /\ Forks(m)' \in SUBSET Forks(m)
      BY DEF Shrinks
    <2> QED
      BY <2>1, CountedSets, GidSets
  <1>1. CASE Doomed' \subseteq Doomed /\ faults' >= faults
    <2>1. IsFiniteSet(Doomed') /\ Cardinality(Doomed') \in Nat /\ Cardinality(Doomed') <= Cardinality(Doomed)
      BY <1>1, <1>a, FS_Subset, FS_CardinalityType
    <2>2. ASSUME NEW m \in Msg PROVE \E d, e \in Nat : CopiesWithin(m, d, e)'
      <3>1. PICK d, e \in Nat : CopiesWithin(m, d, e)
        BY DEF CopiesInv
      <3>2. e * (1 + d) \in Nat
        OBVIOUS
      <3>3. CopiesWithin(m, d, e)'
        BY <1>1, <1>a, <1>b, <1>c, <2>1, <3>1, <3>2 DEF CopiesWithin
      <3> QED
        BY <3>3
    <2> QED
      BY <2>1, <2>2 DEF CopiesInv
  <1>2. ASSUME NEW b \in Box, Doomed' \subseteq Doomed \cup {b}, faults' = faults + 1
        PROVE  CopiesInv'
    <2>1. IsFiniteSet(Doomed \cup {b}) /\ Cardinality(Doomed \cup {b}) <= Cardinality(Doomed) + 1
      BY <1>a, AddOne
    <2>2. /\ IsFiniteSet(Doomed') /\ Cardinality(Doomed') \in Nat
          /\ Cardinality(Doomed') <= Cardinality(Doomed) + 1
      <3>1. IsFiniteSet(Doomed') /\ Cardinality(Doomed') <= Cardinality(Doomed \cup {b})
        BY <1>2, <2>1, FS_Subset
      <3>2. Cardinality(Doomed') \in Nat /\ Cardinality(Doomed \cup {b}) \in Nat
        BY <2>1, <3>1, FS_CardinalityType
      <3> QED
        BY <1>b, <2>1, <3>1, <3>2
    <2>3. ASSUME NEW m \in Msg PROVE \E d, e \in Nat : CopiesWithin(m, d, e)'
      <3>1. PICK d, e \in Nat : CopiesWithin(m, d, e)
        BY DEF CopiesInv
      <3>2. e * (1 + d) \in Nat /\ e * (1 + (d + 1)) = e * (1 + d) + e
        OBVIOUS
      <3>3. CopiesWithin(m, d + 1, e)'
        BY <1>2, <1>a, <1>b, <1>c, <2>2, <3>1, <3>2 DEF CopiesWithin
      <3>4. d + 1 \in Nat
        OBVIOUS
      <3> QED
        BY <3>3, <3>4
    <2> QED
      BY <2>2, <2>3 DEF CopiesInv
  <1> QED
    BY <1>1, <1>2

\* What a step must leave alone in order to add nothing.
LEMMA TokenFrame ==
  ASSUME \A j \in Job : InFlight(j)' => InFlight(j),
         \A m \in Msg : phase'[m] \in Early => phase[m] \in Early,
         \A g \in Gid : rows'[g] # NoMsg =>
            /\ rows'[g] = rows[g]
            /\ g \notin pending' \/ g \in releasing' => g \notin pending \/ g \in releasing,
         storing' \subseteq storing
  PROVE  Shrinks
  <1>1. ASSUME NEW m \in Msg, NEW g \in 0 .. MaxGid, Token(m, g)' PROVE Token(m, g)
    <2>1. CASE InFlight(JobOf(g, m))'
      BY <2>1, JobIsOf DEF Token
    <2>2. CASE g = 0 /\ phase'[m] \in Early
      BY <2>2 DEF Token
    <2>3. CASE g > 0 /\ rows'[g] = m /\ (g \notin pending' \/ g \in releasing')
      BY <2>3 DEF Token
    <2>4. JobOf(g, m)' = JobOf(g, m)
      BY DEF JobOf
    <2> QED
      BY <1>1, <2>1, <2>2, <2>3, <2>4 DEF Token
  <1>2. \A m \in Msg : Tokens(m)' \subseteq Tokens(m)
    BY <1>1 DEF Tokens
  <1>3. \A m \in Msg : Copies(m)' \subseteq Copies(m)
    <2> SUFFICES ASSUME NEW m \in Msg, NEW g \in Copies(m)' PROVE g \in Copies(m)
      OBVIOUS
    <2>1. g \in 0 .. MaxGid /\ ((g = 0 /\ Token(m, 0)') \/ (g > 0 /\ rows'[g] = m))
      BY DEF Copies
    <2>2. 0 \in 0 .. MaxGid
      OBVIOUS
    <2> QED
      BY <1>1, <2>1, <2>2 DEF Copies
  <1>4. \A m \in Msg : Forks(m)' \subseteq Forks(m)
    BY DEF Forks, JobOf
  <1> QED
    BY <1>2, <1>3, <1>4 DEF Shrinks

\* Both together: a step that sends nothing new on its way keeps the bound.
LEMMA NothingAdded ==
  ASSUME TypeOK, TypeOK', CopiesInv,
         \A j \in Job : InFlight(j)' => InFlight(j),
         \A m \in Msg : phase'[m] \in Early => phase[m] \in Early,
         \A g \in Gid : rows'[g] # NoMsg =>
            /\ rows'[g] = rows[g]
            /\ g \notin pending' \/ g \in releasing' => g \notin pending \/ g \in releasing,
         storing' \subseteq storing, UNCHANGED taken,
         \/ Doomed' \subseteq Doomed /\ faults' >= faults
         \/ \E b \in Box : Doomed' \subseteq Doomed \cup {b} /\ faults' = faults + 1
  PROVE  CopiesInv'
  <1>1. Shrinks
    BY TokenFrame
  <1> QED
    BY <1>1, StepShrinks


\* The steps of a submission's own handler.
LEMMA SubmissionCopies ==
  ASSUME TypeOK, TypeOK', HeldInv, CopiesInv, NEW m \in Msg, Submission(m)
  PROVE  CopiesInv'
  <1> USE DEF boxVars, remoteVars, storeVars, queueVars, submitVars
  <1>a. TypeSubmit /\ faults \in Nat
    BY DEF TypeOK
  <1>1. CASE HandleSubmit(m) \/ RoutingDone(m) \/ DeductCredit(m)
    <2>1. /\ UNCHANGED <<outq, storing, batch, wpc, hand, sent, alive, rows, pending, releasing, taken>>
          /\ faults' >= faults
      BY <1>1, <1>a DEF HandleSubmit, RoutingDone, DeductCredit, Fault
    <2>2. phase[m] \in Early /\ \A n \in Msg \ {m} : phase'[n] = phase[n]
      BY <1>1, <1>a DEF HandleSubmit, RoutingDone, DeductCredit, Answer, TypeSubmit, Early
    <2>3. \A j \in Job : InFlight(j)' => InFlight(j)
      BY <2>1 DEF InFlight, InHand, Carries
    <2>4. Doomed' \subseteq Doomed
      BY <2>1 DEF Doomed
    <2> QED
      BY <2>1, <2>2, <2>3, <2>4, NothingAdded
  <1>2. CASE Dispatch(m)
    <2>1. /\ UNCHANGED <<batch, wpc, hand, sent, alive, rows, pending, releasing, taken, faults>>
          /\ outq' \subseteq outq \cup {SubmitJob(m)} /\ storing' \subseteq storing \cup {SubmitJob(m)}
          /\ phase[m] = "dispatch" /\ phase'[m] = "queued" /\ \A n \in Msg \ {m} : phase'[n] = phase[n]
      BY <1>2, <1>a DEF Dispatch, AddToQueue, Callback, TypeSubmit
    <2>2. \A j \in Job : InFlight(j)' => InFlight(j) \/ j = SubmitJob(m)
      BY <2>1 DEF InFlight, InHand, Carries
    <2>3. ASSUME NEW n \in Msg, NEW g \in 0 .. MaxGid, Token(n, g)' PROVE Token(n, g)
      <3>1. JobOf(g, n)' = JobOf(g, n) /\ JobOf(g, n) \in Job
        BY DEF JobOf
      <3>2. CASE InFlight(JobOf(g, n))'
        <4>1. CASE JobOf(g, n) = SubmitJob(m)
          <5>1. g = 0 /\ n = m
            BY <4>1 DEF JobOf, SubmitJob
          <5> QED
            BY <2>1, <5>1 DEF Token, Early
        <4> QED
          BY <2>2, <3>1, <3>2, <4>1 DEF Token
      <3>3. CASE g = 0 /\ phase'[n] \in Early
        BY <2>1, <3>3 DEF Token, Early
      <3> QED
        BY <2>1, <2>3, <3>1, <3>2, <3>3 DEF Token
    <2>4. Shrinks
      <3>1. \A n \in Msg : Tokens(n)' \subseteq Tokens(n)
        BY <2>3 DEF Tokens
      <3>2. ASSUME NEW n \in Msg, NEW g \in Copies(n)' PROVE g \in Copies(n)
        <4>1. g \in 0 .. MaxGid /\ ((g = 0 /\ Token(n, 0)') \/ (g > 0 /\ rows'[g] = n))
          BY DEF Copies
        <4>2. 0 \in 0 .. MaxGid
          OBVIOUS
        <4> QED
          BY <2>1, <2>3, <4>1, <4>2 DEF Copies
      <3>3. ASSUME NEW n \in Msg, NEW g \in Forks(n)' PROVE g \in Forks(n)
        <4>1. g \in Gid /\ JobOf(g, n) \in storing' /\ JobOf(g, n) # SubmitJob(m)
          BY DEF Forks, JobOf, SubmitJob
        <4> QED
          BY <2>1, <4>1 DEF Forks
      <3> QED
        BY <3>1, <3>2, <3>3 DEF Shrinks
    <2>5. Doomed' \subseteq Doomed /\ faults' >= faults
      BY <1>a, <2>1 DEF Doomed
    <2> QED
      BY <2>1, <2>4, <2>5, StepShrinks
  <1> QED
    BY <1>1, <1>2 DEF Submission

\* A box's threads move jobs already in flight; the step that finds the box dead
\* is a fault and dooms at most the writer of that box.
LEMMA BoxCopies ==
  ASSUME TypeOK, TypeOK', HeldInv, CopiesInv, NEW b \in Box,
         Writer(b) \/ Reader(b) \/ SetStateDown(b), ~WriterRequeue(b)
  PROVE  CopiesInv'
  <1> USE DEF boxVars, remoteVars, storeVars, queueVars, submitVars
  <1>a. TypeWriter /\ TypeLink /\ faults \in Nat
    BY DEF TypeOK
  <1>b. ASSUME \A j \in Job : InFlight(j)' => InFlight(j),
               UNCHANGED <<phase, rows, pending, releasing, taken, storing>>,
               \/ Doomed' \subseteq Doomed /\ faults' >= faults
               \/ Doomed' \subseteq Doomed \cup {b} /\ faults' = faults + 1
        PROVE  CopiesInv'
    BY <1>b, NothingAdded
  <1>1. CASE WriterCheck(b) \/ WriterLock(b) \/ ReaderLeaves(b) \/ SetStateDown(b) \/ ReadFails(b)
    <2>1. /\ UNCHANGED <<phase, rows, pending, releasing, taken, storing, outq, batch, hand, sent>>
          /\ \A d \in Box \ {b} : wpc'[d] = wpc[d] /\ alive'[d] = alive[d]
      BY <1>1, <1>a DEF WriterCheck, WriterLock, ReaderLeaves, SetStateDown, ReadFails,
                        TypeWriter, TypeLink
    <2>2. /\ wpc'[b] = wpc[b] \/ wpc[b] = "check"
             \/ (wpc[b] = "got" /\ wpc'[b] \in {"locked", "requeue"})
          /\ wpc'[b] = "requeue" => wpc[b] = "requeue" \/ (wpc[b] = "got" /\ ~alive[b])
      BY <1>1, <1>a DEF WriterCheck, WriterLock, ReaderLeaves, SetStateDown, ReadFails,
                        TypeWriter, TypeLink
    <2>3. \A j \in Job : InFlight(j)' => InFlight(j)
      <3>1. /\ Carries(b)' => Carries(b)
            /\ wpc'[b] = "locked" => wpc[b] = "locked" \/ Carries(b)
        BY <1>1, <1>a DEF WriterCheck, WriterLock, ReaderLeaves, SetStateDown, ReadFails,
                          TypeWriter, TypeLink, Carries
      <3>2. \A d \in Box \ {b} : Carries(d)' = Carries(d)
        BY <2>1 DEF Carries
      <3> QED
        BY <2>1, <3>1, <3>2 DEF InFlight, InHand
    <2>4. CASE UNCHANGED faults
      <3>1. UNCHANGED alive /\ (wpc[b] = "check" => wpc'[b] = "check" \/ (wpc'[b] = "wait" /\ alive[b]))
        BY <1>1, <1>a, <2>4 DEF WriterCheck, WriterLock, ReaderLeaves, SetStateDown, ReadFails,
                                Fault, TypeWriter, TypeLink
      <3>2. Doomed' \subseteq Doomed
        BY <2>1, <2>2, <3>1 DEF Doomed
      <3> QED
        BY <1>a, <1>b, <2>1, <2>3, <2>4, <3>2
    <2>5. CASE ~UNCHANGED faults
      <3>1. faults' = faults + 1
        BY <1>1, <2>5 DEF WriterCheck, WriterLock, ReaderLeaves, SetStateDown, ReadFails, Fault
      <3>2. Doomed' \subseteq Doomed \cup {b}
        BY <2>1 DEF Doomed
      <3> QED
        BY <1>b, <2>1, <2>3, <3>1, <3>2
    <2> QED
      BY <2>4, <2>5
  <1>2. ASSUME NEW j \in outq, Consume(b, j) PROVE CopiesInv'
    <2>1. /\ UNCHANGED <<phase, rows, pending, releasing, taken, storing, batch, sent, alive, faults>>
          /\ outq' \subseteq outq /\ wpc[b] = "wait" /\ wpc'[b] = "got" /\ hand'[b] = j
          /\ \A d \in Box \ {b} : wpc'[d] = wpc[d] /\ hand'[d] = hand[d]
      BY <1>2, <1>a DEF Consume, TypeWriter
    <2>2. \A k \in Job : InFlight(k)' => InFlight(k)
      BY <2>1 DEF InFlight, InHand, Carries
    <2>3. Doomed' \subseteq Doomed
      BY <2>1 DEF Doomed
    <2> QED
      BY <1>a, <1>b, <2>1, <2>2, <2>3
  <1>3. CASE WriterDeliver(b)
    <2>1. /\ UNCHANGED <<phase, rows, pending, releasing, taken, storing, outq, batch>>
          /\ wpc[b] = "locked"
          /\ \A d \in Box \ {b} : /\ wpc'[d] = wpc[d] /\ hand'[d] = hand[d]
                                  /\ sent'[d] = sent[d] /\ alive'[d] = alive[d]
      BY <1>3, <1>a DEF WriterDeliver, TypeWriter, TypeLink
    <2>2. CASE UNCHANGED faults
      <3>1. UNCHANGED alive /\ sent'[b] = sent[b] \cup {hand[b]} /\ wpc'[b] = "check"
        BY <1>3, <1>a, <2>2 DEF WriterDeliver, Fault, TypeWriter, TypeLink
      <3>2. \A k \in Job : InFlight(k)' => InFlight(k)
        BY <2>1, <3>1 DEF InFlight, InHand, Carries
      <3>3. Doomed' \subseteq Doomed
        BY <2>1, <3>1 DEF Doomed
      <3> QED
        BY <1>a, <1>b, <2>1, <2>2, <3>2, <3>3
    <2>3. CASE ~UNCHANGED faults
      <3>1. UNCHANGED <<hand, sent>> /\ wpc'[b] = "requeue" /\ faults' = faults + 1
        BY <1>3, <1>a, <2>3 DEF WriterDeliver, Fault, TypeWriter, TypeLink
      <3>2. \A k \in Job : InFlight(k)' => InFlight(k)
        BY <2>1, <3>1 DEF InFlight, InHand, Carries
      <3>3. Doomed' \subseteq Doomed \cup {b}
        BY <2>1, <3>1 DEF Doomed
      <3> QED
        BY <1>b, <2>1, <3>1, <3>2, <3>3
    <2> QED
      BY <2>2, <2>3
  <1>4. CASE Reconnect(b) \/ ReconnectFails(b) \/ \E a \in acks[b] : ReadAck(b, a)
    <2>1. /\ UNCHANGED <<phase, rows, pending, releasing, taken, storing, outq, batch, wpc, hand, faults>>
          /\ \A d \in Box : sent'[d] \subseteq sent[d] /\ (alive[d] => alive'[d])
      BY <1>4, <1>a DEF Reconnect, ReconnectFails, DropConnection, ReadAck, TypeLink
    <2>2. \A k \in Job : InFlight(k)' => InFlight(k)
      BY <2>1 DEF InFlight, InHand, Carries
    <2>3. Doomed' \subseteq Doomed
      BY <2>1 DEF Doomed
    <2> QED
      BY <1>a, <1>b, <2>1, <2>2, <2>3
  <1> QED
    BY <1>1, <1>2, <1>3, <1>4 DEF Writer, Reader

\* A job that could not be written goes back; when it then has to be stored, the
\* writer that was doomed to do so is no longer counted, the fork is.
LEMMA RequeueCopies ==
  ASSUME TypeOK, TypeOK', HeldInv, CopiesInv, NEW b \in Box, WriterRequeue(b)
  PROVE  CopiesInv'
  <1> USE DEF boxVars, remoteVars, storeVars, queueVars, submitVars
  <1>a. TypeWriter /\ TypeLink /\ faults \in Nat /\ hand[b] \in Job /\ IsFiniteSet(Doomed)
    BY DEF TypeOK, WriterRequeue, TypeWriter, CopiesInv
  <1>1. /\ UNCHANGED <<phase, rows, pending, releasing, taken, batch, sent, alive, faults>>
        /\ outq' \subseteq outq \cup {hand[b]} /\ storing' \subseteq storing \cup {hand[b]}
        /\ wpc[b] = "requeue" /\ wpc'[b] = "check"
        /\ \A d \in Box \ {b} : wpc'[d] = wpc[d] /\ hand'[d] = hand[d]
    BY <1>a DEF WriterRequeue, AddToQueue, Callback, TypeWriter
  <1>2. \A k \in Job : InFlight(k)' => InFlight(k)
    BY <1>1 DEF InFlight, InHand, Carries
  <1>3. b \in Doomed /\ Doomed' \subseteq Doomed \ {b}
    BY <1>1 DEF Doomed
  <1>4. /\ IsFiniteSet(Doomed') /\ Cardinality(Doomed) \in Nat /\ Cardinality(Doomed') \in Nat
        /\ Cardinality(Doomed') + 1 <= Cardinality(Doomed)
    <2>1. IsFiniteSet(Doomed \ {b}) /\ Cardinality(Doomed \ {b}) = Cardinality(Doomed) - 1
      BY <1>a, <1>3, FS_RemoveElement
    <2>2. Cardinality(Doomed) \in Nat
      BY <1>a, FS_CardinalityType
    <2>3. IsFiniteSet(Doomed') /\ Cardinality(Doomed') <= Cardinality(Doomed \ {b})
      BY <1>3, <2>1, FS_Subset
    <2>4. Cardinality(Doomed') \in Nat
      BY <2>3, FS_CardinalityType
    <2> QED
      BY <2>1, <2>2, <2>3, <2>4
  <1>5. ASSUME NEW m \in Msg PROVE \E d, e \in Nat : CopiesWithin(m, d, e)'
    <2>1. \A g \in 0 .. MaxGid : Token(m, g)' => Token(m, g)
      <3> TAKE g \in 0 .. MaxGid
      <3>1. JobOf(g, m)' = JobOf(g, m) /\ JobOf(g, m) \in Job
        BY DEF JobOf
      <3> QED
        BY <1>1, <1>2, <3>1 DEF Token
    <2>2. Tokens(m)' \in SUBSET Tokens(m)
      BY <2>1 DEF Tokens
    <2>3. Copies(m)' \in SUBSET Copies(m)
      <3>1. 0 \in 0 .. MaxGid
        OBVIOUS
      <3>2. Token(m, 0)' => Token(m, 0)
        BY <2>1, <3>1
      <3> QED
        BY <1>1, <3>2 DEF Copies
    <2>4. Forks(m)' \in SUBSET (Forks(m) \cup {hand[b].gid}) /\ hand[b].gid \in 0 .. MaxGid
      <3>1. ASSUME NEW g \in Forks(m)' PROVE g \in Forks(m) \cup {hand[b].gid}
        <4>1. g \in Gid /\ JobOf(g, m) \in storing'
          BY DEF Forks, JobOf
        <4>2. JobOf(g, m) \in storing \/ JobOf(g, m) = hand[b]
          BY <1>1, <4>1
        <4>3. JobOf(g, m).gid = g
          BY DEF JobOf
        <4> QED
          BY <4>1, <4>2, <4>3 DEF Forks
      <3> QED
        BY <1>a, <3>1
    <2>5. /\ Cardinality(Tokens(m)') \in Nat /\ Cardinality(Tokens(m)) \in Nat
          /\ Cardinality(Tokens(m)') <= Cardinality(Tokens(m))
          /\ Cardinality(Copies(m)') \in Nat /\ Cardinality(Copies(m)) \in Nat
          /\ Cardinality(Copies(m)') <= Cardinality(Copies(m))
      BY <2>2, <2>3, CountedSets, GidSets
    <2>6. /\ Cardinality(Forks(m)') \in Nat /\ Cardinality(Forks(m)) \in Nat
          /\ Cardinality(Forks(m)') <= Cardinality(Forks(m)) + 1
      BY <2>4, CountedSets, GidAdd
    <2>7. PICK d, e \in Nat : CopiesWithin(m, d, e)
      BY DEF CopiesInv
    <2>8. e * (1 + d) \in Nat /\ taken[m] \in Nat
      BY DEF TypeOK, TypeRemote
    <2>9. CopiesWithin(m, d, e)'
      BY <1>1, <1>a, <1>4, <2>5, <2>6, <2>7, <2>8 DEF CopiesWithin
    <2> QED
      BY <2>9
  <1> QED
    BY <1>4, <1>5 DEF CopiesInv

\* The requeue thread turns unclaimed rows into jobs, one job for each row.
LEMMA ClaimCopies ==
  ASSUME TypeOK, TypeOK', HeldInv, CopiesInv, ClaimStored
  PROVE  CopiesInv'
  <1> USE DEF boxVars, remoteVars, storeVars, queueVars, submitVars
  <1>1. /\ UNCHANGED <<phase, rows, releasing, taken, outq, storing, wpc, hand, sent, alive, faults>>
        /\ pending \subseteq pending'
        /\ batch' = {[gid |-> g, msg |-> rows[g]] : g \in Drainable}
    BY DEF ClaimStored
  <1>2. ASSUME NEW m \in Msg, NEW g \in 0 .. MaxGid, Token(m, g)' PROVE Token(m, g)
    <2>1. JobOf(g, m)' = JobOf(g, m) /\ JobOf(g, m) \in Job
      BY DEF JobOf
    <2>2. InFlight(JobOf(g, m))' => InFlight(JobOf(g, m)) \/ JobOf(g, m) \in batch'
      BY <1>1, <2>1 DEF InFlight, InHand, Carries
    <2>3. CASE JobOf(g, m) \in batch'
      <3>1. PICK h \in Drainable : JobOf(g, m) = [gid |-> h, msg |-> rows[h]]
        BY <1>1, <2>3
      <3>2. h = g /\ rows[g] = m
        BY <3>1 DEF JobOf
      <3>3. g > 0 /\ g \notin pending
        BY <3>1, <3>2 DEF Drainable
      <3> QED
        BY <3>2, <3>3 DEF Token
    <2> QED
      BY <1>1, <1>2, <2>1, <2>2, <2>3 DEF Token
  <1>3. Shrinks
    <2>1. \A m \in Msg : Tokens(m)' \subseteq Tokens(m)
      BY <1>2 DEF Tokens
    <2>2. \A m \in Msg : Copies(m)' \subseteq Copies(m)
      <3>1. 0 \in 0 .. MaxGid
        OBVIOUS
      <3>2. \A m \in Msg : Token(m, 0)' => Token(m, 0)
        BY <1>2, <3>1
      <3> QED
        BY <1>1, <3>2 DEF Copies
    <2>3. \A m \in Msg : Forks(m)' \subseteq Forks(m)
      BY <1>1 DEF Forks, JobOf
    <2> QED
      BY <2>1, <2>2, <2>3 DEF Shrinks
  <1>4. Doomed' \subseteq Doomed /\ faults' >= faults
    BY <1>1 DEF Doomed, TypeOK
  <1> QED
    BY <1>1, <1>3, <1>4, StepShrinks

\* Callbacks, the release of a claim and the requeue loop add nothing, except
\* that a DELETE that fails lets the row be sent once more.
LEMMA CallbackCopies ==
  ASSUME TypeOK, TypeOK', HeldInv, CopiesInv,
         \/ \E c \in cb : CallbackSubmit(c) \/ RequeueResult(c)
         \/ \E g \in releasing : ReleaseClaim(g)
         \/ \E j \in batch : RequeueStored(j)
  PROVE  CopiesInv'
  <1> USE DEF boxVars, remoteVars, storeVars, queueVars, submitVars
  <1>a. TypeSubmit /\ TypeStore /\ TypeQueue /\ faults \in Nat
    BY DEF TypeOK
  <1>b. ASSUME UNCHANGED <<wpc, hand, sent, alive, taken, faults>>,
               outq' \subseteq outq \cup batch, storing' \subseteq storing, batch' \subseteq batch,
               \A m \in Msg : phase'[m] \in Early => phase[m] \in Early,
               \A g \in Gid : rows'[g] # NoMsg =>
                  /\ rows'[g] = rows[g]
                  /\ g \notin pending' \/ g \in releasing' => g \notin pending \/ g \in releasing
        PROVE  CopiesInv'
    <2>1. \A j \in Job : InFlight(j)' => InFlight(j)
      BY <1>b DEF InFlight, InHand, Carries
    <2>2. Doomed' \subseteq Doomed /\ faults' >= faults
      BY <1>a, <1>b DEF Doomed
    <2> QED
      BY <1>b, <2>1, <2>2, NothingAdded
  <1>1. ASSUME NEW c \in cb, CallbackSubmit(c) PROVE CopiesInv'
    <2>1. c.job.msg \in Msg
      BY <1>a DEF TypeQueue
    <2>2. \A m \in Msg : phase'[m] \in Early => phase[m] \in Early
      BY <1>1, <1>a, <2>1 DEF CallbackSubmit, Answer, TypeSubmit, Early
    <2>3. UNCHANGED <<wpc, hand, sent, alive, taken, faults, outq, storing, batch, rows, pending, releasing>>
      BY <1>1 DEF CallbackSubmit
    <2> QED
      BY <1>b, <2>2, <2>3
  <1>2. ASSUME NEW g \in releasing, ReleaseClaim(g) PROVE CopiesInv'
    <2>1. UNCHANGED <<wpc, hand, sent, alive, taken, faults, outq, storing, batch, rows, phase>>
      BY <1>2 DEF ReleaseClaim
    <2>2. \A h \in Gid : h \notin pending' \/ h \in releasing' => h \notin pending \/ h \in releasing
      BY <1>2 DEF ReleaseClaim
    <2> QED
      BY <1>b, <2>1, <2>2
  <1>3. ASSUME NEW j \in batch, RequeueStored(j) PROVE CopiesInv'
    <2>1. UNCHANGED <<wpc, hand, sent, alive, taken, faults, storing, rows, pending, releasing, phase>>
      BY <1>3 DEF RequeueStored
    <2>2. outq' \subseteq outq \cup batch /\ batch' \subseteq batch
      BY <1>3 DEF RequeueStored
    <2> QED
      BY <1>b, <2>1, <2>2
  <1>4. ASSUME NEW c \in cb, RequeueResult(c) PROVE CopiesInv'
    <2>a. c.job.msg \in Msg /\ c.job.gid \in Gid
      BY <1>4, <1>a DEF TypeQueue, RequeueResult
    <2>b. UNCHANGED <<wpc, hand, sent, alive, taken, outq, storing, batch, pending, phase>>
      BY <1>4 DEF RequeueResult
    <2>1. CASE UNCHANGED faults
      <3>1. \A g \in Gid : rows'[g] # NoMsg =>
              /\ rows'[g] = rows[g]
              /\ g \in releasing' => g \in releasing
        BY <1>4, <1>a, <2>1, <2>a, SMTT(30) DEF RequeueResult, Fault, TypeStore
      <3> QED
        BY <1>b, <2>1, <2>b, <3>1
    <2>2. CASE ~UNCHANGED faults
      <3>1. faults' = faults + 1 /\ UNCHANGED rows /\ releasing' = releasing \cup {c.job.gid}
        BY <1>4, <2>2 DEF RequeueResult, Fault
      <3>2. \A j \in Job : InFlight(j)' => InFlight(j)
        BY <2>b DEF InFlight, InHand, Carries
      <3>3. Doomed' = Doomed
        BY <2>b DEF Doomed
      <3>4. ASSUME NEW m \in Msg PROVE \E d, e \in Nat : CopiesWithin(m, d, e)'
        <4>1. \A g \in 0 .. MaxGid : Token(m, g)' => Token(m, g) \/ (g > 0 /\ g = c.job.gid)
          <5> TAKE g \in 0 .. MaxGid
          <5>1. JobOf(g, m)' = JobOf(g, m) /\ JobOf(g, m) \in Job
            BY DEF JobOf
          <5> QED
            BY <2>b, <3>1, <3>2, <5>1 DEF Token
        <4>2. Tokens(m)' \in SUBSET (Tokens(m) \cup {c.job.gid})
          BY <4>1 DEF Tokens
        <4>3. Copies(m)' \in SUBSET Copies(m)
          <5>1. 0 \in 0 .. MaxGid
            OBVIOUS
          <5>2. Token(m, 0)' => Token(m, 0)
            BY <4>1, <5>1
          <5> QED
            BY <3>1, <5>2 DEF Copies
        <4>4. Forks(m)' \in SUBSET Forks(m)
          BY <2>b DEF Forks, JobOf
        <4>5. /\ Cardinality(Copies(m)') \in Nat /\ Cardinality(Copies(m)) \in Nat
              /\ Cardinality(Copies(m)') <= Cardinality(Copies(m))
              /\ Cardinality(Forks(m)') \in Nat /\ Cardinality(Forks(m)) \in Nat
              /\ Cardinality(Forks(m)') <= Cardinality(Forks(m))
          BY <4>3, <4>4, CountedSets, GidSets
        <4>6. /\ Cardinality(Tokens(m)') \in Nat /\ Cardinality(Tokens(m)) \in Nat
              /\ Cardinality(Tokens(m)') <= Cardinality(Tokens(m)) + 1
          <5>1. c.job.gid \in 0 .. MaxGid
            BY <2>a
          <5> QED
            BY <4>2, <5>1, CountedSets, GidAdd
        <4>7. PICK d, e \in Nat : CopiesWithin(m, d, e)
          BY DEF CopiesInv
        <4>8. e * (1 + d) \in Nat /\ (e + 1) * (1 + d) = e * (1 + d) + 1 + d /\ e + 1 \in Nat
          OBVIOUS
        <4>9. taken[m] \in Nat /\ Cardinality(Doomed) \in Nat
          BY FS_CardinalityType DEF TypeOK, TypeRemote, CopiesInv
        <4>10. CopiesWithin(m, d, e + 1)'
          BY <1>a, <2>b, <3>1, <3>3, <4>5, <4>6, <4>7, <4>8, <4>9 DEF CopiesWithin
        <4> QED
          BY <4>8, <4>10
      <3> QED
        BY <3>3, <3>4 DEF CopiesInv
    <2> QED
      BY <2>1, <2>2
  <1> QED
    BY <1>1, <1>2, <1>3, <1>4

\* A job in storing, or on a connection, is the only token of its row: nobody
\* else holds it, its submission is past its handler and its row is claimed.
LEMMA OnlyToken ==
  ASSUME TypeOK, HeldInv, NEW j \in Job, IsLive(j)
  PROVE  /\ j.gid = 0 => phase[j.msg] = "queued"
         /\ j.gid > 0 => rows[j.gid] = j.msg /\ j.gid \in pending /\ j.gid \notin releasing
  <1>1. j.gid > 0 => rows[j.gid] = j.msg /\ j.gid \in pending /\ j.gid \notin releasing
    BY DEF HeldInv, RowsClaimed
  <1>2. ASSUME j.gid = 0 PROVE phase[j.msg] = "queued"
    <2>1. j = SubmitJob(j.msg) /\ j.msg \in Msg
      BY <1>2 DEF SubmitJob
    <2> QED
      BY <2>1 DEF HeldInv, SubmitLive
  <1> QED
    BY <1>1, <1>2

\* Storing a job replaces its token by the new row; the row of a submission
\* replaces it, the row of a requeued job was counted as a fork.
LEMMA InsertCopies ==
  ASSUME TypeOK, TypeOK', KeptInv, HeldInv, CopiesInv, NEW j \in storing, InsertRow(j)
  PROVE  CopiesInv'
  <1> USE DEF boxVars, remoteVars, storeVars, queueVars, submitVars
  <1>a. /\ TypeStore /\ faults \in Nat /\ j \in Job /\ j.msg \in Msg /\ j.gid \in 0 .. MaxGid
        /\ HeldTypes
    BY HeldTyped DEF TypeOK, TypeQueue
  <1>b. /\ UNCHANGED <<phase, outq, batch, wpc, hand, sent, alive, taken, pending, releasing>>
        /\ storing' = storing \ {j}
    BY DEF InsertRow
  <1>c. \A k \in Job : InFlight(k)' => InFlight(k)
    BY <1>b DEF InFlight, InHand, Carries
  <1>d. Doomed' = Doomed
    BY <1>b DEF Doomed
  <1>1. CASE ~UNCHANGED faults
    <2>1. UNCHANGED rows /\ faults' = faults + 1
      BY <1>1 DEF InsertRow, Fault
    <2>2. storing' \subseteq storing /\ faults' >= faults
      BY <1>a, <1>b, <2>1
    <2> QED
      BY <1>b, <1>c, <1>d, <2>1, <2>2, NothingAdded
  <1>2. CASE UNCHANGED faults
    <2> DEFINE r == nextGid
    <2>1. /\ r \in Gid /\ rows'[r] = j.msg /\ \A g \in Gid \ {r} : rows'[g] = rows[g]
      BY <1>2, <1>a DEF InsertRow, Fault, TypeStore
    <2>2. rows[r] = NoMsg
      BY <1>a, <2>1 DEF KeptInv, RowsFresh, TypeStore
    <2> HIDE DEF r
    <2>3. ~InFlight(j)'
      <3>1. j \notin outq /\ j \notin batch /\ j \notin storing'
        BY <1>b DEF HeldInv, QueuesApart
      <3>2. \A b \in Box : Carries(b) => hand[b] # j
        BY DEF HeldInv, HandsApart
      <3>3. \A b \in Box : j \notin openAcks[b]
        BY DEF HeldInv, AcksApart
      <3>4. \A b \in Box : (wpc[b] = "locked" => hand[b] # j) /\ j \notin sent[b]
        BY <3>3 DEF HeldInv, WireOnce
      <3> QED
        BY <1>b, <3>1, <3>2, <3>4 DEF InFlight, InHand, Carries
    <2>4. /\ j.gid = 0 => phase[j.msg] = "queued"
          /\ j.gid > 0 => rows[j.gid] = j.msg /\ j.gid \in pending /\ j.gid \notin releasing
      <3>1. IsLive(j)
        BY DEF IsLive
      <3> QED
        BY <1>a, <3>1, OnlyToken
    <2>5. ASSUME NEW m \in Msg, NEW g \in 0 .. MaxGid, Token(m, g)'
          PROVE  (Token(m, g) /\ JobOf(g, m) # j) \/ (g = r /\ m = j.msg)
      <3>1. JobOf(g, m)' = JobOf(g, m) /\ JobOf(g, m) \in Job
        BY DEF JobOf
      <3>2. CASE InFlight(JobOf(g, m))'
        BY <1>c, <2>3, <3>1, <3>2 DEF Token
      <3>3. CASE g = 0 /\ phase'[m] \in Early
        <4>1. JobOf(g, m) = j => j.gid = 0 /\ j.msg = m
          BY <3>3 DEF JobOf
        <4> QED
          BY <1>b, <2>4, <3>3, <4>1 DEF Token, Early
      <3>4. CASE g > 0 /\ rows'[g] = m /\ (g \notin pending' \/ g \in releasing')
        <4>1. CASE g = r
          BY <2>1, <3>4, <4>1
        <4>2. CASE g # r
          <5>1. g \in Gid /\ rows[g] = m /\ (g \notin pending \/ g \in releasing)
            BY <1>b, <2>1, <3>4, <4>2
          <5>2. JobOf(g, m) = j => j.gid = g
            BY DEF JobOf
          <5> QED
            BY <2>4, <3>4, <5>1, <5>2 DEF Token
        <4> QED
          BY <4>1, <4>2
      <3> QED
        BY <2>5, <3>1, <3>2, <3>3, <3>4 DEF Token
    <2>6. j.gid \in Tokens(j.msg)
      <3>1. InFlight(j) /\ JobOf(j.gid, j.msg) = j
        BY <1>a, JobIsOf DEF InFlight
      <3> QED
        BY <1>a, <3>1 DEF Tokens, Token
    <2>7. ASSUME NEW m \in Msg PROVE \E d, e \in Nat : CopiesWithin(m, d, e)'
      <3>a. PICK d, e \in Nat : CopiesWithin(m, d, e)
        BY DEF CopiesInv
      <3>b. e * (1 + d) \in Nat /\ taken[m] \in Nat /\ Cardinality(Doomed) \in Nat /\ r \in 0 .. MaxGid
        BY <2>1, FS_CardinalityType DEF TypeOK, TypeRemote, CopiesInv
      <3>1. CASE m # j.msg
        <4>1. \A g \in 0 .. MaxGid : Token(m, g)' => Token(m, g)
          BY <2>5, <3>1
        <4>2. Tokens(m)' \in SUBSET Tokens(m)
          BY <4>1 DEF Tokens
        <4>3. Copies(m)' \in SUBSET Copies(m)
          <5>1. 0 \in 0 .. MaxGid
            OBVIOUS
          <5>2. Token(m, 0)' => Token(m, 0)
            BY <4>1, <5>1
          <5>3. \A g \in Gid : rows'[g] = m => rows[g] = m
            BY <2>1, <3>1
          <5> QED
            BY <5>2, <5>3 DEF Copies
        <4>4. Forks(m)' \in SUBSET Forks(m)
          BY <1>b DEF Forks, JobOf
        <4>5. /\ Cardinality(Tokens(m)') \in Nat /\ Cardinality(Tokens(m)) \in Nat
              /\ Cardinality(Tokens(m)') <= Cardinality(Tokens(m))
              /\ Cardinality(Copies(m)') \in Nat /\ Cardinality(Copies(m)) \in Nat
              /\ Cardinality(Copies(m)') <= Cardinality(Copies(m))
              /\ Cardinality(Forks(m)') \in Nat /\ Cardinality(Forks(m)) \in Nat
              /\ Cardinality(Forks(m)') <= Cardinality(Forks(m))
          BY <4>2, <4>3, <4>4, CountedSets, GidSets
        <4>6. CopiesWithin(m, d, e)'
          BY <1>a, <1>b, <1>d, <1>2, <3>a, <3>b, <4>5 DEF CopiesWithin
        <4> QED
          BY <4>6
      <3>2. CASE m = j.msg
        <4>0. JobOf(j.gid, m) = j
          BY <1>a, <3>2, JobIsOf
        <4>1. \A g \in 0 .. MaxGid : Token(m, g)' => (Token(m, g) /\ g # j.gid) \/ g = r
          BY <2>5, <4>0
        <4>2. Tokens(m)' \in SUBSET ((Tokens(m) \ {j.gid}) \cup {r})
          BY <4>1 DEF Tokens
        <4>3. /\ Cardinality(Tokens(m)') \in Nat /\ Cardinality(Tokens(m)) \in Nat
              /\ Cardinality(Tokens(m)') <= Cardinality(Tokens(m))
          <5>1. j.gid \in Tokens(m)
            BY <2>6, <3>2
          <5> QED
            BY <3>b, <4>2, <5>1, CountedSets, GidSwap
        <4>4. Token(m, 0)' => Token(m, 0) /\ j.gid # 0
          <5>1. 0 \in 0 .. MaxGid /\ r # 0
            BY <2>1
          <5> QED
            BY <4>1, <5>1
        <4>5. \A g \in Gid : rows'[g] = m => rows[g] = m \/ g = r
          BY <2>1
        <4>6. CASE j.gid = 0
          <5>1. 0 \in Copies(m)
            BY <2>6, <3>2, <4>6 DEF Copies, Tokens
          <5>2. Copies(m)' \in SUBSET ((Copies(m) \ {0}) \cup {r})
            BY <4>4, <4>5, <4>6 DEF Copies
          <5>3. /\ Cardinality(Copies(m)') \in Nat /\ Cardinality(Copies(m)) \in Nat
                /\ Cardinality(Copies(m)') <= Cardinality(Copies(m))
            BY <3>b, <5>1, <5>2, CountedSets, GidSwap
          <5>4. Forks(m)' \in SUBSET Forks(m)
            BY <1>b DEF Forks, JobOf
          <5>5. /\ Cardinality(Forks(m)') \in Nat /\ Cardinality(Forks(m)) \in Nat
                /\ Cardinality(Forks(m)') <= Cardinality(Forks(m))
            BY <5>4, CountedSets, GidSets
          <5>6. CopiesWithin(m, d, e)'
            BY <1>a, <1>b, <1>d, <1>2, <3>a, <3>b, <4>3, <5>3, <5>5 DEF CopiesWithin
          <5> QED
            BY <5>6
        <4>7. CASE j.gid # 0
          <5>1. Copies(m)' \in SUBSET (Copies(m) \cup {r})
            BY <4>4, <4>5 DEF Copies
          <5>2. /\ Cardinality(Copies(m)') \in Nat /\ Cardinality(Copies(m)) \in Nat
                /\ Cardinality(Copies(m)') <= Cardinality(Copies(m)) + 1
            BY <3>b, <5>1, CountedSets, GidAdd
          <5>3. j.gid \in Forks(m)
            BY <1>a, <4>0, <4>7 DEF Forks
          <5>4. Forks(m)' \in SUBSET (Forks(m) \ {j.gid})
            BY <1>b, <4>0 DEF Forks, JobOf
          <5>5. /\ Cardinality(Forks(m)') \in Nat /\ Cardinality(Forks(m)) \in Nat
                /\ Cardinality(Forks(m)') + 1 <= Cardinality(Forks(m))
            BY <5>3, <5>4, CountedSets, GidRemove
          <5>6. CopiesWithin(m, d, e)'
            BY <1>a, <1>b, <1>d, <1>2, <3>a, <3>b, <4>3, <5>2, <5>5 DEF CopiesWithin
          <5> QED
            BY <5>6
        <4> QED
          BY <4>6, <4>7
      <3> QED
        BY <3>1, <3>2
    <2> QED
      BY <1>d, <2>7 DEF CopiesInv
  <1> QED
    BY <1>1, <1>2

\* Bearerbox taking a message uses up the token of the job it took.
LEMMA BearerboxCopies ==
  ASSUME TypeOK, TypeOK', HeldInv, CopiesInv, NEW b \in Box, NEW j \in sent[b],
         BearerboxHandles(b, j)
  PROVE  CopiesInv'
  <1> USE DEF boxVars, remoteVars, storeVars, queueVars, submitVars
  <1>a. /\ TypeLink /\ faults \in Nat /\ HeldTypes /\ j \in Job
        /\ j.msg \in Msg /\ j.gid \in 0 .. MaxGid /\ taken \in [Msg -> Nat]
    BY HeldTyped DEF TypeOK, TypeLink, TypeRemote
  <1>b. /\ UNCHANGED <<phase, outq, storing, batch, wpc, hand, alive, rows, pending, releasing, faults>>
        /\ sent'[b] = sent[b] \ {j} /\ \A d \in Box \ {b} : sent'[d] = sent[d]
    BY <1>a DEF BearerboxHandles, TypeLink
  <1>c. taken' = taken \/ taken' = [taken EXCEPT ![j.msg] = @ + 1]
    BY DEF BearerboxHandles
  <1>d. \A m \in Msg : /\ taken[m] \in Nat /\ taken'[m] \in Nat
                       /\ taken'[m] <= taken[m] + 1 /\ (m # j.msg => taken'[m] <= taken[m])
    BY <1>a, <1>c
  <1>1. j \in openAcks[b] /\ IsLive(j)
    BY DEF HeldInv, WireOnce, IsLive, AwaitsAck
  <1>2. /\ j.gid = 0 => phase[j.msg] = "queued"
        /\ j.gid > 0 => rows[j.gid] = j.msg /\ j.gid \in pending /\ j.gid \notin releasing
    BY <1>a, <1>1, OnlyToken
  <1>3. ~InFlight(j)'
    <2>1. /\ j \notin outq /\ j \notin storing /\ j \notin batch
          /\ \A d \in Box : j \in openAcks[d] => d = b
      BY <1>1 DEF HeldInv, AcksApart
    <2>2. \A d \in Box : Carries(d) => hand[d] # j
      BY <1>1 DEF HeldInv, HandsApart
    <2>3. \A d \in Box : (wpc[d] = "locked" => hand[d] # j) /\ (j \in sent[d] => d = b)
      BY <2>1 DEF HeldInv, WireOnce
    <2> QED
      BY <1>b, <2>1, <2>2, <2>3 DEF InFlight, InHand, Carries
  <1>4. \A k \in Job : InFlight(k)' => InFlight(k)
    BY <1>b DEF InFlight, InHand, Carries
  <1>5. ASSUME NEW m \in Msg, NEW g \in 0 .. MaxGid, Token(m, g)'
        PROVE  Token(m, g) /\ JobOf(g, m) # j
    <2>1. JobOf(g, m)' = JobOf(g, m) /\ JobOf(g, m) \in Job
      BY DEF JobOf
    <2>2. JobOf(g, m) = j => j.gid = g /\ j.msg = m
      BY DEF JobOf
    <2> QED
      BY <1>b, <1>2, <1>3, <1>4, <1>5, <2>1, <2>2 DEF Token, Early
  <1>6. Doomed' = Doomed
    BY <1>b DEF Doomed
  <1>7. ASSUME NEW m \in Msg PROVE \E d, e \in Nat : CopiesWithin(m, d, e)'
    <2>a. PICK d, e \in Nat : CopiesWithin(m, d, e)
      BY DEF CopiesInv
    <2>b. e * (1 + d) \in Nat /\ Cardinality(Doomed) \in Nat
      BY FS_CardinalityType DEF CopiesInv
    <2>1. Tokens(m)' \in SUBSET Tokens(m)
      BY <1>5 DEF Tokens
    <2>2. Copies(m)' \in SUBSET Copies(m)
      <3>1. 0 \in 0 .. MaxGid
        OBVIOUS
      <3>2. Token(m, 0)' => Token(m, 0)
        BY <1>5, <3>1
      <3> QED
        BY <1>b, <3>2 DEF Copies
    <2>3. Forks(m)' \in SUBSET Forks(m)
      BY <1>b DEF Forks, JobOf
    <2>4. /\ Cardinality(Tokens(m)') \in Nat /\ Cardinality(Tokens(m)) \in Nat
          /\ Cardinality(Tokens(m)') <= Cardinality(Tokens(m))
          /\ Cardinality(Copies(m)') \in Nat /\ Cardinality(Copies(m)) \in Nat
          /\ Cardinality(Copies(m)') <= Cardinality(Copies(m))
          /\ Cardinality(Forks(m)') \in Nat /\ Cardinality(Forks(m)) \in Nat
          /\ Cardinality(Forks(m)') <= Cardinality(Forks(m))
      BY <2>1, <2>2, <2>3, CountedSets, GidSets
    <2>5. m = j.msg => Cardinality(Tokens(m)') + 1 <= Cardinality(Tokens(m))
      <3> SUFFICES ASSUME m = j.msg PROVE Cardinality(Tokens(m)') + 1 <= Cardinality(Tokens(m))
        OBVIOUS
      <3>1. JobOf(j.gid, m) = j /\ InFlight(j)
        BY <1>a, JobIsOf DEF InFlight
      <3>2. j.gid \in Tokens(m)
        BY <1>a, <3>1 DEF Tokens, Token
      <3>3. Tokens(m)' \in SUBSET (Tokens(m) \ {j.gid})
        BY <1>5, <3>1 DEF Tokens
      <3> QED
        BY <3>2, <3>3, CountedSets, GidRemove
    <2>6. taken'[m] + Cardinality(Tokens(m)') <= taken[m] + Cardinality(Tokens(m))
      BY <1>d, <2>4, <2>5
    <2>7. CopiesWithin(m, d, e)'
      BY <1>a, <1>b, <1>d, <1>6, <2>a, <2>b, <2>4, <2>6 DEF CopiesWithin
    <2> QED
      BY <2>7
  <1> QED
    BY <1>6, <1>7 DEF CopiesInv

\* A crash makes a token of every row and of nothing else.
LEMMA CrashCopies ==
  ASSUME TypeOK, TypeOK', CopiesInv, Crash
  PROVE  CopiesInv'
  <1> USE DEF remoteVars
  <1>1. /\ outq' = {} /\ storing' = {} /\ batch' = {}
        /\ UNCHANGED <<rows, taken>> /\ faults' = faults + 1
        /\ \A b \in Box : wpc'[b] = "check" /\ sent'[b] = {}
        /\ \A m \in Msg : phase'[m] \in Early => phase[m] \in Early
    BY DEF Crash, Fault, Early
  <1>2. \A j : ~InFlight(j)'
    BY <1>1 DEF InFlight, InHand, Carries
  <1>3. Doomed' = {} /\ \A m \in Msg : Forks(m)' = {}
    BY <1>1 DEF Doomed, Forks
  <1>4. IsFiniteSet(Doomed') /\ Cardinality(Doomed') = 0
    BY <1>3, FS_EmptySet
  <1>5. ASSUME NEW m \in Msg PROVE \E d, e \in Nat : CopiesWithin(m, d, e)'
    <2>a. PICK d, e \in Nat : CopiesWithin(m, d, e)
      BY DEF CopiesInv
    <2>b. e * (1 + d) \in Nat /\ (e + 1) * (1 + d) = e * (1 + d) + 1 + d /\ e + 1 \in Nat
      OBVIOUS
    <2>c. taken[m] \in Nat /\ faults \in Nat /\ Cardinality(Doomed) \in Nat
      BY FS_CardinalityType DEF TypeOK, TypeRemote, CopiesInv
    <2>1. Token(m, 0)' => Token(m, 0)
      BY <1>1, <1>2 DEF Token
    <2>2. Copies(m)' \in SUBSET Copies(m)
      BY <1>1, <2>1 DEF Copies
    <2>3. Tokens(m)' \in SUBSET Copies(m)
      <3>1. ASSUME NEW g \in 0 .. MaxGid, Token(m, g)' PROVE g \in Copies(m)
        <4>1. (g = 0 /\ Token(m, 0)') \/ (g > 0 /\ rows'[g] = m)
          BY <1>2, <3>1 DEF Token
        <4> QED
          BY <1>1, <2>1, <4>1 DEF Copies
      <3> QED
        BY <3>1 DEF Tokens
    <2>4. /\ Cardinality(Tokens(m)') \in Nat /\ Cardinality(Tokens(m)') <= Cardinality(Copies(m))
          /\ Cardinality(Copies(m)') \in Nat /\ Cardinality(Copies(m)) \in Nat
          /\ Cardinality(Copies(m)') <= Cardinality(Copies(m))
      BY <2>2, <2>3, CountedSets, GidSets
    <2>5. Cardinality(Tokens(m)) \in Nat /\ Cardinality(Forks(m)) \in Nat
      BY CountedSets, GidSets
    <2>6. Cardinality(Forks(m)') = 0
      BY <1>3, FS_EmptySet
    <2>7. CopiesWithin(m, d, e + 1)'
      BY <1>1, <1>4, <2>a, <2>b, <2>c, <2>4, <2>5, <2>6 DEF CopiesWithin
    <2> QED
      BY <2>b, <2>7
  <1> QED
    BY <1>4, <1>5 DEF CopiesInv

\* The step of the induction, action by action.
LEMMA NextCopies ==
  TypeOK /\ TypeOK' /\ KeptInv /\ HeldInv /\ CopiesInv /\ [Next]_vars => CopiesInv'
  <1> SUFFICES ASSUME TypeOK, TypeOK', KeptInv, HeldInv, CopiesInv, [Next]_vars PROVE CopiesInv'
    OBVIOUS
  <1>1. CASE UNCHANGED vars
    <2>1. UNCHANGED <<outq, storing, batch, wpc, hand, sent, alive, phase, rows, pending,
                      releasing, taken, faults>>
      BY <1>1 DEF vars
    <2>2. \A j \in Job : InFlight(j)' => InFlight(j)
      BY <2>1 DEF InFlight, InHand, Carries
    <2>3. Doomed' \subseteq Doomed /\ faults' >= faults
      BY <2>1 DEF Doomed, TypeOK
    <2> QED
      BY <2>1, <2>2, <2>3, NothingAdded
  <1>2. CASE Next
    BY <1>2, SubmissionCopies, InsertCopies, CallbackCopies, ClaimCopies, BoxCopies,
       RequeueCopies, BearerboxCopies, CrashCopies DEF Next
  <1> QED
    BY <1>1, <1>2

\* Before anything is submitted, the submission itself is the only copy.
LEMMA InitCopies == Init => CopiesInv
  <1> SUFFICES ASSUME Init PROVE CopiesInv
    OBVIOUS
  <1>1. /\ outq = {} /\ storing = {} /\ batch = {} /\ faults = 0
        /\ \A b \in Box : wpc[b] = "check" /\ sent[b] = {}
        /\ \A g \in Gid : rows[g] = NoMsg
        /\ \A m \in Msg : taken[m] = 0
    BY DEF Init
  <1>2. Doomed = {} /\ IsFiniteSet(Doomed) /\ Cardinality(Doomed) = 0
    <2>1. Doomed = {}
      BY <1>1 DEF Doomed
    <2> QED
      BY <2>1, FS_EmptySet
  <1>3. ASSUME NEW m \in Msg PROVE CopiesWithin(m, 0, 0)
    <2>1. \A j : ~InFlight(j)
      BY <1>1 DEF InFlight, InHand, Carries
    <2>2. Tokens(m) \in SUBSET {0} /\ Copies(m) \in SUBSET {0} /\ Forks(m) = {}
      BY <1>1, <2>1 DEF Tokens, Token, Copies, Forks
    <2>3. IsFiniteSet({0}) /\ Cardinality({0}) = 1
      BY FS_Singleton
    <2>4. /\ Cardinality(Tokens(m)) \in Nat /\ Cardinality(Tokens(m)) <= 1
          /\ Cardinality(Copies(m)) \in Nat /\ Cardinality(Copies(m)) <= 1
      <3>1. {0} \in SUBSET (0 .. MaxGid)
        OBVIOUS
      <3> QED
        BY <2>2, <2>3, <3>1, GidSets
    <2>5. Cardinality(Forks(m)) = 0
      BY <2>2, FS_EmptySet
    <2> QED
      BY <1>1, <1>2, <2>4, <2>5 DEF CopiesWithin
  <1> QED
    BY <1>2, <1>3 DEF CopiesInv

\* Bearerbox gets a message once, and beyond that only what faults send again:
\* with f faults at most ((f + 1) / 2) ^ 2 more times, for every number of
\* messages, connections, rows and faults.
THEOREM CopiesAreBounded == Spec => []CopiesBounded
  <1>1. Spec => []CopiesInv
    BY InitCopies, NextCopies, TypeCorrect, KeptInvariant, HeldInvariant, PTL DEF Spec
  <1>2. TypeOK /\ CopiesInv => CopiesBounded
    <2> SUFFICES ASSUME TypeOK, CopiesInv, NEW m \in Msg
                 PROVE  4 * (taken[m] - 1) <= (faults + 1) * (faults + 1)
      BY DEF CopiesBounded
    <2>1. PICK d, e \in Nat : CopiesWithin(m, d, e)
      BY DEF CopiesInv
    <2>2. taken[m] \in Nat /\ faults \in Nat /\ Cardinality(Tokens(m)) \in Nat
      BY CountedSets, GidSets DEF TypeOK, TypeRemote
    <2>3. taken[m] - 1 <= e * (1 + d) /\ e * (1 + d) \in Nat
      BY <2>1, <2>2 DEF CopiesWithin
    <2> DEFINE s == e - (1 + d)
               t == e + (1 + d)
    <2>4. t * t = s * s + 4 * (e * (1 + d)) /\ s * s >= 0 /\ t * t \in Nat /\ s * s \in Int
      OBVIOUS
    <2>5. t <= faults + 1 /\ t \in Nat
      BY <2>1, <2>2 DEF CopiesWithin
    <2> HIDE DEF s, t
    <2>6. t * t <= (faults + 1) * (faults + 1)
      <3>1. faults + 1 - t \in Nat
        BY <2>2, <2>5
      <3> DEFINE u == faults + 1 - t
      <3>2. faults + 1 = t + u /\ u \in Nat
        BY <2>2, <2>5, <3>1
      <3> HIDE DEF u
      <3>3. (t + u) * (t + u) = t * t + (2 * (t * u) + u * u) /\ t * u \in Nat /\ u * u \in Nat
        BY <2>5, <3>2
      <3> QED
        BY <2>4, <3>2, <3>3
    <2>7. (faults + 1) * (faults + 1) \in Nat
      BY <2>2
    <2> QED
      BY <2>2, <2>3, <2>4, <2>6, <2>7
  <1> QED
    BY <1>1, <1>2, TypeCorrect, PTL

-----------------------------------------------------------------------------
(* Everything forwarded is paid for *)

\* The messages past the charge, and the balance that backs them.
Spent == {m \in Msg : Forwarded(m)}
PaidInv ==
  Prepaid => IsFiniteSet(Units(Spent)) /\ Cardinality(Units(Spent)) <= InitialCredit - credit

\* One more message costs at most its own cost, and one less never costs more.
LEMMA UnitsAdd ==
  ASSUME NEW S \in SUBSET Msg, NEW m \in Msg, NEW T \in SUBSET (S \cup {m}),
         IsFiniteSet(Units(S))
  PROVE  /\ IsFiniteSet(Units(T)) /\ Cardinality(Units(T)) \in Nat
         /\ Cardinality(Units(S)) \in Nat
         /\ Cardinality(Units(T)) <= Cardinality(Units(S)) + Cost[m]
  <1> DEFINE C == {m} \X (1 .. Cost[m])
  <1>1. IsFiniteSet(C) /\ Cardinality(C) = Cost[m]
    <2>1. IsFiniteSet({m}) /\ Cardinality({m}) = 1
      BY FS_Singleton
    <2>2. IsFiniteSet(1 .. Cost[m]) /\ Cardinality(1 .. Cost[m]) = Cost[m]
      BY FS_Interval
    <2>3. IsFiniteSet(C) /\ Cardinality(C) = Cardinality({m}) * Cardinality(1 .. Cost[m])
      BY <2>1, <2>2, FS_Product
    <2>4. Cost[m] \in Nat
      OBVIOUS
    <2> QED
      BY <2>1, <2>2, <2>3, <2>4
  <1>2. Units(T) \subseteq Units(S) \cup C
    BY DEF Units
  <1> HIDE DEF C
  <1>3. /\ IsFiniteSet(Units(S) \cup C)
        /\ Cardinality(Units(S) \cup C) = Cardinality(Units(S)) + Cardinality(C)
                                            - Cardinality(Units(S) \cap C)
    BY <1>1, FS_Union
  <1>4. Cardinality(Units(S)) \in Nat /\ Cardinality(Units(S) \cap C) \in Nat
    <2>1. IsFiniteSet(Units(S) \cap C)
      BY FS_Subset
    <2> QED
      BY <2>1, FS_CardinalityType
  <1>5. IsFiniteSet(Units(T)) /\ Cardinality(Units(T)) <= Cardinality(Units(S) \cup C)
    BY <1>2, <1>3, FS_Subset
  <1>6. Cardinality(Units(T)) \in Nat
    BY <1>5, FS_CardinalityType
  <1> QED
    BY <1>1, <1>3, <1>4, <1>5, <1>6

\* A step that forwards nothing new and takes no credit back keeps the bound.
LEMMA NothingForwarded ==
  ASSUME TypeOK, PaidInv, Spent' \subseteq Spent, UNCHANGED credit
  PROVE  PaidInv'
  <1> SUFFICES ASSUME Prepaid
               PROVE  IsFiniteSet(Units(Spent)') /\ Cardinality(Units(Spent)') <= InitialCredit - credit
    BY DEF PaidInv
  <1>1. Units(Spent)' \subseteq Units(Spent)
    BY DEF Units
  <1>2. IsFiniteSet(Units(Spent)) /\ Cardinality(Units(Spent)) <= InitialCredit - credit
    BY DEF PaidInv
  <1>3. IsFiniteSet(Units(Spent)') /\ Cardinality(Units(Spent)') <= Cardinality(Units(Spent))
    BY <1>1, <1>2, FS_Subset
  <1>4. Cardinality(Units(Spent)) \in Nat /\ Cardinality(Units(Spent)') \in Nat
    BY <1>2, <1>3, FS_CardinalityType
  <1>5. credit \in Int
    BY DEF TypeOK, TypeSubmit
  <1> QED
    BY <1>2, <1>3, <1>4, <1>5

\* The message of a live job is past the charge: its submission is queued, or
\* the job was made from a row that is still there.
LEMMA LiveIsForwarded ==
  ASSUME TypeOK, HeldInv, NEW j \in Job, IsLive(j)
  PROVE  j.msg \in Spent
  <1>1. j.gid = 0 => phase[j.msg] = "queued"
    BY OnlyToken
  <1>2. j.gid > 0 => rows[j.gid] = j.msg
    BY OnlyToken
  <1>3. j.gid = 0 \/ (j.gid > 0 /\ j.gid \in Gid)
    OBVIOUS
  <1>4. j.msg \in Msg
    OBVIOUS
  <1> QED
    BY <1>1, <1>2, <1>3, <1>4 DEF Spent, Forwarded, Stored

\* Every step keeps the balance ahead: a message passes the charge by being
\* charged or by costing nothing, and rows, acceptances and answers come from
\* jobs whose message is already past it.
LEMMA NextPaid == TypeOK /\ HeldInv /\ PaidInv /\ [Next]_vars => PaidInv'
  <1> SUFFICES ASSUME TypeOK, HeldInv, PaidInv, [Next]_vars PROVE PaidInv'
    OBVIOUS
  <1>a. TypeSubmit /\ TypeStore /\ TypeRemote /\ HeldTypes
    BY HeldTyped DEF TypeOK
  <1> USE DEF boxVars, remoteVars, storeVars, queueVars, submitVars
  <1>1. ASSUME NEW m \in Msg, Submission(m) PROVE PaidInv'
    <2>1. /\ UNCHANGED <<rows, taken>>
          /\ \A n \in Msg \ {m} : phase'[n] = phase[n] /\ resp'[n] = resp[n]
          /\ phase'[m] = "queued" => phase[m] = "dispatch"
          /\ resp'[m] = "ok" => resp[m] = "ok"
      BY <1>1, <1>a DEF Submission, HandleSubmit, RoutingDone, DeductCredit, Dispatch, Answer, TypeSubmit
    <2>2. CASE phase'[m] # "dispatch"
      <3>1. Spent' \subseteq Spent
        BY <2>1, <2>2 DEF Spent, Forwarded, Stored
      <3>2. UNCHANGED credit
        BY <1>1, <1>a, <2>2 DEF Submission, HandleSubmit, RoutingDone, DeductCredit, Dispatch,
                                Answer, TypeSubmit
      <3> QED
        BY <3>1, <3>2, NothingForwarded
    <2>3. CASE phase'[m] = "dispatch"
      <3> SUFFICES ASSUME Prepaid
                   PROVE  IsFiniteSet(Units(Spent)') /\ Cardinality(Units(Spent)') <= InitialCredit - credit'
        BY DEF PaidInv
      <3>1. credit' = credit - Cost[m] /\ credit \in Int /\ Cost[m] \in Nat
        BY <1>1, <1>a, <2>3 DEF Submission, HandleSubmit, RoutingDone, DeductCredit, Dispatch,
                                Answer, TypeSubmit
      <3>2. Spent' \in SUBSET (Spent \cup {m}) /\ Spent \in SUBSET Msg
        BY <2>1 DEF Spent, Forwarded, Stored
      <3>3. Units(Spent)' = Units(Spent')
        BY DEF Units
      <3>4. IsFiniteSet(Units(Spent)) /\ Cardinality(Units(Spent)) <= InitialCredit - credit
        BY DEF PaidInv
      <3>5. /\ IsFiniteSet(Units(Spent')) /\ Cardinality(Units(Spent')) \in Nat
            /\ Cardinality(Units(Spent)) \in Nat
            /\ Cardinality(Units(Spent')) <= Cardinality(Units(Spent)) + Cost[m]
        BY <3>2, <3>4, UnitsAdd
      <3> QED
        BY <3>1, <3>3, <3>4, <3>5
    <2> QED
      BY <2>2, <2>3
  <1>2. ASSUME NEW j \in storing, InsertRow(j) PROVE PaidInv'
    <2>1. j \in Job /\ IsLive(j)
      BY <1>a DEF HeldTypes, IsLive
    <2>2. j.msg \in Spent
      BY <2>1, LiveIsForwarded
    <2>3. /\ UNCHANGED <<phase, resp, taken, credit>>
          /\ \A g \in Gid : rows'[g] = rows[g] \/ rows'[g] = j.msg
      BY <1>2, <1>a DEF InsertRow, TypeStore
    <2>4. Spent' \subseteq Spent
      BY <2>2, <2>3 DEF Spent, Forwarded, Stored
    <2> QED
      BY <2>3, <2>4, NothingForwarded
  <1>3. ASSUME NEW c \in cb, CallbackSubmit(c) PROVE PaidInv'
    <2>1. PICK m \in Msg : /\ phase[m] = "queued" /\ phase'[m] = "answered"
                           /\ \A n \in Msg \ {m} : phase'[n] = phase[n] /\ resp'[n] = resp[n]
                           /\ UNCHANGED <<rows, taken>>
      BY <1>3, SubmitCallback
    <2>2. UNCHANGED credit
      BY <1>3 DEF CallbackSubmit
    <2>3. Spent' \subseteq Spent
      BY <2>1 DEF Spent, Forwarded, Stored
    <2> QED
      BY <2>2, <2>3, NothingForwarded
  <1>4. ASSUME NEW c \in cb, RequeueResult(c) PROVE PaidInv'
    <2>1. /\ UNCHANGED <<phase, resp, taken, credit>>
          /\ \A g \in Gid : rows'[g] = rows[g] \/ rows'[g] = NoMsg
      BY <1>4, <1>a DEF RequeueResult, TypeStore
    <2>2. Spent' \subseteq Spent
      BY <2>1 DEF Spent, Forwarded, Stored
    <2> QED
      BY <2>1, <2>2, NothingForwarded
  <1>5. ASSUME NEW b \in Box, NEW j \in sent[b], BearerboxHandles(b, j) PROVE PaidInv'
    <2>1. j \in Job /\ IsLive(j)
      BY <1>a DEF HeldTypes, HeldInv, WireOnce, IsLive, AwaitsAck
    <2>2. j.msg \in Spent
      BY <2>1, LiveIsForwarded
    <2>3. /\ UNCHANGED <<phase, resp, rows, credit>>
          /\ \A m \in Msg : m = j.msg \/ taken'[m] = taken[m]
      BY <1>5, <1>a DEF BearerboxHandles, TypeRemote
    <2>4. Spent' \subseteq Spent
      BY <2>2, <2>3 DEF Spent, Forwarded, Stored
    <2> QED
      BY <2>3, <2>4, NothingForwarded
  <1>6. CASE Crash
    <2>1. /\ UNCHANGED <<resp, rows, taken, credit>>
          /\ \A m \in Msg : phase'[m] \in {"dispatch", "queued"} => phase[m] \in {"dispatch", "queued"}
      BY <1>6 DEF Crash
    <2>2. Spent' \subseteq Spent
      BY <2>1 DEF Spent, Forwarded, Stored
    <2> QED
      BY <2>1, <2>2, NothingForwarded
  <1>7. CASE UNCHANGED <<phase, resp, rows, taken>> /\ UNCHANGED credit
    <2>1. Spent' \subseteq Spent
      BY <1>7 DEF Spent, Forwarded, Stored
    <2> QED
      BY <1>7, <2>1, NothingForwarded
  <1>8. CASE \/ \E g \in releasing : ReleaseClaim(g)
             \/ ClaimStored \/ \E j \in batch : RequeueStored(j)
             \/ \E b \in Box : Writer(b) \/ Reader(b) \/ SetStateDown(b)
             \/ UNCHANGED vars
    BY <1>7, <1>8 DEF ReleaseClaim, ClaimStored, RequeueStored, vars,
                      Writer, WriterCheck, Consume, WriterLock, WriterDeliver, WriterRequeue,
                      Reader, Reconnect, ReconnectFails, DropConnection, ReadAck, ReadFails,
                      ReaderLeaves, SetStateDown
  <1> QED
    BY <1>1, <1>2, <1>3, <1>4, <1>5, <1>6, <1>8 DEF Next

\* Prepaid: what is forwarded, stored or accepted never costs more than the
\* account has been charged, for every number of messages and all their costs.
THEOREM AllPaidFor == Spec => []PaidFor
  <1>1. Init => PaidInv
    <2> SUFFICES ASSUME Init PROVE PaidInv
      OBVIOUS
    <2>1. Spent = {} /\ credit = InitialCredit
      BY DEF Init, Spent, Forwarded, Stored
    <2>2. Units(Spent) = {}
      BY <2>1 DEF Units
    <2> QED
      BY <2>1, <2>2, FS_EmptySet DEF PaidInv
  <1>2. PaidInv => PaidFor
    BY DEF PaidInv, PaidFor, Spent
  <1> QED
    BY <1>1, <1>2, NextPaid, TypeCorrect, HeldInvariant, PTL DEF Spec

=============================================================================
