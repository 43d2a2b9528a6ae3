---------------------------- MODULE MtPathProofs ----------------------------
(***************************************************************************)
(* Proofs about the mobile-terminated path, for every set of messages and  *)
(* boxes, every configuration and every number of rows and faults.         *)
(***************************************************************************)
EXTENDS MtPath, TLAPS

USE MsgAssumption, SwitchAssumption, CreditAssumption, BoundAssumption
    DEF Gid, Job, NoJob, Phase, Resp, Status, AckStatus, WriterPc, ReaderPc

\* Initially every variable has its type.
LEMMA InitType == Init => TypeOK
  BY DEF Init, TypeOK, TypeSubmit, TypeQueue, TypeWriter, TypeLink, TypeRemote, TypeStore

\* Every step of every thread, of bearerbox and of a crash keeps the types.
LEMMA NextType == TypeOK /\ [Next]_vars => TypeOK'
  <1> SUFFICES ASSUME TypeOK, [Next]_vars PROVE TypeOK'
    OBVIOUS
  <1>a. /\ TypeSubmit /\ TypeQueue /\ TypeWriter /\ TypeLink /\ TypeRemote /\ TypeStore
        /\ faults \in 0 .. MaxFaults
    BY DEF TypeOK
  <1> USE DEF boxVars, remoteVars, storeVars, queueVars, submitVars
  <1>1. ASSUME NEW m \in Msg, HandleSubmit(m) PROVE TypeOK'
    <2>1. TypeSubmit'
      BY <1>a, <1>1 DEF HandleSubmit, Answer, TypeSubmit
    <2>2. TypeQueue' /\ TypeWriter' /\ TypeLink' /\ TypeRemote' /\ TypeStore' /\ (faults \in 0 .. MaxFaults)'
      BY <1>a, <1>1
      DEF HandleSubmit, Answer, TypeQueue, TypeWriter, TypeLink, TypeRemote, TypeStore
    <2> QED
      BY <2>1, <2>2 DEF TypeOK
  <1>2. ASSUME NEW m \in Msg, RoutingDone(m) PROVE TypeOK'
    <2>1. TypeSubmit'
      BY <1>a, <1>2 DEF RoutingDone, Answer, TypeSubmit
    <2>2. TypeQueue' /\ TypeWriter' /\ TypeLink' /\ TypeRemote' /\ TypeStore' /\ (faults \in 0 .. MaxFaults)'
      BY <1>a, <1>2
      DEF RoutingDone, Answer, TypeQueue, TypeWriter, TypeLink, TypeRemote, TypeStore
    <2> QED
      BY <2>1, <2>2 DEF TypeOK
  <1>3. ASSUME NEW m \in Msg, DeductCredit(m) PROVE TypeOK'
    <2>1. TypeSubmit'
      BY <1>a, <1>3 DEF DeductCredit, Answer, Fault, TypeSubmit
    <2>2. (faults \in 0 .. MaxFaults)'
      BY <1>a, <1>3 DEF DeductCredit, Answer, Fault
    <2>3. TypeQueue' /\ TypeWriter' /\ TypeLink' /\ TypeRemote' /\ TypeStore'
      BY <1>a, <1>3
      DEF DeductCredit, Answer, Fault, TypeQueue, TypeWriter, TypeLink, TypeRemote,
          TypeStore
    <2> QED
      BY <2>1, <2>2, <2>3 DEF TypeOK
  <1>4. ASSUME NEW m \in Msg, Dispatch(m) PROVE TypeOK'
    <2>1. TypeSubmit'
      BY <1>a, <1>4 DEF Dispatch, AddToQueue, SubmitJob, AnyOnline, Callback, TypeSubmit
    <2>2. TypeQueue'
      BY <1>a, <1>4
      DEF Dispatch, AddToQueue, SubmitJob, AnyOnline, Callback, TypeQueue, TypeWriter,
          TypeLink, TypeStore
    <2>3. TypeWriter' /\ TypeLink' /\ TypeRemote' /\ TypeStore' /\ (faults \in 0 .. MaxFaults)'
      BY <1>a, <1>4
      DEF Dispatch, AddToQueue, SubmitJob, AnyOnline, Callback, TypeWriter, TypeLink,
          TypeRemote, TypeStore
    <2> QED
      BY <2>1, <2>2, <2>3 DEF TypeOK
  <1>5. ASSUME NEW j \in storing, InsertRow(j) PROVE TypeOK'
    <2>1. TypeQueue'
      BY <1>a, <1>5
      DEF InsertRow, Callback, Fault, TypeQueue, TypeWriter, TypeLink, TypeStore
    <2>2. TypeStore'
      BY <1>a, <1>5 DEF InsertRow, Callback, Fault, TypeStore, TypeQueue
    <2>3. (faults \in 0 .. MaxFaults)'
      BY <1>a, <1>5 DEF InsertRow, Callback, Fault
    <2>4. TypeSubmit' /\ TypeWriter' /\ TypeLink' /\ TypeRemote'
      BY <1>a, <1>5
      DEF InsertRow, Callback, Fault, TypeSubmit, TypeWriter, TypeLink, TypeRemote
    <2> QED
      BY <2>1, <2>2, <2>3, <2>4 DEF TypeOK
  <1>6. ASSUME NEW c \in cb, CallbackSubmit(c) PROVE TypeOK'
    <2>1. TypeSubmit'
      BY <1>a, <1>6 DEF CallbackSubmit, Answer, TypeSubmit, TypeQueue
    <2>2. TypeQueue'
      BY <1>a, <1>6 DEF CallbackSubmit, Answer, TypeQueue, TypeWriter, TypeLink, TypeStore
    <2>3. TypeWriter' /\ TypeLink' /\ TypeRemote' /\ TypeStore' /\ (faults \in 0 .. MaxFaults)'
      BY <1>a, <1>6 DEF CallbackSubmit, Answer, TypeWriter, TypeLink, TypeRemote, TypeStore
    <2> QED
      BY <2>1, <2>2, <2>3 DEF TypeOK
  <1>7. ASSUME NEW c \in cb, RequeueResult(c) PROVE TypeOK'
    <2>1. TypeQueue'
      BY <1>a, <1>7 DEF RequeueResult, Fault, TypeQueue, TypeWriter, TypeLink, TypeStore
    <2>2. TypeStore'
      <3>1. c.job \in Job /\ c.job.gid > 0
        BY <1>a, <1>7 DEF RequeueResult, TypeQueue
      <3>2. c.job.gid \in Gid
        BY <3>1
      <3>3. rows' \in [Gid -> Msg \cup {NoMsg}]
        BY <1>a, <1>7 DEF RequeueResult, TypeStore
      <3>4. releasing' \subseteq Gid
        BY <3>2, <1>a, <1>7 DEF RequeueResult, TypeStore
      <3> QED
        BY <3>3, <3>4, <1>a, <1>7 DEF RequeueResult, TypeStore
    <2>3. (faults \in 0 .. MaxFaults)'
      BY <1>a, <1>7 DEF RequeueResult, Fault
    <2>4. TypeSubmit' /\ TypeWriter' /\ TypeLink' /\ TypeRemote'
      BY <1>a, <1>7 DEF RequeueResult, Fault, TypeSubmit, TypeWriter, TypeLink, TypeRemote
    <2> QED
      BY <2>1, <2>2, <2>3, <2>4 DEF TypeOK
  <1>8. ASSUME NEW g \in releasing, ReleaseClaim(g) PROVE TypeOK'
    <2>1. TypeStore'
      BY <1>a, <1>8 DEF ReleaseClaim, TypeStore, TypeQueue
    <2>2. TypeSubmit' /\ TypeQueue' /\ TypeWriter' /\ TypeLink' /\ TypeRemote' /\ (faults \in 0 .. MaxFaults)'
      BY <1>a, <1>8
      DEF ReleaseClaim, TypeSubmit, TypeQueue, TypeWriter, TypeLink, TypeRemote
    <2> QED
      BY <2>1, <2>2 DEF TypeOK
  <1>9. CASE ClaimStored
    <2>1. TypeStore'
      <3>1. Drainable \subseteq Gid /\ \A g \in Drainable : rows[g] \in Msg
        BY <1>a DEF Drainable, TypeStore
      <3>2. \A g \in Drainable : [gid |-> g, msg |-> rows[g]] \in Job
        BY <3>1
      <3>3. batch' \subseteq Job
        BY <3>2, <1>9 DEF ClaimStored
      <3>4. pending' \subseteq Gid
        BY <3>1, <1>a, <1>9 DEF ClaimStored, TypeStore
      <3> QED
        BY <3>3, <3>4, <1>a, <1>9 DEF ClaimStored, TypeStore
    <2>2. TypeSubmit' /\ TypeQueue' /\ TypeWriter' /\ TypeLink' /\ TypeRemote' /\ (faults \in 0 .. MaxFaults)'
      BY <1>a, <1>9
      DEF ClaimStored, AnyOnline, Drainable, TypeSubmit, TypeQueue, TypeWriter, TypeLink,
          TypeRemote
    <2> QED
      BY <2>1, <2>2 DEF TypeOK
  <1>10. ASSUME NEW j \in batch, RequeueStored(j) PROVE TypeOK'
    <2>1. TypeQueue'
      BY <1>a, <1>10 DEF RequeueStored, TypeQueue, TypeWriter, TypeLink, TypeStore
    <2>2. TypeStore'
      BY <1>a, <1>10 DEF RequeueStored, TypeStore, TypeQueue
    <2>3. TypeSubmit' /\ TypeWriter' /\ TypeLink' /\ TypeRemote' /\ (faults \in 0 .. MaxFaults)'
      BY <1>a, <1>10 DEF RequeueStored, TypeSubmit, TypeWriter, TypeLink, TypeRemote
    <2> QED
      BY <2>1, <2>2, <2>3 DEF TypeOK
  <1>11. ASSUME NEW b \in Box, WriterCheck(b) PROVE TypeOK'
    <2>1. TypeWriter'
      BY <1>a, <1>11 DEF WriterCheck, TypeWriter, TypeQueue
    <2>2. TypeSubmit' /\ TypeQueue' /\ TypeLink' /\ TypeRemote' /\ TypeStore' /\ (faults \in 0 .. MaxFaults)'
      BY <1>a, <1>11 DEF WriterCheck, TypeSubmit, TypeQueue, TypeLink, TypeRemote, TypeStore
    <2> QED
      BY <2>1, <2>2 DEF TypeOK
  <1>12. ASSUME NEW b \in Box, NEW j \in outq, Consume(b, j) PROVE TypeOK'
    <2>1. TypeQueue'
      BY <1>a, <1>12 DEF Consume, TypeQueue, TypeWriter, TypeLink, TypeStore
    <2>2. TypeWriter'
      BY <1>a, <1>12 DEF Consume, TypeWriter, TypeQueue
    <2>3. TypeSubmit' /\ TypeLink' /\ TypeRemote' /\ TypeStore' /\ (faults \in 0 .. MaxFaults)'
      BY <1>a, <1>12 DEF Consume, TypeSubmit, TypeLink, TypeRemote, TypeStore
    <2> QED
      BY <2>1, <2>2, <2>3 DEF TypeOK
  <1>13. ASSUME NEW b \in Box, WriterLock(b) PROVE TypeOK'
    <2>1. TypeWriter'
      BY <1>a, <1>13 DEF WriterLock, TypeWriter, TypeQueue
    <2>2. TypeLink'
      BY <1>a, <1>13 DEF WriterLock, TypeLink, TypeWriter
    <2>3. TypeSubmit' /\ TypeQueue' /\ TypeRemote' /\ TypeStore' /\ (faults \in 0 .. MaxFaults)'
      BY <1>a, <1>13 DEF WriterLock, TypeSubmit, TypeQueue, TypeRemote, TypeStore
    <2> QED
      BY <2>1, <2>2, <2>3 DEF TypeOK
  <1>14. ASSUME NEW b \in Box, WriterDeliver(b) PROVE TypeOK'
    <2>1. TypeWriter'
      BY <1>a, <1>14 DEF WriterDeliver, Fault, TypeWriter, TypeQueue
    <2>2. TypeLink'
      <3>1. hand[b] \in Job
        BY <1>a, <1>14 DEF WriterDeliver, TypeWriter
      <3>2. sent' \in [Box -> SUBSET Job]
        BY <3>1, <1>a, <1>14 DEF WriterDeliver, TypeLink
      <3>3. openAcks' \in [Box -> SUBSET Job]
        BY <1>a, <1>14 DEF WriterDeliver, TypeLink
      <3>4. alive' \in [Box -> BOOLEAN]
        BY <1>a, <1>14 DEF WriterDeliver, TypeLink
      <3> QED
        BY <3>2, <3>3, <3>4, <1>a, <1>14 DEF WriterDeliver, TypeLink
    <2>3. (faults \in 0 .. MaxFaults)'
      BY <1>a, <1>14 DEF WriterDeliver, Fault
    <2>4. TypeSubmit' /\ TypeQueue' /\ TypeRemote' /\ TypeStore'
      BY <1>a, <1>14 DEF WriterDeliver, Fault, TypeSubmit, TypeQueue, TypeRemote, TypeStore
    <2> QED
      BY <2>1, <2>2, <2>3, <2>4 DEF TypeOK
  <1>15. ASSUME NEW b \in Box, WriterRequeue(b) PROVE TypeOK'
    <2>1. TypeQueue'
      BY <1>a, <1>15
      DEF WriterRequeue, AddToQueue, AnyOnline, Callback, TypeQueue, TypeWriter, TypeLink,
          TypeStore
    <2>2. TypeWriter'
      BY <1>a, <1>15
      DEF WriterRequeue, AddToQueue, AnyOnline, Callback, TypeWriter, TypeQueue
    <2>3. TypeSubmit' /\ TypeLink' /\ TypeRemote' /\ TypeStore' /\ (faults \in 0 .. MaxFaults)'
      BY <1>a, <1>15
      DEF WriterRequeue, AddToQueue, AnyOnline, Callback, TypeSubmit, TypeLink, TypeRemote,
          TypeStore
    <2> QED
      BY <2>1, <2>2, <2>3 DEF TypeOK
  <1>16. ASSUME NEW b \in Box, Reconnect(b) PROVE TypeOK'
    <2>1. TypeQueue'
      BY <1>a, <1>16
      DEF Reconnect, DropConnection, TypeQueue, TypeWriter, TypeLink, TypeStore
    <2>2. TypeLink'
      BY <1>a, <1>16 DEF Reconnect, DropConnection, TypeLink, TypeWriter
    <2>3. TypeSubmit' /\ TypeWriter' /\ TypeRemote' /\ TypeStore' /\ (faults \in 0 .. MaxFaults)'
      BY <1>a, <1>16
      DEF Reconnect, DropConnection, TypeSubmit, TypeWriter, TypeRemote, TypeStore
    <2> QED
      BY <2>1, <2>2, <2>3 DEF TypeOK
  <1>17. ASSUME NEW b \in Box, ReconnectFails(b) PROVE TypeOK'
    <2>1. TypeQueue'
      BY <1>a, <1>17
      DEF ReconnectFails, DropConnection, TypeQueue, TypeWriter, TypeLink, TypeStore
    <2>2. TypeLink'
      BY <1>a, <1>17 DEF ReconnectFails, DropConnection, TypeLink, TypeWriter
    <2>3. TypeSubmit' /\ TypeWriter' /\ TypeRemote' /\ TypeStore' /\ (faults \in 0 .. MaxFaults)'
      BY <1>a, <1>17
      DEF ReconnectFails, DropConnection, TypeSubmit, TypeWriter, TypeRemote, TypeStore
    <2> QED
      BY <2>1, <2>2, <2>3 DEF TypeOK
  <1>18. ASSUME NEW b \in Box, NEW a \in acks[b], ReadAck(b, a) PROVE TypeOK'
    <2>1. TypeQueue'
      BY <1>a, <1>18
      DEF ReadAck, Callback, AckResult, TypeQueue, TypeWriter, TypeLink, TypeStore
    <2>2. TypeLink'
      BY <1>a, <1>18 DEF ReadAck, Callback, AckResult, TypeLink, TypeWriter
    <2>3. TypeSubmit' /\ TypeWriter' /\ TypeRemote' /\ TypeStore' /\ (faults \in 0 .. MaxFaults)'
      BY <1>a, <1>18
      DEF ReadAck, Callback, AckResult, TypeSubmit, TypeWriter, TypeRemote, TypeStore
    <2> QED
      BY <2>1, <2>2, <2>3 DEF TypeOK
  <1>19. ASSUME NEW b \in Box, ReadFails(b) PROVE TypeOK'
    <2>1. TypeLink'
      BY <1>a, <1>19 DEF ReadFails, Fault, TypeLink, TypeWriter
    <2>2. (faults \in 0 .. MaxFaults)'
      BY <1>a, <1>19 DEF ReadFails, Fault
    <2>3. TypeSubmit' /\ TypeQueue' /\ TypeWriter' /\ TypeRemote' /\ TypeStore'
      BY <1>a, <1>19
      DEF ReadFails, Fault, TypeSubmit, TypeQueue, TypeWriter, TypeRemote, TypeStore
    <2> QED
      BY <2>1, <2>2, <2>3 DEF TypeOK
  <1>20. ASSUME NEW b \in Box, ReaderLeaves(b) PROVE TypeOK'
    <2>1. TypeLink'
      BY <1>a, <1>20 DEF ReaderLeaves, TypeLink, TypeWriter
    <2>2. TypeSubmit' /\ TypeQueue' /\ TypeWriter' /\ TypeRemote' /\ TypeStore' /\ (faults \in 0 .. MaxFaults)'
      BY <1>a, <1>20
      DEF ReaderLeaves, TypeSubmit, TypeQueue, TypeWriter, TypeRemote, TypeStore
    <2> QED
      BY <2>1, <2>2 DEF TypeOK
  <1>21. ASSUME NEW b \in Box, SetStateDown(b) PROVE TypeOK'
    <2>1. TypeLink'
      BY <1>a, <1>21 DEF SetStateDown, Fault, TypeLink, TypeWriter
    <2>2. (faults \in 0 .. MaxFaults)'
      BY <1>a, <1>21 DEF SetStateDown, Fault
    <2>3. TypeSubmit' /\ TypeQueue' /\ TypeWriter' /\ TypeRemote' /\ TypeStore'
      BY <1>a, <1>21
      DEF SetStateDown, Fault, TypeSubmit, TypeQueue, TypeWriter, TypeRemote, TypeStore
    <2> QED
      BY <2>1, <2>2, <2>3 DEF TypeOK
  <1>22. ASSUME NEW b \in Box, NEW j \in sent[b], BearerboxHandles(b, j) PROVE TypeOK'
    <2>1. TypeLink'
      BY <1>a, <1>22 DEF BearerboxHandles, TypeLink, TypeWriter
    <2>2. TypeRemote'
      BY <1>a, <1>22 DEF BearerboxHandles, TypeRemote, TypeLink
    <2>3. TypeSubmit' /\ TypeQueue' /\ TypeWriter' /\ TypeStore' /\ (faults \in 0 .. MaxFaults)'
      BY <1>a, <1>22 DEF BearerboxHandles, TypeSubmit, TypeQueue, TypeWriter, TypeStore
    <2> QED
      BY <2>1, <2>2, <2>3 DEF TypeOK
  <1>23. CASE Crash
    <2>1. TypeSubmit'
      BY <1>a, <1>23 DEF Crash, Fault, TypeSubmit
    <2>2. TypeQueue'
      BY <1>a, <1>23 DEF Crash, Fault, TypeQueue, TypeWriter, TypeLink, TypeStore
    <2>3. TypeWriter'
      BY <1>a, <1>23 DEF Crash, Fault, TypeWriter, TypeQueue
    <2>4. TypeLink'
      BY <1>a, <1>23 DEF Crash, Fault, TypeLink, TypeWriter
    <2>5. TypeStore'
      BY <1>a, <1>23 DEF Crash, Fault, TypeStore, TypeQueue
    <2>6. (faults \in 0 .. MaxFaults)'
      BY <1>a, <1>23 DEF Crash, Fault
    <2>7. TypeRemote'
      BY <1>a, <1>23 DEF Crash, Fault, TypeRemote
    <2> QED
      BY <2>1, <2>2, <2>3, <2>4, <2>5, <2>6, <2>7 DEF TypeOK
  <1>24. CASE UNCHANGED vars
    BY <1>a, <1>24
    DEF vars, TypeOK, TypeSubmit, TypeQueue, TypeWriter, TypeLink, TypeRemote, TypeStore
  <1> QED
    BY <1>1, <1>2, <1>3, <1>4, <1>5, <1>6, <1>7, <1>8, <1>9, <1>10, <1>11, <1>12,
       <1>13, <1>14, <1>15, <1>16, <1>17, <1>18, <1>19, <1>20, <1>21, <1>22, <1>23, <1>24
    DEF Next, Submission, Writer, Reader

\* Type correctness of the whole path: no interleaving of routing callbacks,
\* writer, reader and requeue threads, faults and crashes leaves the types.
THEOREM TypeCorrect == Spec => []TypeOK
  BY InitType, NextType, PTL DEF Spec

-----------------------------------------------------------------------------
(* Nothing is forgotten *)

\* Facts about messages and rows that no step undoes.
Monotone ==
  /\ \A j \in Job : MatchesRow(j) => MatchesRow(j)'
  /\ \A m \in Msg, g \in 0 .. MaxGid : Backed(m, g) => Backed(m, g)'
  /\ \A m \in Msg : Kept(m) => Kept(m)'
  /\ \A m \in Msg : taken[m] > 0 => taken'[m] > 0
  /\ refused \subseteq refused'

\* Only three operations touch the store's rows or what bearerbox has decided.
LEMMA Frame ==
  [Next]_vars =>
    \/ UNCHANGED <<rows, nextGid, taken, refused>>
    \/ \E j \in storing : InsertRow(j)
    \/ \E c \in cb : RequeueResult(c)
    \/ \E b \in Box : \E j \in sent[b] : BearerboxHandles(b, j)
  <1> SUFFICES ASSUME [Next]_vars,
                      ~ \E j \in storing : InsertRow(j),
                      ~ \E c \in cb : RequeueResult(c),
                      ~ \E b \in Box : \E j \in sent[b] : BearerboxHandles(b, j)
               PROVE  UNCHANGED <<rows, nextGid, taken, refused>>
    OBVIOUS
  <1> USE DEF remoteVars, storeVars
  <1>1. CASE \E m \in Msg : Submission(m)
    BY <1>1 DEF Submission, HandleSubmit, RoutingDone, DeductCredit, Dispatch
  <1>2. CASE \E c \in cb : CallbackSubmit(c)
    BY <1>2 DEF CallbackSubmit
  <1>3. CASE \E g \in releasing : ReleaseClaim(g)
    BY <1>3 DEF ReleaseClaim
  <1>4. CASE ClaimStored \/ \E j \in batch : RequeueStored(j)
    BY <1>4 DEF ClaimStored, RequeueStored
  <1>5. CASE \E b \in Box : Writer(b)
    BY <1>5 DEF Writer, WriterCheck, Consume, WriterLock, WriterDeliver, WriterRequeue
  <1>6. CASE \E b \in Box : Reader(b) \/ SetStateDown(b)
    BY <1>6 DEF Reader, Reconnect, ReconnectFails, DropConnection, ReadAck, ReadFails,
                ReaderLeaves, SetStateDown
  <1>7. CASE Crash
    BY <1>7 DEF Crash
  <1>8. CASE UNCHANGED vars
    BY <1>8 DEF vars
  <1> QED
    BY <1>1, <1>2, <1>3, <1>4, <1>5, <1>6, <1>7, <1>8 DEF Next

\* No step loses a message, a row's identity or a decision of bearerbox.  The
\* one step that could is the DELETE of RequeueResult: the callback that asks
\* for it is backed by bearerbox or by a younger row.
LEMMA NextMonotone == TypeOK /\ KeptInv /\ [Next]_vars => Monotone
  <1> SUFFICES ASSUME TypeOK, KeptInv, [Next]_vars PROVE Monotone
    OBVIOUS
  <1>a. TypeQueue /\ TypeRemote /\ TypeStore /\ TypeLink
    BY DEF TypeOK
  <1>b. RowsFresh /\ JobsMatchRows /\ CallbacksBacked
    BY DEF KeptInv
  <1>1. CASE UNCHANGED <<rows, nextGid, taken, refused>>
    BY <1>1 DEF Monotone, MatchesRow, Backed, Kept, Stored
  <1>2. ASSUME NEW j \in storing, InsertRow(j) PROVE Monotone
    <2>1. UNCHANGED <<taken, refused>>
      BY <1>2 DEF InsertRow, remoteVars
    <2>2. CASE UNCHANGED <<rows, nextGid>>
      BY <2>1, <2>2 DEF Monotone, MatchesRow, Backed, Kept, Stored
    <2>3. CASE /\ nextGid <= MaxGid
               /\ rows' = [rows EXCEPT ![nextGid] = j.msg]
               /\ nextGid' = nextGid + 1
      <3>1. nextGid \in Gid /\ rows[nextGid] = NoMsg
        BY <1>a, <1>b, <2>3 DEF TypeStore, RowsFresh
      <3>2. \A g \in Gid : rows[g] # NoMsg => rows'[g] = rows[g]
        BY <1>a, <2>3, <3>1 DEF TypeStore
      <3>3. \A k \in Job : MatchesRow(k) => MatchesRow(k)'
        BY <1>a, <2>3, <3>1 DEF TypeStore, MatchesRow
      <3> QED
        BY <2>1, <3>2, <3>3 DEF Monotone, Backed, Kept, Stored
    <2> QED
      BY <1>2, <2>2, <2>3 DEF InsertRow
  <1>3. ASSUME NEW c \in cb, RequeueResult(c) PROVE Monotone
    <2>1. UNCHANGED <<taken, refused, nextGid>>
      BY <1>3 DEF RequeueResult, remoteVars
    <2>2. CASE UNCHANGED rows
      BY <2>1, <2>2 DEF Monotone, MatchesRow, Backed, Kept, Stored
    <2>3. CASE /\ c.status \in {"ok", "submitfail"}
               /\ rows' = [rows EXCEPT ![c.job.gid] = NoMsg]
      <3>1. c.job \in Job /\ c.job.gid \in Gid /\ c.job.msg \in Msg
        BY <1>a, <1>3 DEF TypeQueue, RequeueResult
      <3>2. rows[c.job.gid] \in {c.job.msg, NoMsg}
        BY <1>b, <1>3, <3>1 DEF JobsMatchRows, MatchesRow
      <3>3. Backed(c.job.msg, c.job.gid)
        BY <1>b, <2>3 DEF CallbacksBacked, Backed
      <3>4. \A g \in Gid : g # c.job.gid => rows'[g] = rows[g]
        BY <1>a, <2>3, <3>1 DEF TypeStore
      <3>5. Backed(c.job.msg, c.job.gid)'
        BY <2>1, <3>1, <3>3, <3>4 DEF Backed
      <3>6. \A k \in Job : MatchesRow(k) => MatchesRow(k)'
        BY <1>a, <2>1, <2>3, <3>1 DEF TypeStore, MatchesRow
      <3>7. \A m \in Msg, g \in 0 .. MaxGid : Backed(m, g) => Backed(m, g)'
        <4> SUFFICES ASSUME NEW m \in Msg, NEW g \in 0 .. MaxGid, Backed(m, g)
                     PROVE  Backed(m, g)'
          OBVIOUS
        <4>1. CASE taken[m] > 0 \/ m \in refused
          BY <2>1, <4>1 DEF Backed
        <4>2. CASE \E h \in Gid : h > g /\ rows[h] = m
          <5>1. PICK h \in Gid : h > g /\ rows[h] = m
            BY <4>2
          <5>2. CASE h # c.job.gid
            BY <3>4, <5>1, <5>2 DEF Backed
          <5>3. CASE h = c.job.gid
            <6>1. m = c.job.msg
              BY <3>2, <5>1, <5>3
            <6>2. taken'[m] > 0 \/ m \in refused' \/ \E i \in Gid : i > h /\ rows'[i] = m
              BY <3>5, <5>3, <6>1 DEF Backed
            <6> QED
              BY <5>1, <6>2 DEF Backed
          <5> QED
            BY <5>2, <5>3
        <4> QED
          BY <4>1, <4>2 DEF Backed
      <3>8. \A m \in Msg : Kept(m) <=> Backed(m, 0)
        BY <1>a DEF Kept, Stored, Backed
      <3>9. \A m \in Msg : Kept(m)' <=> Backed(m, 0)'
        BY <1>a DEF Kept, Stored, Backed
      <3> QED
        BY <2>1, <3>6, <3>7, <3>8, <3>9 DEF Monotone
    <2> QED
      BY <1>3, <2>2, <2>3 DEF RequeueResult
  <1>4. ASSUME NEW b \in Box, NEW j \in sent[b], BearerboxHandles(b, j) PROVE Monotone
    <2>1. UNCHANGED <<rows, nextGid>> /\ j \in Job
      BY <1>a, <1>4 DEF BearerboxHandles, storeVars, TypeLink
    <2>2. \A m \in Msg : taken'[m] >= taken[m]
      BY <1>a, <1>4, <2>1 DEF BearerboxHandles, TypeRemote
    <2>3. refused \subseteq refused'
      BY <1>4 DEF BearerboxHandles
    <2>4. \A m \in Msg : taken[m] \in Nat /\ taken'[m] \in Nat
      BY <1>a, <1>4, <2>1 DEF BearerboxHandles, TypeRemote
    <2> QED
      BY <2>1, <2>2, <2>3, <2>4 DEF Monotone, MatchesRow, Backed, Kept, Stored
  <1> QED
    BY <1>1, <1>2, <1>3, <1>4, Frame

\* The inductive invariant holds initially: there is no job and no row.
LEMMA InitKept == Init => KeptInv
  BY DEF Init, KeptInv, RowsFresh, JobsMatchRows, AcksTrue, CallbacksBacked, OkIsKept

\* Every step preserves the inductive invariant.
LEMMA NextKept == TypeOK /\ KeptInv /\ [Next]_vars => KeptInv'
  <1> SUFFICES ASSUME TypeOK, KeptInv, [Next]_vars PROVE KeptInv'
    OBVIOUS
  <1>a. TypeSubmit /\ TypeQueue /\ TypeWriter /\ TypeRemote /\ TypeStore /\ TypeLink
    BY DEF TypeOK
  <1>b. RowsFresh /\ JobsMatchRows /\ AcksTrue /\ CallbacksBacked /\ OkIsKept
    BY DEF KeptInv
  <1>c. Monotone
    BY NextMonotone
  <1> USE DEF boxVars, remoteVars, storeVars, queueVars, submitVars
  <1>1. ASSUME NEW m \in Msg, HandleSubmit(m) PROVE KeptInv'
    <2>1. OkIsKept'
      BY <1>a, <1>b, <1>c, <1>1
      DEF HandleSubmit, Answer, OkIsKept, Monotone, Kept, TypeSubmit
    <2>2. RowsFresh' /\ JobsMatchRows' /\ AcksTrue' /\ CallbacksBacked'
      BY <1>a, <1>b, <1>c, <1>1
      DEF HandleSubmit, Answer, RowsFresh, JobsMatchRows, AcksTrue, CallbacksBacked,
          Monotone, MatchesRow, TypeLink, TypeQueue, TypeStore, TypeWriter, Backed
    <2> QED
      BY <2>1, <2>2 DEF KeptInv
  <1>2. ASSUME NEW m \in Msg, RoutingDone(m) PROVE KeptInv'
    <2>1. OkIsKept'
      BY <1>a, <1>b, <1>c, <1>2
      DEF RoutingDone, Answer, OkIsKept, Monotone, Kept, TypeSubmit
    <2>2. RowsFresh' /\ JobsMatchRows' /\ AcksTrue' /\ CallbacksBacked'
      BY <1>a, <1>b, <1>c, <1>2
      DEF RoutingDone, Answer, RowsFresh, JobsMatchRows, AcksTrue, CallbacksBacked,
          Monotone, MatchesRow, TypeLink, TypeQueue, TypeStore, TypeWriter, Backed
    <2> QED
      BY <2>1, <2>2 DEF KeptInv
  <1>3. ASSUME NEW m \in Msg, DeductCredit(m) PROVE KeptInv'
    <2>1. OkIsKept'
      BY <1>a, <1>b, <1>c, <1>3
      DEF DeductCredit, Answer, Fault, OkIsKept, Monotone, Kept, TypeSubmit
    <2>2. RowsFresh' /\ JobsMatchRows' /\ AcksTrue' /\ CallbacksBacked'
      BY <1>a, <1>b, <1>c, <1>3
      DEF DeductCredit, Answer, Fault, RowsFresh, JobsMatchRows, AcksTrue, CallbacksBacked,
          Monotone, MatchesRow, TypeLink, TypeQueue, TypeStore, TypeWriter, Backed
    <2> QED
      BY <2>1, <2>2 DEF KeptInv
  <1>4. ASSUME NEW m \in Msg, Dispatch(m) PROVE KeptInv'
    <2>1. JobsMatchRows'
      BY <1>a, <1>b, <1>c, <1>4
      DEF Dispatch, AddToQueue, SubmitJob, AnyOnline, Callback, JobsMatchRows, Monotone,
          MatchesRow, TypeQueue, TypeStore, TypeLink
    <2>2. CallbacksBacked'
      BY <1>a, <1>b, <1>c, <1>4
      DEF Dispatch, AddToQueue, SubmitJob, AnyOnline, Callback, CallbacksBacked, Monotone,
          Backed, TypeQueue, TypeStore, TypeRemote, TypeLink
    <2>3. RowsFresh' /\ AcksTrue' /\ OkIsKept'
      BY <1>a, <1>b, <1>c, <1>4
      DEF Dispatch, AddToQueue, SubmitJob, AnyOnline, Callback, RowsFresh, AcksTrue,
          OkIsKept, Monotone, MatchesRow, TypeLink, Kept, TypeSubmit
    <2> QED
      BY <2>1, <2>2, <2>3 DEF KeptInv
  <1>5. ASSUME NEW j \in storing, InsertRow(j) PROVE KeptInv'
    <2>1. RowsFresh'
      BY <1>a, <1>b, <1>5 DEF InsertRow, Callback, Fault, RowsFresh, TypeStore
    <2>2. JobsMatchRows'
      <3>1. \A i \in Job : MatchesRow(i) => MatchesRow(i)'
        BY <1>c DEF Monotone
      <3>2. \A i \in outq' \cup storing' \cup batch' : MatchesRow(i)'
        BY <3>1, <1>a, <1>b, <1>5 DEF InsertRow, Callback, JobsMatchRows, TypeQueue, TypeStore
      <3>3. \A d \in cb' : MatchesRow(d.job)'
        BY <3>1, <1>a, <1>b, <1>5 DEF InsertRow, Callback, JobsMatchRows, TypeQueue
      <3>4. \A x \in Box : \A i \in openAcks'[x] \cup sent'[x] : MatchesRow(i)'
        BY <3>1, <1>a, <1>b, <1>5 DEF InsertRow, Callback, JobsMatchRows, TypeLink
      <3>5. \A x \in Box : wpc'[x] \in {"got", "locked", "requeue"} => MatchesRow(hand[x])'
        BY <3>1, <1>a, <1>b, <1>5 DEF InsertRow, Callback, JobsMatchRows, MatchesRow, TypeWriter
      <3> QED
        BY <3>2, <3>3, <3>4, <3>5 DEF JobsMatchRows
    <2>3. CallbacksBacked'
      <3>1. \A m \in Msg, g \in 0 .. MaxGid : Backed(m, g) => Backed(m, g)'
        BY <1>c DEF Monotone
      <3>2. refused' = refused
        BY <1>5 DEF InsertRow
      <3>3. ASSUME NEW d \in cb'
            PROVE  /\ d.status = "ok" => Backed(d.job.msg, d.job.gid)'
                   /\ d.status = "submitfail" => d.job.msg \in refused'
        <4>1. CASE d \in cb
          <5>1. d.job \in Job
            BY <4>1, <1>a DEF TypeQueue
          <5> QED
            BY <3>1, <3>2, <4>1, <5>1, <1>b DEF CallbacksBacked
        <4>2. CASE d = [job |-> j, status |-> "syserr"]
          BY <4>2
        <4>3. CASE d = [job |-> j, status |-> "ok"] /\ nextGid <= MaxGid
                   /\ rows' = [rows EXCEPT ![nextGid] = j.msg]
          <5>1. nextGid \in Gid /\ rows'[nextGid] = j.msg
            BY <4>3, <1>a DEF TypeStore
          <5>2. j \in Job /\ j.gid < nextGid
            BY <1>a, <1>b, <5>1 DEF JobsMatchRows, MatchesRow, TypeQueue, TypeStore
          <5>3. \E h \in Gid : h > j.gid /\ rows'[h] = j.msg
            BY <5>1, <5>2
          <5> QED
            BY <4>3, <5>3 DEF Backed
        <4> QED
          BY <4>1, <4>2, <4>3, <1>5 DEF InsertRow, Callback
      <3> QED
        BY <3>3 DEF CallbacksBacked
    <2>4. AcksTrue' /\ OkIsKept'
      BY <1>a, <1>b, <1>c, <1>5
      DEF InsertRow, Callback, Fault, AcksTrue, OkIsKept, Monotone, MatchesRow, TypeLink,
          Kept, TypeSubmit
    <2> QED
      BY <2>1, <2>2, <2>3, <2>4 DEF KeptInv
  <1>6. ASSUME NEW c \in cb, CallbackSubmit(c) PROVE KeptInv'
    <2>1. JobsMatchRows'
      BY <1>a, <1>b, <1>c, <1>6
      DEF CallbackSubmit, Answer, JobsMatchRows, Monotone, MatchesRow, TypeQueue, TypeStore,
          TypeLink
    <2>2. CallbacksBacked'
      BY <1>a, <1>b, <1>c, <1>6
      DEF CallbackSubmit, Answer, CallbacksBacked, Monotone, Backed, TypeQueue, TypeStore,
          TypeRemote, TypeLink
    <2>3. OkIsKept'
      BY <1>a, <1>b, <1>c, <1>6
      DEF CallbackSubmit, Answer, OkIsKept, Monotone, CallbacksBacked, Backed, TypeQueue,
          Stored, Kept, TypeSubmit
    <2>4. RowsFresh' /\ AcksTrue'
      BY <1>a, <1>b, <1>c, <1>6
      DEF CallbackSubmit, Answer, RowsFresh, AcksTrue, Monotone, MatchesRow, TypeLink
    <2> QED
      BY <2>1, <2>2, <2>3, <2>4 DEF KeptInv
  <1>7. ASSUME NEW c \in cb, RequeueResult(c) PROVE KeptInv'
    <2>1. RowsFresh'
      BY <1>a, <1>b, <1>7 DEF RequeueResult, Fault, RowsFresh, TypeStore, TypeQueue
    <2>2. JobsMatchRows'
      <3>1. \A j \in Job : MatchesRow(j) => MatchesRow(j)'
        BY <1>c DEF Monotone
      <3>2. \A j \in outq' \cup storing' \cup batch' : MatchesRow(j)'
        BY <3>1, <1>a, <1>b, <1>7 DEF RequeueResult, JobsMatchRows, TypeQueue, TypeStore
      <3>3. \A d \in cb' : MatchesRow(d.job)'
        BY <3>1, <1>a, <1>b, <1>7 DEF RequeueResult, JobsMatchRows, TypeQueue
      <3>4. \A x \in Box : \A j \in openAcks'[x] \cup sent'[x] : MatchesRow(j)'
        BY <3>1, <1>a, <1>b, <1>7 DEF RequeueResult, JobsMatchRows, TypeLink
      <3>5. \A x \in Box : wpc'[x] \in {"got", "locked", "requeue"} => MatchesRow(hand[x])'
        BY <3>1, <1>a, <1>b, <1>7 DEF RequeueResult, JobsMatchRows, MatchesRow, TypeWriter
      <3> QED
        BY <3>2, <3>3, <3>4, <3>5 DEF JobsMatchRows
    <2>3. CallbacksBacked'
      BY <1>a, <1>b, <1>c, <1>7, ZenonT(40)
      DEF RequeueResult, Fault, CallbacksBacked, Monotone, Backed, TypeQueue, TypeStore,
          TypeRemote, TypeLink
    <2>4. AcksTrue' /\ OkIsKept'
      BY <1>a, <1>b, <1>c, <1>7
      DEF RequeueResult, Fault, AcksTrue, OkIsKept, Monotone, MatchesRow, TypeLink, Kept,
          TypeSubmit
    <2> QED
      BY <2>1, <2>2, <2>3, <2>4 DEF KeptInv
  <1>8. ASSUME NEW g \in releasing, ReleaseClaim(g) PROVE KeptInv'
    <2>1. RowsFresh' /\ JobsMatchRows' /\ AcksTrue' /\ CallbacksBacked' /\ OkIsKept'
      BY <1>a, <1>b, <1>c, <1>8
      DEF ReleaseClaim, RowsFresh, JobsMatchRows, AcksTrue, CallbacksBacked, OkIsKept,
          Monotone, MatchesRow, TypeLink, TypeQueue, TypeStore, TypeWriter, Backed, Kept,
          TypeSubmit
    <2> QED
      BY <2>1 DEF KeptInv
  <1>9. CASE ClaimStored
    <2>1. JobsMatchRows'
      <3>1. \A j \in Job : MatchesRow(j) => MatchesRow(j)'
        BY <1>c DEF Monotone
      <3>2. \A j \in outq' \cup storing' \cup batch' : MatchesRow(j)'
        <4>1. \A g \in Drainable : g \in Gid /\ g < nextGid
          BY <1>a, <1>b DEF Drainable, RowsFresh, TypeStore
        <4>2. \A j \in batch' : j.gid < nextGid' /\ rows'[j.gid] = j.msg
          BY <4>1, <1>9 DEF ClaimStored
        <4>3. \A j \in batch' : MatchesRow(j)'
          BY <4>2 DEF MatchesRow
        <4>4. \A j \in outq' \cup storing' : MatchesRow(j)'
          BY <3>1, <1>a, <1>b, <1>9 DEF ClaimStored, JobsMatchRows, TypeQueue
        <4> QED
          BY <4>3, <4>4
      <3>3. \A d \in cb' : MatchesRow(d.job)'
        BY <3>1, <1>a, <1>b, <1>9 DEF ClaimStored, JobsMatchRows, TypeQueue
      <3>4. \A x \in Box : \A j \in openAcks'[x] \cup sent'[x] : MatchesRow(j)'
        BY <3>1, <1>a, <1>b, <1>9 DEF ClaimStored, JobsMatchRows, TypeLink
      <3>5. \A x \in Box : wpc'[x] \in {"got", "locked", "requeue"} => MatchesRow(hand[x])'
        BY <3>1, <1>a, <1>b, <1>9 DEF ClaimStored, JobsMatchRows, MatchesRow, TypeWriter
      <3> QED
        BY <3>2, <3>3, <3>4, <3>5 DEF JobsMatchRows
    <2>2. RowsFresh' /\ AcksTrue' /\ CallbacksBacked' /\ OkIsKept'
      BY <1>a, <1>b, <1>c, <1>9
      DEF ClaimStored, AnyOnline, Drainable, RowsFresh, AcksTrue, CallbacksBacked, OkIsKept,
          Monotone, MatchesRow, TypeLink, Backed, TypeQueue, Kept, TypeSubmit
    <2> QED
      BY <2>1, <2>2 DEF KeptInv
  <1>10. ASSUME NEW j \in batch, RequeueStored(j) PROVE KeptInv'
    <2>1. JobsMatchRows'
      BY <1>a, <1>b, <1>c, <1>10
      DEF RequeueStored, JobsMatchRows, Monotone, MatchesRow, TypeQueue, TypeStore
    <2>2. RowsFresh' /\ AcksTrue' /\ CallbacksBacked' /\ OkIsKept'
      BY <1>a, <1>b, <1>c, <1>10
      DEF RequeueStored, RowsFresh, AcksTrue, CallbacksBacked, OkIsKept, Monotone,
          MatchesRow, TypeLink, Backed, TypeQueue, Kept, TypeSubmit
    <2> QED
      BY <2>1, <2>2 DEF KeptInv
  <1>11. ASSUME NEW b \in Box, WriterCheck(b) PROVE KeptInv'
    <2>1. JobsMatchRows'
      BY <1>a, <1>b, <1>c, <1>11
      DEF WriterCheck, JobsMatchRows, Monotone, MatchesRow, TypeQueue, TypeStore, TypeLink,
          TypeWriter
    <2>2. RowsFresh' /\ AcksTrue' /\ CallbacksBacked' /\ OkIsKept'
      BY <1>a, <1>b, <1>c, <1>11
      DEF WriterCheck, RowsFresh, AcksTrue, CallbacksBacked, OkIsKept, Monotone, MatchesRow,
          TypeLink, Backed, TypeQueue, Kept, TypeSubmit
    <2> QED
      BY <2>1, <2>2 DEF KeptInv
  <1>12. ASSUME NEW b \in Box, NEW j \in outq, Consume(b, j) PROVE KeptInv'
    <2>1. JobsMatchRows'
      BY <1>a, <1>b, <1>c, <1>12
      DEF Consume, JobsMatchRows, Monotone, MatchesRow, TypeQueue, TypeStore, TypeLink,
          TypeWriter
    <2>2. RowsFresh' /\ AcksTrue' /\ CallbacksBacked' /\ OkIsKept'
      BY <1>a, <1>b, <1>c, <1>12
      DEF Consume, RowsFresh, AcksTrue, CallbacksBacked, OkIsKept, Monotone, MatchesRow,
          TypeLink, Backed, TypeQueue, Kept, TypeSubmit
    <2> QED
      BY <2>1, <2>2 DEF KeptInv
  <1>13. ASSUME NEW b \in Box, WriterLock(b) PROVE KeptInv'
    <2>1. JobsMatchRows'
      <3>1. \A j \in Job : MatchesRow(j) => MatchesRow(j)'
        BY <1>c DEF Monotone
      <3>2. \A j \in outq' \cup storing' \cup batch' : MatchesRow(j)'
        BY <3>1, <1>a, <1>b, <1>13 DEF WriterLock, JobsMatchRows, TypeQueue, TypeStore
      <3>3. \A d \in cb' : MatchesRow(d.job)'
        BY <3>1, <1>a, <1>b, <1>13 DEF WriterLock, JobsMatchRows, TypeQueue
      <3>4. \A x \in Box : \A j \in openAcks'[x] \cup sent'[x] : MatchesRow(j)'
        <4>1. hand[b] \in Job /\ MatchesRow(hand[b])
          BY <1>a, <1>b, <1>13 DEF WriterLock, JobsMatchRows, TypeWriter
        <4>2. \A x \in Box : openAcks'[x] \subseteq openAcks[x] \cup {hand[b]} /\ sent'[x] = sent[x]
          BY <1>a, <1>13 DEF WriterLock, TypeLink
        <4>3. \A x \in Box : \A j \in openAcks[x] \cup sent[x] : j \in Job /\ MatchesRow(j)
          BY <1>a, <1>b DEF JobsMatchRows, TypeLink
        <4> QED
          BY <3>1, <4>1, <4>2, <4>3
      <3>5. \A x \in Box : wpc'[x] \in {"got", "locked", "requeue"} => MatchesRow(hand[x])'
        <4>1. \A x \in Box : wpc'[x] \in {"got", "locked", "requeue"} => wpc[x] \in {"got", "locked", "requeue"}
          BY <1>a, <1>13 DEF WriterLock, TypeWriter
        <4> QED
          BY <3>1, <4>1, <1>a, <1>b, <1>13 DEF WriterLock, JobsMatchRows, MatchesRow, TypeWriter
      <3> QED
        BY <3>2, <3>3, <3>4, <3>5 DEF JobsMatchRows
    <2>2. RowsFresh' /\ AcksTrue' /\ CallbacksBacked' /\ OkIsKept'
      BY <1>a, <1>b, <1>c, <1>13
      DEF WriterLock, RowsFresh, AcksTrue, CallbacksBacked, OkIsKept, Monotone, MatchesRow,
          TypeLink, Backed, TypeQueue, Kept, TypeSubmit
    <2> QED
      BY <2>1, <2>2 DEF KeptInv
  <1>14. ASSUME NEW b \in Box, WriterDeliver(b) PROVE KeptInv'
    <2>1. JobsMatchRows'
      <3>1. \A j \in Job : MatchesRow(j) => MatchesRow(j)'
        BY <1>c DEF Monotone
      <3>2. \A j \in outq' \cup storing' \cup batch' : MatchesRow(j)'
        BY <3>1, <1>a, <1>b, <1>14 DEF WriterDeliver, JobsMatchRows, TypeQueue, TypeStore
      <3>3. \A d \in cb' : MatchesRow(d.job)'
        BY <3>1, <1>a, <1>b, <1>14 DEF WriterDeliver, JobsMatchRows, TypeQueue
      <3>4. \A x \in Box : \A j \in openAcks'[x] \cup sent'[x] : MatchesRow(j)'
        <4>1. hand[b] \in Job /\ MatchesRow(hand[b])
          BY <1>a, <1>b, <1>14 DEF WriterDeliver, JobsMatchRows, TypeWriter
        <4>2. \A x \in Box : openAcks'[x] \subseteq openAcks[x] /\ sent'[x] \subseteq sent[x] \cup {hand[b]}
          BY <1>a, <1>14 DEF WriterDeliver, TypeLink
        <4>3. \A x \in Box : \A j \in openAcks[x] \cup sent[x] : j \in Job /\ MatchesRow(j)
          BY <1>a, <1>b DEF JobsMatchRows, TypeLink
        <4> QED
          BY <3>1, <4>1, <4>2, <4>3
      <3>5. \A x \in Box : wpc'[x] \in {"got", "locked", "requeue"} => MatchesRow(hand[x])'
        <4>1. \A x \in Box : wpc'[x] \in {"got", "locked", "requeue"}
                         => wpc[x] \in {"got", "locked", "requeue"} /\ hand'[x] = hand[x]
          BY <1>a, <1>14 DEF WriterDeliver, TypeWriter
        <4> QED
          BY <3>1, <4>1, <1>a, <1>b, <1>14 DEF WriterDeliver, JobsMatchRows, MatchesRow, TypeWriter
      <3> QED
        BY <3>2, <3>3, <3>4, <3>5 DEF JobsMatchRows
    <2>2. RowsFresh' /\ AcksTrue' /\ CallbacksBacked' /\ OkIsKept'
      BY <1>a, <1>b, <1>c, <1>14
      DEF WriterDeliver, Fault, RowsFresh, AcksTrue, CallbacksBacked, OkIsKept, Monotone,
          MatchesRow, TypeLink, Backed, TypeQueue, Kept, TypeSubmit
    <2> QED
      BY <2>1, <2>2 DEF KeptInv
  <1>15. ASSUME NEW b \in Box, WriterRequeue(b) PROVE KeptInv'
    <2>1. JobsMatchRows'
      BY <1>a, <1>b, <1>c, <1>15
      DEF WriterRequeue, AddToQueue, AnyOnline, Callback, JobsMatchRows, Monotone,
          MatchesRow, TypeQueue, TypeStore, TypeLink, TypeWriter
    <2>2. CallbacksBacked'
      BY <1>a, <1>b, <1>c, <1>15
      DEF WriterRequeue, AddToQueue, AnyOnline, Callback, CallbacksBacked, Monotone, Backed,
          TypeQueue, TypeStore, TypeRemote, TypeLink
    <2>3. RowsFresh' /\ AcksTrue' /\ OkIsKept'
      BY <1>a, <1>b, <1>c, <1>15
      DEF WriterRequeue, AddToQueue, AnyOnline, Callback, RowsFresh, AcksTrue, OkIsKept,
          Monotone, MatchesRow, TypeLink, Kept, TypeSubmit
    <2> QED
      BY <2>1, <2>2, <2>3 DEF KeptInv
  <1>16. ASSUME NEW b \in Box, Reconnect(b) PROVE KeptInv'
    <2>1. JobsMatchRows'
      BY <1>a, <1>b, <1>c, <1>16
      DEF Reconnect, DropConnection, JobsMatchRows, Monotone, MatchesRow, TypeQueue,
          TypeStore, TypeLink, TypeWriter
    <2>2. AcksTrue'
      BY <1>a, <1>b, <1>c, <1>16
      DEF Reconnect, DropConnection, AcksTrue, Monotone, MatchesRow, TypeRemote, TypeLink
    <2>3. CallbacksBacked'
      BY <1>a, <1>b, <1>c, <1>16
      DEF Reconnect, DropConnection, CallbacksBacked, Monotone, Backed, TypeQueue,
          TypeStore, TypeRemote, TypeLink
    <2>4. RowsFresh' /\ OkIsKept'
      BY <1>a, <1>b, <1>c, <1>16
      DEF Reconnect, DropConnection, RowsFresh, OkIsKept, Monotone, Kept, TypeSubmit
    <2> QED
      BY <2>1, <2>2, <2>3, <2>4 DEF KeptInv
  <1>17. ASSUME NEW b \in Box, ReconnectFails(b) PROVE KeptInv'
    <2>1. JobsMatchRows'
      BY <1>a, <1>b, <1>c, <1>17
      DEF ReconnectFails, DropConnection, JobsMatchRows, Monotone, MatchesRow, TypeQueue,
          TypeStore, TypeLink, TypeWriter
    <2>2. AcksTrue'
      BY <1>a, <1>b, <1>c, <1>17
      DEF ReconnectFails, DropConnection, AcksTrue, Monotone, MatchesRow, TypeRemote,
          TypeLink
    <2>3. CallbacksBacked'
      BY <1>a, <1>b, <1>c, <1>17
      DEF ReconnectFails, DropConnection, CallbacksBacked, Monotone, Backed, TypeQueue,
          TypeStore, TypeRemote, TypeLink
    <2>4. RowsFresh' /\ OkIsKept'
      BY <1>a, <1>b, <1>c, <1>17
      DEF ReconnectFails, DropConnection, RowsFresh, OkIsKept, Monotone, Kept, TypeSubmit
    <2> QED
      BY <2>1, <2>2, <2>3, <2>4 DEF KeptInv
  <1>18. ASSUME NEW b \in Box, NEW a \in acks[b], ReadAck(b, a) PROVE KeptInv'
    <2>1. JobsMatchRows'
      BY <1>a, <1>b, <1>c, <1>18, SMTT(30)
      DEF ReadAck, Callback, AckResult, JobsMatchRows, Monotone, AcksTrue, MatchesRow,
          TypeQueue, TypeStore, TypeLink, TypeWriter
    <2>2. AcksTrue'
      BY <1>a, <1>b, <1>c, <1>18
      DEF ReadAck, Callback, AckResult, AcksTrue, Monotone, MatchesRow, TypeRemote, TypeLink
    <2>3. CallbacksBacked'
      BY <1>a, <1>b, <1>c, <1>18
      DEF ReadAck, Callback, AckResult, CallbacksBacked, Monotone, AcksTrue, Backed,
          TypeQueue, TypeStore, TypeRemote, TypeLink
    <2>4. RowsFresh' /\ OkIsKept'
      BY <1>a, <1>b, <1>c, <1>18
      DEF ReadAck, Callback, AckResult, RowsFresh, OkIsKept, Monotone, Kept, TypeSubmit
    <2> QED
      BY <2>1, <2>2, <2>3, <2>4 DEF KeptInv
  <1>19. ASSUME NEW b \in Box, ReadFails(b) PROVE KeptInv'
    <2>1. RowsFresh' /\ JobsMatchRows' /\ AcksTrue' /\ CallbacksBacked' /\ OkIsKept'
      BY <1>a, <1>b, <1>c, <1>19
      DEF ReadFails, Fault, RowsFresh, JobsMatchRows, AcksTrue, CallbacksBacked, OkIsKept,
          Monotone, MatchesRow, TypeLink, TypeQueue, TypeStore, TypeWriter, Backed, Kept,
          TypeSubmit
    <2> QED
      BY <2>1 DEF KeptInv
  <1>20. ASSUME NEW b \in Box, ReaderLeaves(b) PROVE KeptInv'
    <2>1. RowsFresh' /\ JobsMatchRows' /\ AcksTrue' /\ CallbacksBacked' /\ OkIsKept'
      BY <1>a, <1>b, <1>c, <1>20
      DEF ReaderLeaves, RowsFresh, JobsMatchRows, AcksTrue, CallbacksBacked, OkIsKept,
          Monotone, MatchesRow, TypeLink, TypeQueue, TypeStore, TypeWriter, Backed, Kept,
          TypeSubmit
    <2> QED
      BY <2>1 DEF KeptInv
  <1>21. ASSUME NEW b \in Box, SetStateDown(b) PROVE KeptInv'
    <2>1. RowsFresh' /\ JobsMatchRows' /\ AcksTrue' /\ CallbacksBacked' /\ OkIsKept'
      BY <1>a, <1>b, <1>c, <1>21
      DEF SetStateDown, Fault, RowsFresh, JobsMatchRows, AcksTrue, CallbacksBacked,
          OkIsKept, Monotone, MatchesRow, TypeLink, TypeQueue, TypeStore, TypeWriter,
          Backed, Kept, TypeSubmit
    <2> QED
      BY <2>1 DEF KeptInv
  <1>22. ASSUME NEW b \in Box, NEW j \in sent[b], BearerboxHandles(b, j) PROVE KeptInv'
    <2>1. JobsMatchRows'
      BY <1>a, <1>b, <1>c, <1>22
      DEF BearerboxHandles, JobsMatchRows, Monotone, MatchesRow, TypeQueue, TypeStore,
          TypeLink
    <2>2. AcksTrue'
      BY <1>a, <1>b, <1>c, <1>22
      DEF BearerboxHandles, AcksTrue, Monotone, JobsMatchRows, MatchesRow, TypeRemote,
          TypeLink
    <2>3. RowsFresh' /\ CallbacksBacked' /\ OkIsKept'
      BY <1>a, <1>b, <1>c, <1>22
      DEF BearerboxHandles, RowsFresh, CallbacksBacked, OkIsKept, Monotone, Backed,
          TypeQueue, Kept, TypeSubmit
    <2> QED
      BY <2>1, <2>2, <2>3 DEF KeptInv
  <1>23. CASE Crash
    <2>1. JobsMatchRows'
      BY <1>a, <1>b, <1>c, <1>23
      DEF Crash, Fault, JobsMatchRows, Monotone, MatchesRow, TypeQueue, TypeStore, TypeLink,
          TypeWriter
    <2>2. AcksTrue'
      BY <1>a, <1>b, <1>c, <1>23
      DEF Crash, Fault, AcksTrue, Monotone, MatchesRow, TypeRemote, TypeLink
    <2>3. CallbacksBacked'
      BY <1>a, <1>b, <1>c, <1>23
      DEF Crash, Fault, CallbacksBacked, Monotone, Backed, TypeQueue, TypeStore, TypeRemote,
          TypeLink
    <2>4. RowsFresh' /\ OkIsKept'
      BY <1>a, <1>b, <1>c, <1>23
      DEF Crash, Fault, RowsFresh, OkIsKept, Monotone, Kept, TypeSubmit
    <2> QED
      BY <2>1, <2>2, <2>3, <2>4 DEF KeptInv
  <1>24. CASE UNCHANGED vars
    BY <1>b, <1>24 DEF vars, KeptInv, RowsFresh, JobsMatchRows, AcksTrue, CallbacksBacked,
       OkIsKept, MatchesRow, Backed, Kept, Stored
  <1> QED
    BY <1>1, <1>2, <1>3, <1>4, <1>5, <1>6, <1>7, <1>8, <1>9, <1>10, <1>11, <1>12,
       <1>13, <1>14, <1>15, <1>16, <1>17, <1>18, <1>19, <1>20, <1>21, <1>22, <1>23, <1>24
    DEF Next, Submission, Writer, Reader

\* The store-and-forward argument holds in every reachable state.
THEOREM KeptInvariant == Spec => []KeptInv
  BY InitKept, NextKept, TypeCorrect, PTL DEF Spec

\* README: a submit_sm_resp with ESME_ROK is only provided once bearerbox or
\* the database has accepted the message, and it stays true afterwards.
THEOREM OkAlwaysKept == Spec => []OkIsKept
  <1>1. KeptInv => OkIsKept
    BY DEF KeptInv
  <1> QED
    BY <1>1, KeptInvariant, PTL

\* A message the store or bearerbox answers for is never forgotten, whichever
\* of its copies the requeue thread deletes.
THEOREM NothingForgotten == Spec => KeptForever
  <1>1. TypeOK /\ KeptInv /\ [Next]_vars => [\A m \in Msg : Kept(m) => Kept(m)']_vars
    BY NextMonotone DEF Monotone
  <1> QED
    BY <1>1, TypeCorrect, KeptInvariant, PTL DEF Spec, KeptForever

-----------------------------------------------------------------------------
(***************************************************************************)
(* Who holds a job.  The threads of the mobile-terminated path pass jobs   *)
(* (SMPPBearerboxMsg) to each other through queues, hands and open acks; a *)
(* job has one holder, a stored row is in flight at most once and a        *)
(* submission is answered at most once.                                    *)
(***************************************************************************)

(* The inductive invariant *)

\* The writer of b has a job in its hand that no open_acks lists.
Carries(b) == wpc[b] \in {"got", "requeue"}

\* A callback for j is about to run.
CallbackDue(j) == \E c \in cb : c.job = j

\* Some writer has j in its hand; some box waits for the ack of j.
InHand(j) == \E b \in Box : Carries(b) /\ hand[b] = j
AwaitsAck(j) == \E b \in Box : j \in openAcks[b]

\* Somebody holds j.
IsLive(j) ==
  j \in outq \/ j \in storing \/ j \in batch \/ CallbackDue(j) \/ InHand(j) \/ AwaitsAck(j)

\* The queues, and the callbacks that are due, hold different jobs.
QueuesApart ==
  /\ \A j \in outq : j \notin storing /\ j \notin batch
  /\ \A j \in storing : j \notin batch
  /\ \A c \in cb : c.job \notin outq /\ c.job \notin storing /\ c.job \notin batch
  /\ \A c, d \in cb : c.job = d.job => c = d

\* A job in a writer's hand is nowhere else.
HandsApart ==
  \A b \in Box : Carries(b) =>
    /\ hand[b] \notin outq /\ hand[b] \notin storing /\ hand[b] \notin batch
    /\ \A c \in cb : c.job # hand[b]
    /\ \A d \in Box : hand[b] \notin openAcks[d]
    /\ \A d \in Box : Carries(d) /\ hand[d] = hand[b] => d = b

\* A job that waits for an ack is in no queue and waits on one connection.
AcksApart ==
  \A b \in Box : \A j \in openAcks[b] :
    /\ j \notin outq /\ j \notin storing /\ j \notin batch
    /\ \A c \in cb : c.job # j
    /\ \A d \in Box : j \in openAcks[d] => d = b

\* What a connection carries, one copy of each: a job that is being written,
\* then written, then acknowledged once, has its open ack all the while.
WireOnce ==
  \A b \in Box :
    /\ wpc[b] = "locked" => hand[b] \in openAcks[b] /\ hand[b] \notin sent[b]
    /\ \A j \in sent[b] : j \in openAcks[b]
    /\ \A a \in acks[b] : /\ a.job \in openAcks[b] /\ a.job \notin sent[b]
                          /\ wpc[b] = "locked" => a.job # hand[b]
    /\ \A a, e \in acks[b] : a.job = e.job => a = e

\* A submission has a job from the end of its routing to its answer.
SubmitLive == \A m \in Msg : IsLive(SubmitJob(m)) <=> phase[m] = "queued"

\* A row with a job is there, claimed, and not being released.
RowsClaimed ==
  /\ releasing \subseteq pending
  /\ \A j \in Job : IsLive(j) /\ j.gid > 0 =>
       j.gid \in pending /\ j.gid \notin releasing /\ rows[j.gid] = j.msg

\* A submission has a response exactly when its handler is done with it.
AnsweredOnce == \A m \in Msg : resp[m] = "none" <=> phase[m] # "answered"

HeldInv ==
  /\ QueuesApart /\ HandsApart /\ AcksApart /\ WireOnce
  /\ SubmitLive /\ RowsClaimed /\ AnsweredOnce

-----------------------------------------------------------------------------
(* Every step keeps it *)

\* The part of the types the ownership argument needs.
HeldTypes ==
  /\ outq \subseteq Job /\ storing \subseteq Job /\ batch \subseteq Job
  /\ cb \subseteq [job : Job, status : Status]
  /\ wpc \in [Box -> WriterPc]
  /\ hand \in [Box -> Job \cup {NoJob}]
  /\ \A b \in Box : wpc[b] \in {"got", "locked", "requeue"} => hand[b] \in Job
  /\ openAcks \in [Box -> SUBSET Job]
  /\ sent \in [Box -> SUBSET Job]
  /\ acks \in [Box -> SUBSET [job : Job, status : AckStatus]]

\* They are part of TypeOK.
LEMMA HeldTyped == TypeOK => HeldTypes
  BY DEF TypeOK, TypeQueue, TypeWriter, TypeLink, TypeStore, HeldTypes

\* A submission's job is a job.
LEMMA SubmitTyped == \A m \in Msg : SubmitJob(m) \in Job /\ SubmitJob(m).gid = 0
  BY DEF SubmitJob

heldVars == <<outq, storing, batch, cb, wpc, hand, openAcks, sent, acks>>

\* Initially nobody holds anything.
LEMMA InitHeld == Init => HeldInv
  <1> SUFFICES ASSUME Init PROVE HeldInv
    OBVIOUS
  <1>1. /\ outq = {} /\ storing = {} /\ batch = {} /\ cb = {}
        /\ \A b \in Box : wpc[b] = "check" /\ openAcks[b] = {} /\ sent[b] = {} /\ acks[b] = {}
        /\ \A m \in Msg : phase[m] = "new" /\ resp[m] = "none"
        /\ releasing = {} /\ pending = {}
    BY DEF Init
  <1>2. \A j : ~IsLive(j)
    BY <1>1 DEF IsLive, CallbackDue, InHand, AwaitsAck, Carries
  <1>3. QueuesApart /\ HandsApart /\ AcksApart /\ WireOnce
    BY <1>1 DEF QueuesApart, HandsApart, AcksApart, WireOnce, Carries
  <1>4. SubmitLive /\ RowsClaimed /\ AnsweredOnce
    BY <1>1, <1>2 DEF SubmitLive, RowsClaimed, AnsweredOnce
  <1> QED
    BY <1>3, <1>4 DEF HeldInv

\* A callback added for j is due for j and for no other job.
LEMMA CallbackAdded ==
  ASSUME NEW j, NEW s, cb' = cb \cup {[job |-> j, status |-> s]}
  PROVE  \A k : CallbackDue(k)' <=> CallbackDue(k) \/ k = j
  <1>1. [job |-> j, status |-> s].job = j
    OBVIOUS
  <1> DEFINE n == [job |-> j, status |-> s]
  <1> HIDE DEF n
  <1>2. cb' = cb \cup {n} /\ n.job = j
    BY <1>1 DEF n
  <1> QED
    BY <1>2 DEF CallbackDue

\* A step that moves no job keeps the holders apart and the live jobs alive.
LEMMA HeldFrame ==
  ASSUME HeldInv, UNCHANGED heldVars
  PROVE  /\ QueuesApart' /\ HandsApart' /\ AcksApart' /\ WireOnce'
         /\ \A j : IsLive(j)' <=> IsLive(j)
  BY DEF HeldInv, heldVars, QueuesApart, HandsApart, AcksApart, WireOnce, IsLive,
         CallbackDue, InHand, AwaitsAck, Carries

\* The steps of a submission's own handler: a job is made for it when its
\* routing ends, and none before.
LEMMA SubmissionHeld ==
  ASSUME TypeOK, HeldInv, NEW m \in Msg, Submission(m)
  PROVE  HeldInv'
  <1>a. HeldTypes /\ TypeSubmit
    BY HeldTyped DEF TypeOK
  <1>b. QueuesApart /\ HandsApart /\ AcksApart /\ WireOnce /\ SubmitLive /\ RowsClaimed /\ AnsweredOnce
    BY DEF HeldInv
  <1> USE DEF boxVars, remoteVars, storeVars, queueVars, submitVars
  <1>1. CASE HandleSubmit(m) \/ RoutingDone(m) \/ DeductCredit(m)
    <2>1. UNCHANGED heldVars /\ UNCHANGED <<rows, pending, releasing>>
      BY <1>1 DEF HandleSubmit, RoutingDone, DeductCredit, heldVars
    <2>2. /\ phase[m] \notin {"queued", "answered"}
          /\ phase'[m] # "queued"
          /\ resp'[m] = "none" <=> phase'[m] # "answered"
          /\ \A n \in Msg \ {m} : phase'[n] = phase[n] /\ resp'[n] = resp[n]
      <3>1. CASE HandleSubmit(m)
        BY <1>a, <1>b, <3>1 DEF HandleSubmit, Answer, TypeSubmit, AnsweredOnce
      <3>2. CASE RoutingDone(m)
        BY <1>a, <1>b, <3>2 DEF RoutingDone, Answer, TypeSubmit, AnsweredOnce
      <3>3. CASE DeductCredit(m)
        BY <1>a, <1>b, <3>3 DEF DeductCredit, Answer, TypeSubmit, AnsweredOnce
      <3> QED
        BY <1>1, <3>1, <3>2, <3>3
    <2>3. SubmitLive'
      BY <1>b, <2>1, <2>2, HeldFrame DEF SubmitLive
    <2>4. RowsClaimed'
      BY <1>b, <2>1, HeldFrame DEF RowsClaimed
    <2>5. AnsweredOnce'
      BY <1>b, <2>2 DEF AnsweredOnce
    <2> QED
      BY <2>1, <2>3, <2>4, <2>5, HeldFrame DEF HeldInv
  <1>2. CASE Dispatch(m)
    <2> DEFINE j == SubmitJob(m)
    <2>1. /\ phase[m] = "dispatch" /\ phase' = [phase EXCEPT ![m] = "queued"]
          /\ UNCHANGED <<resp, batch, wpc, hand, openAcks, sent, acks, rows, pending, releasing>>
      BY <1>2 DEF Dispatch
    <2>2. \/ outq' = outq \cup {j} /\ UNCHANGED <<storing, cb>>
          \/ storing' = storing \cup {j} /\ UNCHANGED <<outq, cb>>
          \/ cb' = cb \cup {[job |-> j, status |-> "syserr"]} /\ UNCHANGED <<outq, storing>>
      BY <1>2 DEF Dispatch, AddToQueue, Callback
    <2>3. ~IsLive(j)
      BY <1>b, <2>1 DEF SubmitLive
    <2>4. j \in Job /\ j.gid = 0
      BY SubmitTyped
    <2> HIDE DEF j
    <2>5. /\ j \notin outq /\ j \notin storing /\ j \notin batch
          /\ \A c \in cb : c.job # j
          /\ \A b \in Box : (Carries(b) => hand[b] # j) /\ j \notin openAcks[b]
      BY <2>3 DEF IsLive, CallbackDue, InHand, AwaitsAck
    <2>6. QueuesApart'
      BY <1>b, <2>1, <2>2, <2>5 DEF QueuesApart
    <2>7. HandsApart'
      BY <1>b, <2>1, <2>2, <2>5 DEF HandsApart, Carries
    <2>8. AcksApart'
      BY <1>b, <2>1, <2>2, <2>5 DEF AcksApart
    <2>9. WireOnce'
      BY <1>b, <2>1 DEF WireOnce
    <2>10. \A k \in Job : IsLive(k)' <=> IsLive(k) \/ k = j
      <3>1. \A k : (InHand(k)' <=> InHand(k)) /\ (AwaitsAck(k)' <=> AwaitsAck(k))
        BY <2>1 DEF InHand, AwaitsAck, Carries
      <3>2. CASE outq' = outq \cup {j} /\ UNCHANGED <<storing, cb>>
        BY <2>1, <3>1, <3>2 DEF IsLive, CallbackDue
      <3>3. CASE storing' = storing \cup {j} /\ UNCHANGED <<outq, cb>>
        BY <2>1, <3>1, <3>3 DEF IsLive, CallbackDue
      <3>4. CASE cb' = cb \cup {[job |-> j, status |-> "syserr"]} /\ UNCHANGED <<outq, storing>>
        BY <2>1, <3>1, <3>4, CallbackAdded DEF IsLive
      <3> QED
        BY <2>2, <3>2, <3>3, <3>4
    <2>11. SubmitLive'
      <3>1. \A n \in Msg \ {m} : SubmitJob(n) # j /\ phase'[n] = phase[n]
        BY <1>a, <2>1 DEF SubmitJob, j, TypeSubmit
      <3>2. phase'[m] = "queued" /\ SubmitJob(m) = j
        BY <1>a, <2>1 DEF j, TypeSubmit
      <3> QED
        BY <1>b, <2>10, <3>1, <3>2, SubmitTyped DEF SubmitLive
    <2>12. RowsClaimed'
      BY <1>b, <2>1, <2>4, <2>10 DEF RowsClaimed
    <2>13. AnsweredOnce'
      BY <1>a, <1>b, <2>1 DEF AnsweredOnce, TypeSubmit
    <2> QED
      BY <2>6, <2>7, <2>8, <2>9, <2>11, <2>12, <2>13 DEF HeldInv
  <1> QED
    BY <1>1, <1>2 DEF Submission

\* The steps that leave a submission's phase and response alone keep what the
\* invariant says of them, whenever they keep the live submissions.
LEMMA SubmitFrame ==
  ASSUME HeldInv, UNCHANGED <<phase, resp>>,
         \A m \in Msg : IsLive(SubmitJob(m))' <=> IsLive(SubmitJob(m))
  PROVE  SubmitLive' /\ AnsweredOnce'
  BY DEF HeldInv, SubmitLive, AnsweredOnce

\* A step that only drops or moves jobs keeps the rows of the others claimed.
LEMMA RowsFrame ==
  ASSUME HeldInv, UNCHANGED <<rows, pending, releasing>>,
         \A j \in Job : IsLive(j)' => IsLive(j)
  PROVE  RowsClaimed'
  BY DEF HeldInv, RowsClaimed

\* The store and the callbacks: an INSERT turns a job into a due callback, a
\* callback is the end of its job, and a claim is released when no job is left.
LEMMA StoreHeld ==
  ASSUME TypeOK, KeptInv, HeldInv,
         \/ \E j \in storing : InsertRow(j)
         \/ \E c \in cb : CallbackSubmit(c) \/ RequeueResult(c)
         \/ \E g \in releasing : ReleaseClaim(g)
  PROVE  HeldInv'
  <1>a. HeldTypes /\ TypeSubmit /\ TypeStore
    BY HeldTyped DEF TypeOK
  <1>b. QueuesApart /\ HandsApart /\ AcksApart /\ WireOnce /\ SubmitLive /\ RowsClaimed /\ AnsweredOnce
    BY DEF HeldInv
  <1>c. RowsFresh /\ JobsMatchRows
    BY DEF KeptInv
  <1> USE DEF boxVars, remoteVars, storeVars, queueVars, submitVars
  <1>1. ASSUME NEW j \in storing, InsertRow(j) PROVE HeldInv'
    <2>1. /\ storing' = storing \ {j}
          /\ UNCHANGED <<phase, resp, outq, batch, wpc, hand, openAcks, sent, acks, pending, releasing>>
      BY <1>1 DEF InsertRow
    <2>2. PICK s \in Status : cb' = cb \cup {[job |-> j, status |-> s]}
      BY <1>1 DEF InsertRow, Callback
    <2>3. /\ j \in Job /\ j \notin outq /\ j \notin batch
          /\ \A c \in cb : c.job # j
          /\ \A b \in Box : (Carries(b) => hand[b] # j) /\ j \notin openAcks[b]
      BY <1>a, <1>b DEF HeldTypes, QueuesApart, HandsApart, AcksApart
    <2>4. QueuesApart'
      BY <1>b, <2>1, <2>2, <2>3 DEF QueuesApart
    <2>5. HandsApart'
      BY <1>b, <2>1, <2>2, <2>3 DEF HandsApart, Carries
    <2>6. AcksApart'
      BY <1>b, <2>1, <2>2, <2>3 DEF AcksApart
    <2>7. WireOnce'
      BY <1>b, <2>1 DEF WireOnce
    <2>8. \A k \in Job : IsLive(k)' <=> IsLive(k)
      <3>1. \A k : (InHand(k)' <=> InHand(k)) /\ (AwaitsAck(k)' <=> AwaitsAck(k))
        BY <2>1 DEF InHand, AwaitsAck, Carries
      <3>2. \A k : CallbackDue(k)' <=> CallbackDue(k) \/ k = j
        BY <2>2, CallbackAdded
      <3> QED
        BY <1>1, <2>1, <3>1, <3>2 DEF IsLive
    <2>9. RowsClaimed'
      <3>1. \A g \in Gid : rows[g] # NoMsg => rows'[g] = rows[g]
        <4>1. CASE UNCHANGED rows
          BY <4>1
        <4>2. CASE nextGid <= MaxGid /\ rows' = [rows EXCEPT ![nextGid] = j.msg]
          <5>1. nextGid \in Gid /\ rows[nextGid] = NoMsg
            BY <1>a, <1>c, <4>2 DEF TypeStore, RowsFresh
          <5> QED
            BY <1>a, <4>2, <5>1 DEF TypeStore
        <4> QED
          BY <1>1, <4>1, <4>2 DEF InsertRow
      <3>2. \A k \in Job : k.gid > 0 => k.gid \in Gid /\ k.msg # NoMsg
        OBVIOUS
      <3> QED
        BY <1>b, <2>1, <2>8, <3>1, <3>2 DEF RowsClaimed
    <2> QED
      BY <2>1, <2>4, <2>5, <2>6, <2>7, <2>8, <2>9, SubmitFrame, SubmitTyped DEF HeldInv
  <1>2. ASSUME NEW c \in cb, CallbackSubmit(c) PROVE HeldInv'
    <2>1. /\ cb' = cb \ {c} /\ c.job.gid = 0
          /\ UNCHANGED <<outq, storing, batch, wpc, hand, openAcks, sent, acks, rows, pending, releasing>>
      BY <1>2 DEF CallbackSubmit
    <2>2. QueuesApart' /\ HandsApart' /\ AcksApart' /\ WireOnce'
      BY <1>b, <2>1 DEF QueuesApart, HandsApart, AcksApart, WireOnce, Carries
    <2>3. \A k \in Job : IsLive(k)' <=> IsLive(k) /\ k # c.job
      <3>1. \A k : (InHand(k)' <=> InHand(k)) /\ (AwaitsAck(k)' <=> AwaitsAck(k))
        BY <2>1 DEF InHand, AwaitsAck, Carries
      <3>2. \A k : CallbackDue(k)' <=> CallbackDue(k) /\ k # c.job
        BY <1>b, <2>1 DEF CallbackDue, QueuesApart
      <3>3. c.job \notin outq /\ c.job \notin storing /\ c.job \notin batch
        BY <1>b DEF QueuesApart
      <3>4. ~InHand(c.job) /\ ~AwaitsAck(c.job)
        BY <1>b DEF InHand, AwaitsAck, HandsApart, AcksApart
      <3> QED
        BY <2>1, <3>1, <3>2, <3>3, <3>4 DEF IsLive
    <2>4. PICK m \in Msg : c.job = SubmitJob(m) /\ c.job.msg = m
      BY <1>a, <2>1 DEF HeldTypes, SubmitJob
    <2>5. \A n \in Msg \ {m} : SubmitJob(n) # c.job
      BY <2>4 DEF SubmitJob
    <2>6. /\ phase'[m] = "answered" /\ resp'[m] = c.status
          /\ \A n \in Msg \ {m} : phase'[n] = phase[n] /\ resp'[n] = resp[n]
      BY <1>a, <1>2, <2>4 DEF CallbackSubmit, Answer, TypeSubmit
    <2>7. c.status # "none"
      BY <1>a DEF HeldTypes
    <2>8. SubmitLive'
      BY <1>b, <2>3, <2>4, <2>5, <2>6, SubmitTyped DEF SubmitLive
    <2>9. AnsweredOnce'
      BY <1>b, <2>6, <2>7 DEF AnsweredOnce
    <2>10. RowsClaimed'
      BY <2>1, <2>3, RowsFrame
    <2> QED
      BY <2>2, <2>8, <2>9, <2>10 DEF HeldInv
  <1>3. ASSUME NEW c \in cb, RequeueResult(c) PROVE HeldInv'
    <2>1. /\ cb' = cb \ {c} /\ c.job.gid > 0
          /\ UNCHANGED <<phase, resp, outq, storing, batch, wpc, hand, openAcks, sent, acks, pending>>
      BY <1>3 DEF RequeueResult
    <2>2. QueuesApart' /\ HandsApart' /\ AcksApart' /\ WireOnce'
      BY <1>b, <2>1 DEF QueuesApart, HandsApart, AcksApart, WireOnce, Carries
    <2>3. \A k \in Job : IsLive(k)' <=> IsLive(k) /\ k # c.job
      <3>1. \A k : (InHand(k)' <=> InHand(k)) /\ (AwaitsAck(k)' <=> AwaitsAck(k))
        BY <2>1 DEF InHand, AwaitsAck, Carries
      <3>2. \A k : CallbackDue(k)' <=> CallbackDue(k) /\ k # c.job
        BY <1>b, <2>1 DEF CallbackDue, QueuesApart
      <3>3. c.job \notin outq /\ c.job \notin storing /\ c.job \notin batch
        BY <1>b DEF QueuesApart
      <3>4. ~InHand(c.job) /\ ~AwaitsAck(c.job)
        BY <1>b DEF InHand, AwaitsAck, HandsApart, AcksApart
      <3> QED
        BY <2>1, <3>1, <3>2, <3>3, <3>4 DEF IsLive
    <2>4. c.job \in Job /\ c.job.gid \in Gid /\ IsLive(c.job)
      BY <1>a, <2>1 DEF HeldTypes, IsLive, CallbackDue
    <2>5. c.job.gid \in pending /\ rows[c.job.gid] = c.job.msg
      BY <1>b, <2>1, <2>4 DEF RowsClaimed
    <2>6. /\ releasing' \subseteq releasing \cup {c.job.gid}
          /\ \A g \in Gid \ {c.job.gid} : rows'[g] = rows[g]
      BY <1>3, <1>a, <2>4 DEF RequeueResult, TypeStore
    <2>7. \A k \in Job : IsLive(k) /\ k.gid = c.job.gid => k = c.job
      <3> SUFFICES ASSUME NEW k \in Job, IsLive(k), k.gid = c.job.gid PROVE k = c.job
        OBVIOUS
      <3>1. rows[k.gid] = k.msg
        BY <1>b, <2>1 DEF RowsClaimed
      <3>2. k.msg = c.job.msg
        BY <2>5, <3>1
      <3> QED
        BY <2>4, <3>2
    <2>8. RowsClaimed'
      <3>1. releasing' \subseteq pending'
        BY <1>b, <2>1, <2>5, <2>6 DEF RowsClaimed
      <3>2. ASSUME NEW k \in Job, IsLive(k)', k.gid > 0
            PROVE  k.gid \in pending' /\ k.gid \notin releasing' /\ rows'[k.gid] = k.msg
        <4>1. IsLive(k) /\ k.gid # c.job.gid /\ k.gid \in Gid
          BY <2>3, <2>7, <3>2
        <4>2. k.gid \in pending /\ k.gid \notin releasing /\ rows[k.gid] = k.msg
          BY <1>b, <3>2, <4>1 DEF RowsClaimed
        <4> QED
          BY <2>1, <2>6, <4>1, <4>2
      <3> QED
        BY <3>1, <3>2 DEF RowsClaimed
    <2>9. \A m \in Msg : SubmitJob(m) # c.job
      BY <2>1, SubmitTyped
    <2> QED
      BY <2>1, <2>2, <2>3, <2>8, <2>9, SubmitFrame, SubmitTyped DEF HeldInv
  <1>4. ASSUME NEW g \in releasing, ReleaseClaim(g) PROVE HeldInv'
    <2>1. /\ UNCHANGED heldVars /\ UNCHANGED <<phase, resp, rows>>
          /\ releasing' = releasing \ {g} /\ pending' = pending \ {g}
      BY <1>4 DEF ReleaseClaim, heldVars
    <2>2. RowsClaimed'
      BY <1>b, <2>1, HeldFrame DEF RowsClaimed
    <2> QED
      BY <2>1, <2>2, HeldFrame, SubmitFrame DEF HeldInv
  <1> QED
    BY <1>1, <1>2, <1>3, <1>4

\* The requeue thread makes a job for each row it claims, so no unclaimed row
\* may have one already, and then moves them to the shared queue.
LEMMA RequeueHeld ==
  ASSUME TypeOK, HeldInv, ClaimStored \/ \E j \in batch : RequeueStored(j)
  PROVE  HeldInv'
  <1>a. HeldTypes /\ TypeStore
    BY HeldTyped DEF TypeOK
  <1>b. QueuesApart /\ HandsApart /\ AcksApart /\ WireOnce /\ SubmitLive /\ RowsClaimed /\ AnsweredOnce
    BY DEF HeldInv
  <1> USE DEF boxVars, remoteVars, storeVars, queueVars, submitVars
  <1>1. CASE ClaimStored
    <2>1. /\ batch = {} /\ pending' = pending \cup Drainable
          /\ batch' = {[gid |-> g, msg |-> rows[g]] : g \in Drainable}
          /\ UNCHANGED <<phase, resp, outq, storing, cb, wpc, hand, openAcks, sent, acks, rows, releasing>>
      BY <1>1 DEF ClaimStored
    <2>2. \A j \in batch' : /\ j \in Job /\ j.gid > 0 /\ j.gid \in Drainable
                            /\ rows[j.gid] = j.msg
      BY <1>a, <2>1 DEF Drainable, TypeStore
    <2>3. \A j \in batch' : ~IsLive(j)
      BY <1>b, <2>2 DEF RowsClaimed, Drainable
    <2>4. \A j \in batch' : /\ j \notin outq /\ j \notin storing
                            /\ \A c \in cb : c.job # j
                            /\ \A b \in Box : (Carries(b) => hand[b] # j) /\ j \notin openAcks[b]
      BY <2>3 DEF IsLive, CallbackDue, InHand, AwaitsAck
    <2>5. QueuesApart'
      BY <1>b, <2>1, <2>4 DEF QueuesApart
    <2>6. HandsApart'
      BY <1>b, <2>1, <2>4 DEF HandsApart, Carries
    <2>7. AcksApart'
      BY <1>b, <2>1, <2>4 DEF AcksApart
    <2>8. WireOnce'
      BY <1>b, <2>1 DEF WireOnce
    <2>9. \A k : IsLive(k)' <=> IsLive(k) \/ k \in batch'
      <3>1. \A k : /\ InHand(k)' <=> InHand(k)
                   /\ AwaitsAck(k)' <=> AwaitsAck(k)
                   /\ CallbackDue(k)' <=> CallbackDue(k)
        BY <2>1 DEF InHand, AwaitsAck, CallbackDue, Carries
      <3> QED
        BY <2>1, <3>1 DEF IsLive
    <2>10. RowsClaimed'
      <3>1. releasing' \subseteq pending'
        BY <1>b, <2>1 DEF RowsClaimed
      <3>2. ASSUME NEW k \in Job, IsLive(k)', k.gid > 0
            PROVE  k.gid \in pending' /\ k.gid \notin releasing' /\ rows'[k.gid] = k.msg
        <4>1. CASE IsLive(k)
          BY <1>b, <2>1, <3>2, <4>1 DEF RowsClaimed
        <4>2. CASE k \in batch'
          <5>1. k.gid \in Drainable /\ rows[k.gid] = k.msg
            BY <2>2, <4>2
          <5>2. k.gid \notin pending
            BY <5>1 DEF Drainable
          <5> QED
            BY <1>b, <2>1, <5>1, <5>2 DEF RowsClaimed
        <4> QED
          BY <2>9, <3>2, <4>1, <4>2
      <3> QED
        BY <3>1, <3>2 DEF RowsClaimed
    <2>11. \A m \in Msg : SubmitJob(m) \notin batch'
      BY <2>2, SubmitTyped
    <2> QED
      BY <2>1, <2>5, <2>6, <2>7, <2>8, <2>9, <2>10, <2>11, SubmitFrame DEF HeldInv
  <1>2. ASSUME NEW j \in batch, RequeueStored(j) PROVE HeldInv'
    <2>1. /\ batch' = batch \ {j} /\ outq' = outq \cup {j}
          /\ UNCHANGED <<phase, resp, storing, cb, wpc, hand, openAcks, sent, acks, rows, pending, releasing>>
      BY <1>2 DEF RequeueStored
    <2>2. QueuesApart'
      BY <1>b, <1>2, <2>1 DEF QueuesApart
    <2>3. HandsApart'
      BY <1>b, <1>2, <2>1 DEF HandsApart, Carries
    <2>4. AcksApart'
      BY <1>b, <1>2, <2>1 DEF AcksApart
    <2>5. WireOnce'
      BY <1>b, <2>1 DEF WireOnce
    <2>6. \A k : IsLive(k)' <=> IsLive(k)
      <3>1. \A k : /\ InHand(k)' <=> InHand(k)
                   /\ AwaitsAck(k)' <=> AwaitsAck(k)
                   /\ CallbackDue(k)' <=> CallbackDue(k)
        BY <2>1 DEF InHand, AwaitsAck, CallbackDue, Carries
      <3> QED
        BY <1>2, <2>1, <3>1 DEF IsLive
    <2> QED
      BY <2>1, <2>2, <2>3, <2>4, <2>5, <2>6, SubmitFrame, RowsFrame DEF HeldInv
  <1> QED
    BY <1>1, <1>2

\* The writer of a box: a job goes from the queue to its hand, to the open acks
\* and onto the connection, or back to the hand and the queue when that fails.
LEMMA WriterHeld ==
  ASSUME TypeOK, HeldInv, NEW b \in Box, Writer(b)
  PROVE  HeldInv'
  <1>a. HeldTypes
    BY HeldTyped
  <1>b. QueuesApart /\ HandsApart /\ AcksApart /\ WireOnce
    BY DEF HeldInv
  <1> USE DEF boxVars, remoteVars, storeVars, queueVars, submitVars
  <1>c. UNCHANGED <<phase, resp, rows, pending, releasing, batch, acks>>
    BY DEF Writer, WriterCheck, Consume, WriterLock, WriterDeliver, WriterRequeue
  <1>d. SUFFICES /\ QueuesApart' /\ HandsApart' /\ AcksApart' /\ WireOnce'
                 /\ \A k \in Job : IsLive(k)' <=> IsLive(k)
    BY <1>c, SubmitFrame, SubmitTyped, RowsFrame DEF HeldInv
  <1>1. CASE WriterCheck(b)
    <2>1. /\ wpc[b] = "check" /\ wpc' = [wpc EXCEPT ![b] = "wait"]
          /\ UNCHANGED <<outq, storing, cb, hand, openAcks, sent>>
      BY <1>1 DEF WriterCheck
    <2>2. /\ \A d \in Box : Carries(d)' <=> Carries(d)
          /\ \A d \in Box : wpc'[d] = "locked" <=> wpc[d] = "locked"
      BY <1>a, <2>1 DEF HeldTypes, Carries
    <2>3. QueuesApart' /\ HandsApart' /\ AcksApart'
      BY <1>b, <1>c, <2>1, <2>2 DEF QueuesApart, HandsApart, AcksApart
    <2>4. WireOnce'
      BY <1>b, <1>c, <2>1, <2>2 DEF WireOnce
    <2> QED
      BY <1>c, <2>1, <2>2, <2>3, <2>4 DEF IsLive, CallbackDue, InHand, AwaitsAck
  <1>2. ASSUME NEW j \in outq, Consume(b, j)
        PROVE  /\ QueuesApart' /\ HandsApart' /\ AcksApart' /\ WireOnce'
               /\ \A k \in Job : IsLive(k)' <=> IsLive(k)
    <2>1. /\ wpc[b] = "wait" /\ outq' = outq \ {j}
          /\ hand' = [hand EXCEPT ![b] = j] /\ wpc' = [wpc EXCEPT ![b] = "got"]
          /\ UNCHANGED <<storing, cb, openAcks, sent>>
      BY <1>2 DEF Consume
    <2>2. /\ ~Carries(b) /\ Carries(b)' /\ hand'[b] = j /\ wpc'[b] # "locked"
          /\ \A d \in Box \ {b} : (Carries(d)' <=> Carries(d)) /\ hand'[d] = hand[d] /\ wpc'[d] = wpc[d]
      BY <1>a, <2>1 DEF HeldTypes, Carries
    <2>3. /\ j \notin storing /\ j \notin batch /\ \A c \in cb : c.job # j
          /\ \A d \in Box : (Carries(d) => hand[d] # j) /\ j \notin openAcks[d]
      BY <1>b, <1>2 DEF QueuesApart, HandsApart, AcksApart
    <2>4. QueuesApart' /\ AcksApart'
      BY <1>b, <1>c, <2>1 DEF QueuesApart, AcksApart
    <2>5. HandsApart'
      <3> SUFFICES ASSUME NEW d \in Box, Carries(d)'
                   PROVE  (/\ hand[d] \notin outq /\ hand[d] \notin storing /\ hand[d] \notin batch
                           /\ \A c \in cb : c.job # hand[d]
                           /\ \A e \in Box : hand[d] \notin openAcks[e]
                           /\ \A e \in Box : Carries(e) /\ hand[e] = hand[d] => e = d)'
        BY DEF HandsApart
      <3>1. CASE d = b
        BY <1>c, <2>1, <2>2, <2>3, <3>1
      <3>2. CASE d # b
        BY <1>b, <1>c, <2>1, <2>2, <2>3, <3>2 DEF HandsApart
      <3> QED
        BY <3>1, <3>2
    <2>6. WireOnce'
      BY <1>b, <1>c, <2>1, <2>2 DEF WireOnce
    <2>7. \A k : InHand(k)' <=> InHand(k) \/ k = j
      BY <2>2 DEF InHand
    <2>8. \A k : (AwaitsAck(k)' <=> AwaitsAck(k)) /\ (CallbackDue(k)' <=> CallbackDue(k))
      BY <2>1 DEF AwaitsAck, CallbackDue
    <2> QED
      BY <1>c, <1>2, <2>1, <2>4, <2>5, <2>6, <2>7, <2>8 DEF IsLive
  <1>3. CASE WriterLock(b)
    <2>1. /\ wpc[b] = "got" /\ UNCHANGED <<outq, storing, cb, hand, sent>>
          /\ Carries(b) /\ hand[b] \in Job
      BY <1>a, <1>3 DEF WriterLock, Carries, HeldTypes
    <2>2. CASE wpc' = [wpc EXCEPT ![b] = "requeue"] /\ UNCHANGED openAcks
      <3>1. /\ \A d \in Box : Carries(d)' <=> Carries(d)
            /\ \A d \in Box : wpc'[d] = "locked" <=> wpc[d] = "locked"
        BY <1>a, <2>1, <2>2 DEF HeldTypes, Carries
      <3>2. QueuesApart' /\ HandsApart' /\ AcksApart'
        BY <1>b, <1>c, <2>1, <2>2, <3>1 DEF QueuesApart, HandsApart, AcksApart
      <3>3. WireOnce'
        BY <1>b, <1>c, <2>1, <2>2, <3>1 DEF WireOnce
      <3> QED
        BY <1>c, <2>1, <2>2, <3>1, <3>2, <3>3 DEF IsLive, CallbackDue, InHand, AwaitsAck
    <2>3. CASE /\ wpc' = [wpc EXCEPT ![b] = "locked"]
               /\ openAcks' = [openAcks EXCEPT ![b] = @ \cup {hand[b]}]
      <3>1. /\ ~Carries(b)' /\ wpc'[b] = "locked" /\ openAcks'[b] = openAcks[b] \cup {hand[b]}
            /\ \A d \in Box \ {b} : /\ Carries(d)' <=> Carries(d)
                                    /\ openAcks'[d] = openAcks[d] /\ wpc'[d] = wpc[d]
        BY <1>a, <2>3 DEF HeldTypes, Carries
      <3>2. /\ hand[b] \notin outq /\ hand[b] \notin storing /\ hand[b] \notin batch
            /\ \A c \in cb : c.job # hand[b]
            /\ \A d \in Box : hand[b] \notin openAcks[d]
            /\ \A d \in Box \ {b} : Carries(d) => hand[d] # hand[b]
        BY <1>b, <2>1 DEF HandsApart
      <3>3. QueuesApart'
        BY <1>b, <1>c, <2>1 DEF QueuesApart
      <3>4. HandsApart'
        <4> SUFFICES ASSUME NEW d \in Box, Carries(d)'
                     PROVE  (/\ hand[d] \notin outq /\ hand[d] \notin storing /\ hand[d] \notin batch
                             /\ \A c \in cb : c.job # hand[d]
                             /\ \A e \in Box : hand[d] \notin openAcks[e]
                             /\ \A e \in Box : Carries(e) /\ hand[e] = hand[d] => e = d)'
          BY DEF HandsApart
        <4>1. d # b /\ Carries(d)
          BY <3>1
        <4> QED
          BY <1>b, <1>c, <2>1, <3>1, <3>2, <4>1 DEF HandsApart
      <3>5. AcksApart'
        <4> SUFFICES ASSUME NEW d \in Box, NEW k \in openAcks'[d]
                     PROVE  /\ k \notin outq' /\ k \notin storing' /\ k \notin batch'
                            /\ \A c \in cb' : c.job # k
                            /\ \A e \in Box : k \in openAcks'[e] => e = d
          BY DEF AcksApart
        <4>1. CASE d = b /\ k = hand[b]
          BY <1>c, <2>1, <3>1, <3>2, <4>1
        <4>2. CASE k \in openAcks[d]
          BY <1>b, <1>c, <2>1, <3>1, <3>2, <4>2 DEF AcksApart
        <4> QED
          BY <3>1, <4>1, <4>2
      <3>6. hand[b] \notin sent[b] /\ \A a \in acks[b] : a.job # hand[b]
        BY <1>b, <3>2 DEF WireOnce
      <3>7. WireOnce'
        BY <1>b, <1>c, <2>1, <3>1, <3>6 DEF WireOnce
      <3>8. \A k : InHand(k)' \/ AwaitsAck(k)' <=> InHand(k) \/ AwaitsAck(k)
        BY <2>1, <3>1 DEF InHand, AwaitsAck
      <3> QED
        BY <1>c, <2>1, <3>3, <3>4, <3>5, <3>7, <3>8 DEF IsLive, CallbackDue
    <2> QED
      BY <1>3, <2>2, <2>3 DEF WriterLock
  <1>4. CASE WriterDeliver(b)
    <2>1. /\ wpc[b] = "locked" /\ UNCHANGED <<outq, storing, cb>>
          /\ ~Carries(b) /\ hand[b] \in Job
          /\ hand[b] \in openAcks[b] /\ hand[b] \notin sent[b]
          /\ \A a \in acks[b] : a.job # hand[b]
      BY <1>a, <1>b, <1>4 DEF WriterDeliver, Carries, HeldTypes, WireOnce
    <2>2. CASE /\ sent' = [sent EXCEPT ![b] = @ \cup {hand[b]}]
               /\ hand' = [hand EXCEPT ![b] = NoJob]
               /\ wpc' = [wpc EXCEPT ![b] = "check"]
               /\ UNCHANGED openAcks
      <3>1. /\ ~Carries(b)' /\ wpc'[b] = "check" /\ sent'[b] = sent[b] \cup {hand[b]}
            /\ \A d \in Box \ {b} : /\ Carries(d)' <=> Carries(d)
                                    /\ hand'[d] = hand[d] /\ sent'[d] = sent[d] /\ wpc'[d] = wpc[d]
        BY <1>a, <2>2 DEF HeldTypes, Carries
      <3>2. QueuesApart' /\ AcksApart'
        BY <1>b, <1>c, <2>1, <2>2 DEF QueuesApart, AcksApart
      <3>3. HandsApart'
        BY <1>b, <1>c, <2>1, <2>2, <3>1 DEF HandsApart
      <3>4. WireOnce'
        BY <1>b, <1>c, <2>1, <2>2, <3>1 DEF WireOnce
      <3>5. \A k : (InHand(k)' <=> InHand(k)) /\ (AwaitsAck(k)' <=> AwaitsAck(k))
        BY <2>1, <2>2, <3>1 DEF InHand, AwaitsAck
      <3> QED
        BY <1>c, <2>1, <3>2, <3>3, <3>4, <3>5 DEF IsLive, CallbackDue
    <2>3. CASE /\ openAcks' = [openAcks EXCEPT ![b] = @ \ {hand[b]}]
               /\ wpc' = [wpc EXCEPT ![b] = "requeue"]
               /\ UNCHANGED <<hand, sent>>
      <3>1. /\ Carries(b)' /\ wpc'[b] = "requeue" /\ openAcks'[b] = openAcks[b] \ {hand[b]}
            /\ \A d \in Box \ {b} : /\ Carries(d)' <=> Carries(d)
                                    /\ openAcks'[d] = openAcks[d] /\ wpc'[d] = wpc[d]
        BY <1>a, <2>3 DEF HeldTypes, Carries
      <3>2. /\ hand[b] \notin outq /\ hand[b] \notin storing /\ hand[b] \notin batch
            /\ \A c \in cb : c.job # hand[b]
            /\ \A d \in Box \ {b} : hand[b] \notin openAcks[d]
            /\ \A d \in Box : Carries(d) => hand[d] # hand[b]
        BY <1>b, <2>1 DEF AcksApart, HandsApart
      <3>3. QueuesApart'
        BY <1>b, <1>c, <2>1 DEF QueuesApart
      <3>4. HandsApart'
        <4> SUFFICES ASSUME NEW d \in Box, Carries(d)'
                     PROVE  (/\ hand[d] \notin outq /\ hand[d] \notin storing /\ hand[d] \notin batch
                             /\ \A c \in cb : c.job # hand[d]
                             /\ \A e \in Box : hand[d] \notin openAcks[e]
                             /\ \A e \in Box : Carries(e) /\ hand[e] = hand[d] => e = d)'
          BY DEF HandsApart
        <4>1. CASE d = b
          BY <1>c, <2>1, <2>3, <3>1, <3>2, <4>1
        <4>2. CASE d # b
          BY <1>b, <1>c, <2>1, <2>3, <3>1, <3>2, <4>2 DEF HandsApart
        <4> QED
          BY <4>1, <4>2
      <3>5. AcksApart'
        BY <1>b, <1>c, <2>1, <3>1 DEF AcksApart
      <3>6. WireOnce'
        BY <1>b, <1>c, <2>1, <2>3, <3>1 DEF WireOnce
      <3>7. \A k : InHand(k)' \/ AwaitsAck(k)' <=> InHand(k) \/ AwaitsAck(k)
        BY <2>1, <2>3, <3>1 DEF InHand, AwaitsAck
      <3> QED
        BY <1>c, <2>1, <3>3, <3>4, <3>5, <3>6, <3>7 DEF IsLive, CallbackDue
    <2> QED
      BY <1>4, <2>2, <2>3 DEF WriterDeliver
  <1>5. CASE WriterRequeue(b)
    <2> DEFINE j == hand[b]
    <2>1. /\ wpc[b] = "requeue" /\ hand' = [hand EXCEPT ![b] = NoJob]
          /\ wpc' = [wpc EXCEPT ![b] = "check"] /\ UNCHANGED <<openAcks, sent>>
          /\ Carries(b) /\ j \in Job
      BY <1>a, <1>5 DEF WriterRequeue, Carries, HeldTypes
    <2>2. \/ outq' = outq \cup {j} /\ UNCHANGED <<storing, cb>>
          \/ storing' = storing \cup {j} /\ UNCHANGED <<outq, cb>>
          \/ cb' = cb \cup {[job |-> j, status |-> "syserr"]} /\ UNCHANGED <<outq, storing>>
      BY <1>5 DEF WriterRequeue, AddToQueue, Callback
    <2>3. /\ ~Carries(b)' /\ wpc'[b] = "check"
          /\ \A d \in Box \ {b} : (Carries(d)' <=> Carries(d)) /\ hand'[d] = hand[d] /\ wpc'[d] = wpc[d]
      BY <1>a, <2>1 DEF HeldTypes, Carries
    <2>4. /\ j \notin outq /\ j \notin storing /\ j \notin batch
          /\ \A c \in cb : c.job # j
          /\ \A d \in Box : j \notin openAcks[d]
          /\ \A d \in Box \ {b} : Carries(d) => hand[d] # j
      BY <1>b, <2>1 DEF HandsApart
    <2>5. \A k : InHand(k)' <=> InHand(k) /\ k # j
      BY <2>1, <2>3, <2>4 DEF InHand
    <2>6. InHand(j)
      BY <2>1 DEF InHand
    <2> HIDE DEF j
    <2>7. QueuesApart'
      BY <1>b, <1>c, <2>2, <2>4 DEF QueuesApart
    <2>8. HandsApart'
      <3> SUFFICES ASSUME NEW d \in Box, Carries(d)'
                   PROVE  (/\ hand[d] \notin outq /\ hand[d] \notin storing /\ hand[d] \notin batch
                           /\ \A c \in cb : c.job # hand[d]
                           /\ \A e \in Box : hand[d] \notin openAcks[e]
                           /\ \A e \in Box : Carries(e) /\ hand[e] = hand[d] => e = d)'
        BY DEF HandsApart
      <3>1. d # b /\ Carries(d) /\ hand'[d] = hand[d] /\ hand[d] # j
        BY <2>3, <2>4
      <3> QED
        BY <1>b, <1>c, <2>1, <2>2, <2>3, <3>1 DEF HandsApart
    <2>9. AcksApart'
      BY <1>b, <1>c, <2>1, <2>2, <2>4 DEF AcksApart
    <2>10. WireOnce'
      BY <1>b, <1>c, <2>1, <2>3 DEF WireOnce
    <2>11. \A k : AwaitsAck(k)' <=> AwaitsAck(k)
      BY <2>1 DEF AwaitsAck
    <2>12. \A k \in Job : IsLive(k)' <=> IsLive(k)
      <3>2. CASE outq' = outq \cup {j} /\ UNCHANGED <<storing, cb>>
        BY <1>c, <2>5, <2>6, <2>11, <3>2 DEF IsLive, CallbackDue
      <3>3. CASE storing' = storing \cup {j} /\ UNCHANGED <<outq, cb>>
        BY <1>c, <2>5, <2>6, <2>11, <3>3 DEF IsLive, CallbackDue
      <3>4. CASE cb' = cb \cup {[job |-> j, status |-> "syserr"]} /\ UNCHANGED <<outq, storing>>
        BY <1>c, <2>5, <2>6, <2>11, <3>4, CallbackAdded DEF IsLive
      <3> QED
        BY <2>2, <3>2, <3>3, <3>4
    <2> QED
      BY <2>7, <2>8, <2>9, <2>10, <2>12
  <1> QED
    BY <1>1, <1>2, <1>3, <1>4, <1>5 DEF Writer

\* The reader of a box: an ack turns its open ack into a due callback, and a
\* dropped connection turns every open ack of the box into one.
LEMMA ReaderHeld ==
  ASSUME TypeOK, HeldInv, NEW b \in Box, Reader(b) \/ SetStateDown(b)
  PROVE  HeldInv'
  <1>a. HeldTypes
    BY HeldTyped
  <1>b. QueuesApart /\ HandsApart /\ AcksApart /\ WireOnce
    BY DEF HeldInv
  <1> USE DEF boxVars, remoteVars, storeVars, queueVars, submitVars
  <1>c. UNCHANGED <<phase, resp, rows, pending, releasing, batch, outq, storing, wpc, hand>>
    BY DEF Reader, Reconnect, ReconnectFails, DropConnection, ReadAck, ReadFails,
           ReaderLeaves, SetStateDown
  <1>d. SUFFICES /\ QueuesApart' /\ HandsApart' /\ AcksApart' /\ WireOnce'
                 /\ \A k \in Job : IsLive(k)' <=> IsLive(k)
    BY <1>c, SubmitFrame, SubmitTyped, RowsFrame DEF HeldInv
  <1>e. \A k : InHand(k)' <=> InHand(k)
    BY <1>c DEF InHand, Carries
  <1>1. CASE DropConnection(b)
    <2>1. /\ wpc[b] # "locked"
          /\ cb' = cb \cup {[job |-> j, status |-> "syserr"] : j \in openAcks[b]}
          /\ openAcks' = [openAcks EXCEPT ![b] = {}]
          /\ sent' = [sent EXCEPT ![b] = {}]
          /\ acks' = [acks EXCEPT ![b] = {}]
      BY <1>1 DEF DropConnection
    <2>2. /\ openAcks'[b] = {} /\ sent'[b] = {} /\ acks'[b] = {}
          /\ \A d \in Box \ {b} : openAcks'[d] = openAcks[d] /\ sent'[d] = sent[d] /\ acks'[d] = acks[d]
      BY <1>a, <2>1 DEF HeldTypes
    <2>3. \A c \in cb' : \/ c \in cb
                         \/ c.job \in openAcks[b] /\ c = [job |-> c.job, status |-> "syserr"]
      BY <2>1
    <2>4. \A j \in openAcks[b] : \E c \in cb' : c.job = j
      <3> SUFFICES ASSUME NEW j \in openAcks[b] PROVE \E c \in cb' : c.job = j
        OBVIOUS
      <3>1. [job |-> j, status |-> "syserr"] \in cb'
        BY <2>1
      <3>2. [job |-> j, status |-> "syserr"].job = j
        OBVIOUS
      <3> QED
        BY <3>1, <3>2
    <2>5. QueuesApart'
      <3>1. \A c \in cb' : c.job \notin outq' /\ c.job \notin storing' /\ c.job \notin batch'
        BY <1>b, <1>c, <2>3 DEF QueuesApart, AcksApart
      <3>2. ASSUME NEW c \in cb', NEW d \in cb', c.job = d.job PROVE c = d
        <4>1. CASE c \in cb /\ d \in cb
          BY <1>b, <3>2, <4>1 DEF QueuesApart
        <4>2. CASE c.job \in openAcks[b]
          <5>1. c \notin cb /\ d \notin cb
            BY <1>b, <3>2, <4>2 DEF AcksApart
          <5>2. /\ c = [job |-> c.job, status |-> "syserr"]
                /\ d = [job |-> d.job, status |-> "syserr"]
            BY <2>3, <3>2, <5>1
          <5> QED
            BY <3>2, <5>2
        <4>3. CASE d.job \in openAcks[b]
          BY <3>2, <4>2, <4>3
        <4> QED
          BY <2>3, <3>2, <4>1, <4>2, <4>3
      <3>3. (\A j \in outq : j \notin storing /\ j \notin batch)' /\ (\A j \in storing : j \notin batch)'
        BY <1>b, <1>c DEF QueuesApart
      <3> QED
        BY <3>1, <3>2, <3>3 DEF QueuesApart
    <2>6. HandsApart'
      BY <1>b, <1>c, <2>2, <2>3 DEF HandsApart, Carries
    <2>7. AcksApart'
      <3> SUFFICES ASSUME NEW d \in Box, NEW k \in openAcks'[d]
                   PROVE  /\ k \notin outq' /\ k \notin storing' /\ k \notin batch'
                          /\ \A c \in cb' : c.job # k
                          /\ \A e \in Box : k \in openAcks'[e] => e = d
        BY DEF AcksApart
      <3>1. d # b /\ k \in openAcks[d]
        BY <2>2
      <3>2. k \notin openAcks[b]
        BY <1>b, <3>1 DEF AcksApart
      <3> QED
        BY <1>b, <1>c, <2>2, <2>3, <3>1, <3>2 DEF AcksApart
    <2>8. WireOnce'
      BY <1>b, <1>c, <2>1, <2>2 DEF WireOnce
    <2>9. \A k : CallbackDue(k)' \/ AwaitsAck(k)' <=> CallbackDue(k) \/ AwaitsAck(k)
      <3>1. \A k : CallbackDue(k)' <=> CallbackDue(k) \/ k \in openAcks[b]
        BY <2>1, <2>3, <2>4 DEF CallbackDue
      <3>2. \A k : AwaitsAck(k) <=> AwaitsAck(k)' \/ k \in openAcks[b]
        BY <2>2 DEF AwaitsAck
      <3> QED
        BY <3>1, <3>2
    <2> QED
      BY <1>c, <1>e, <2>5, <2>6, <2>7, <2>8, <2>9 DEF IsLive
  <1>2. ASSUME NEW a \in acks[b], ReadAck(b, a)
        PROVE  /\ QueuesApart' /\ HandsApart' /\ AcksApart' /\ WireOnce'
               /\ \A k \in Job : IsLive(k)' <=> IsLive(k)
    <2>1. /\ acks' = [acks EXCEPT ![b] = @ \ {a}] /\ UNCHANGED sent
          /\ a.job \in openAcks[b]
          /\ openAcks' = [openAcks EXCEPT ![b] = @ \ {a.job}]
          /\ cb' = cb \cup {[job |-> a.job, status |-> AckResult(a.status)]}
      BY <1>b, <1>2 DEF ReadAck, Callback, WireOnce
    <2> DEFINE j == a.job
               n == [job |-> a.job, status |-> AckResult(a.status)]
    <2>2. /\ openAcks'[b] = openAcks[b] \ {j} /\ acks'[b] = acks[b] \ {a}
          /\ \A d \in Box \ {b} : openAcks'[d] = openAcks[d] /\ acks'[d] = acks[d]
          /\ j \in openAcks[b]
      BY <1>a, <2>1 DEF HeldTypes
    <2>3. cb' = cb \cup {n} /\ n.job = j
      BY <2>1
    <2>4. \A k : CallbackDue(k)' <=> CallbackDue(k) \/ k = j
      BY <2>1, CallbackAdded
    <2> HIDE DEF n
    <2>5. /\ j \notin outq /\ j \notin storing /\ j \notin batch
          /\ \A c \in cb : c.job # j
          /\ \A d \in Box \ {b} : j \notin openAcks[d]
          /\ \A d \in Box : Carries(d) => hand[d] # j
      BY <1>b, <2>2 DEF AcksApart, HandsApart
    <2>6. QueuesApart'
      BY <1>b, <1>c, <2>3, <2>5 DEF QueuesApart
    <2>7. HandsApart'
      BY <1>b, <1>c, <2>2, <2>3, <2>5 DEF HandsApart, Carries
    <2>8. AcksApart'
      BY <1>b, <1>c, <2>2, <2>3, <2>5 DEF AcksApart
    <2>9. WireOnce'
      BY <1>b, <1>c, <2>1, <2>2 DEF WireOnce
    <2>10. \A k : AwaitsAck(k) <=> AwaitsAck(k)' \/ k = j
      BY <2>2 DEF AwaitsAck
    <2> QED
      BY <1>c, <1>e, <2>4, <2>6, <2>7, <2>8, <2>9, <2>10 DEF IsLive
  <1>3. CASE ReadFails(b) \/ ReaderLeaves(b) \/ SetStateDown(b)
    BY <1>3, HeldFrame DEF ReadFails, ReaderLeaves, SetStateDown, heldVars
  <1> QED
    BY <1>1, <1>2, <1>3 DEF Reader, Reconnect, ReconnectFails

\* Bearerbox answers a job it was sent once; a crash leaves no job behind.
LEMMA OutsideHeld ==
  ASSUME TypeOK, HeldInv,
         Crash \/ \E b \in Box : \E j \in sent[b] : BearerboxHandles(b, j)
  PROVE  HeldInv'
  <1>a. HeldTypes /\ TypeSubmit
    BY HeldTyped DEF TypeOK
  <1>b. QueuesApart /\ HandsApart /\ AcksApart /\ WireOnce /\ SubmitLive /\ RowsClaimed /\ AnsweredOnce
    BY DEF HeldInv
  <1> USE DEF boxVars, remoteVars, storeVars, queueVars, submitVars
  <1>1. CASE Crash
    <2>1. /\ outq' = {} /\ storing' = {} /\ batch' = {} /\ cb' = {} /\ releasing' = {}
          /\ \A b \in Box : wpc'[b] = "check" /\ openAcks'[b] = {} /\ sent'[b] = {} /\ acks'[b] = {}
          /\ pending' = {} /\ UNCHANGED resp
      BY <1>1 DEF Crash
    <2>2. \A m \in Msg : /\ phase'[m] # "queued"
                         /\ phase'[m] = "answered" <=> phase[m] = "answered"
      BY <1>1 DEF Crash
    <2>3. \A j : ~IsLive(j)'
      BY <2>1 DEF IsLive, CallbackDue, InHand, AwaitsAck, Carries
    <2>4. QueuesApart' /\ HandsApart' /\ AcksApart' /\ WireOnce'
      BY <2>1 DEF QueuesApart, HandsApart, AcksApart, WireOnce, Carries
    <2>5. SubmitLive' /\ RowsClaimed' /\ AnsweredOnce'
      BY <1>b, <2>1, <2>2, <2>3 DEF SubmitLive, RowsClaimed, AnsweredOnce
    <2> QED
      BY <2>4, <2>5 DEF HeldInv
  <1>2. ASSUME NEW b \in Box, NEW j \in sent[b], BearerboxHandles(b, j) PROVE HeldInv'
    <2>1. UNCHANGED <<phase, resp, rows, pending, releasing, batch, outq, storing, cb, wpc, hand, openAcks>>
      BY <1>2 DEF BearerboxHandles
    <2>2. QueuesApart' /\ HandsApart' /\ AcksApart'
      BY <1>b, <2>1 DEF QueuesApart, HandsApart, AcksApart, Carries
    <2>3. PICK s \in AckStatus : /\ acks' = [acks EXCEPT ![b] = @ \cup {[job |-> j, status |-> s]}]
                                 /\ sent' = [sent EXCEPT ![b] = @ \ {j}]
      BY <1>2 DEF BearerboxHandles
    <2> DEFINE n == [job |-> j, status |-> s]
    <2>4. n.job = j
      OBVIOUS
    <2>5. /\ sent'[b] = sent[b] \ {j} /\ acks'[b] = acks[b] \cup {n}
          /\ \A d \in Box \ {b} : sent'[d] = sent[d] /\ acks'[d] = acks[d]
      BY <1>a, <2>3 DEF HeldTypes
    <2> HIDE DEF n
    <2>6. WireOnce'
      BY <1>b, <1>2, <2>1, <2>4, <2>5 DEF WireOnce
    <2>7. \A k : IsLive(k)' <=> IsLive(k)
      BY <2>1 DEF IsLive, CallbackDue, InHand, AwaitsAck, Carries
    <2> QED
      BY <2>1, <2>2, <2>6, <2>7, SubmitFrame, RowsFrame DEF HeldInv
  <1> QED
    BY <1>1, <1>2

\* Every step keeps the ownership of jobs.
LEMMA NextHeld == TypeOK /\ KeptInv /\ HeldInv /\ [Next]_vars => HeldInv'
  <1> SUFFICES ASSUME TypeOK, KeptInv, HeldInv, [Next]_vars PROVE HeldInv'
    OBVIOUS
  <1>1. CASE UNCHANGED vars
    <2>1. UNCHANGED heldVars /\ UNCHANGED <<phase, resp, rows, pending, releasing>>
      BY <1>1 DEF vars, heldVars
    <2> QED
      BY <2>1, HeldFrame, SubmitFrame, RowsFrame DEF HeldInv
  <1> QED
    BY <1>1, SubmissionHeld, StoreHeld, RequeueHeld, WriterHeld, ReaderHeld, OutsideHeld DEF Next

\* In every reachable state each job has one holder, a submission has a job
\* exactly while it waits for its answer, and a row in flight is claimed.
THEOREM HeldInvariant == Spec => []HeldInv
  <1>1. Spec => [](TypeOK /\ KeptInv)
    BY TypeCorrect, KeptInvariant, PTL
  <1> QED
    BY <1>1, InitHeld, NextHeld, PTL DEF Spec

-----------------------------------------------------------------------------
(* What it means for the holders of MtPath *)

\* What each kind of holder holds.
LEMMA Holdings ==
  /\ HeldBy(<<"outq", "">>) = outq
  /\ HeldBy(<<"storing", "">>) = storing
  /\ HeldBy(<<"batch", "">>) = batch
  /\ \A s \in Status : \A j : j \in HeldBy(<<"callback", s>>) <=> \E c \in cb : c.status = s /\ c.job = j
  /\ \A b \in Box : \A j : j \in HeldBy(<<"hand", b>>) <=> Carries(b) /\ hand[b] = j
  /\ \A b \in Box : HeldBy(<<"open_acks", b>>) = openAcks[b]
  BY DEF HeldBy, Carries

\* There are no other holders.
LEMMA HolderCases ==
  ASSUME NEW h \in Holder
  PROVE  \/ h = <<"outq", "">> \/ h = <<"storing", "">> \/ h = <<"batch", "">>
         \/ \E s \in Status : h = <<"callback", s>>
         \/ \E b \in Box : h = <<"hand", b>> \/ h = <<"open_acks", b>>
  BY DEF Holder

\* Live is what IsLive says.
LEMMA LiveJobs == HeldTypes => \A j : j \in Live <=> IsLive(j)
  <1> SUFFICES ASSUME HeldTypes, NEW j PROVE j \in Live <=> IsLive(j)
    OBVIOUS
  <1>1. ASSUME j \in Live PROVE IsLive(j)
    <2>1. PICK h \in Holder : j \in HeldBy(h)
      BY <1>1 DEF Live
    <2> QED
      <3>1. CASE h = <<"outq", "">> \/ h = <<"storing", "">> \/ h = <<"batch", "">>
        BY <2>1, <3>1, Holdings DEF IsLive
      <3>2. ASSUME NEW s \in Status, h = <<"callback", s>> PROVE IsLive(j)
        BY <2>1, <3>2, Holdings DEF IsLive, CallbackDue
      <3>3. ASSUME NEW b \in Box, h = <<"hand", b>> PROVE IsLive(j)
        BY <2>1, <3>3, Holdings, ZenonT(40) DEF IsLive, InHand
      <3>4. ASSUME NEW b \in Box, h = <<"open_acks", b>> PROVE IsLive(j)
        <4>1. HeldBy(h) = openAcks[b]
          BY <3>4, Holdings
        <4> QED
          BY <2>1, <4>1 DEF IsLive, AwaitsAck
      <3> QED
        BY <3>1, <3>2, <3>3, <3>4, HolderCases
  <1>2. ASSUME IsLive(j) PROVE j \in Live
    <2>1. /\ <<"outq", "">> \in Holder /\ <<"storing", "">> \in Holder /\ <<"batch", "">> \in Holder
          /\ \A s \in Status : <<"callback", s>> \in Holder
          /\ \A b \in Box : <<"hand", b>> \in Holder /\ <<"open_acks", b>> \in Holder
      BY DEF Holder
    <2>2. \E h \in Holder : j \in HeldBy(h)
      <3>1. CASE j \in outq \/ j \in storing \/ j \in batch
        BY <2>1, <3>1, Holdings
      <3>2. CASE CallbackDue(j)
        <4>1. PICK c \in cb : c.job = j
          BY <3>2 DEF CallbackDue
        <4>2. c.status \in Status
          BY DEF HeldTypes
        <4> QED
          BY <2>1, <4>1, <4>2, Holdings
      <3>3. CASE InHand(j)
        BY <2>1, <3>3, Holdings DEF InHand
      <3>4. CASE AwaitsAck(j)
        <4>1. PICK b \in Box : j \in openAcks[b]
          BY <3>4 DEF AwaitsAck
        <4>2. HeldBy(<<"open_acks", b>>) = openAcks[b]
          BY Holdings
        <4> QED
          BY <2>1, <4>1, <4>2
      <3> QED
        BY <1>2, <3>1, <3>2, <3>3, <3>4 DEF IsLive
    <2> QED
      BY <2>2 DEF Live
  <1> QED
    BY <1>1, <1>2

\* The invariant keeps any two holders apart.
LEMMA HoldersApart ==
  ASSUME HeldTypes, HeldInv
  PROVE  \A h, i \in Holder : h # i => HeldBy(h) \cap HeldBy(i) = {}
  <1> SUFFICES ASSUME NEW h \in Holder, NEW i \in Holder, NEW j, j \in HeldBy(h), j \in HeldBy(i)
               PROVE  h = i
    OBVIOUS
  <1>a. QueuesApart /\ HandsApart /\ AcksApart
    BY DEF HeldInv
  <1>b. /\ (j \in outq \/ j \in storing \/ j \in batch) => ~CallbackDue(j) /\ ~InHand(j) /\ ~AwaitsAck(j)
        /\ ~(j \in outq /\ j \in storing) /\ ~(j \in outq /\ j \in batch) /\ ~(j \in storing /\ j \in batch)
        /\ CallbackDue(j) => ~InHand(j) /\ ~AwaitsAck(j)
        /\ ~(InHand(j) /\ AwaitsAck(j))
    BY <1>a DEF QueuesApart, HandsApart, AcksApart, CallbackDue, InHand, AwaitsAck
  <1> DEFINE Kind(x) ==
        \/ x = <<"outq", "">> /\ j \in outq
        \/ x = <<"storing", "">> /\ j \in storing
        \/ x = <<"batch", "">> /\ j \in batch
        \/ CallbackDue(j) /\ \E s \in Status : x = <<"callback", s>> /\ \E c \in cb : c.status = s /\ c.job = j
        \/ InHand(j) /\ \E b \in Box : x = <<"hand", b>> /\ Carries(b) /\ hand[b] = j
        \/ AwaitsAck(j) /\ \E b \in Box : x = <<"open_acks", b>> /\ j \in openAcks[b]
  <1>1. \A x \in Holder : j \in HeldBy(x) => Kind(x)
    <2> SUFFICES ASSUME NEW x \in Holder, j \in HeldBy(x) PROVE Kind(x)
      OBVIOUS
    <2>1. CASE x = <<"outq", "">> \/ x = <<"storing", "">> \/ x = <<"batch", "">>
      BY <2>1, Holdings
    <2>2. ASSUME NEW s \in Status, x = <<"callback", s>> PROVE Kind(x)
      BY <2>2, Holdings DEF CallbackDue
    <2>3. ASSUME NEW b \in Box, x = <<"hand", b>> PROVE Kind(x)
      <3>1. Carries(b) /\ hand[b] = j
        BY <2>3, Holdings, ZenonT(40)
      <3> QED
        BY <2>3, <3>1 DEF InHand
    <2>4. ASSUME NEW b \in Box, x = <<"open_acks", b>> PROVE Kind(x)
      <3>1. HeldBy(x) = openAcks[b]
        BY <2>4, Holdings
      <3> QED
        BY <2>4, <3>1 DEF AwaitsAck
    <2> QED
      BY <2>1, <2>2, <2>3, <2>4, HolderCases
  <1>2. Kind(h) /\ Kind(i)
    BY <1>1
  <1>3. CASE j \in outq \/ j \in storing \/ j \in batch
    <2>1. ~CallbackDue(j) /\ ~InHand(j) /\ ~AwaitsAck(j)
      BY <1>b, <1>3
    <2>2. \A x : Kind(x) => \/ x = <<"outq", "">> /\ j \in outq
                            \/ x = <<"storing", "">> /\ j \in storing
                            \/ x = <<"batch", "">> /\ j \in batch
      BY <2>1
    <2> QED
      <3> HIDE DEF Kind
      <3>1. CASE j \in outq
        <4>1. j \notin storing /\ j \notin batch
          BY <1>b, <3>1
        <4> QED
          BY <1>2, <2>2, <4>1
      <3>2. CASE j \in storing
        <4>1. j \notin outq /\ j \notin batch
          BY <1>b, <3>2
        <4> QED
          BY <1>2, <2>2, <4>1
      <3>3. CASE j \in batch
        <4>1. j \notin outq /\ j \notin storing
          BY <1>b, <3>3
        <4>2. h = <<"batch", "">>
          BY <1>2, <2>2, <4>1
        <4>3. i = <<"batch", "">>
          BY <1>2, <2>2, <4>1
        <4> QED
          BY <4>2, <4>3
      <3> QED
        BY <1>3, <3>1, <3>2, <3>3
  <1>4. CASE CallbackDue(j)
    <2>1. PICK s \in Status : h = <<"callback", s>> /\ \E c \in cb : c.status = s /\ c.job = j
      BY <1>b, <1>2, <1>4
    <2>2. PICK t \in Status : i = <<"callback", t>> /\ \E c \in cb : c.status = t /\ c.job = j
      BY <1>b, <1>2, <1>4
    <2>3. s = t
      BY <1>a, <2>1, <2>2 DEF QueuesApart
    <2> QED
      BY <2>1, <2>2, <2>3
  <1>5. CASE InHand(j)
    <2>1. PICK b \in Box : h = <<"hand", b>> /\ Carries(b) /\ hand[b] = j
      BY <1>b, <1>2, <1>5
    <2>2. PICK d \in Box : i = <<"hand", d>> /\ Carries(d) /\ hand[d] = j
      BY <1>b, <1>2, <1>5
    <2>3. b = d
      BY <1>a, <2>1, <2>2 DEF HandsApart
    <2> QED
      BY <2>1, <2>2, <2>3
  <1>6. CASE AwaitsAck(j)
    <2>1. PICK b \in Box : h = <<"open_acks", b>> /\ j \in openAcks[b]
      BY <1>b, <1>2, <1>6
    <2>2. PICK d \in Box : i = <<"open_acks", d>> /\ j \in openAcks[d]
      BY <1>b, <1>2, <1>6
    <2>3. b = d
      BY <1>a, <2>1, <2>2 DEF AcksApart
    <2> QED
      BY <2>1, <2>2, <2>3
  <1> QED
    BY <1>2, <1>3, <1>4, <1>5, <1>6

\* smpp_bearerbox.c passes a job from hand to hand without copying it: in every
\* reachable state it has one holder and at most one callback due, and a
\* submission has a job exactly until it is answered.
THEOREM OneHolder == Spec => []JobHeldOnce
  <1>1. TypeOK /\ HeldInv => JobHeldOnce
    <2> SUFFICES ASSUME TypeOK, HeldInv PROVE JobHeldOnce
      OBVIOUS
    <2>1. HeldTypes
      BY HeldTyped
    <2>2. \A b \in Box : wpc[b] = "locked" => hand[b] \in openAcks[b]
      BY DEF HeldInv, WireOnce
    <2>3. \A m \in Msg : SubmitJob(m) \in Live <=> phase[m] = "queued"
      BY <2>1, LiveJobs DEF HeldInv, SubmitLive
    <2> QED
      BY <2>1, <2>2, <2>3, HoldersApart DEF JobHeldOnce
  <1> QED
    BY <1>1, TypeCorrect, HeldInvariant, PTL

\* The NOT IN (pending) of the drain is enough: a row that a job was made from
\* is there and claimed for as long as anybody holds the job, so a stored
\* message is never in flight twice.
THEOREM InFlightClaimed == Spec => []RowInFlightIsClaimed
  <1>1. TypeOK /\ HeldInv => RowInFlightIsClaimed
    <2> SUFFICES ASSUME TypeOK, HeldInv, NEW j \in Live, j.gid > 0
                 PROVE  j.gid \in pending /\ rows[j.gid] = j.msg
      BY DEF RowInFlightIsClaimed
    <2>1. HeldTypes /\ IsLive(j)
      BY HeldTyped, LiveJobs
    <2>2. j \in Job
      BY <2>1 DEF IsLive, CallbackDue, InHand, AwaitsAck, Carries, HeldTypes
    <2> QED
      BY <2>1, <2>2 DEF HeldInv, RowsClaimed
  <1> QED
    BY <1>1, TypeCorrect, HeldInvariant, PTL

=============================================================================
