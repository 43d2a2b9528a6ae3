------------------------------- MODULE MtPath -------------------------------
(***************************************************************************)
(* The mobile-terminated path of ksmppd: what happens to a submit_sm or    *)
(* data_sm from the moment an inbound queue thread handles it until its    *)
(* response is queued for the ESME, and to the copy that the database may  *)
(* keep on its behalf.  The actors are                                     *)
(*   - the threads that run smpp_queues_*_routing_done (smpp_queues.c),    *)
(*   - a writer and a reader thread per bearerbox connection, the requeue  *)
(*     thread and the callbacks they run (smpp_bearerbox.c),               *)
(*   - the MySQL/PostgreSQL message store (smpp_database_mysql.c),         *)
(*   - the bearerbox itself, which is outside the repository.              *)
(* Message contents, priorities and the wording of errors are abstracted.  *)
(* A fault (lost connection, failed query, crash of the server) may happen *)
(* at any step, at most MaxFaults times.                                   *)
(***************************************************************************)
EXTENDS Integers, FiniteSets

CONSTANTS
  Msg,            \* the messages ESMEs may submit, each at most once
  Box,            \* the configured bearerbox connections
  NoMsg,          \* "no message": an empty row
  PrimaryMsg,     \* messages of accounts with database_store_primary in effect
  EnableQueue,    \* database-enable-queue
  Prepaid,        \* enable_prepaid_billing of the submitting account
  InitialCredit,  \* its credit when the server starts
  Cost,           \* parts * route cost of each message
  RoutingThreads, \* threads that may run a routing callback at the same time
  MaxGid,         \* bound: rows ever inserted into the message store
  MaxFaults       \* bound: faults in one behaviour

ASSUME MsgAssumption == NoMsg \notin Msg /\ PrimaryMsg \subseteq Msg
ASSUME SwitchAssumption == EnableQueue \in BOOLEAN /\ Prepaid \in BOOLEAN
ASSUME CreditAssumption == InitialCredit \in Nat /\ Cost \in [Msg -> Nat]
ASSUME BoundAssumption ==
  MaxGid \in Nat /\ MaxFaults \in Nat /\ RoutingThreads \in Nat \ {0}

VARIABLES
  phase,     \* where each submission is in its own handler
  resp,      \* command_status of the response queued for the ESME
  credit,    \* smpp_user.credit of the submitting account
  outq,      \* smpp_bearerbox_state->outbound_queue, shared by the writers
  storing,   \* jobs whose thread is about to INSERT their message
  cb,        \* callbacks about to run, with the status they are given
  wpc, hand, \* each writer thread: where it is, and the job it consumed
  rpc,       \* each reader thread: connecting or reading
  alive,     \* smpp_bearerbox->alive
  openAcks,  \* smpp_bearerbox->open_acks
  sent,      \* jobs written to a connection that bearerbox has not handled
  acks,      \* acks written by bearerbox that the reader has not read
  taken,     \* times bearerbox has taken responsibility for a message
  refused,   \* messages bearerbox has rejected permanently
  rows,      \* the message store: global_id -> message
  nextGid,   \* its AUTO_INCREMENT counter
  pending,   \* smpp_database->pending_msg: global_ids claimed by a reader
  batch,     \* claimed rows the requeue thread has still to queue
  releasing, \* DELETE issued, claim not yet dropped
  faults     \* faults so far

vars == <<phase, resp, credit, outq, storing, cb, wpc, hand, rpc, alive,
          openAcks, sent, acks, taken, refused, rows, nextGid, pending, batch,
          releasing, faults>>

-----------------------------------------------------------------------------
(* Types *)

Gid == 1 .. MaxGid

\* SMPPBearerboxMsg: gid = 0 carries a submission and answers its ESME;
\* gid > 0 carries the stored row gid and answers the requeue thread.
Job == [gid : 0 .. MaxGid, msg : Msg]
NoJob == [gid |-> 0, msg |-> NoMsg]
SubmitJob(m) == [gid |-> 0, msg |-> m]

Phase == {"new", "routing", "charging", "dispatch", "queued", "answered", "lost"}
Resp == {"none", "rejected", "ok", "syserr", "submitfail"}
Status == {"ok", "syserr", "submitfail"}
AckStatus == {"success", "failed", "failed_tmp"}

WriterPc == {"check", "wait", "got", "locked", "requeue"}
ReaderPc == {"connect", "read"}

TypeSubmit == phase \in [Msg -> Phase] /\ resp \in [Msg -> Resp] /\ credit \in Int

TypeQueue ==
  outq \subseteq Job /\ storing \subseteq Job /\ cb \subseteq [job : Job, status : Status]

TypeWriter ==
  /\ wpc \in [Box -> WriterPc]
  /\ hand \in [Box -> Job \cup {NoJob}]
  /\ \A b \in Box : wpc[b] \in {"got", "locked", "requeue"} => hand[b] \in Job

TypeLink ==
  /\ rpc \in [Box -> ReaderPc]
  /\ alive \in [Box -> BOOLEAN]
  /\ openAcks \in [Box -> SUBSET Job]
  /\ sent \in [Box -> SUBSET Job]
  /\ acks \in [Box -> SUBSET [job : Job, status : AckStatus]]

TypeRemote == taken \in [Msg -> Nat] /\ refused \subseteq Msg

TypeStore ==
  /\ rows \in [Gid -> Msg \cup {NoMsg}]
  /\ nextGid \in 1 .. MaxGid + 1
  /\ pending \subseteq Gid /\ batch \subseteq Job /\ releasing \subseteq Gid

TypeOK ==
  /\ TypeSubmit /\ TypeQueue /\ TypeWriter /\ TypeLink /\ TypeRemote /\ TypeStore
  /\ faults \in 0 .. MaxFaults

Init ==
  /\ phase = [m \in Msg |-> "new"]
  /\ resp = [m \in Msg |-> "none"]
  /\ credit = InitialCredit
  /\ outq = {} /\ storing = {} /\ cb = {}
  /\ wpc = [b \in Box |-> "check"]
  /\ hand = [b \in Box |-> NoJob]
  /\ rpc = [b \in Box |-> "connect"]
  /\ alive = [b \in Box |-> FALSE]
  /\ openAcks = [b \in Box |-> {}]
  /\ sent = [b \in Box |-> {}]
  /\ acks = [b \in Box |-> {}]
  /\ taken = [m \in Msg |-> 0]
  /\ refused = {}
  /\ rows = [g \in Gid |-> NoMsg]
  /\ nextGid = 1
  /\ pending = {} /\ batch = {} /\ releasing = {}
  /\ faults = 0

-----------------------------------------------------------------------------
(* Helpers *)

\* smpp_bearerbox_online, searched over every configured box
AnyOnline == \E b \in Box : alive[b]

Fault == faults < MaxFaults /\ faults' = faults + 1

\* Put the response of m on the ESME's outbound queue.
Answer(m, status) ==
  /\ phase' = [phase EXCEPT ![m] = "answered"]
  /\ resp' = [resp EXCEPT ![m] = status]

Callback(j, status) == cb' = cb \cup {[job |-> j, status |-> status]}

\* smpp_bearerbox_add_to_queue: the shared queue while a box is online, else
\* the database, else the callback with an error.
AddToQueue(j) ==
  \/ /\ AnyOnline
     /\ outq' = outq \cup {j}
     /\ UNCHANGED <<storing, cb>>
  \/ /\ ~AnyOnline /\ EnableQueue
     /\ storing' = storing \cup {j}
     /\ UNCHANGED <<outq, cb>>
  \/ /\ ~AnyOnline /\ ~EnableQueue
     /\ Callback(j, "syserr")
     /\ UNCHANGED <<outq, storing>>

boxVars == <<wpc, hand, rpc, alive, openAcks, sent, acks>>
remoteVars == <<taken, refused>>
storeVars == <<rows, nextGid, pending, batch, releasing>>
queueVars == <<outq, storing, cb>>
submitVars == <<phase, resp, credit>>

-----------------------------------------------------------------------------
(* The submission's own handler: smpp_queues.c *)

\* smpp_queues_handle_submit_sm / _data_sm: not bound as transmitter,
\* throttled or not convertible is answered at once, the rest is routed.
HandleSubmit(m) ==
  /\ phase[m] = "new"
  /\ \/ Answer(m, "rejected")
     \/ phase' = [phase EXCEPT ![m] = "routing"] /\ UNCHANGED resp
  /\ UNCHANGED <<credit, queueVars, boxVars, remoteVars, storeVars, faults>>

\* Mutants: the message is forwarded without being charged, or charged
\* without comparing the balance with the cost.
RoutingDoneUncharged(m) ==
  /\ phase[m] = "routing"
  /\ phase' = [phase EXCEPT ![m] = "dispatch"]
  /\ UNCHANGED <<resp, credit, queueVars, boxVars, remoteVars, storeVars, faults>>

RoutingDoneUnchecked(m) ==
  /\ phase[m] = "routing"
  /\ Cardinality({n \in Msg : phase[n] \in {"charging", "dispatch"}}) < RoutingThreads
  /\ phase' = [phase EXCEPT ![m] = IF Prepaid THEN "charging" ELSE "dispatch"]
  /\ UNCHANGED <<resp, credit, queueVars, boxVars, remoteVars, storeVars, faults>>

\* The router's callback: no route and no default SMSC rejects the message;
\* a prepaid account is charged first, and the SELECT of deduct_credit
\* decides whether the balance covers the cost.
RoutingDone(m) ==
  /\ phase[m] = "routing"
  /\ Cardinality({n \in Msg : phase[n] \in {"charging", "dispatch"}}) < RoutingThreads
  /\ \/ Answer(m, "rejected")
     \/ /\ Prepaid /\ credit < Cost[m]
        /\ Answer(m, "submitfail")
     \/ /\ Prepaid /\ credit >= Cost[m] /\ Cost[m] > 0
        /\ phase' = [phase EXCEPT ![m] = "charging"] /\ UNCHANGED resp
     \/ /\ ~Prepaid \/ Cost[m] = 0
        /\ phase' = [phase EXCEPT ![m] = "dispatch"] /\ UNCHANGED resp
  /\ UNCHANGED <<credit, queueVars, boxVars, remoteVars, storeVars, faults>>

\* The UPDATE of deduct_credit.
DeductCredit(m) ==
  /\ phase[m] = "charging"
  /\ \/ /\ credit' = credit - Cost[m]
        /\ phase' = [phase EXCEPT ![m] = "dispatch"]
        /\ UNCHANGED <<resp, faults>>
     \/ /\ Fault
        /\ Answer(m, "submitfail")
        /\ UNCHANGED credit
  /\ UNCHANGED <<queueVars, boxVars, remoteVars, storeVars>>

\* The end of the routing callback: a store-primary account's message goes
\* straight to the store, any other is handed to the bearerbox component.
Dispatch(m) ==
  /\ phase[m] = "dispatch"
  /\ phase' = [phase EXCEPT ![m] = "queued"]
  /\ \/ /\ m \in PrimaryMsg
        /\ storing' = storing \cup {SubmitJob(m)}
        /\ UNCHANGED <<outq, cb>>
     \/ m \notin PrimaryMsg /\ AddToQueue(SubmitJob(m))
  /\ UNCHANGED <<resp, credit, boxVars, remoteVars, storeVars, faults>>

-----------------------------------------------------------------------------
(* The message store and the callbacks *)

\* Mutant: the result of the INSERT is read the wrong way round.
InsertRowInverted(j) ==
  /\ j \in storing
  /\ storing' = storing \ {j}
  /\ nextGid <= MaxGid
  /\ rows' = [rows EXCEPT ![nextGid] = j.msg]
  /\ nextGid' = nextGid + 1
  /\ Callback(j, "syserr")
  /\ UNCHANGED <<submitVars, outq, boxVars, remoteVars, pending, batch, releasing, faults>>

\* smpp_database_mysql_add_message for add_message and add_queue_message
InsertRow(j) ==
  /\ j \in storing
  /\ storing' = storing \ {j}
  /\ \/ /\ nextGid <= MaxGid
        /\ rows' = [rows EXCEPT ![nextGid] = j.msg]
        /\ nextGid' = nextGid + 1
        /\ Callback(j, "ok")
        /\ UNCHANGED faults
     \/ /\ Fault
        /\ Callback(j, "syserr")
        /\ UNCHANGED <<rows, nextGid>>
  /\ UNCHANGED <<submitVars, outq, boxVars, remoteVars, pending, batch, releasing>>

\* smpp_queues_callback_submit_sm / _data_sm
CallbackSubmit(c) ==
  /\ c \in cb /\ c.job.gid = 0
  /\ cb' = cb \ {c}
  /\ Answer(c.job.msg, c.status)
  /\ UNCHANGED <<credit, outq, storing, boxVars, remoteVars, storeVars, faults>>

\* Mutant: a temporary failure deletes the row as well.
RequeueResultDropsRow(c) ==
  /\ c \in cb /\ c.job.gid > 0
  /\ cb' = cb \ {c}
  /\ releasing' = releasing \cup {c.job.gid}
  /\ rows' = [rows EXCEPT ![c.job.gid] = NoMsg]
  /\ UNCHANGED <<submitVars, outq, storing, boxVars, remoteVars, nextGid, pending, batch, faults>>

\* smpp_bearerbox_requeue_result: sent or refused for good deletes the row
\* (the DELETE may fail), any other status leaves row and claim as they are.
RequeueResult(c) ==
  /\ c \in cb /\ c.job.gid > 0
  /\ cb' = cb \ {c}
  /\ \/ /\ c.status \in {"ok", "submitfail"}
        /\ releasing' = releasing \cup {c.job.gid}
        /\ \/ rows' = [rows EXCEPT ![c.job.gid] = NoMsg] /\ UNCHANGED faults
           \/ Fault /\ UNCHANGED rows
     \/ c.status = "syserr" /\ UNCHANGED <<rows, releasing, faults>>
  /\ UNCHANGED <<submitVars, outq, storing, boxVars, remoteVars, nextGid, pending, batch>>

\* The end of smpp_database_mysql_remove, after the DELETE.
ReleaseClaim(g) ==
  /\ g \in releasing
  /\ releasing' = releasing \ {g}
  /\ pending' = pending \ {g}
  /\ UNCHANGED <<submitVars, queueVars, boxVars, remoteVars, rows, nextGid, batch, faults>>

-----------------------------------------------------------------------------
(* The requeue thread *)

\* Mutants: the SELECT without its NOT IN (pending) or without its account filter.
DrainableIgnoresClaims == {g \in Gid : rows[g] # NoMsg /\ rows[g] \notin PrimaryMsg}
DrainableAnyAccount == {g \in Gid : rows[g] # NoMsg /\ g \notin pending}

\* Rows smpp_database_mysql_get_stored returns for the bearerbox drain:
\* unclaimed, and not of an account that uses the store as its primary.
Drainable == {g \in Gid : rows[g] # NoMsg /\ rows[g] \notin PrimaryMsg /\ g \notin pending}

\* Mutant: the rows returned are queued but not recorded as claimed.
ClaimStoredUnrecorded ==
  /\ EnableQueue /\ AnyOnline
  /\ batch = {} /\ Drainable # {}
  /\ batch' = {[gid |-> g, msg |-> rows[g]] : g \in Drainable}
  /\ UNCHANGED <<submitVars, queueVars, boxVars, remoteVars, rows, nextGid, pending,
                 releasing, faults>>

\* smpp_bearerbox_requeue_thread, the SELECT: every row it returns is claimed.
ClaimStored ==
  /\ EnableQueue /\ AnyOnline
  /\ batch = {} /\ Drainable # {}
  /\ pending' = pending \cup Drainable
  /\ batch' = {[gid |-> g, msg |-> rows[g]] : g \in Drainable}
  /\ UNCHANGED <<submitVars, queueVars, boxVars, remoteVars, rows, nextGid, releasing, faults>>

\* Mutant: the requeue thread consumes a claimed row and does not queue it.
RequeueStoredForgets(j) ==
  /\ j \in batch
  /\ batch' = batch \ {j}
  /\ UNCHANGED <<submitVars, queueVars, boxVars, remoteVars, rows, nextGid,
                 pending, releasing, faults>>

\* Its loop: one claimed row after the other is put on the shared queue.
RequeueStored(j) ==
  /\ j \in batch
  /\ batch' = batch \ {j}
  /\ outq' = outq \cup {j}
  /\ UNCHANGED <<submitVars, storing, cb, boxVars, remoteVars, rows, nextGid,
                 pending, releasing, faults>>

-----------------------------------------------------------------------------
(* The writer thread of a box: smpp_bearerbox_outbound_thread *)

\* Go on to wait for work only while the box is online.
WriterCheck(b) ==
  /\ wpc[b] = "check" /\ alive[b]
  /\ wpc' = [wpc EXCEPT ![b] = "wait"]
  /\ UNCHANGED <<submitVars, queueVars, hand, rpc, alive, openAcks, sent, acks,
                 remoteVars, storeVars, faults>>

\* gw_prioqueue_consume: the box may have died since the check.
Consume(b, j) ==
  /\ wpc[b] = "wait" /\ j \in outq
  /\ outq' = outq \ {j}
  /\ hand' = [hand EXCEPT ![b] = j]
  /\ wpc' = [wpc EXCEPT ![b] = "got"]
  /\ UNCHANGED <<submitVars, storing, cb, rpc, alive, openAcks, sent, acks,
                 remoteVars, storeVars, faults>>

\* Mutant: the job is written without an open ack.
WriterLockNoAck(b) ==
  /\ wpc[b] = "got"
  /\ wpc' = [wpc EXCEPT ![b] = IF alive[b] THEN "locked" ELSE "requeue"]
  /\ UNCHANGED <<submitVars, queueVars, hand, rpc, alive, openAcks, sent, acks,
                 remoteVars, storeVars, faults>>

\* Under the read lock of the box: an online box gets an open ack first.
WriterLock(b) ==
  /\ wpc[b] = "got"
  /\ \/ /\ alive[b]
        /\ openAcks' = [openAcks EXCEPT ![b] = @ \cup {hand[b]}]
        /\ wpc' = [wpc EXCEPT ![b] = "locked"]
     \/ /\ ~alive[b]
        /\ wpc' = [wpc EXCEPT ![b] = "requeue"]
        /\ UNCHANGED openAcks
  /\ UNCHANGED <<submitVars, queueVars, hand, rpc, alive, sent, acks,
                 remoteVars, storeVars, faults>>

\* Mutant: the open ack of a job that could not be written stays behind.
WriterDeliverKeepsAck(b) ==
  /\ wpc[b] = "locked"
  /\ \/ /\ sent' = [sent EXCEPT ![b] = @ \cup {hand[b]}]
        /\ hand' = [hand EXCEPT ![b] = NoJob]
        /\ wpc' = [wpc EXCEPT ![b] = "check"]
        /\ UNCHANGED <<alive, openAcks, faults>>
     \/ /\ Fault
        /\ alive' = [alive EXCEPT ![b] = FALSE]
        /\ wpc' = [wpc EXCEPT ![b] = "requeue"]
        /\ UNCHANGED <<hand, sent, openAcks>>
  /\ UNCHANGED <<submitVars, queueVars, rpc, acks, remoteVars, storeVars>>

\* Mutant: a job that could not be written is freed, and then queued again.
WriterDeliverFreesJob(b) ==
  /\ wpc[b] = "locked"
  /\ \/ /\ sent' = [sent EXCEPT ![b] = @ \cup {hand[b]}]
        /\ wpc' = [wpc EXCEPT ![b] = "check"]
        /\ UNCHANGED <<alive, openAcks, faults>>
     \/ /\ Fault
        /\ openAcks' = [openAcks EXCEPT ![b] = @ \ {hand[b]}]
        /\ alive' = [alive EXCEPT ![b] = FALSE]
        /\ wpc' = [wpc EXCEPT ![b] = "requeue"]
        /\ UNCHANGED sent
  /\ hand' = [hand EXCEPT ![b] = NoJob]
  /\ UNCHANGED <<submitVars, queueVars, rpc, acks, remoteVars, storeVars>>

\* deliver_to_bearerbox_real, still under the read lock, and its failure.
WriterDeliver(b) ==
  /\ wpc[b] = "locked"
  /\ \/ /\ sent' = [sent EXCEPT ![b] = @ \cup {hand[b]}]
        /\ hand' = [hand EXCEPT ![b] = NoJob]
        /\ wpc' = [wpc EXCEPT ![b] = "check"]
        /\ UNCHANGED <<alive, openAcks, faults>>
     \/ /\ Fault
        /\ openAcks' = [openAcks EXCEPT ![b] = @ \ {hand[b]}]
        /\ alive' = [alive EXCEPT ![b] = FALSE]
        /\ wpc' = [wpc EXCEPT ![b] = "requeue"]
        /\ UNCHANGED <<hand, sent>>
  /\ UNCHANGED <<submitVars, queueVars, rpc, acks, remoteVars, storeVars>>

\* After the unlock: the job that could not be written is queued again.
WriterRequeue(b) ==
  /\ wpc[b] = "requeue"
  /\ AddToQueue(hand[b])
  /\ hand' = [hand EXCEPT ![b] = NoJob]
  /\ wpc' = [wpc EXCEPT ![b] = "check"]
  /\ UNCHANGED <<submitVars, rpc, alive, openAcks, sent, acks, remoteVars, storeVars, faults>>

-----------------------------------------------------------------------------
(* The reader thread of a box: smpp_bearerbox_inbound_thread *)

\* A dead box, under its write lock: every open ack is failed temporarily
\* and the old connection is dropped with all that was on it.
DropConnection(b) ==
  /\ rpc[b] = "connect" /\ ~alive[b] /\ wpc[b] # "locked"
  /\ cb' = cb \cup {[job |-> j, status |-> "syserr"] : j \in openAcks[b]}
  /\ openAcks' = [openAcks EXCEPT ![b] = {}]
  /\ sent' = [sent EXCEPT ![b] = {}]
  /\ acks' = [acks EXCEPT ![b] = {}]
  /\ UNCHANGED <<submitVars, outq, storing, wpc, hand, remoteVars, storeVars, faults>>

\* connect_to_bearerbox_real and smpp_bearerbox_identify succeed ...
Reconnect(b) ==
  /\ DropConnection(b)
  /\ alive' = [alive EXCEPT ![b] = TRUE]
  /\ rpc' = [rpc EXCEPT ![b] = "read"]

\* ... or fail, to be tried again.
ReconnectFails(b) ==
  /\ DropConnection(b)
  /\ UNCHANGED <<alive, rpc>>

\* Mutant: a temporary failure is mistaken for an acceptance.
AckResultTmpIsOk(s) == IF s = "failed" THEN "submitfail" ELSE "ok"

\* ack.nack to the status its callback is given
AckResult(s) ==
  CASE s = "success" -> "ok" [] s = "failed" -> "submitfail" [] OTHER -> "syserr"

\* Mutant: the open ack is looked up and not removed.
ReadAckKeepsEntry(b, a) ==
  /\ rpc[b] = "read" /\ a \in acks[b]
  /\ acks' = [acks EXCEPT ![b] = @ \ {a}]
  /\ a.job \in openAcks[b]
  /\ Callback(a.job, AckResult(a.status))
  /\ rpc' = [rpc EXCEPT ![b] = IF alive[b] THEN "read" ELSE "connect"]
  /\ UNCHANGED <<submitVars, outq, storing, wpc, hand, alive, openAcks, sent,
                 remoteVars, storeVars, faults>>

\* An ack: the open ack it names is removed and its callback is due; an
\* unknown one is ignored.  A box found dead afterwards ends the read loop.
ReadAck(b, a) ==
  /\ rpc[b] = "read" /\ a \in acks[b]
  /\ acks' = [acks EXCEPT ![b] = @ \ {a}]
  /\ \/ /\ a.job \in openAcks[b]
        /\ openAcks' = [openAcks EXCEPT ![b] = @ \ {a.job}]
        /\ Callback(a.job, AckResult(a.status))
     \/ a.job \notin openAcks[b] /\ UNCHANGED <<openAcks, cb>>
  /\ rpc' = [rpc EXCEPT ![b] = IF alive[b] THEN "read" ELSE "connect"]
  /\ UNCHANGED <<submitVars, outq, storing, wpc, hand, alive, sent,
                 remoteVars, storeVars, faults>>

\* read_from_bearerbox_real fails.
ReadFails(b) ==
  /\ rpc[b] = "read" /\ alive[b] /\ wpc[b] # "locked"
  /\ Fault
  /\ alive' = [alive EXCEPT ![b] = FALSE]
  /\ rpc' = [rpc EXCEPT ![b] = "connect"]
  /\ UNCHANGED <<submitVars, queueVars, wpc, hand, openAcks, sent, acks,
                 remoteVars, storeVars>>

\* The read loop ends because another thread declared the box dead.
ReaderLeaves(b) ==
  /\ rpc[b] = "read" /\ ~alive[b]
  /\ rpc' = [rpc EXCEPT ![b] = "connect"]
  /\ UNCHANGED <<submitVars, queueVars, wpc, hand, alive, openAcks, sent, acks,
                 remoteVars, storeVars, faults>>

\* smpp_bearerbox_set_state(0): a failed heartbeat, a failed acknowledgement
\* of an MO or DLR, or bearerbox's own shutdown or restart command.
SetStateDown(b) ==
  /\ alive[b] /\ wpc[b] # "locked"
  /\ Fault
  /\ alive' = [alive EXCEPT ![b] = FALSE]
  /\ UNCHANGED <<submitVars, queueVars, wpc, hand, rpc, openAcks, sent, acks,
                 remoteVars, storeVars>>

-----------------------------------------------------------------------------
(* Bearerbox (external) and crashes *)

\* Kannel's bearerbox takes a message (ack_success or ack_buffered), rejects
\* it (ack_failed) or asks to try later (ack_failed_tmp), and says so.
BearerboxHandles(b, j) ==
  /\ j \in sent[b]
  /\ sent' = [sent EXCEPT ![b] = @ \ {j}]
  /\ \E s \in AckStatus :
       /\ acks' = [acks EXCEPT ![b] = @ \cup {[job |-> j, status |-> s]}]
       /\ taken' = IF s = "success" THEN [taken EXCEPT ![j.msg] = @ + 1] ELSE taken
       /\ refused' = IF s = "failed" THEN refused \cup {j.msg} ELSE refused
  /\ UNCHANGED <<submitVars, queueVars, wpc, hand, rpc, alive, openAcks, storeVars, faults>>

\* The process dies and is started again: only the store survives.
Crash ==
  /\ Fault
  /\ phase' = [m \in Msg |-> IF phase[m] \in {"new", "answered"} THEN phase[m] ELSE "lost"]
  /\ outq' = {} /\ storing' = {} /\ cb' = {}
  /\ wpc' = [b \in Box |-> "check"]
  /\ hand' = [b \in Box |-> NoJob]
  /\ rpc' = [b \in Box |-> "connect"]
  /\ alive' = [b \in Box |-> FALSE]
  /\ openAcks' = [b \in Box |-> {}]
  /\ sent' = [b \in Box |-> {}]
  /\ acks' = [b \in Box |-> {}]
  /\ pending' = {} /\ batch' = {} /\ releasing' = {}
  /\ UNCHANGED <<resp, credit, remoteVars, rows, nextGid>>

-----------------------------------------------------------------------------
(* The specification *)

Submission(m) == HandleSubmit(m) \/ RoutingDone(m) \/ DeductCredit(m) \/ Dispatch(m)

Writer(b) ==
  \/ WriterCheck(b) \/ WriterLock(b) \/ WriterDeliver(b) \/ WriterRequeue(b)
  \/ \E j \in outq : Consume(b, j)

Reader(b) ==
  \/ Reconnect(b) \/ ReconnectFails(b) \/ ReadFails(b) \/ ReaderLeaves(b)
  \/ \E a \in acks[b] : ReadAck(b, a)

Next ==
  \/ \E m \in Msg : Submission(m)
  \/ \E j \in storing : InsertRow(j)
  \/ \E c \in cb : CallbackSubmit(c) \/ RequeueResult(c)
  \/ \E g \in releasing : ReleaseClaim(g)
  \/ ClaimStored
  \/ \E j \in batch : RequeueStored(j)
  \/ \E b \in Box : Writer(b) \/ Reader(b) \/ SetStateDown(b)
  \/ \E b \in Box : \E j \in sent[b] : BearerboxHandles(b, j)
  \/ Crash

Spec == Init /\ [][Next]_vars

\* The scheduling the code provides: every thread keeps running, bearerbox
\* answers what it reads, and the store answers queries.  ESMEs owe nothing.
ThreadFairness ==
  /\ \A m \in Msg : WF_vars(RoutingDone(m)) /\ WF_vars(DeductCredit(m)) /\ WF_vars(Dispatch(m))
  /\ WF_vars(\E j \in storing : InsertRow(j))
  /\ WF_vars(\E c \in cb : CallbackSubmit(c) \/ RequeueResult(c))
  /\ WF_vars(\E g \in releasing : ReleaseClaim(g))
  /\ WF_vars(ClaimStored)
  /\ WF_vars(\E j \in batch : RequeueStored(j))
  /\ \A b \in Box :
       /\ WF_vars(Writer(b))
       /\ WF_vars(ReaderLeaves(b))
       /\ WF_vars(ReconnectFails(b))
       /\ WF_vars(\E a \in acks[b] : ReadAck(b, a))
       /\ WF_vars(\E j \in sent[b] : BearerboxHandles(b, j))

\* ... and a box that is down can be reached again in the end.
FairSpec == Spec /\ ThreadFairness /\ \A b \in Box : WF_vars(Reconnect(b))

-----------------------------------------------------------------------------
(* Safety *)

Stored(m) == \E g \in Gid : rows[g] = m

\* Somebody other than the ESME answers for m: bearerbox took it, the store
\* has it, or bearerbox refused it for good.
Kept(m) == taken[m] > 0 \/ Stored(m) \/ m \in refused

\* "submit_sm_resp PDU's only provided once bearerbox or database has accepted
\* storage": an ESME told ESME_ROK never owns the only copy, whatever
\* connections, queries or processes fail before or after.
OkIsKept == \A m \in Msg : resp[m] = "ok" => Kept(m)

\* A message somebody answers for is never forgotten: the requeue path deletes
\* a row only when bearerbox or another row has the message.
KeptForever == [][\A m \in Msg : Kept(m) => Kept(m)']_vars

\* The inductive argument behind OkIsKept and KeptForever: a callback that
\* reports success for row g is backed by bearerbox or by a younger row, so
\* rows of one message are deleted oldest first and the last is never lost.
Backed(m, g) == taken[m] > 0 \/ m \in refused \/ \E h \in Gid : h > g /\ rows[h] = m

RowsFresh == \A g \in Gid : g >= nextGid => rows[g] = NoMsg

MatchesRow(j) == j.gid = 0 \/ (j.gid < nextGid /\ rows[j.gid] \in {j.msg, NoMsg})

JobsMatchRows ==
  /\ \A j \in outq \cup storing \cup batch : MatchesRow(j)
  /\ \A c \in cb : MatchesRow(c.job)
  /\ \A b \in Box : \A j \in openAcks[b] \cup sent[b] : MatchesRow(j)
  /\ \A b \in Box : wpc[b] \in {"got", "locked", "requeue"} => MatchesRow(hand[b])

AcksTrue ==
  \A b \in Box : \A a \in acks[b] :
    /\ MatchesRow(a.job)
    /\ a.status = "success" => taken[a.job.msg] > 0
    /\ a.status = "failed" => a.job.msg \in refused

CallbacksBacked ==
  \A c \in cb :
    /\ c.status = "ok" => Backed(c.job.msg, c.job.gid)
    /\ c.status = "submitfail" => c.job.msg \in refused

\* The inductive invariant of the store-and-forward argument: every success on
\* its way to a callback is already true of bearerbox or of the store.
KeptInv == RowsFresh /\ JobsMatchRows /\ AcksTrue /\ CallbacksBacked /\ OkIsKept

\* Who can hold a job: the shared queue, a thread about to INSERT it, the batch
\* of the requeue thread, a callback about to run with one status, a writer's
\* hand, or the open_acks of a box.
Holder ==
  {<<"outq", "">>, <<"storing", "">>, <<"batch", "">>}
    \cup {<<"callback", s>> : s \in Status}
    \cup {<<"hand", b>> : b \in Box} \cup {<<"open_acks", b>> : b \in Box}

HeldBy(h) ==
  CASE h[1] = "outq" -> outq
    [] h[1] = "storing" -> storing
    [] h[1] = "batch" -> batch
    [] h[1] = "callback" -> {c.job : c \in {d \in cb : d.status = h[2]}}
    [] h[1] = "hand" -> {hand[b] : b \in {h[2]} \cap {x \in Box : wpc[x] \in {"got", "requeue"}}}
    [] h[1] = "open_acks" -> openAcks[h[2]]

Live == UNION {HeldBy(h) : h \in Holder}

\* A job (an SMPPBearerboxMsg) is owned by one thread, queue or open_acks at a
\* time and has one callback due: it is neither freed twice nor answered twice.
\* A submission has a job exactly until it is answered: none is left without
\* an answer and no job outlives its PDU.
JobHeldOnce ==
  /\ \A h, i \in Holder : h # i => HeldBy(h) \cap HeldBy(i) = {}
  /\ \A b \in Box : wpc[b] = "locked" => hand[b] \in openAcks[b]
  /\ \A m \in Msg : SubmitJob(m) \in Live <=> phase[m] = "queued"

\* A job made from a row runs only while that row exists and is claimed, so a
\* stored message is never in flight twice.
RowInFlightIsClaimed ==
  \A j \in Live : j.gid > 0 => j.gid \in pending /\ rows[j.gid] = j.msg

\* An ESME told to try again does not leave a copy in the store that would be
\* sent besides its retry.
FailedIsNotStored ==
  \A m \in Msg : resp[m] \in {"rejected", "syserr", "submitfail"} => ~Stored(m)

\* Without a fault bearerbox gets a message at most once.  d failures of a
\* connection can leave d + 1 rows of one message, and every crash or failed
\* DELETE can send each of them once more: 1 + (d + 1) * (faults - d) times in
\* all, which is at most 1 + ((faults + 1) / 2)^2.
CopiesBounded ==
  \A m \in Msg : 4 * (taken[m] - 1) <= (faults + 1) * (faults + 1)

\* "Bearerbox drain must not pick up mt_push rows for ESME accounts that use
\* DB as primary": such a message waits in the store for its external reader.
PrimaryStaysStored ==
  \A m \in PrimaryMsg : taken[m] = 0 /\ (resp[m] = "ok" => Stored(m))

\* The units of credit that a set of messages costs.
Units(S) == UNION {{m} \X (1 .. Cost[m]) : m \in S}

\* m went past the charge: it is forwarded, stored or accepted.
Forwarded(m) ==
  phase[m] \in {"dispatch", "queued"} \/ resp[m] = "ok" \/ taken[m] > 0 \/ Stored(m)

\* Prepaid: every unit that what is forwarded, stored or accepted costs has been
\* taken from the balance, whatever failed or crashed in between.
PaidFor ==
  Prepaid => Cardinality(Units({m \in Msg : Forwarded(m)})) <= InitialCredit - credit

\* The SELECT and the UPDATE of deduct_credit are not one transaction, so the
\* balance can go negative, but by no more than the routing threads that can
\* pass the SELECT together.
OverdraftBounded ==
  \A m \in Msg :
    (\A n \in Msg : Cost[n] <= Cost[m]) => credit >= -((RoutingThreads - 1) * Cost[m])

-----------------------------------------------------------------------------
(* Liveness *)

\* Every submission that reaches the router is answered (or dies with the
\* server), whatever happens to the connections meanwhile.
Answered ==
  \A m \in Msg : phase[m] \in {"routing", "charging", "dispatch", "queued"}
                   ~> phase[m] \in {"answered", "lost"}

AttemptFailed(g) == \E c \in cb : c.job.gid = g /\ c.status = "syserr"

\* A message waiting in the fallback queue leaves it, unless an attempt to send
\* it was answered with a temporary failure or something broke.
StoredIsSent ==
  \A g \in Gid : (rows[g] # NoMsg /\ rows[g] \notin PrimaryMsg /\ g \notin pending)
                   ~> (rows[g] = NoMsg \/ AttemptFailed(g) \/ faults > 0)

-----------------------------------------------------------------------------
(* Refinement *)

Answer2Service == [m \in Msg |-> CASE resp[m] = "none" -> "none"
                                   [] resp[m] = "ok" -> "ok"
                                   [] OTHER -> "error"]

Service == INSTANCE SubmitService WITH
             answer <- Answer2Service,
             kept <- {m \in Msg : Kept(m)}

\* The whole path, with its threads, queues, connections and store, implements
\* the service an ESME relies on (module SubmitService).
ImplementsService == Service!Spec

=============================================================================
