----------------------------- MODULE DeliverPath -----------------------------
(***************************************************************************)
(* The mobile-originated path of ksmppd: what happens to an MO message or  *)
(* a delivery report from the moment a bearerbox hands it over until the   *)
(* ESME has confirmed it, and to the copies the MySQL/PostgreSQL store     *)
(* keeps meanwhile.  The actors are                                        *)
(*   - the bearerbox reader thread, and the bearerbox requeue thread that  *)
(*     offers stored MO rows again (smpp_bearerbox.c),                     *)
(*   - the queues requeue thread that polls the store for connected        *)
(*     receivers (smpp_queues.c, smpp_esme.c),                             *)
(*   - the outbound threads, the inbound threads that handle the ESMEs'    *)
(*     deliver_sm_resp, and the cleanup thread that expires open acks and  *)
(*     frees disconnected ESMEs,                                           *)
(*   - the ESMEs and the bearerbox, which are outside the repository.      *)
(* All messages are for one account; its binds are the members of Esme.    *)
(* A message becomes one deliver_sm per part.  The state of an ESME object *)
(* that outlives its use is the subject of EsmeLifecycle and left out here.*)
(***************************************************************************)
EXTENDS Integers, FiniteSets

CONSTANTS
  Dlr,           \* delivery reports (report_mo) that come from bearerbox
  Mo,            \* MO messages that come from bearerbox
  TableDlr,      \* delivery reports another program put into the DLR table
  NoAccount,     \* reports whose dlr_url names no account
  Unconvertible, \* messages smpp_pdu_msg_to_pdu turns into no PDU
  Parts,         \* number of PDUs of each message
  Esme,          \* the account's receiver binds
  NoMsg, NoEsme, \* "nothing" values
  Scenarios,     \* [offered: the messages that exist, queue:
                 \*  database-enable-queue, drop: wait-ack-action is to drop,
                 \*  acks: max-open-acks, faults: bound on the faults]
  MaxGid,        \* bound: rows of the message store at a time
  MaxPid,        \* bound: rows of the PDU table at a time
  MaxCopies      \* bound: PDUs of one row or message in flight at a time

Msg == Dlr \cup Mo \cup TableDlr

ASSUME KindAssumption ==
  /\ Dlr \cap Mo = {} /\ TableDlr \cap (Dlr \cup Mo) = {}
  /\ NoAccount \subseteq Dlr /\ Unconvertible \subseteq Msg /\ NoMsg \notin Msg
  /\ NoEsme \notin Esme
ASSUME PartsAssumption ==
  Parts \in [Msg -> Nat \ {0}] /\ \A m \in TableDlr : Parts[m] = 1
ASSUME ScenarioAssumption ==
  \A c \in Scenarios :
    /\ c.offered \subseteq Msg
    /\ c.queue \in BOOLEAN /\ c.drop \in BOOLEAN /\ c.faults \in Nat
ASSUME LimitAssumption == \A c \in Scenarios : c.acks \in Nat \ {0}
ASSUME BoundAssumption ==
  MaxGid \in Nat /\ MaxPid \in Nat /\ MaxCopies \in Nat

VARIABLES
  config,    \* the scenario of this behaviour, never changed
  boxUp,     \* the connection to bearerbox is alive
  box,       \* what bearerbox knows of each message
  conn,      \* smpp_esme->connected of each bind
  pc,        \* where the reader, mover and requeue threads are
  hand,      \* what each of them works on
  at,        \* the receiver each of them has chosen
  batch,     \* claimed items a requeue thread has still to handle
  flight,    \* SMPPQueuedPDU objects: outbound queue, open_acks, callbacks
  rows,      \* the message store: global_id -> message
  pending,   \* smpp_database->pending_msg: claimed global_ids
  pdus,      \* the PDU table: global_id -> <<message, part>>
  pendPdu,   \* smpp_database->pending_pdu
  dlrs,      \* unprocessed rows of the DLR table
  got,       \* parts an ESME has accepted
  givenUp,   \* parts an ESME has refused, or the code has discarded
  faults

boxVars == <<boxUp, box>>
workVars == <<pc, hand, at, batch>>
rowVars == <<rows, pending>>
pduVars == <<pdus, pendPdu>>
history == <<got, givenUp>>
vars == <<config, boxVars, conn, workVars, flight, rowVars, pduVars, dlrs,
          history, faults>>

-----------------------------------------------------------------------------
(* Types *)

Gid == 1 .. MaxGid
Pid == 1 .. MaxPid
PartsOf(m) == 1 .. Parts[m]
PartNo == UNION {PartsOf(m) : m \in Msg}
Unit == {u \in Msg \X PartNo : u[2] \in PartsOf(u[1])}
NoUnit == <<NoMsg, 0>>
Unit0 == Unit \cup {NoUnit}

\* bearerbox, mover and requeue thread; the mover is the bearerbox requeue thread
Thread == {"reader", "mover", "requeue"}
Source == {"box", "mo", "row", "dlr", "pdu"}

\* part 0: the whole message; gid: the row it was read from, in the table of
\* its source, and 0 for a message that bearerbox is waiting for
Item == [src : Source, msg : Msg, part : {0} \cup PartNo,
         gid : {0} \cup Gid \cup Pid]
NoItem == [src |-> "box", msg |-> NoMsg, part |-> 0, gid |-> 0]

\* "queued": in outbound_queue; "unsent": consumed while not connected;
\* "acked"/"nacked": answered, the response not yet processed; "move" and
\* "moved": its callback is about to insert it as a PDU, or to delete its row.
PduState == {"queued", "unsent", "sent", "acked", "nacked", "move", "moved"}
Open == {"queued", "unsent", "sent", "acked", "nacked"}
Pdu == [src : Source, msg : Msg, part : PartNo, gid : {0} \cup Gid \cup Pid,
        esme : Esme \cup {NoEsme}, st : PduState, copy : 1 .. MaxCopies]
UnitOf(p) == <<p.msg, p.part>>

TypeBox ==
  /\ config \in Scenarios /\ faults \in 0 .. config.faults
  /\ boxUp \in BOOLEAN /\ box \in [Msg -> {"held", "out", "ok", "failed"}]
  /\ conn \in [Esme -> {"up", "down"}]
TypeWork ==
  /\ pc \in [Thread -> {"idle", "choose", "add", "none", "ack"}]
  /\ hand \in [Thread -> Item \cup {NoItem}] /\ at \in [Thread -> Esme \cup {NoEsme}]
  /\ batch \in [Thread -> SUBSET Item]
TypeTables ==
  /\ rows \in [Gid -> Msg \cup {NoMsg}] /\ pdus \in [Pid -> Unit0]
  /\ pending \subseteq Gid /\ pendPdu \subseteq Pid /\ dlrs \subseteq TableDlr
  /\ got \subseteq Unit /\ givenUp \subseteq Unit
TypeOK == TypeBox /\ TypeWork /\ TypeTables /\ flight \subseteq Pdu

\* <<pc, hand, at, batch>> of threads that have nothing to do
Resting == <<[t \in Thread |-> "idle"], [t \in Thread |-> NoItem],
             [t \in Thread |-> NoEsme], [t \in Thread |-> {}]>>

Init ==
  /\ config \in Scenarios
  /\ boxUp = FALSE /\ box = [m \in Msg |-> "held"]
  /\ conn = [e \in Esme |-> "down"]
  /\ pc = Resting[1] /\ hand = Resting[2] /\ at = Resting[3] /\ batch = Resting[4]
  /\ flight = {}
  /\ rows = [g \in Gid |-> NoMsg] /\ pending = {}
  /\ pdus = [p \in Pid |-> NoUnit] /\ pendPdu = {}
  /\ dlrs = config.offered \cap TableDlr
  /\ got = {} /\ givenUp = {}
  /\ faults = 0

-----------------------------------------------------------------------------
(* Helpers *)

Fault == faults < config.faults /\ faults' = faults + 1

\* A number for a new object, in place of one that was never used
Unused(S) == CHOOSE n \in S : TRUE

OpenAcks(e) == {p \in flight : p.esme = e /\ p.st \in Open}
OutboundQueued(e) == {p \in flight : p.esme = e /\ p.st = "queued"}

\* Mutant: only what is still queued counts against max-open-acks.
OptionsQueuedOnly ==
  {e \in Esme : conn[e] = "up" /\ Cardinality(OutboundQueued(e)) < config.acks}

\* smpp_esme_find_best_receiver: the binds with room in both counts.  Which of
\* them has the smaller load is a preference, left open.
Options ==
  {e \in Esme : /\ conn[e] = "up"
                /\ Cardinality(OutboundQueued(e)) < config.acks
                /\ Cardinality(OpenAcks(e)) < config.acks}

\* smpp_bearerbox_acknowledge: lost while the connection is down; bearerbox
\* ignores it unless it waits for this message, and keeps what failed for now.
Acknowledge(m, status) ==
  box' = IF boxUp /\ box[m] = "out" THEN [box EXCEPT ![m] = status] ELSE box

\* smpp_database_add_message and _add_pdu, when the INSERT succeeds.  The new
\* row's number is one that nothing refers to.
Held == flight \cup (UNION {batch[t] : t \in Thread}) \cup {hand[t] : t \in Thread}

FreeGid == {g \in Gid \ pending : rows[g] = NoMsg
              /\ ~\E i \in Held : i.src \in {"mo", "row"} /\ i.gid = g}

AddMessage(m) == FreeGid # {} /\ rows' = [rows EXCEPT ![Unused(FreeGid)] = m]

AddPdu(u) ==
  LET free == {p \in Pid \ pendPdu : pdus[p] = NoUnit
                 /\ ~\E i \in Held : i.src = "pdu" /\ i.gid = p}
  IN free # {} /\ pdus' = [pdus EXCEPT ![Unused(free)] = u]

\* smpp_database_remove: DELETE, which may fail, then the claim is dropped
Remove(g) ==
  /\ pending' = pending \ {g}
  /\ \/ rows' = [rows EXCEPT ![g] = NoMsg] /\ UNCHANGED faults
     \/ Fault /\ UNCHANGED rows

\* smpp_database_mysql_remove_dlr
RemoveDlr(m) ==
  \/ dlrs' = dlrs \ {m} /\ UNCHANGED faults
  \/ Fault /\ UNCHANGED dlrs

\* The item's PDUs, on the outbound queue of e and in its open_acks.
NewPdu(i, k, e, st) ==
  LET used == {p.copy : p \in {q \in flight :
                  q.src = i.src /\ q.msg = i.msg /\ q.part = k /\ q.gid = i.gid}}
      free == (1 .. MaxCopies) \ used
  IN {[src |-> i.src, msg |-> i.msg, part |-> k, gid |-> i.gid, esme |-> e,
       st |-> st, copy |-> c] : c \in IF free = {} THEN {} ELSE {Unused(free)}}

PdusOf(i, e, st) ==
  UNION {NewPdu(i, k, e, st) : k \in IF i.part = 0 THEN PartsOf(i.msg) ELSE {i.part}}

HasRoom(i, e) == \* bound: MaxCopies
  Cardinality(PdusOf(i, e, "queued")) = (IF i.part = 0 THEN Parts[i.msg] ELSE 1)

Done(t) ==
  /\ pc' = [pc EXCEPT ![t] = "idle"]
  /\ hand' = [hand EXCEPT ![t] = NoItem]
  /\ at' = [at EXCEPT ![t] = NoEsme]
  /\ UNCHANGED batch

Goto(t, where) ==
  pc' = [pc EXCEPT ![t] = where] /\ UNCHANGED <<hand, at, batch>>

-----------------------------------------------------------------------------
(* Choosing a receiver: reader, mover and requeue thread *)

\* The reader thread receives a message of type sms.
ReaderRead(m) ==
  /\ pc["reader"] = "idle" /\ boxUp
  /\ FreeGid # {} \* bound: MaxGid
  /\ m \in config.offered \cap (Dlr \cup Mo) /\ box[m] = "held"
  /\ box' = [box EXCEPT ![m] = "out"]
  /\ pc' = [pc EXCEPT !["reader"] = "choose"]
  /\ hand' = [hand EXCEPT !["reader"] =
                [src |-> "box", msg |-> m, part |-> 0, gid |-> 0]]
  /\ UNCHANGED <<config, boxUp, conn, at, batch, flight, rowVars, pduVars, dlrs,
                 history, faults>>

\* A requeue thread takes the next item of what it has read from the store.
Take(t) ==
  /\ pc[t] = "idle"
  /\ \E i \in batch[t] :
       /\ hand' = [hand EXCEPT ![t] = i]
       /\ batch' = [batch EXCEPT ![t] = @ \ {i}]
  /\ pc' = [pc EXCEPT ![t] = "choose"]
  /\ UNCHANGED <<config, boxVars, conn, at, flight, rowVars, pduVars, dlrs,
                 history, faults>>

\* smpp_esme_find_best_receiver for the account of the message
Choose(t) ==
  LET receivers == IF hand[t].msg \in NoAccount THEN {} ELSE Options
  IN /\ pc[t] = "choose"
     /\ \/ /\ receivers = {}
           /\ Goto(t, "none")
        \/ \E e \in receivers :
             /\ pc' = [pc EXCEPT ![t] = "add"]
             /\ at' = [at EXCEPT ![t] = e]
             /\ UNCHANGED <<hand, batch>>
     /\ UNCHANGED <<config, boxVars, conn, flight, rowVars, pduVars, dlrs,
                    history, faults>>

\* The router has no account for an MO message: bearerbox is told so, a stored
\* row is deleted.
Unrouted(t) ==
  LET m == hand[t].msg
  IN /\ pc[t] = "choose" /\ t \in {"reader", "mover"} /\ m \in Mo
     /\ \/ /\ t = "reader"
           /\ Acknowledge(m, "failed")
           /\ UNCHANGED <<rowVars, givenUp, faults>>
        \/ /\ t = "mover"
           /\ Remove(hand[t].gid)
           /\ givenUp' = givenUp \cup {<<m, k>> : k \in PartsOf(m)}
           /\ UNCHANGED box
     /\ Done(t)
     /\ UNCHANGED <<config, boxUp, conn, flight, pduVars, dlrs, got>>

\* The receiver was found: smpp_queues_add_outbound for each PDU.
AddOutbound(t) ==
  /\ pc[t] = "add" /\ hand[t].msg \notin Unconvertible
  /\ HasRoom(hand[t], at[t])
  /\ flight' = flight \cup PdusOf(hand[t], at[t], "queued")
  /\ Done(t)
  /\ UNCHANGED <<config, boxVars, conn, rowVars, pduVars, dlrs, history, faults>>

\* The same with a message that has no PDU: a report is acknowledged as if it
\* were delivered, an MO message is never acknowledged.
ReaderUnconvertible ==
  LET m == hand["reader"].msg
  IN /\ pc["reader"] = "add" /\ m \in Unconvertible
     /\ IF m \in Dlr THEN Acknowledge(m, "ok") ELSE UNCHANGED box
     /\ givenUp' = givenUp \cup {<<m, k>> : k \in PartsOf(m)}
     /\ Done("reader")
     /\ UNCHANGED <<config, boxUp, conn, flight, rowVars, pduVars, dlrs, got,
                    faults>>

\* Mutant: bearerbox is told before the message is stored.
ReaderNoneAcksFirst ==
  LET m == hand["reader"].msg
  IN /\ pc["reader"] = "none"
     /\ Acknowledge(m, "ok")
     /\ \/ /\ AddMessage(m)
           /\ UNCHANGED faults
        \/ Fault /\ UNCHANGED rows
     /\ Done("reader")
     /\ UNCHANGED <<config, boxUp, conn, flight, pending, pduVars, dlrs, history>>

\* The reader found no receiver: with the queue enabled the message is
\* stored, and a failed INSERT or an unknown account is a permanent failure.
ReaderNone ==
  LET m == hand["reader"].msg
  IN /\ pc["reader"] = "none"
     /\ \/ /\ config.queue /\ m \notin NoAccount
           /\ AddMessage(m)
           /\ Goto("reader", "ack")
           /\ UNCHANGED <<box, faults>>
        \/ /\ config.queue
           /\ IF m \in NoAccount THEN UNCHANGED faults ELSE Fault
           /\ Acknowledge(m, "failed")
           /\ Done("reader")
           /\ UNCHANGED rows
        \/ /\ ~config.queue
           /\ Acknowledge(m, "held")
           /\ Done("reader")
           /\ UNCHANGED <<rows, faults>>
     /\ UNCHANGED <<config, boxUp, conn, flight, pending, pduVars, dlrs, history>>

\* The message is in the store: acknowledge it.
ReaderStored ==
  /\ pc["reader"] = "ack"
  /\ Acknowledge(hand["reader"].msg, "ok")
  /\ Done("reader")
  /\ UNCHANGED <<config, boxUp, conn, flight, rowVars, pduVars, dlrs, history, faults>>

-----------------------------------------------------------------------------
(* Reading the store *)

\* Mutant: a row that is claimed already is read again.
MoverPollClaimed ==
  LET found == {g \in Gid : rows[g] \in Mo}
  IN /\ pc["mover"] = "idle" /\ batch["mover"] = {} /\ boxUp /\ found # {}
     /\ pending' = pending \cup found
     /\ batch' = [batch EXCEPT !["mover"] =
          {[src |-> "mo", msg |-> rows[g], part |-> 0, gid |-> g] : g \in found}]
     /\ UNCHANGED <<config, boxVars, conn, pc, hand, at, flight, rows,
                    pduVars, dlrs, history, faults>>

\* The bearerbox requeue thread claims every stored MO row nobody works on.
MoverPoll ==
  LET found == {g \in Gid \ pending : rows[g] \in Mo}
  IN /\ pc["mover"] = "idle" /\ batch["mover"] = {} /\ boxUp /\ found # {}
     /\ pending' = pending \cup found
     /\ batch' = [batch EXCEPT !["mover"] =
          {[src |-> "mo", msg |-> rows[g], part |-> 0, gid |-> g] : g \in found}]
     /\ UNCHANGED <<config, boxVars, conn, pc, hand, at, flight, rows,
                    pduVars, dlrs, history, faults>>

\* No receiver for a stored MO row: smpp_database_remove(..., temporary) only
\* drops the claim.
MoverNone ==
  /\ pc["mover"] = "none"
  /\ pending' = pending \ {hand["mover"].gid}
  /\ Done("mover")
  /\ UNCHANGED <<config, boxVars, conn, flight, rows, pduVars, dlrs,
                 history, faults>>

Room(e) == config.acks - Cardinality(OpenAcks(e))

\* smpp_esme_global_get_readers: the connected receivers with room, of accounts
\* that have something in a table (get_esmes_with_queued)
WaitingInStore ==
  \/ \E p \in Pid : pdus[p] # NoUnit
  \/ \E g \in Gid : rows[g] \in Mo \cup Dlr
  \/ dlrs # {}

Readers ==
  {e \in Esme : conn[e] = "up" /\ Room(e) > 0 /\ (config.queue => WaitingInStore)}

\* The three SELECTs: at most n stored PDUs, at most n DLR rows, which are not
\* claimed, and every stored report.
UpTo(S, n) == {T \in SUBSET S : Cardinality(T) = n \/ (T = S /\ Cardinality(T) <= n)}
StoredPdus(n) == UpTo({p \in Pid \ pendPdu : pdus[p] # NoUnit}, n)
TableDlrs(n) == UpTo(dlrs, n)
StoredReports == {g \in Gid \ pending : rows[g] \in Dlr}

\* What is made of the PDUs P, the DLR rows D and the stored reports R.
PduItems(P) == {[src |-> "pdu", msg |-> pdus[p][1], part |-> pdus[p][2], gid |-> p] : p \in P}
DlrItems(D) == {[src |-> "dlr", msg |-> m, part |-> 1, gid |-> 0] : m \in D}
RowItems(R) == UNION {{[src |-> "row", msg |-> rows[g], part |-> k, gid |-> g] :
                         k \in PartsOf(rows[g])} : g \in R}

\* They are claimed.  A row without a PDU is to be deleted by an id that is read
\* from freed memory: gone and goneDlr are what that deletes.
TakeQueued(P, D, R) ==
  LET bad == {g \in R : rows[g] \in Unconvertible}
      badDlr == D \cap Unconvertible
  IN /\ pendPdu' = pendPdu \cup P
     /\ \E gone \in SUBSET bad, goneDlr \in SUBSET badDlr :
          /\ rows' = [g \in Gid |-> IF g \in gone THEN NoMsg ELSE rows[g]]
          /\ pending' = (pending \cup R) \ gone
          /\ dlrs' = dlrs \ goneDlr
          /\ givenUp' = givenUp \cup {u \in Unit : \E g \in gone : rows[g] = u[1]}
                                \cup {u \in Unit : u[1] \in goneDlr}
     /\ batch' = [batch EXCEPT !["requeue"] =
          PduItems(P) \cup DlrItems(D \ badDlr) \cup RowItems(R \ bad)]

\* smpp_esme_global_get_queued
Poll ==
  /\ pc["requeue"] = "idle" /\ batch["requeue"] = {}
  /\ \E e \in Readers : \E P \in StoredPdus(Room(e)) :
       LET left == Room(e) - Cardinality(P)
           R == IF left > 0 THEN StoredReports ELSE {}
       IN \E D \in TableDlrs(left) : P \cup D \cup R # {} /\ TakeQueued(P, D, R)
  /\ UNCHANGED <<config, boxVars, conn, pc, hand, at, flight, pdus, got, faults>>

\* The room found by Poll is taken meanwhile: the callback of the PDU is run
\* with RMSGQFUL.  A stored PDU is deleted, anything else is moved to the PDU
\* table.
RequeueNone ==
  LET i == hand["requeue"]
  IN /\ pc["requeue"] = "none"
     /\ \/ /\ i.src = "pdu"
           /\ pendPdu' = pendPdu \ {i.gid}
           /\ \/ /\ pdus' = [pdus EXCEPT ![i.gid] = NoUnit]
                 /\ givenUp' = givenUp \cup {UnitOf(i)}
                 /\ UNCHANGED faults
              \/ Fault /\ UNCHANGED <<pdus, givenUp>>
           /\ UNCHANGED flight
        \/ /\ i.src \in {"row", "dlr"} /\ HasRoom(i, NoEsme)
           /\ flight' = flight \cup PdusOf(i, NoEsme, "move")
           /\ UNCHANGED <<pdus, pendPdu, givenUp, faults>>
     /\ Done("requeue")
     /\ UNCHANGED <<config, boxVars, conn, rowVars, dlrs, got>>

-----------------------------------------------------------------------------
(* A PDU on its way *)

\* An outbound thread consumes the PDU; without a connection it is not sent
\* and stays among the open acks.
OutboundSend(p) ==
  /\ p.st = "queued"
  /\ flight' = (flight \ {p}) \cup
       {[p EXCEPT !.st = IF conn[p.esme] = "up" THEN "sent" ELSE "unsent"]}
  /\ UNCHANGED <<config, boxVars, conn, workVars, rowVars, pduVars, dlrs, history,
                 faults>>

\* The ESME answers with deliver_sm_resp.
EsmeAnswer(p) ==
  /\ p.st = "sent" /\ conn[p.esme] = "up"
  /\ \/ /\ got' = got \cup {UnitOf(p)}
        /\ flight' = (flight \ {p}) \cup {[p EXCEPT !.st = "acked"]}
        /\ UNCHANGED givenUp
     \/ /\ givenUp' = givenUp \cup {UnitOf(p)}
        /\ flight' = (flight \ {p}) \cup {[p EXCEPT !.st = "nacked"]}
        /\ UNCHANGED got
  /\ UNCHANGED <<config, boxVars, conn, workVars, rowVars, pduVars, dlrs, faults>>

\* The callback of an open ack, which the caller has removed from open_acks.
\* smpp_queues_callback_deliver_sm_resp, for messages bearerbox waits for and
\* for MO rows:
CallbackDeliver(p, status) ==
  /\ p.src \in {"box", "mo"}
  /\ flight' = flight \ {p}
  /\ \/ /\ p.src = "box"
        /\ \/ status \in {"ok", "dropped"} /\ Acknowledge(p.msg, "ok")
           \/ status = "error" /\ UNCHANGED box
           \/ status \in {"timeout", "destroyed"} /\ Acknowledge(p.msg, "held")
        /\ UNCHANGED <<rowVars, faults>>
     \/ /\ p.src = "mo"
        /\ \/ status \in {"ok", "dropped"} /\ Remove(p.gid)
           \/ status \notin {"ok", "dropped"} /\ UNCHANGED <<rowVars, faults>>
        /\ UNCHANGED box
  /\ UNCHANGED <<pduVars, dlrs>>

\* The row a report came from, in its table.
RemoveReport(p) ==
  \/ p.src = "row" /\ Remove(p.gid) /\ UNCHANGED dlrs
  \/ p.src = "dlr" /\ RemoveDlr(p.msg) /\ UNCHANGED rowVars

\* smpp_esme_db_queue_callback, for reports from the store:
CallbackReport(p, status) ==
  /\ p.src \in {"row", "dlr"}
  /\ \/ /\ status = "ok"
        /\ RemoveReport(p)
        /\ flight' = flight \ {p}
     \/ /\ status # "ok"
        /\ flight' = (flight \ {p}) \cup {[p EXCEPT !.st = "move"]}
        /\ UNCHANGED <<rowVars, dlrs, faults>>
  /\ UNCHANGED <<box, pduVars>>

\* smpp_database_mysql_queued_pdu_handler, for stored PDUs: an answer deletes
\* the row if the DELETE succeeds, and the claim is dropped in any case.
RemoveStoredPdu(p) ==
  \/ pdus' = [pdus EXCEPT ![p] = NoUnit] /\ UNCHANGED faults
  \/ Fault /\ UNCHANGED pdus

CallbackPdu(p, status) ==
  /\ p.src = "pdu"
  /\ pendPdu' = pendPdu \ {p.gid}
  /\ \/ status \in {"timeout", "destroyed"} /\ UNCHANGED <<pdus, faults>>
     \/ status \in {"ok", "error"} /\ RemoveStoredPdu(p.gid)
  /\ flight' = flight \ {p}
  /\ UNCHANGED <<box, rowVars, dlrs>>

Callback(p, status) ==
  CallbackDeliver(p, status) \/ CallbackReport(p, status) \/ CallbackPdu(p, status)

\* smpp_queues_process_ack, in an inbound thread
ProcessAck(p) ==
  /\ \/ p.st = "acked" /\ Callback(p, "ok")
     \/ p.st = "nacked" /\ Callback(p, "error")
  /\ UNCHANGED <<config, boxUp, conn, workVars, history>>

\* The cleanup thread finds an open ack older than wait_ack_time.  For what
\* was never stored as a PDU wait-ack-action decides: to disconnect the ESME or
\* to drop the message.
Expire(p) ==
  LET direct == p.src \in {"box", "mo"}
      drops == direct /\ config.drop
  IN /\ p.st \in {"sent", "acked", "nacked"} /\ conn[p.esme] = "up"
     /\ Callback(p, IF drops THEN "dropped" ELSE "timeout")
     /\ conn' = IF direct /\ ~drops THEN [conn EXCEPT ![p.esme] = "down"] ELSE conn
     /\ givenUp' = IF drops THEN givenUp \cup {UnitOf(p)} ELSE givenUp
     /\ UNCHANGED <<config, boxUp, workVars, got>>

\* Mutant: the open acks of a freed ESME are dropped without their callbacks.
DestroyAckSilently(p) ==
  /\ p.st \in Open /\ conn[p.esme] = "down" /\ OutboundQueued(p.esme) = {}
  /\ \A t \in Thread : at[t] # p.esme
  /\ flight' = flight \ {p}
  /\ UNCHANGED <<config, boxVars, conn, workVars, rowVars, pduVars, dlrs, history,
                 faults>>

\* The cleanup thread frees a disconnected ESME once its outbound queue is
\* empty, and runs the callback of every open ack.
DestroyAck(p) ==
  /\ p.st \in Open /\ conn[p.esme] = "down" /\ OutboundQueued(p.esme) = {}
  /\ \A t \in Thread : at[t] # p.esme
  /\ Callback(p, "destroyed")
  /\ UNCHANGED <<config, boxUp, conn, workVars, history>>

\* smpp_esme_db_queue_callback with a failure: smpp_database_add_pdu, whose
\* result is not looked at, ...
MoveInsert(p) ==
  /\ p.st = "move"
  /\ \/ /\ AddPdu(UnitOf(p))
        /\ UNCHANGED <<givenUp, faults>>
     \/ /\ Fault
        /\ givenUp' = givenUp \cup {UnitOf(p)}
        /\ UNCHANGED pdus
  /\ flight' = (flight \ {p}) \cup {[p EXCEPT !.st = "moved"]}
  /\ UNCHANGED <<config, boxVars, conn, workVars, rowVars, pendPdu, dlrs, got>>

\* Mutant: the row is kept, now that its PDU is stored, and so is the claim.
MoveRemoveDlrOnly(p) ==
  /\ p.st = "moved"
  /\ \/ p.src = "row" /\ UNCHANGED <<dlrs, rowVars, faults>>
     \/ p.src = "dlr" /\ RemoveDlr(p.msg) /\ UNCHANGED rowVars
  /\ flight' = flight \ {p}
  /\ UNCHANGED <<config, boxVars, conn, workVars, pduVars, history>>

\* ... then the row it came from is removed.
MoveRemove(p) ==
  /\ p.st = "moved"
  /\ RemoveReport(p)
  /\ flight' = flight \ {p}
  /\ UNCHANGED <<config, boxVars, conn, workVars, pduVars, history>>

-----------------------------------------------------------------------------
(* Connections, crashes *)

Bind(e) ==
  /\ conn[e] = "down" /\ {p \in flight : p.esme = e /\ p.st \in Open} = {}
  /\ \A t \in Thread : at[t] # e
  /\ conn' = [conn EXCEPT ![e] = "up"]
  /\ UNCHANGED <<config, boxVars, workVars, flight, rowVars, pduVars, dlrs, history,
                 faults>>

Disconnect(e) ==
  /\ conn[e] = "up"
  /\ conn' = [conn EXCEPT ![e] = "down"]
  /\ UNCHANGED <<config, boxVars, workVars, flight, rowVars, pduVars, dlrs, history,
                 faults>>

BoxConnect ==
  /\ ~boxUp /\ boxUp' = TRUE
  /\ UNCHANGED <<config, box, conn, workVars, flight, rowVars, pduVars, dlrs,
                 history, faults>>

\* bearerbox takes back what was not acknowledged when the connection breaks.
BoxLost ==
  /\ boxUp /\ Fault
  /\ boxUp' = FALSE
  /\ box' = [m \in Msg |-> IF box[m] = "out" THEN "held" ELSE box[m]]
  /\ UNCHANGED <<config, conn, workVars, flight, rowVars, pduVars, dlrs, history>>

\* Only the tables survive, and what bearerbox and the ESMEs know.
Restart ==
  /\ boxUp' = FALSE
  /\ box' = [m \in Msg |-> IF box[m] = "out" THEN "held" ELSE box[m]]
  /\ conn' = [e \in Esme |-> "down"]
  /\ pc' = Resting[1] /\ hand' = Resting[2] /\ at' = Resting[3] /\ batch' = Resting[4]
  /\ flight' = {} /\ pending' = {} /\ pendPdu' = {}
  /\ UNCHANGED <<config, rows, pdus, dlrs, history>>

Crash == Fault /\ Restart

\* smpp_bearerbox_requeue_routing_done consumes a NULL list of PDUs.
MoverPanics ==
  /\ pc["mover"] = "add" /\ hand["mover"].msg \in Unconvertible
  /\ Restart
  /\ UNCHANGED faults

-----------------------------------------------------------------------------

ThreadStep(t) == Choose(t) \/ Unrouted(t) \/ AddOutbound(t)

Next ==
  \/ \E m \in Msg : ReaderRead(m)
  \/ \E t \in Thread : ThreadStep(t)
  \/ \E t \in {"mover", "requeue"} : Take(t)
  \/ ReaderUnconvertible \/ ReaderNone \/ ReaderStored
  \/ MoverPoll \/ MoverNone \/ MoverPanics
  \/ Poll \/ RequeueNone
  \/ \E p \in flight : \/ OutboundSend(p) \/ EsmeAnswer(p) \/ ProcessAck(p)
                       \/ Expire(p) \/ DestroyAck(p) \/ MoveInsert(p) \/ MoveRemove(p)
  \/ \E e \in Esme : Bind(e) \/ Disconnect(e)
  \/ BoxConnect \/ BoxLost \/ Crash

Spec == Init /\ [][Next]_vars

\* Every thread keeps running: the reader and the requeue threads finish what
\* they have taken, an outbound and an inbound thread get to every PDU, the
\* cleanup thread expires open acks and frees disconnected ESMEs.  Nothing is
\* assumed of ESMEs, of bearerbox, or of when the store is polled.
OnPdu(u, A(_)) == \E p \in flight : UnitOf(p) = u /\ A(p)

Fairness ==
  /\ WF_vars(ThreadStep("reader") \/ ReaderUnconvertible \/ ReaderNone \/ ReaderStored)
  /\ WF_vars(ThreadStep("mover") \/ Take("mover") \/ MoverNone \/ MoverPanics)
  /\ WF_vars(ThreadStep("requeue") \/ Take("requeue") \/ RequeueNone)
  /\ \A u \in Unit :
       /\ WF_vars(OnPdu(u, OutboundSend)) /\ WF_vars(OnPdu(u, ProcessAck))
       /\ WF_vars(OnPdu(u, Expire)) /\ WF_vars(OnPdu(u, DestroyAck))
       /\ WF_vars(OnPdu(u, MoveInsert)) /\ WF_vars(OnPdu(u, MoveRemove))

FairSpec == Spec /\ Fairness

-----------------------------------------------------------------------------
(* Safety *)

\* A table still holds this part.
InTable(u) == (\E g \in Gid : rows[g] = u[1]) \/ \E p \in Pid : pdus[p] = u

\* What bearerbox was told is safe has been accepted by an ESME, is in a table,
\* or was refused or discarded by a decision of the code: no order of
\* acknowledgement, INSERT, DELETE, timeout and crash loses it silently.  Of a
\* message of several parts this holds for one of them at least (a report's row
\* is deleted when its first part is through, an MO message is settled by the
\* first part that is dropped), and while no MO message is dropped for all.
OkIsAccounted ==
  \A m \in Dlr \cup Mo :
    LET safe == {k \in PartsOf(m) : InTable(<<m, k>>) \/ <<m, k>> \in givenUp}
    IN box[m] = "ok" =>
         \/ \E k \in PartsOf(m) : <<m, k>> \in got
         \/ safe # {} /\ (m \in Mo /\ ~config.drop => safe = PartsOf(m))

\* The claims keep the two requeue threads, and two passes of one of them,
\* from sending a row again while it is on its way.  (A row of several parts
\* may be read again after one part was confirmed and the DELETE failed.)
RowOnTheWayOnce ==
  \A p, q \in {r \in flight : r.src \in {"mo", "row", "pdu"} /\ r.st \in Open} :
    /\ p.src = q.src /\ p.gid = q.gid /\ p.part = q.part
    /\ p.src = "pdu" \/ Parts[p.msg] = 1
    => p = q

\* max-open-acks is compared before the PDU is added, by three threads: each
\* of the others may push the count one past the limit, and no more.
OpenAcksBounded ==
  (\A m \in config.offered : Parts[m] = 1) =>
    \A e \in Esme :
      Cardinality(OpenAcks(e)) <= config.acks + Cardinality(Thread) - 1

\* README.md, of ESMEs past max-open-acks: "messages will be queued to the
\* database and requeued as space becomes available."  A stored PDU then leaves
\* its table only after an ESME has answered it.
RequeuedAsSpace ==
  [][\A p \in Pid : pdus[p] # NoUnit /\ pdus'[p] = NoUnit
                       => pdus[p] \in got \cup givenUp]_vars

-----------------------------------------------------------------------------
(* Liveness *)

\* bearerbox gets an answer to every message it hands over, or takes it back
\* with its connection, unless an ESME refused it or it has no PDU.
BoxAnswered ==
  \A m \in Dlr \cup Mo :
    box[m] = "out" ~> \/ box[m] # "out"
                      \/ \E k \in PartsOf(m) : <<m, k>> \in givenUp

\* The claim on a stored PDU or report is dropped again whatever becomes of
\* the ESME, so the row can be offered again.  (The claim on an MO row is not.)
ClaimReleased ==
  /\ \A p \in Pid : p \in pendPdu ~> p \notin pendPdu
  /\ \A g \in Gid : g \in pending /\ rows[g] \in Dlr \ Unconvertible
                       ~> g \notin pending

=============================================================================
