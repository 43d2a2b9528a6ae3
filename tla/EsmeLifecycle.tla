---------------------------- MODULE EsmeLifecycle ----------------------------
(***************************************************************************)
(* The life of an SMPPEsme, from the accepted connection to the moment the *)
(* cleanup thread frees it.  Every thread of the server holds pointers to  *)
(* it: the listener (smpp_listener.c), the inbound and outbound queue      *)
(* threads and the routing and bearerbox callbacks (smpp_queues.c), a      *)
(* thread that has chosen it as receiver, and the cleanup thread           *)
(* (smpp_esme.c).  Only the inbound handlers, find_best_receiver, the HTTP *)
(* unbind command and the cleanup pass take smpp_esme_data->lock.          *)
(* All connections bind with the same system_id.  PDUs are reduced to what *)
(* they do to the bind; open acks of deliver_sm are not part of this model *)
(* except that an expired one may disconnect the bind.                     *)
(***************************************************************************)
EXTENDS Integers, Sequences, FiniteSets

CONSTANTS
  Esme,      \* the connections ever accepted
  NoEsme,    \* a NULL SMPPEsme pointer
  InThread,  \* inbound queue threads
  OutThread, \* outbound queue threads
  MaxBinds,  \* max_binds of the account, 0 for no limit
  MaxPdu,    \* bound: PDUs each connection sends
  MaxBindPdu,\* bound: bind requests among them
  MaxOut     \* bound: PDUs the server originates per connection

ASSUME EsmeAssumption == NoEsme \notin Esme
ASSUME ThreadAssumption ==
  IsFiniteSet(InThread) /\ InThread # {} /\ IsFiniteSet(OutThread) /\ OutThread # {}
ASSUME LimitAssumption ==
  MaxBinds \in Nat /\ MaxPdu \in Nat /\ MaxBindPdu \in Nat /\ MaxOut \in Nat

VARIABLES
  life,      \* not yet accepted, allocated, or freed
  connected, \* smpp_esme->connected; the read event exists exactly then
  authed,    \* smpp_esme->authenticated
  globalOf,  \* smpp_esme->smpp_esme_global, 0 while it is not set
  current,   \* the SMPPEsmeGlobal that smpp_esme_data->esmes holds, 0 for none
  created,   \* SMPPEsmeGlobal objects created so far
  binds,     \* smpp_esme_global->binds: how often each bind is listed
  received,  \* PDUs read from each connection
  bindReqs,  \* bind requests among them
  sentByUs,  \* PDUs the server has originated to each connection
  inq,       \* server->inbound_queue, per connection: PDU types
  outq,      \* server->outbound_queue, per connection: the disconnect flags
  tpc,       \* inbound threads: where, for which ESME, with what
  opc,       \* outbound threads: likewise
  routing,   \* smpp_esme->pending_routing
  jobs,      \* submissions past the router that are still to be answered
  closing,   \* the ESME the listener has stopped and is about to clean up
  receiver,  \* the ESME find_best_receiver returned, until it is used
  recent,    \* a queue thread handled a PDU less than CLEANUP_QUEUE_DELAY ago
  cleanupq,  \* smpp_esme_data->cleanup_queue
  cpc,       \* the cleanup thread: sleeping, or its pass under the write lock
  todo,      \* entries of its list the current loop of the pass has still to look at
  keep,      \* the replacement of cleanup_queue
  snap       \* cleanup_queue when the second loop started

vars == <<life, connected, authed, globalOf, current, created, binds, received, bindReqs,
          sentByUs, inq, outq, tpc, opc, routing, jobs, closing, receiver, recent, cleanupq, cpc,
          todo, keep, snap>>

-----------------------------------------------------------------------------
Global == 1 .. Cardinality(InThread)
Kind == {"bind", "unbind", "submit", "enquire", "resp"}

Idle == [pc |-> "idle", esme |-> NoEsme, kind |-> "resp"]
OutIdle == [pc |-> "idle", esme |-> NoEsme, disconnect |-> FALSE]

TypeLife ==
  /\ life \in [Esme -> {"absent", "live", "freed"}]
  /\ connected \in [Esme -> BOOLEAN]
  /\ authed \in [Esme -> BOOLEAN]

TypeGlobal ==
  /\ globalOf \in [Esme -> Global \cup {0}]
  /\ current \in Global \cup {0} /\ created \in Global \cup {0}
  /\ binds \in [Global -> [Esme -> Nat]]

TypeQueue ==
  /\ received \in [Esme -> 0 .. MaxPdu] /\ bindReqs \in [Esme -> 0 .. MaxBindPdu]
  /\ sentByUs \in [Esme -> 0 .. MaxOut]
  /\ inq \in [Esme -> Seq(Kind)]
  /\ outq \in [Esme -> Seq(BOOLEAN)]

TypeThread ==
  /\ tpc \in [InThread -> [pc : {"idle", "got", "authed", "absent"}, esme : Esme \cup {NoEsme},
                           kind : Kind]]
  /\ opc \in [OutThread -> [pc : {"idle", "got", "send"}, esme : Esme \cup {NoEsme},
                            disconnect : BOOLEAN]]

TypeWork ==
  /\ routing \in [Esme -> Nat] /\ jobs \in [Esme -> Nat]
  /\ closing \in Esme \cup {NoEsme} /\ receiver \in Esme \cup {NoEsme}
  /\ recent \in [Esme -> BOOLEAN]

TypePass ==
  /\ cleanupq \subseteq Esme
  /\ cpc \in {"sleep", "scan", "reap"}
  /\ todo \in [Esme -> Nat] /\ keep \subseteq Esme /\ snap \subseteq Esme

TypeOK == TypeLife /\ TypeGlobal /\ TypeQueue /\ TypeThread /\ TypeWork /\ TypePass

Init ==
  /\ life = [e \in Esme |-> "absent"]
  /\ connected = [e \in Esme |-> FALSE]
  /\ authed = [e \in Esme |-> FALSE]
  /\ globalOf = [e \in Esme |-> 0]
  /\ current = 0 /\ created = 0
  /\ binds = [g \in Global |-> [e \in Esme |-> 0]]
  /\ received = [e \in Esme |-> 0] /\ bindReqs = [e \in Esme |-> 0]
  /\ sentByUs = [e \in Esme |-> 0]
  /\ inq = [e \in Esme |-> <<>>]
  /\ outq = [e \in Esme |-> <<>>]
  /\ tpc = [t \in InThread |-> Idle]
  /\ opc = [o \in OutThread |-> OutIdle]
  /\ routing = [e \in Esme |-> 0]
  /\ jobs = [e \in Esme |-> 0]
  /\ closing = NoEsme /\ receiver = NoEsme
  /\ recent = [e \in Esme |-> FALSE]
  /\ cleanupq = {}
  /\ cpc = "sleep" /\ todo = [e \in Esme |-> 0] /\ keep = {} /\ snap = {}

esmeVars == <<life, connected, authed>>
globalVars == <<globalOf, current, created, binds>>
readVars == <<received, bindReqs>>
queueVars == <<inq, outq, readVars, sentByUs>>
threadVars == <<tpc, opc>>
workVars == <<routing, jobs, receiver>>
passVars == <<cpc, todo, keep, snap>>

-----------------------------------------------------------------------------
(* Helpers *)

\* smpp_queues_add_outbound: a PDU for e, with its disconnect flag
AddOutbound(e, disconnect) == outq' = [outq EXCEPT ![e] = Append(@, disconnect)]

\* The server's own PDUs (enquire_link, unbind, deliver_sm) are bounded.
Originate(e, disconnect) ==
  /\ sentByUs[e] < MaxOut
  /\ sentByUs' = [sentByUs EXCEPT ![e] = @ + 1]
  /\ AddOutbound(e, disconnect)

\* smpp_esme_stop_listening
StopListening(e) == connected' = [connected EXCEPT ![e] = FALSE]

\* smpp_esme_cleanup's gwlist_append_unique
Enqueue(e) == cleanupq' = cleanupq \cup {e}

\* Threads that hold smpp_esme_data->lock for reading
Readers == {t \in InThread : tpc[t].pc \in {"authed", "absent"}}

WriteLocked == cpc # "sleep"

\* The binds listed for the account
Listed == IF current = 0 THEN {} ELSE {e \in Esme : binds[current][e] > 0}
Entries == IF current = 0 THEN {} ELSE UNION {{e} \X (1 .. binds[current][e]) : e \in Esme}
BindCount == Cardinality(Entries)

-----------------------------------------------------------------------------
(* The listener thread: smpp_listener.c *)

\* smpp_listener_connection_callback
Connect(e) ==
  /\ life[e] = "absent"
  /\ life' = [life EXCEPT ![e] = "live"]
  /\ connected' = [connected EXCEPT ![e] = TRUE]
  /\ UNCHANGED <<authed, globalVars, queueVars, threadVars, workVars, closing, recent,
                 cleanupq, passVars>>

\* smpp_listener_event, a PDU was read: smpp_queues_add_inbound
ReadPdu(e, k) ==
  /\ connected[e] /\ closing = NoEsme /\ received[e] < MaxPdu
  /\ k = "bind" => bindReqs[e] < MaxBindPdu
  /\ received' = [received EXCEPT ![e] = @ + 1]
  /\ bindReqs' = [bindReqs EXCEPT ![e] = IF k = "bind" THEN @ + 1 ELSE @]
  /\ inq' = [inq EXCEPT ![e] = Append(@, k)]
  /\ UNCHANGED <<esmeVars, globalVars, outq, sentByUs, threadVars, workVars, closing, recent,
                 cleanupq, passVars>>

\* smpp_listener_event, the peer closed or sent garbage too often: a bind that
\* is not authenticated is cleaned up here, others by the cleanup thread.
PeerCloses(e) ==
  /\ connected[e] /\ closing = NoEsme
  /\ StopListening(e)
  /\ closing' = IF authed[e] THEN NoEsme ELSE e
  /\ UNCHANGED <<life, authed, globalVars, queueVars, threadVars, workVars, recent, cleanupq,
                 passVars>>

ListenerCleanup ==
  /\ closing # NoEsme
  /\ Enqueue(closing)
  /\ closing' = NoEsme
  /\ UNCHANGED <<esmeVars, globalVars, queueVars, threadVars, workVars, recent, passVars>>

-----------------------------------------------------------------------------
(* The inbound queue threads: smpp_queues.c *)

\* Mutant: time_last_queue_process is not brought up to date.
ConsumeInboundKeepsTime(t, e) ==
  /\ tpc[t].pc = "idle" /\ inq[e] # <<>>
  /\ tpc' = [tpc EXCEPT ![t] = [pc |-> "got", esme |-> e, kind |-> Head(inq[e])]]
  /\ inq' = [inq EXCEPT ![e] = Tail(@)]
  /\ UNCHANGED <<esmeVars, globalVars, outq, readVars, sentByUs, opc, workVars, closing,
                 recent, cleanupq, passVars>>

\* smpp_queues_inbound_thread up to the lock: the time is set before the
\* counter goes down.
ConsumeInbound(t, e) ==
  /\ tpc[t].pc = "idle" /\ inq[e] # <<>>
  /\ recent' = [recent EXCEPT ![e] = TRUE]
  /\ tpc' = [tpc EXCEPT ![t] = [pc |-> "got", esme |-> e, kind |-> Head(inq[e])]]
  /\ inq' = [inq EXCEPT ![e] = Tail(@)]
  /\ UNCHANGED <<esmeVars, globalVars, outq, readVars, sentByUs, opc, workVars, closing,
                 cleanupq, passVars>>

\* The handlers of one PDU that change nothing in steps others can see apart:
\* enquire_link, unbind, deliver_sm_resp, and submit_sm up to the router.
HandlePdu(t) ==
  LET e == tpc[t].esme IN
  /\ tpc[t].pc = "got" /\ ~WriteLocked
  /\ tpc' = [tpc EXCEPT ![t] = Idle]
  /\ \/ tpc[t].kind = "resp" /\ UNCHANGED <<outq, routing>>
     \/ tpc[t].kind = "enquire" /\ AddOutbound(e, FALSE) /\ UNCHANGED routing
     \/ tpc[t].kind = "unbind" /\ AddOutbound(e, TRUE) /\ UNCHANGED routing
     \/ tpc[t].kind = "submit" /\ AddOutbound(e, FALSE) /\ UNCHANGED routing
     \/ /\ tpc[t].kind = "submit" /\ authed[e]
        /\ routing' = [routing EXCEPT ![e] = @ + 1]
        /\ UNCHANGED outq
  /\ UNCHANGED <<esmeVars, globalVars, inq, readVars, sentByUs, opc, jobs, receiver, closing,
                 recent, cleanupq, passVars>>

\* smpp_queues_handle_bind_pdu with smpp_esme_auth: bad credentials or a full
\* account refuse the bind with a response that disconnects.
BindRefused(t) ==
  /\ tpc[t].pc = "got" /\ tpc[t].kind = "bind" /\ ~WriteLocked
  /\ AddOutbound(tpc[t].esme, TRUE)
  /\ tpc' = [tpc EXCEPT ![t] = Idle]
  /\ UNCHANGED <<esmeVars, globalVars, inq, readVars, sentByUs, opc, workVars, closing,
                 recent, cleanupq, passVars>>

\* Mutant: the limit is compared with > instead of >=.
BindAcceptedOneMore(t) ==
  /\ tpc[t].pc = "got" /\ tpc[t].kind = "bind" /\ ~WriteLocked
  /\ MaxBinds = 0 \/ ~(BindCount > MaxBinds)
  /\ authed' = [authed EXCEPT ![tpc[t].esme] = TRUE]
  /\ tpc' = [tpc EXCEPT ![t].pc = "authed"]
  /\ UNCHANGED <<life, connected, globalVars, queueVars, opc, workVars, closing, recent,
                 cleanupq, passVars>>

BindAccepted(t) ==
  /\ tpc[t].pc = "got" /\ tpc[t].kind = "bind" /\ ~WriteLocked
  /\ MaxBinds = 0 \/ BindCount < MaxBinds
  /\ authed' = [authed EXCEPT ![tpc[t].esme] = TRUE]
  /\ tpc' = [tpc EXCEPT ![t].pc = "authed"]
  /\ UNCHANGED <<life, connected, globalVars, queueVars, opc, workVars, closing, recent,
                 cleanupq, passVars>>

\* smpp_esme_global_add: the account is looked up ...
GlobalAdd(t) ==
  LET e == tpc[t].esme IN
  /\ tpc[t].pc = "authed"
  /\ \/ /\ current # 0
        /\ globalOf' = [globalOf EXCEPT ![e] = current]
        /\ binds' = [binds EXCEPT ![current][e] = @ + 1]
        /\ AddOutbound(e, FALSE)
        /\ tpc' = [tpc EXCEPT ![t] = Idle]
     \/ /\ current = 0
        /\ tpc' = [tpc EXCEPT ![t].pc = "absent"]
        /\ UNCHANGED <<globalOf, binds, outq>>
  /\ UNCHANGED <<esmeVars, current, created, inq, readVars, sentByUs, opc, workVars, closing,
                 recent, cleanupq, passVars>>

\* ... and created if it was not there, which another thread may do as well.
GlobalCreate(t) ==
  LET e == tpc[t].esme  g == created + 1 IN
  /\ tpc[t].pc = "absent"
  /\ created' = g /\ current' = g
  /\ globalOf' = [globalOf EXCEPT ![e] = g]
  /\ binds' = [binds EXCEPT ![g][e] = @ + 1]
  /\ AddOutbound(e, FALSE)
  /\ tpc' = [tpc EXCEPT ![t] = Idle]
  /\ UNCHANGED <<esmeVars, inq, readVars, sentByUs, opc, workVars, closing, recent, cleanupq,
                 passVars>>

-----------------------------------------------------------------------------
(* The router's callback, the bearerbox callback and receivers *)

\* smpp_queues_submit_routing_done gives up its count in pending_routing and
\* goes on with credit, the store or the bearerbox component.
RoutingDone(e) ==
  /\ routing[e] > 0
  /\ routing' = [routing EXCEPT ![e] = @ - 1]
  /\ jobs' = [jobs EXCEPT ![e] = @ + 1]
  /\ UNCHANGED <<esmeVars, globalVars, queueVars, threadVars, receiver, closing, recent,
                 cleanupq, passVars>>

\* smpp_queues_callback_submit_sm, or a refusal in the router's callback.
\* What happens when the ESME is already freed is undefined and not modelled.
CallbackSubmit(e) ==
  /\ jobs[e] > 0 /\ life[e] = "live"
  /\ jobs' = [jobs EXCEPT ![e] = @ - 1]
  /\ AddOutbound(e, FALSE)
  /\ UNCHANGED <<esmeVars, globalVars, inq, readVars, sentByUs, threadVars, routing, receiver,
                 closing, recent, cleanupq, passVars>>

\* smpp_esme_find_best_receiver, under the read lock
FindBestReceiver(e) ==
  /\ receiver = NoEsme /\ ~WriteLocked
  /\ e \in Listed /\ connected[e] /\ sentByUs[e] < MaxOut
  /\ receiver' = e
  /\ UNCHANGED <<esmeVars, globalVars, queueVars, threadVars, routing, jobs, closing, recent,
                 cleanupq, passVars>>

\* The caller queues a deliver_sm for the receiver it was given.
UseReceiver ==
  /\ receiver # NoEsme /\ life[receiver] = "live"
  /\ IF sentByUs[receiver] < MaxOut THEN Originate(receiver, FALSE)
                                    ELSE UNCHANGED <<outq, sentByUs>>
  /\ receiver' = NoEsme
  /\ UNCHANGED <<esmeVars, globalVars, inq, readVars, threadVars, routing, jobs, closing,
                 recent, cleanupq, passVars>>

\* smpp_esme_unbind_command, under the write lock
UnbindCommand(e) ==
  /\ ~WriteLocked /\ Readers = {}
  /\ e \in Listed /\ Originate(e, TRUE)
  /\ UNCHANGED <<esmeVars, globalVars, inq, readVars, threadVars, workVars, closing, recent,
                 cleanupq, passVars>>

-----------------------------------------------------------------------------
(* The outbound queue threads *)

ConsumeOutbound(o, e) ==
  /\ opc[o].pc = "idle" /\ outq[e] # <<>>
  /\ recent' = [recent EXCEPT ![e] = TRUE]
  /\ opc' = [opc EXCEPT ![o] = [pc |-> "got", esme |-> e, disconnect |-> Head(outq[e])]]
  /\ outq' = [outq EXCEPT ![e] = Tail(@)]
  /\ UNCHANGED <<esmeVars, globalVars, inq, readVars, sentByUs, tpc, workVars, closing,
                 cleanupq, passVars>>

\* A PDU for a connection that is gone is dropped.
CheckConnected(o) ==
  /\ opc[o].pc = "got"
  /\ opc' = [opc EXCEPT ![o] = IF connected[opc[o].esme] THEN [@ EXCEPT !.pc = "send"] ELSE OutIdle]
  /\ UNCHANGED <<esmeVars, globalVars, queueVars, tpc, workVars, closing, recent, cleanupq,
                 passVars>>

\* The PDU is sent; one that disconnects stops the reader first and cleans up
\* a bind that is not authenticated.
Send(o) ==
  LET e == opc[o].esme IN
  /\ opc[o].pc = "send"
  /\ IF opc[o].disconnect THEN StopListening(e) ELSE UNCHANGED connected
  /\ IF opc[o].disconnect /\ ~authed[e] THEN Enqueue(e) ELSE UNCHANGED cleanupq
  /\ opc' = [opc EXCEPT ![o] = OutIdle]
  /\ UNCHANGED <<life, authed, globalVars, queueVars, tpc, workVars, closing, recent, passVars>>

-----------------------------------------------------------------------------
(* The cleanup thread: smpp_esme.c *)

\* SMPP_ESME_CLEANUP_QUEUE_DELAY seconds without a PDU of e.  A queue thread
\* or the listener is assumed to be done with what it is handling by then.
Elapse(e) ==
  /\ recent[e] /\ closing # e
  /\ \A t \in InThread : tpc[t].esme # e
  /\ \A o \in OutThread : opc[o].esme # e
  /\ recent' = [recent EXCEPT ![e] = FALSE]
  /\ UNCHANGED <<esmeVars, globalVars, queueVars, threadVars, workVars, closing, cleanupq,
                 passVars>>

\* One entry of the list a loop of the pass goes through
LookAt(e) == todo[e] > 0 /\ todo' = [todo EXCEPT ![e] = @ - 1]
LoopDone == \A e \in Esme : todo[e] = 0

\* The pass starts with the write lock: no inbound handler is running.
PassStart ==
  /\ cpc = "sleep" /\ Readers = {}
  /\ cpc' = "scan" /\ todo' = [e \in Esme |-> IF e \in Listed THEN binds[current][e] ELSE 0]
  /\ UNCHANGED <<esmeVars, globalVars, queueVars, threadVars, workVars, closing, recent,
                 cleanupq, keep, snap>>

\* Mutant: a bind that is gone is cleaned up and stays listed.
ScanBindStaysListed(e) ==
  /\ cpc = "scan" /\ LookAt(e)
  /\ \/ ~connected[e] /\ Enqueue(e)
     \/ connected[e] /\ UNCHANGED cleanupq
  /\ UNCHANGED <<esmeVars, globalVars, queueVars, threadVars, workVars, closing, recent, cpc,
                 keep, snap>>

\* The first loop, one entry of the list.  A bind that is gone or was silent
\* for too long is cleaned up and leaves the list; for another one an expired
\* ack may disconnect it and silence may be answered by an enquire_link.  A
\* connection that bound twice has two entries, and they are looked at apart.
ScanBind(e) ==
  /\ cpc = "scan" /\ LookAt(e)
  /\ \/ /\ Enqueue(e) /\ StopListening(e)
        /\ binds' = [binds EXCEPT ![current][e] = @ - 1]
        /\ UNCHANGED <<outq, sentByUs>>
     \/ /\ connected[e]
        /\ StopListening(e) \/ UNCHANGED connected
        /\ Originate(e, FALSE) \/ UNCHANGED <<outq, sentByUs>>
        /\ UNCHANGED <<binds, cleanupq>>
  /\ UNCHANGED <<life, authed, globalOf, current, created, inq, readVars, threadVars, workVars,
                 closing, recent, cpc, keep, snap>>

\* The second loop looks at what is in cleanup_queue now.
ReapStart ==
  /\ cpc = "scan" /\ LoopDone
  /\ cpc' = "reap" /\ snap' = cleanupq /\ keep' = {}
  /\ todo' = [e \in Esme |-> IF e \in cleanupq THEN 1 ELSE 0]
  /\ UNCHANGED <<esmeVars, globalVars, queueVars, threadVars, workVars, closing, recent, cleanupq>>

QueueDepth(e) == Len(inq[e]) + Len(outq[e]) + routing[e]

\* One ESME of cleanup_queue: smpp_esme_destroy when its queues are empty and
\* the delay is over, otherwise it is kept for the next pass.
ReapEsme(e) ==
  /\ cpc = "reap" /\ LookAt(e)
  /\ \/ /\ QueueDepth(e) = 0 /\ ~recent[e]
        /\ life' = [life EXCEPT ![e] = "freed"]
        /\ StopListening(e)
        /\ UNCHANGED keep
     \/ /\ QueueDepth(e) > 0 \/ recent[e]
        /\ keep' = keep \cup {e}
        /\ UNCHANGED <<life, connected>>
  /\ UNCHANGED <<authed, globalVars, queueVars, threadVars, workVars, closing, recent, cleanupq,
                 cpc, snap>>

\* Mutant: the ESMEs kept for the next pass are forgotten with the old list.
ReapEndForgets ==
  /\ cpc = "reap" /\ LoopDone
  /\ cleanupq' = {}
  /\ cpc' = "sleep" /\ keep' = {} /\ snap' = {}
  /\ UNCHANGED <<esmeVars, globalVars, queueVars, threadVars, workVars, closing, recent, todo>>

\* The list is replaced if there was anything in it; the lock is released.
ReapEnd ==
  /\ cpc = "reap" /\ LoopDone
  /\ cleanupq' = IF snap = {} THEN cleanupq ELSE keep
  /\ cpc' = "sleep" /\ keep' = {} /\ snap' = {}
  /\ UNCHANGED <<esmeVars, globalVars, queueVars, threadVars, workVars, closing, recent, todo>>

-----------------------------------------------------------------------------
Listener == ListenerCleanup \/ \E e \in Esme : Connect(e) \/ PeerCloses(e) \/ \E k \in Kind : ReadPdu(e, k)

Inbound(t) ==
  \/ \E e \in Esme : ConsumeInbound(t, e)
  \/ HandlePdu(t) \/ BindRefused(t) \/ BindAccepted(t) \/ GlobalAdd(t) \/ GlobalCreate(t)

Outbound(o) ==
  \/ \E e \in Esme : ConsumeOutbound(o, e)
  \/ CheckConnected(o) \/ Send(o)

Cleanup ==
  \/ PassStart \/ ReapStart \/ ReapEnd
  \/ \E e \in Esme : ScanBind(e) \/ ReapEsme(e)

Next ==
  \/ Listener \/ Cleanup \/ UseReceiver
  \/ \E t \in InThread : Inbound(t)
  \/ \E o \in OutThread : Outbound(o)
  \/ \E e \in Esme : RoutingDone(e) \/ CallbackSubmit(e) \/ FindBestReceiver(e)
                     \/ UnbindCommand(e) \/ Elapse(e)

Spec == Init /\ [][Next]_vars

\* Every thread of the server runs, routers answer, time passes.  Peers need
\* not send or close anything, and nobody has to use the HTTP command.
FairSpec ==
  /\ Spec
  /\ WF_vars(ListenerCleanup)
  /\ \A t \in InThread : SF_vars(Inbound(t))
  /\ \A o \in OutThread : WF_vars(Outbound(o))
  /\ WF_vars(UseReceiver)
  /\ SF_vars(PassStart) /\ WF_vars(Cleanup)
  /\ \A e \in Esme : WF_vars(RoutingDone(e)) /\ WF_vars(CallbackSubmit(e)) /\ SF_vars(Elapse(e))

-----------------------------------------------------------------------------
(* Properties *)

\* The ESMEs that a queue, a queue thread or the router's count refers to
Queued(e) ==
  \/ QueueDepth(e) > 0 \/ closing = e
  \/ \E t \in InThread : tpc[t].esme = e
  \/ \E o \in OutThread : opc[o].esme = e

\* Nothing refuses a second bind on a connection.  It would be listed twice, and
\* the pass would look at its two entries at different times: if the connection
\* goes between the two, it may be freed while the other entry stays.
BoundOnce(e) == bindReqs[e] <= 1

\* The cleanup thread frees an ESME that bound once only when none of its PDUs
\* is queued, being handled by a queue thread, or with the router.
QueuedIsAlive == \A e \in Esme : BoundOnce(e) /\ Queued(e) => life[e] = "live"

\* A freed ESME that bound once is not in the account's list of binds and not in
\* cleanup_queue: neither find_best_receiver nor a later pass of the cleanup
\* thread finds it.  The pass counts on it: "No destroy, already destroyed above".
ListedIsAlive ==
  \A e \in Esme :
    BoundOnce(e) /\ (e \in Listed \/ (e \in cleanupq /\ cpc # "reap")) => life[e] = "live"

\* max_binds is checked before the bind is listed, under a lock that other
\* inbound threads share: the limit can be passed by one bind per extra thread.
BindsBounded == MaxBinds > 0 => BindCount <= MaxBinds + Cardinality(InThread) - 1

\* A listed bind whose connection is gone is freed in the end.
ListedIsFreed == \A e \in Esme : (e \in Listed /\ ~connected[e]) ~> life[e] = "freed"

\* smpp_esme_cleanup appends to cleanup_queue while the pass may be replacing
\* it, without the lock: what leaves the queue was freed, or was appended after
\* the second loop took its length.  Nothing an earlier pass kept is lost.
CleanupLosesOnlyLate ==
  [][\A e \in Esme : e \in cleanupq /\ e \notin cleanupq' => life[e] = "freed" \/ e \notin snap]_vars

=============================================================================
