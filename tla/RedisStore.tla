----------------------------- MODULE RedisStore -----------------------------
(***************************************************************************)
(* The queue backend of smpp_database_redis.c and the threads that use it. *)
(* A store is a Redis list that is popped by whoever looks for messages:   *)
(* there is no row to leave in place, so between LPOP and LPUSH a message  *)
(* exists only in the memory of the server.  Each operation is a sequence  *)
(* of Redis commands, and the commands of different threads interleave:    *)
(*   - the threads that add a message: INCR, LPUSH, SADD;                  *)
(*   - the bearerbox requeue thread ("mover"), which drains MT messages    *)
(*     from the queue store and MO messages from the primary store;        *)
(*   - the queues requeue thread ("requeue"), which pops stored PDUs, DLR  *)
(*     entries and stored reports of the accounts that are connected;      *)
(*   - the callbacks of what these have sent.                              *)
(* What an ESME or bearerbox does with a message is any outcome.  The      *)
(* claims on PDUs (pending_pdu) are written but never read, and left out.  *)
(***************************************************************************)
EXTENDS Integers, Sequences, SequencesExt, FiniteSets

CONSTANTS
  Mo,          \* MO messages without a receiver, added to the primary store
  Mt,          \* MT messages without a bearerbox, added to the queue store
  Report,      \* delivery reports without a receiver, added to the primary store
  TableDlr,    \* delivery reports another program has put into the DLR lists
  Account,     \* the accounts, all of them connected
  AccountOf,   \* the account each message belongs to
  NoMsg, NoAccount,
  Scenarios,   \* [offered: the messages that exist, rooms: the open acks a
               \*  receiver may have left, faults: bound on faults]
  Batch,       \* SMPP_DATABASE_BATCH_LIMIT
  MaxEmpty     \* max_empty_batches

Msg == Mo \cup Mt \cup Report \cup TableDlr

ASSUME KindAssumption ==
  /\ Mo \cap Mt = {} /\ Report \cap (Mo \cup Mt) = {}
  /\ TableDlr \cap (Mo \cup Mt \cup Report) = {}
  /\ IsFiniteSet(Msg) /\ NoMsg \notin Msg
  /\ AccountOf \in [Msg -> Account] /\ NoAccount \notin Account
ASSUME ScenarioAssumption ==
  \A c \in Scenarios :
    c.offered \subseteq Msg /\ c.rooms \subseteq Nat \ {0} /\ c.faults \in Nat
ASSUME BoundAssumption ==
  {Batch, MaxEmpty} \subseteq Nat \ {0}

Table == {"store", "queue"}
TableOf(m) == IF m \in Mt THEN "queue" ELSE "store"
Gid == 0 .. Cardinality(Msg)
Entry == [msg : Msg, gid : Gid]
Kind == {"mo", "mt", "report", "dlr", "pdu"}
Item == [msg : Msg, gid : Gid, kind : Kind]

VARIABLES
  config,    \* the scenario of this behaviour, never changed
  ids,       \* <prefix>:id of each store
  list,      \* <prefix>:queue of each store, the head first
  index,     \* <prefix>:esmes of each store
  pduList,   \* <pdu-table>:<account>
  pduIndex,  \* <pdu-table>:esmes
  dlrList,   \* <dlr-table>:<account>; <dlr-table>:esmes holds every account
             \* that another program has put one there for
  add,       \* how far add_message has come with each message
  gid,       \* the global_id it was given
  pending,   \* smpp_database->pending_msg: global_id -> message
  pass,      \* the pass each requeue thread is in
  flight,    \* items handed over, whose callback has not run yet
  ended,     \* how each message has ended
  faults

storeVars == <<ids, list, index>>
pduVars == <<pduList, pduIndex>>
addVars == <<add, gid>>
vars == <<config, storeVars, pduVars, dlrList, addVars, pending, pass, flight,
          ended, faults>>

\* One pass of a requeue thread.  items: popped, still to be looked at;
\* claimed: accepted, still to be handed over; picked, empty: the counters of
\* smpp_database_redis_get_stored; some: batch_picked > 0.
Idle == [pc |-> "idle", kind |-> "mo", acct |-> NoAccount, limit |-> 0,
         picked |-> 0, empty |-> 0, some |-> FALSE, items |-> <<>>,
         claimed |-> <<>>]
Thread == {"mover", "requeue"}
PassPc == {"idle", "pdu", "llen", "srem", "dlr", "pop", "item", "deliver"}

TypeOK ==
  /\ config \in Scenarios
  /\ ids \in [Table -> Gid]
  /\ list \in [Table -> Seq(Entry)] /\ index \in [Table -> SUBSET Account]
  /\ pduList \in [Account -> Seq(Msg)] /\ pduIndex \subseteq Account
  /\ dlrList \in [Account -> Seq(TableDlr)]
  /\ add \in [Msg -> {"new", "push", "index", "ok", "failed"}]
  /\ gid \in [Msg -> Gid] /\ pending \in [Gid -> Msg \cup {NoMsg}]
  /\ \A t \in Thread :
       /\ pass[t].pc \in PassPc /\ pass[t].kind \in Kind
       /\ pass[t].picked \in 0 .. pass[t].limit /\ pass[t].empty \in 0 .. MaxEmpty
       /\ pass[t].items \in Seq(Entry) /\ pass[t].claimed \in Seq(Item)
  /\ flight \subseteq [msg : Msg, gid : Gid, kind : Kind, st : {"sent", "move", "moved"}]
  /\ ended \in [Msg -> {"no", "done", "dropped", "fault"}]
  /\ faults \in 0 .. config.faults

DlrsOf(a) == {m \in config.offered \cap TableDlr : AccountOf[m] = a}

Init ==
  /\ config \in Scenarios
  /\ ids = [t \in Table |-> 0]
  /\ list = [t \in Table |-> <<>>] /\ index = [t \in Table |-> {}]
  /\ pduList = [a \in Account |-> <<>>] /\ pduIndex = {}
  /\ dlrList = [a \in Account |-> SetToSeq(DlrsOf(a))]
  /\ add = [m \in Msg |-> "new"] /\ gid = [m \in Msg |-> 0]
  /\ pending = [g \in Gid |-> NoMsg]
  /\ pass = [t \in Thread |-> Idle]
  /\ flight = {} /\ ended = [m \in Msg |-> "no"] /\ faults = 0

-----------------------------------------------------------------------------
(* Redis commands *)

Fault == faults < config.faults /\ faults' = faults + 1

LPush(t, e) == list' = [list EXCEPT ![t] = <<e>> \o @]

\* LPOP key n
Popped(s, n) == SubSeq(s, 1, IF n < Len(s) THEN n ELSE Len(s))
Rest(s, n) == SubSeq(s, (IF n < Len(s) THEN n ELSE Len(s)) + 1, Len(s))

-----------------------------------------------------------------------------
(* smpp_database_redis_add_message *)

\* INCR; without a reply the message gets the number 0.
AddIncr(m) ==
  /\ m \in config.offered \ TableDlr /\ add[m] = "new"
  /\ \/ /\ ids' = [ids EXCEPT ![TableOf(m)] = @ + 1]
        /\ gid' = [gid EXCEPT ![m] = ids[TableOf(m)] + 1]
        /\ UNCHANGED faults
     \/ /\ Fault /\ UNCHANGED <<ids, gid>>
  /\ add' = [add EXCEPT ![m] = "push"]
  /\ UNCHANGED <<config, list, index, pduVars, dlrList, pending, pass, flight, ended>>

AddPush(m) ==
  /\ add[m] = "push"
  /\ \/ /\ LPush(TableOf(m), [msg |-> m, gid |-> gid[m]])
        /\ add' = [add EXCEPT ![m] = "index"]
        /\ UNCHANGED faults
     \/ /\ Fault
        /\ add' = [add EXCEPT ![m] = "failed"]
        /\ UNCHANGED list
  /\ UNCHANGED <<config, ids, index, pduVars, dlrList, gid, pending, pass, flight,
                 ended>>

\* smpp_redis_track_store_esme: SADD, whose reply is not looked at.
AddIndex(m) ==
  /\ add[m] = "index"
  /\ \/ /\ index' = [index EXCEPT ![TableOf(m)] = @ \cup {AccountOf[m]}]
        /\ UNCHANGED faults
     \/ Fault /\ UNCHANGED index
  /\ add' = [add EXCEPT ![m] = "ok"]
  /\ UNCHANGED <<config, ids, list, pduVars, dlrList, gid, pending, pass, flight,
                 ended>>

-----------------------------------------------------------------------------
(* smpp_database_redis_get_stored *)

\* smpp_redis_store_matches: the sms_type, and the account if one is asked for
Matches(p, m) ==
  CASE p.kind = "mo" -> m \in Mo
    [] p.kind = "mt" -> m \in Mt
    [] p.kind = "report" -> m \in Report /\ AccountOf[m] = p.acct
    [] OTHER -> FALSE

PassTable(p) == IF p.kind = "mt" THEN "queue" ELSE "store"

GetStored(p, kind, limit) ==
  [p EXCEPT !.pc = "pop", !.kind = kind, !.limit = limit, !.picked = 0,
            !.empty = 0, !.some = FALSE]

\* The loop is left, its counters are forgotten.
Handing(p) == [p EXCEPT !.pc = "deliver", !.limit = 0, !.picked = 0, !.empty = 0,
                        !.some = FALSE]

\* The loop: pop what may still be picked, until the limit is reached, the
\* list is empty, or max_empty_batches batches held nothing that matched.
LPop(t) ==
  LET p == pass[t]
      key == PassTable(p)
      n == p.limit - p.picked
      more == p.picked < p.limit /\ p.empty < MaxEmpty /\ list[key] # <<>>
  IN /\ p.pc = "pop"
     /\ \/ /\ more
           /\ list' = [list EXCEPT ![key] = Rest(@, n)]
           /\ pass' = [pass EXCEPT ![t].items = Popped(list[key], n),
                                   ![t].pc = "item", ![t].some = FALSE]
        \/ /\ ~more
           /\ pass' = [pass EXCEPT ![t] = Handing(p)]
           /\ UNCHANGED list
     /\ UNCHANGED <<config, ids, index, pduVars, dlrList, addVars, pending, flight,
                    ended, faults>>

\* smpp_redis_claim_store_message for the next popped entry: it is recorded
\* under its number, or goes back to the head of the list.
ClaimOrReturn(t) ==
  LET p == pass[t]
      e == Head(p.items)
  IN /\ p.pc = "item" /\ p.items # <<>>
     /\ \/ /\ Matches(p, e.msg)
           /\ pending' = [pending EXCEPT ![e.gid] = e.msg]
           /\ pass' = [pass EXCEPT ![t].items = Tail(@), ![t].some = TRUE,
                         ![t].picked = @ + 1, ![t].claimed = Append(@,
                           [msg |-> e.msg, gid |-> e.gid, kind |-> p.kind])]
           /\ UNCHANGED <<list, ended, faults>>
        \/ /\ ~Matches(p, e.msg)
           /\ \/ LPush(PassTable(p), e) /\ UNCHANGED <<ended, faults>>
              \/ Fault /\ ended' = [ended EXCEPT ![e.msg] = "fault"] /\ UNCHANGED list
           /\ pass' = [pass EXCEPT ![t].items = Tail(@)]
           /\ UNCHANGED pending
     /\ UNCHANGED <<config, ids, index, pduVars, dlrList, addVars, flight>>

\* Mutant: a batch in which nothing matched is not counted.
BatchEndUncounted(t) ==
  /\ pass[t].pc = "item" /\ pass[t].items = <<>>
  /\ pass' = [pass EXCEPT ![t].pc = "pop"]
  /\ UNCHANGED <<config, storeVars, pduVars, dlrList, addVars, pending, flight, ended,
                 faults>>

\* Batches in which nothing matched are counted.
BatchEnd(t) ==
  /\ pass[t].pc = "item" /\ pass[t].items = <<>>
  /\ pass' = [pass EXCEPT ![t].pc = "pop",
                ![t].empty = IF pass[t].some THEN 0 ELSE @ + 1]
  /\ UNCHANGED <<config, storeVars, pduVars, dlrList, addVars, pending, flight, ended,
                 faults>>

-----------------------------------------------------------------------------
(* The passes *)

\* smpp_bearerbox_requeue_thread drains MT messages first, then MO messages.
MoverStart ==
  /\ pass["mover"].pc = "idle"
  /\ pass' = [pass EXCEPT !["mover"] = GetStored(Idle, "mt", Batch)]
  /\ UNCHANGED <<config, storeVars, pduVars, dlrList, addVars, pending, flight, ended,
                 faults>>

\* smpp_database_redis_get_esmes_with_queued
Polled ==
  pduIndex \cup index["store"] \cup index["queue"] \cup {a \in Account : DlrsOf(a) # {}}

\* smpp_esme_global_get_queued for a receiver with room
RequeueStart(a, room) ==
  /\ pass["requeue"].pc = "idle" /\ a \in Polled
  /\ pass' = [pass EXCEPT !["requeue"] =
                [Idle EXCEPT !.pc = "pdu", !.acct = a, !.limit = room]]
  /\ UNCHANGED <<config, storeVars, pduVars, dlrList, addVars, pending, flight, ended,
                 faults>>

\* smpp_database_redis_get_stored_pdu: LPOP ...
PopPdus ==
  LET p == pass["requeue"]
      found == Popped(pduList[p.acct], p.limit)
      left == p.limit - Len(found)
  IN /\ p.pc = "pdu"
     /\ pduList' = [pduList EXCEPT ![p.acct] = Rest(@, p.limit)]
     /\ pass' = [pass EXCEPT
          !["requeue"].claimed =
             [i \in 1 .. Len(found) |-> [msg |-> found[i], gid |-> 0, kind |-> "pdu"]],
          !["requeue"].limit = left,
          !["requeue"].pc = CASE found = <<>> -> "llen"
                              [] left = 0 -> "deliver"
                              [] OTHER -> "dlr"]
     /\ UNCHANGED <<config, storeVars, pduIndex, dlrList, addVars, pending, flight,
                    ended, faults>>

\* ... and when there was nothing, LLEN ...
CheckEmpty ==
  /\ pass["requeue"].pc = "llen"
  /\ pass' = [pass EXCEPT !["requeue"].pc =
                IF pduList[pass["requeue"].acct] = <<>> THEN "srem" ELSE "dlr"]
  /\ UNCHANGED <<config, storeVars, pduVars, dlrList, addVars, pending, flight, ended,
                 faults>>

\* Mutant: the account is taken out of the primary store's set as well.
UnindexStore ==
  /\ pass["requeue"].pc = "srem"
  /\ pduIndex' = pduIndex \ {pass["requeue"].acct}
  /\ index' = [index EXCEPT !["store"] = @ \ {pass["requeue"].acct}]
  /\ pass' = [pass EXCEPT !["requeue"].pc = "dlr"]
  /\ UNCHANGED <<config, ids, list, pduList, dlrList, addVars, pending, flight, ended,
                 faults>>

\* ... and, of what LLEN said, SREM.
Unindex ==
  /\ pass["requeue"].pc = "srem"
  /\ pduIndex' = pduIndex \ {pass["requeue"].acct}
  /\ pass' = [pass EXCEPT !["requeue"].pc = "dlr"]
  /\ UNCHANGED <<config, storeVars, pduList, dlrList, addVars, pending, flight, ended,
                 faults>>

\* smpp_database_redis_get_dlrs, then get_stored with what is left of the
\* limit; a limit of 0 stands for SMPP_DATABASE_BATCH_LIMIT.
PopDlrs ==
  LET p == pass["requeue"]
      found == Popped(dlrList[p.acct], p.limit)
      left == p.limit - Len(found)
  IN /\ p.pc = "dlr"
     /\ dlrList' = [dlrList EXCEPT ![p.acct] = Rest(@, p.limit)]
     /\ pass' = [pass EXCEPT !["requeue"] =
          GetStored([p EXCEPT !.claimed = @ \o
             [i \in 1 .. Len(found) |-> [msg |-> found[i], gid |-> 0, kind |-> "dlr"]]],
             "report", IF left = 0 THEN Batch ELSE left)]
     /\ UNCHANGED <<config, storeVars, pduVars, addVars, pending, flight, ended, faults>>

PassEnd(t) ==
  /\ pass[t].pc = "deliver" /\ pass[t].claimed = <<>>
  /\ pass' = [pass EXCEPT ![t] =
                IF @.kind = "mt" THEN GetStored(Idle, "mo", Batch) ELSE Idle]
  /\ UNCHANGED <<config, storeVars, pduVars, dlrList, addVars, pending, flight, ended,
                 faults>>

-----------------------------------------------------------------------------
(* Handing over, callbacks *)

\* smpp_database_redis_remove(..., 0): the entry was popped, only the claim goes.
RemovePending(g) == pending' = [pending EXCEPT ![g] = NoMsg]

\* Mutant: the claim is dropped and the entry is not pushed back.
RemoveTemporaryNoPush(g) ==
  /\ RemovePending(g)
  /\ UNCHANGED <<list, index, ended, faults>>

\* smpp_database_redis_remove(..., 1): LPUSH of whatever is recorded under
\* this number, nothing if the number is not recorded.
RemoveTemporary(g) ==
  LET m == pending[g]
  IN /\ RemovePending(g)
     /\ \/ /\ m = NoMsg
           /\ UNCHANGED <<list, index, ended, faults>>
        \/ /\ m # NoMsg
           /\ LPush(TableOf(m), [msg |-> m, gid |-> g])
           /\ index' = [index EXCEPT ![TableOf(m)] = @ \cup {AccountOf[m]}]
           /\ UNCHANGED <<ended, faults>>
        \/ /\ m # NoMsg /\ Fault
           /\ ended' = [ended EXCEPT ![m] = "fault"]
           /\ UNCHANGED <<list, index>>

InFlight(i, st) == [msg |-> i.msg, gid |-> i.gid, kind |-> i.kind, st |-> st]

\* The next claimed item has a receiver (an MT message: goes to bearerbox).
HandOver(t) ==
  LET p == pass[t]
  IN /\ p.pc = "deliver" /\ p.claimed # <<>>
     /\ flight' = flight \cup {InFlight(Head(p.claimed), "sent")}
     /\ pass' = [pass EXCEPT ![t].claimed = Tail(@)]
     /\ UNCHANGED <<config, storeVars, pduVars, dlrList, addVars, pending, ended,
                    faults>>

\* It has none: an MO message is put back; a report or DLR is called back with
\* RMSGQFUL, which moves it to the PDU list; a PDU is called back and is gone.
NoReceiver(t) ==
  LET p == pass[t]
      i == Head(p.claimed)
  IN /\ p.pc = "deliver" /\ p.claimed # <<>> /\ i.kind # "mt"
     /\ \/ /\ i.kind = "mo"
           /\ RemoveTemporary(i.gid)
           /\ UNCHANGED flight
        \/ /\ i.kind \in {"report", "dlr"}
           /\ flight' = flight \cup {InFlight(i, "move")}
           /\ UNCHANGED <<list, index, pending, ended, faults>>
        \/ /\ i.kind = "pdu"
           /\ ended' = [ended EXCEPT ![i.msg] = "dropped"]
           /\ UNCHANGED <<list, index, pending, flight, faults>>
     /\ pass' = [pass EXCEPT ![t].claimed = Tail(@)]
     /\ UNCHANGED <<config, ids, pduVars, dlrList, addVars>>

\* The router has no account for an MO message.
Unrouted ==
  LET p == pass["mover"]
      i == Head(p.claimed)
  IN /\ p.pc = "deliver" /\ p.claimed # <<>> /\ i.kind = "mo"
     /\ RemovePending(i.gid)
     /\ ended' = [ended EXCEPT ![i.msg] = "done"]
     /\ pass' = [pass EXCEPT !["mover"].claimed = Tail(@)]
     /\ UNCHANGED <<config, storeVars, pduVars, dlrList, addVars, flight, faults>>

\* Delivered, or refused for good by bearerbox.
Delivered(f) ==
  /\ f.st = "sent"
  /\ IF f.kind \in {"mo", "mt", "report"} THEN RemovePending(f.gid) ELSE UNCHANGED pending
  /\ ended' = [ended EXCEPT ![f.msg] = "done"]
  /\ flight' = flight \ {f}
  /\ UNCHANGED <<config, storeVars, pduVars, dlrList, addVars, pass, faults>>

\* Refused, timed out or its ESME freed; bearerbox could not take it for now.
\* An MO or MT message is not put back and keeps its claim, a PDU is gone.
NotDelivered(f) ==
  /\ f.st = "sent"
  /\ \/ /\ f.kind \in {"mo", "mt", "pdu"}
        /\ ended' = [ended EXCEPT ![f.msg] = "dropped"]
        /\ flight' = flight \ {f}
     \/ /\ f.kind \in {"report", "dlr"}
        /\ flight' = (flight \ {f}) \cup {[f EXCEPT !.st = "move"]}
        /\ UNCHANGED ended
  /\ UNCHANGED <<config, storeVars, pduVars, dlrList, addVars, pending, pass, faults>>

\* smpp_esme_db_queue_callback with a failure: smpp_database_redis_add_pdu,
\* LPUSH first, ...
MovePush(f) ==
  LET a == AccountOf[f.msg]
  IN /\ f.st = "move"
     /\ \/ /\ pduList' = [pduList EXCEPT ![a] = <<f.msg>> \o @]
           /\ flight' = (flight \ {f}) \cup {[f EXCEPT !.st = "moved"]}
           /\ UNCHANGED <<pending, ended, faults>>
        \/ /\ Fault
           /\ ended' = [ended EXCEPT ![f.msg] = "fault"]
           /\ IF f.kind = "report" THEN RemovePending(f.gid) ELSE UNCHANGED pending
           /\ flight' = flight \ {f}
           /\ UNCHANGED pduList
     /\ UNCHANGED <<config, storeVars, pduIndex, dlrList, addVars, pass>>

\* ... then SADD, and the claim is dropped.
MoveIndex(f) ==
  /\ f.st = "moved"
  /\ \/ pduIndex' = pduIndex \cup {AccountOf[f.msg]} /\ UNCHANGED faults
     \/ Fault /\ UNCHANGED pduIndex
  /\ IF f.kind = "report" THEN RemovePending(f.gid) ELSE UNCHANGED pending
  /\ flight' = flight \ {f}
  /\ UNCHANGED <<config, storeVars, pduList, dlrList, addVars, pass, ended>>

-----------------------------------------------------------------------------
(* Crash *)

\* What only the server's memory holds
InMemory ==
  {m \in Msg :
     \/ \E t \in Thread : \/ \E i \in DOMAIN pass[t].items : pass[t].items[i].msg = m
                          \/ \E i \in DOMAIN pass[t].claimed : pass[t].claimed[i].msg = m
     \/ \E f \in flight : f.msg = m /\ f.st # "moved"}

\* The lists survive, what was popped does not.  A message whose insertion was
\* cut short is not acknowledged and comes again as another one.
Crash ==
  /\ Fault
  /\ ended' = [m \in Msg |-> IF m \in InMemory THEN "fault" ELSE ended[m]]
  /\ add' = [m \in Msg |-> CASE add[m] = "push" -> "failed"
                             [] add[m] = "index" -> "ok"
                             [] OTHER -> add[m]]
  /\ pass' = [t \in Thread |-> Idle]
  /\ flight' = {} /\ pending' = [g \in Gid |-> NoMsg]
  /\ UNCHANGED <<config, storeVars, pduVars, dlrList, gid>>

-----------------------------------------------------------------------------

PassStep(t) ==
  \/ LPop(t) \/ ClaimOrReturn(t) \/ BatchEnd(t) \/ PassEnd(t)
  \/ HandOver(t) \/ NoReceiver(t)
  \/ t = "mover" /\ Unrouted
  \/ t = "requeue" /\ (PopPdus \/ CheckEmpty \/ Unindex \/ PopDlrs)

Next ==
  \/ \E m \in Msg : AddIncr(m) \/ AddPush(m) \/ AddIndex(m)
  \/ MoverStart
  \/ \E a \in Account, room \in config.rooms : RequeueStart(a, room)
  \/ \E t \in Thread : PassStep(t)
  \/ \E f \in flight : Delivered(f) \/ NotDelivered(f) \/ MovePush(f) \/ MoveIndex(f)
  \/ Crash

Spec == Init /\ [][Next]_vars

\* A thread that has begun a pass goes on with it.
Fairness == \A t \in Thread : WF_vars(PassStep(t))

FairSpec == Spec /\ Fairness

-----------------------------------------------------------------------------
(* Safety *)

Count(s, m) == Cardinality({i \in DOMAIN s : s[i].msg = m})

\* The number of copies of a message, in Redis and in memory
Copies(m) ==
  Count(list["store"], m) + Count(list["queue"], m)
  + Cardinality({i \in DOMAIN pduList[AccountOf[m]] : pduList[AccountOf[m]][i] = m})
  + Cardinality({i \in DOMAIN dlrList[AccountOf[m]] : dlrList[AccountOf[m]][i] = m})
  + Count(pass["mover"].items, m) + Count(pass["mover"].claimed, m)
  + Count(pass["requeue"].items, m) + Count(pass["requeue"].claimed, m)
  + Cardinality({f \in flight : f.msg = m /\ f.st # "moved"})

Stored(m) == m \in TableDlr \cap config.offered \/ add[m] \in {"index", "ok"}

\* pending_msg has one entry per number, and each store counts for itself.
SharedNumber(m) ==
  \E n \in Msg \ {m} : Stored(n) /\ gid[n] = gid[m] /\ TableDlr \cap {m, n} = {}

\* LPOP, the return of entries that do not match and the requeueing of what
\* found no receiver never multiply a message, and never lose one that was
\* stored and has not ended, except an MO message whose claim was dropped in
\* the name of a message of the other store with the same number.  Messages
\* that share the number 0 are left out: INCR gave no reply for any of them,
\* and returning one returns whichever of them was recorded last.
OneCopy ==
  \A m \in Msg :
    gid[m] # 0 \/ ~SharedNumber(m) =>
      /\ Copies(m) <= 1
      /\ Stored(m) /\ ended[m] = "no" => Copies(m) = 1 \/ (m \in Mo /\ SharedNumber(m))
      /\ ended[m] # "no" => Copies(m) = 0

\* While no command has failed, an account with a stored report, PDU or DLR is
\* among those the requeue thread asks for, once the insertion is over: the
\* SREM of an account whose PDU list was empty a moment ago may run after the
\* SADD for a new PDU, and is harmless only because the sets of the stores are
\* never shortened.
WaitingIsPolled ==
  faults = 0 =>
    \A m \in Report \cup TableDlr :
      Stored(m) /\ add[m] # "index" /\ ended[m] = "no" => AccountOf[m] \in Polled

-----------------------------------------------------------------------------
(* Liveness *)

\* A pass ends, although get_stored puts what does not match back where it
\* pops next, and other threads add and return entries all the while.
PassEnds == \A t \in Thread : pass[t].pc # "idle" ~> pass[t].pc = "idle"

=============================================================================
