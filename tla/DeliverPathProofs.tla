-------------------------- MODULE DeliverPathProofs --------------------------
(***************************************************************************)
(* Proofs about the deliver path, for any messages, binds, table sizes and *)
(* limits, and any number of faults: what bearerbox was told is safe is    *)
(* accounted for, a row of one part and a stored PDU are on their way only *)
(* once, and max-open-acks is passed by at most two PDUs.                  *)
(***************************************************************************)
EXTENDS DeliverPath, FiniteSetTheorems, TLAPS

USE KindAssumption, PartsAssumption, ScenarioAssumption, LimitAssumption, BoundAssumption

-----------------------------------------------------------------------------
(* The inductive invariant *)

SourcesOf(t) ==
  IF t = "reader" THEN {"box"} ELSE IF t = "mover" THEN {"mo"} ELSE {"row", "dlr", "pdu"}

FromRow(i) == i.src \in {"mo", "row"}

\* What the source of an item or PDU says about its message and its number.
WellFormed(i) ==
  /\ i.src = "box" => i.msg \in Dlr \cup Mo
  /\ i.src = "mo" => i.msg \in Mo /\ i.gid \in Gid
  /\ i.src = "row" => i.msg \in Dlr /\ i.gid \in Gid
  /\ i.src = "dlr" => i.msg \in TableDlr
  /\ i.src = "pdu" => i.gid \in Pid

\* The row it was read from, of tables r and d, still holds it or is gone.
Linked(i, r, d) ==
  /\ FromRow(i) => r[i.gid] \in {i.msg, NoMsg}
  /\ i.src = "pdu" => d[i.gid] \in {UnitOf(i), NoUnit}

GoodItem(i, t, c) ==
  /\ i \in Item /\ i.src \in SourcesOf(t) /\ i.msg \in c.offered
  /\ IF i.src \in {"box", "mo"} THEN i.part = 0 ELSE i.part \in PartsOf(i.msg)
  /\ WellFormed(i)

GoodPdu(p, c) ==
  /\ p \in Pdu /\ p.msg \in c.offered /\ p.part \in PartsOf(p.msg)
  /\ p.st \in Open => p.esme \in Esme
  /\ p.st \notin Open => p.src \in {"row", "dlr"}
  /\ WellFormed(p)

\* Threads at rest hold nothing, others a well-formed item.
ThreadInv ==
  \A t \in Thread :
    /\ \A i \in batch[t] : GoodItem(i, t, config)
    /\ pc[t] = "idle" => hand[t] = NoItem /\ at[t] = NoEsme
    /\ pc[t] # "idle" => GoodItem(hand[t], t, config)
    /\ pc[t] = "add" => at[t] \in Esme
    /\ pc[t] = "ack" => t = "reader"

FlightInv == \A p \in flight : GoodPdu(p, config)

TableInv ==
  /\ \A g \in Gid : rows[g] # NoMsg => rows[g] \in (Dlr \cup Mo) \cap config.offered
  /\ \A p \in Pid : pdus[p] # NoUnit => pdus[p][1] \in config.offered
  /\ dlrs \subseteq config.offered

LinkInv == \A i \in Held : Linked(i, rows, pdus)

BaseInv == TypeOK /\ ThreadInv /\ FlightInv /\ TableInv /\ LinkInv

\* A message bearerbox may forget, by the tables r and d and the parts G that
\* were accepted and U that were given up.
SafeParts(m, r, d, U) ==
  {k \in PartsOf(m) : (\E g \in Gid : r[g] = m) \/ (\E p \in Pid : d[p] = <<m, k>>) \/ <<m, k>> \in U}
Safe(m, c, r, d, G, U) ==
  \/ \E k \in PartsOf(m) : <<m, k>> \in G
  \/ /\ SafeParts(m, r, d, U) # {}
     /\ m \in Mo /\ ~c.drop => SafeParts(m, r, d, U) = PartsOf(m)

\* An answered PDU is recorded as answered; once its PDU is inserted, or that has
\* failed, a moved report does not depend on its row any more.
Answered(p, d, G, U) ==
  /\ p.st = "acked" => UnitOf(p) \in G
  /\ p.st = "nacked" => UnitOf(p) \in U
  /\ p.st = "moved" => UnitOf(p) \in G \cup U \/ \E q \in Pid : d[q] = UnitOf(p)

AccountInv ==
  /\ \A p \in flight : Answered(p, pdus, got, givenUp)
  /\ pc["reader"] = "ack" => Safe(hand["reader"].msg, config, rows, pdus, got, givenUp)
  /\ \A m \in Dlr \cup Mo : box[m] = "ok" => Safe(m, config, rows, pdus, got, givenUp)

\* What has a claim of its own: a stored PDU and a row of one part.  Two that
\* have the same row clash if one of them is such.
Sole(i) == i.src = "pdu" \/ (FromRow(i) /\ Parts[i.msg] = 1)
SameRow(i, j) ==
  /\ i.gid = j.gid
  /\ (FromRow(i) /\ FromRow(j)) \/ (i.src = "pdu" /\ j.src = "pdu")
Clash(i, j) == SameRow(i, j) /\ (Sole(i) \/ Sole(j))
Claimed(i, rowClaims, pduClaims) ==
  Sole(i) => i.gid \in IF i.src = "pdu" THEN pduClaims ELSE rowClaims

\* It is claimed while somebody has it, and only one has it.
ClaimInv == \A i \in Held : Claimed(i, pending, pendPdu)
OnceInv ==
  /\ \A p, q \in flight : Clash(p, q) => p = q
  /\ \A p \in flight, t \in Thread : ~Clash(p, hand[t])
  /\ \A p \in flight, t \in Thread : \A i \in batch[t] : ~Clash(p, i)
  /\ \A t, u \in Thread : Clash(hand[t], hand[u]) => t = u
  /\ \A t, u \in Thread : \A i \in batch[u] : ~Clash(hand[t], i)
  /\ \A t, u \in Thread : \A i \in batch[t], j \in batch[u] : Clash(i, j) => t = u /\ i = j

\* The open acks of e among the PDUs F, and the threads about to add one, by the
\* program counters P and the chosen receivers A.  While messages have one part
\* the two together pass max-open-acks by at most two.
AcksOf(F, e) == {p \in F : p.esme = e /\ p.st \in Open}
AddersOf(P, A, e) == {t \in Thread : P[t] = "add" /\ A[t] = e}
AcksFit(c, F, P, A) ==
  (\A m \in c.offered : Parts[m] = 1) =>
    /\ IsFiniteSet(F)
    /\ \A e \in Esme : Cardinality(AcksOf(F, e)) + Cardinality(AddersOf(P, A, e)) <= c.acks + 2
AcksInv == AcksFit(config, flight, pc, at)

-----------------------------------------------------------------------------
(* Items, PDUs and what becomes of them *)

\* An unused number is one of those to choose from.
LEMMA UnusedIn ==
  ASSUME NEW S, S # {}
  PROVE  Unused(S) \in S
  BY DEF Unused

\* An item of another state, or a PDU made of an item, with the same origin.
SameOrigin(j, i) ==
  /\ j.src = i.src /\ j.msg = i.msg /\ j.gid = i.gid
  /\ j.src = "pdu" => j.part = i.part

\* The links depend on the origin alone, and deleting rows keeps them.
LEMMA LinkKept ==
  ASSUME NEW i, NEW j, NEW r, NEW d, NEW r2, NEW d2,
         SameOrigin(j, i), WellFormed(i), Linked(i, r, d),
         \A g \in Gid : r2[g] \in {r[g], NoMsg},
         \A p \in Pid : d2[p] \in {d[p], NoUnit}
  PROVE  Linked(j, r2, d2)
  <1>1. FromRow(j) => r2[j.gid] \in {j.msg, NoMsg}
    <2>1. FromRow(j) => j.gid \in Gid
      BY DEF FromRow, WellFormed, SameOrigin
    <2> QED
      BY <2>1 DEF FromRow, Linked, SameOrigin
  <1>2. j.src = "pdu" => d2[j.gid] \in {UnitOf(j), NoUnit}
    <2>1. j.src = "pdu" => j.gid \in Pid
      BY DEF WellFormed, SameOrigin
    <2> QED
      BY <2>1 DEF Linked, SameOrigin, UnitOf
  <1> QED
    BY <1>1, <1>2 DEF Linked

\* Clashes depend on the origin alone, and not on the order.
LEMMA ClashKept ==
  ASSUME NEW i, NEW j, NEW k, SameOrigin(j, i)
  PROVE  (Clash(j, k) <=> Clash(i, k)) /\ (Clash(k, j) <=> Clash(k, i)) /\ (Clash(i, k) <=> Clash(k, i))
  BY DEF Clash, SameRow, Sole, FromRow, SameOrigin

\* A thread at rest holds nothing that could clash or be claimed.
LEMMA NoItemFree ==
  /\ \A r, d : Linked(NoItem, r, d)
  /\ \A x : ~Clash(NoItem, x) /\ ~Clash(x, NoItem)
  /\ \A P, Q : Claimed(NoItem, P, Q)
  BY DEF NoItem, Linked, FromRow, Clash, SameRow, Claimed, Sole

\* The PDU made of part k of an item.
LEMMA NewPduIs ==
  ASSUME NEW i, NEW k, NEW e, NEW st, NEW q \in NewPdu(i, k, e, st)
  PROVE  /\ q = [src |-> i.src, msg |-> i.msg, part |-> k, gid |-> i.gid, esme |-> e,
                 st |-> st, copy |-> q.copy]
         /\ q.copy \in 1 .. MaxCopies
         /\ \A r \in NewPdu(i, k, e, st) : r = q
         /\ \A r \in flight : r.src = i.src /\ r.msg = i.msg /\ r.part = k /\ r.gid = i.gid
                                => r.copy # q.copy
  <1> DEFINE used == {p.copy : p \in {r \in flight :
                  r.src = i.src /\ r.msg = i.msg /\ r.part = k /\ r.gid = i.gid}}
             free == (1 .. MaxCopies) \ used
  <1>1. NewPdu(i, k, e, st) = {[src |-> i.src, msg |-> i.msg, part |-> k, gid |-> i.gid, esme |-> e,
          st |-> st, copy |-> c] : c \in IF free = {} THEN {} ELSE {Unused(free)}}
    BY DEF NewPdu
  <1>2. free # {} /\ q = [src |-> i.src, msg |-> i.msg, part |-> k, gid |-> i.gid, esme |-> e,
          st |-> st, copy |-> Unused(free)]
    BY <1>1
  <1>3. Unused(free) \in free
    BY <1>2, UnusedIn
  <1>4. q.copy = Unused(free)
    BY <1>2
  <1>5. \A r \in NewPdu(i, k, e, st) : r = q
    BY <1>1, <1>2
  <1>6. \A r \in flight : r.src = i.src /\ r.msg = i.msg /\ r.part = k /\ r.gid = i.gid => r.copy \in used
    OBVIOUS
  <1> QED
    BY <1>2, <1>3, <1>4, <1>5, <1>6

\* The PDUs of an item of a thread are well formed, and come from it.
LEMMA PdusOfAre ==
  ASSUME NEW t, NEW c, NEW i, GoodItem(i, t, c), NEW e \in Esme \cup {NoEsme}, NEW st \in PduState,
         st \in Open => e \in Esme, st \notin Open => i.src \in {"row", "dlr"},
         NEW q \in PdusOf(i, e, st)
  PROVE  GoodPdu(q, c) /\ SameOrigin(q, i) /\ q.st = st /\ q.esme = e
  <1>1. PICK k \in (IF i.part = 0 THEN PartsOf(i.msg) ELSE {i.part}) : q \in NewPdu(i, k, e, st)
    BY DEF PdusOf
  <1>2. /\ q = [src |-> i.src, msg |-> i.msg, part |-> k, gid |-> i.gid, esme |-> e,
                 st |-> st, copy |-> q.copy]
        /\ q.copy \in 1 .. MaxCopies
    BY <1>1, NewPduIs
  <1>3. i \in Item /\ i.src \in Source /\ i.msg \in Msg /\ i.gid \in {0} \cup Gid \cup Pid
    BY DEF GoodItem, Item
  <1>4. k \in PartsOf(i.msg) /\ k \in PartNo
    BY <1>1, <1>3 DEF GoodItem, PartNo, PartsOf
  <1>5. /\ q.src = i.src /\ q.msg = i.msg /\ q.part = k /\ q.gid = i.gid
        /\ q.esme = e /\ q.st = st
    BY <1>2
  <1>6. q \in Pdu
    BY <1>2, <1>3, <1>4 DEF Pdu
  <1>7. WellFormed(q)
    BY <1>5 DEF GoodItem, WellFormed
  <1>8. i.src = "pdu" => q.part = i.part
    BY <1>1, <1>4, <1>5, <1>3 DEF GoodItem, PartsOf
  <1> QED
    BY <1>4, <1>5, <1>6, <1>7, <1>8 DEF GoodPdu, GoodItem, SameOrigin

\* Held is what is in a batch, in a hand or on its way.
LEMMA HeldIs ==
  /\ \A p \in flight : p \in Held
  /\ \A t \in Thread : hand[t] \in Held /\ \A i \in batch[t] : i \in Held
  /\ \A i \in Held : i \in flight \/ (\E t \in Thread : i \in batch[t]) \/ (\E t \in Thread : i = hand[t])
  <1> DEFINE batches == UNION {batch[t] : t \in Thread}
             hands == {hand[t] : t \in Thread}
  <1>1. Held = flight \cup batches \cup hands
    BY DEF Held
  <1>2. \A i : i \in batches <=> \E t \in Thread : i \in batch[t]
    OBVIOUS
  <1>3. \A i : i \in hands <=> \E t \in Thread : i = hand[t]
    OBVIOUS
  <1> HIDE DEF batches, hands
  <1> QED
    BY <1>1, <1>2, <1>3

\* What is held after a step is on its way, in a batch or in a hand.
LEMMA HeldIsNext ==
  \A i \in Held' : i \in flight' \/ (\E t \in Thread : i \in batch'[t]) \/ (\E t \in Thread : i = hand'[t])
  <1> DEFINE batches == UNION {batch'[t] : t \in Thread}
             hands == {hand'[t] : t \in Thread}
  <1>1. Held' = flight' \cup batches \cup hands
    BY DEF Held
  <1>2. \A i : i \in batches <=> \E t \in Thread : i \in batch'[t]
    OBVIOUS
  <1>3. \A i : i \in hands <=> \E t \in Thread : i = hand'[t]
    OBVIOUS
  <1> HIDE DEF batches, hands
  <1> QED
    BY <1>1, <1>2, <1>3

\* Everything held that is not the empty hand of a thread is well formed.
LEMMA HeldGood ==
  ASSUME BaseInv
  PROVE  \A i \in Held : i # NoItem => WellFormed(i)
  <1> SUFFICES ASSUME NEW i \in Held, i # NoItem
               PROVE  WellFormed(i)
    OBVIOUS
  <1>1. CASE i \in flight
    BY <1>1 DEF BaseInv, FlightInv, GoodPdu
  <1>2. CASE \E t \in Thread : i \in batch[t]
    BY <1>2 DEF BaseInv, ThreadInv, GoodItem
  <1>3. CASE \E t \in Thread : i = hand[t]
    BY <1>3 DEF BaseInv, ThreadInv, GoodItem
  <1> QED
    BY <1>1, <1>2, <1>3, HeldIs

\* A step that neither reads the tables nor inserts keeps the links.
LEMMA LinkStep ==
  ASSUME BaseInv,
         \A p \in flight' : \E i \in Held : i # NoItem /\ SameOrigin(p, i),
         \A t \in Thread : batch'[t] \subseteq batch[t],
         \A t \in Thread : hand'[t] \in Held \cup {NoItem},
         \A g \in Gid : rows'[g] \in {rows[g], NoMsg},
         \A p \in Pid : pdus'[p] \in {pdus[p], NoUnit}
  PROVE  LinkInv'
  <1> SUFFICES ASSUME NEW j \in Held', j # NoItem
               PROVE  Linked(j, rows', pdus')
    BY NoItemFree DEF LinkInv
  <1>1. PICK i \in Held : i # NoItem /\ SameOrigin(j, i)
    <2>1. CASE j \in flight'
      BY <2>1
    <2>2. CASE \E t \in Thread : j \in batch'[t]
      BY <2>2, HeldIs DEF SameOrigin
    <2>3. CASE \E t \in Thread : j = hand'[t]
      BY <2>3 DEF SameOrigin
    <2> QED
      BY <2>1, <2>2, <2>3, HeldIsNext
  <1>2. WellFormed(i) /\ Linked(i, rows, pdus)
    BY <1>1, HeldGood DEF BaseInv, LinkInv
  <1> QED
    BY <1>1, <1>2, LinkKept

\* The parts of a step.
LEMMA FaultStep ==
  ASSUME BaseInv, Fault
  PROVE  faults' \in 0 .. config.faults
  BY DEF BaseInv, TypeOK, TypeBox, Fault

\* smpp_bearerbox_acknowledge changes a message's state within its type.
LEMMA AckStep ==
  ASSUME BaseInv, NEW m \in Msg, NEW s \in {"held", "ok", "failed"}, Acknowledge(m, s)
  PROVE  box' \in [Msg -> {"held", "out", "ok", "failed"}]
  BY DEF BaseInv, TypeOK, TypeBox, Acknowledge

\* The DELETE of a row empties rows at most, and may fail.
LEMMA RemoveStep ==
  ASSUME BaseInv, NEW g, Remove(g)
  PROVE  /\ \A h \in Gid : rows'[h] \in {rows[h], NoMsg}
         /\ rows' \in [Gid -> Msg \cup {NoMsg}] /\ pending' \subseteq Gid
         /\ faults' \in 0 .. config.faults
  <1>1. CASE rows' = [rows EXCEPT ![g] = NoMsg] /\ UNCHANGED faults
    BY <1>1 DEF BaseInv, TypeOK, TypeBox, TypeTables, Remove
  <1>2. CASE Fault /\ UNCHANGED rows
    BY <1>2, FaultStep DEF BaseInv, TypeOK, TypeBox, TypeTables, Remove
  <1> QED
    BY <1>1, <1>2 DEF Remove

\* A thread that is done has its hand empty; nobody else is concerned.
LEMMA DoneStep ==
  ASSUME BaseInv, NEW t \in Thread, Done(t), config' = config
  PROVE  /\ ThreadInv' /\ TypeWork'
         /\ \A u \in Thread : batch'[u] = batch[u] /\ hand'[u] = (IF u = t THEN NoItem ELSE hand[u])
         /\ \A u \in Thread : pc'[u] = (IF u = t THEN "idle" ELSE pc[u])
         /\ \A u \in Thread : at'[u] = (IF u = t THEN NoEsme ELSE at[u])
         /\ \A u \in Thread : batch'[u] \subseteq batch[u] /\ hand'[u] \in Held \cup {NoItem}
  <1>1. TypeWork'
    BY DEF BaseInv, TypeOK, TypeWork, Done
  <1>2. /\ \A u \in Thread : batch'[u] = batch[u] /\ hand'[u] = (IF u = t THEN NoItem ELSE hand[u])
        /\ \A u \in Thread : pc'[u] = (IF u = t THEN "idle" ELSE pc[u])
        /\ \A u \in Thread : at'[u] = (IF u = t THEN NoEsme ELSE at[u])
    BY DEF BaseInv, TypeOK, TypeWork, Done
  <1>3. ThreadInv'
    BY <1>2 DEF BaseInv, ThreadInv
  <1>4. \A u \in Thread : batch'[u] \subseteq batch[u] /\ hand'[u] \in Held \cup {NoItem}
    BY <1>2, HeldIs
  <1> QED
    BY <1>1, <1>2, <1>3, <1>4

\* Deleting rows keeps what the tables hold well formed.
LEMMA TableStep ==
  ASSUME BaseInv, config' = config, dlrs' \subseteq dlrs,
         \A g \in Gid : rows'[g] \in {rows[g], NoMsg},
         \A p \in Pid : pdus'[p] \in {pdus[p], NoUnit}
  PROVE  TableInv'
  <1>1. \A g \in Gid : rows'[g] # NoMsg => rows'[g] \in (Dlr \cup Mo) \cap config.offered
    BY DEF BaseInv, TableInv
  <1>2. \A p \in Pid : pdus'[p] # NoUnit => pdus'[p][1] \in config.offered
    BY DEF BaseInv, TableInv
  <1> QED
    BY <1>1, <1>2 DEF BaseInv, TableInv

\* Nothing in flight changes but what is left out.
LEMMA FlightStep ==
  ASSUME BaseInv, config' = config, flight' \subseteq flight
  PROVE  /\ FlightInv' /\ flight' \subseteq Pdu
         /\ \A p \in flight' : \E i \in Held : i # NoItem /\ SameOrigin(p, i)
  <1>1. \A p \in flight : p # NoItem
    BY DEF BaseInv, FlightInv, GoodPdu, Pdu, NoItem
  <1> QED
    BY <1>1, HeldIs DEF BaseInv, FlightInv, TypeOK, SameOrigin

-----------------------------------------------------------------------------
(* Every action keeps BaseInv *)

\* Connections come and go.
LEMMA BaseConnections ==
  ASSUME BaseInv, (\E e \in Esme : Bind(e) \/ Disconnect(e)) \/ BoxConnect \/ BoxLost
  PROVE  BaseInv'
  <1>1. UNCHANGED <<config, workVars, flight, rowVars, pduVars, dlrs, history>>
    BY DEF Bind, Disconnect, BoxConnect, BoxLost, boxVars
  <1>2. TypeBox'
    <2>1. CASE \E e \in Esme : Bind(e) \/ Disconnect(e)
      BY <2>1 DEF BaseInv, TypeOK, TypeBox, Bind, Disconnect, boxVars
    <2>2. CASE BoxConnect
      BY <2>2 DEF BaseInv, TypeOK, TypeBox, BoxConnect
    <2>3. CASE BoxLost
      <3>1. faults' \in 0 .. config.faults
        BY <2>3, FaultStep DEF BoxLost
      <3>2. box' \in [Msg -> {"held", "out", "ok", "failed"}]
        BY <2>3 DEF BaseInv, TypeOK, TypeBox, BoxLost
      <3> QED
        BY <2>3, <3>1, <3>2 DEF BaseInv, TypeOK, TypeBox, BoxLost
    <2> QED
      BY <2>1, <2>2, <2>3
  <1>3. TypeWork' /\ TypeTables' /\ flight' \subseteq Pdu
    BY <1>1 DEF BaseInv, TypeOK, TypeWork, TypeTables, workVars, rowVars, pduVars, history
  <1>4. ThreadInv' /\ FlightInv' /\ TableInv'
    BY <1>1 DEF BaseInv, ThreadInv, FlightInv, TableInv, workVars, rowVars, pduVars
  <1>5. LinkInv'
    BY <1>1 DEF BaseInv, LinkInv, Held, workVars, rowVars, pduVars
  <1> QED
    BY <1>2, <1>3, <1>4, <1>5 DEF BaseInv, TypeOK

\* A thread takes up something and looks for a receiver.
LEMMA BaseChoose ==
  ASSUME BaseInv, NEW t \in Thread,
         (\E m \in Msg : ReaderRead(m)) \/ (t # "reader" /\ Take(t)) \/ Choose(t)
  PROVE  BaseInv'
  <1>0. UNCHANGED <<config, boxUp, conn, flight, rowVars, pduVars, dlrs, history, faults>>
    BY DEF ReaderRead, Take, Choose, boxVars
  <1>1. TypeTables' /\ flight' \subseteq Pdu /\ FlightInv' /\ TableInv'
    BY <1>0 DEF BaseInv, TypeOK, TypeTables, FlightInv, TableInv, rowVars, pduVars, history
  <1>2. flight' \subseteq flight /\ \A p \in flight' : \E i \in Held : i # NoItem /\ SameOrigin(p, i)
    BY <1>0, FlightStep
  <1>3. CASE \E m \in Msg : ReaderRead(m)
    <2> PICK m \in Msg : ReaderRead(m)
      BY <1>3
    <2> PICK i : i = [src |-> "box", msg |-> m, part |-> 0, gid |-> 0]
      OBVIOUS
    <2>1. i.src = "box" /\ i.msg = m /\ i.part = 0 /\ i.gid = 0
      OBVIOUS
    <2>2. GoodItem(i, "reader", config)
      <3>1. i \in Item
        BY DEF Item, Source
      <3>2. m \in config.offered /\ m \in Dlr \cup Mo
        BY DEF ReaderRead
      <3> QED
        BY <2>1, <3>1, <3>2 DEF GoodItem, SourcesOf, WellFormed
    <2>3. TypeBox'
      BY <1>0 DEF BaseInv, TypeOK, TypeBox, ReaderRead
    <2>4. /\ pc' = [pc EXCEPT !["reader"] = "choose"] /\ hand' = [hand EXCEPT !["reader"] = i]
          /\ at' = at /\ batch' = batch
      BY DEF ReaderRead
    <2>5. /\ \A u \in Thread : hand'[u] = (IF u = "reader" THEN i ELSE hand[u])
          /\ \A u \in Thread : pc'[u] = (IF u = "reader" THEN "choose" ELSE pc[u])
      BY <2>4 DEF BaseInv, TypeOK, TypeWork
    <2>6. TypeWork'
      BY <2>2, <2>4 DEF BaseInv, TypeOK, TypeWork, GoodItem, Thread
    <2>7. ThreadInv'
      BY <1>0, <2>2, <2>4, <2>5 DEF BaseInv, ThreadInv
    <2>8. LinkInv'
      <3>1. \A r, d : Linked(i, r, d)
        BY <2>1 DEF Linked, FromRow
      <3>2. \A j \in Held' : j \in Held \/ j = i
        BY <1>0, <2>4, <2>5, HeldIs, HeldIsNext
      <3> QED
        BY <1>0, <3>1, <3>2 DEF BaseInv, LinkInv, rowVars, pduVars
    <2> QED
      BY <1>1, <2>3, <2>6, <2>7, <2>8 DEF BaseInv, TypeOK
  <1>4. CASE t # "reader" /\ Take(t)
    <2>1. TypeBox'
      BY <1>0, <1>4 DEF BaseInv, TypeOK, TypeBox, Take, boxVars
    <2>2. PICK i \in batch[t] : hand' = [hand EXCEPT ![t] = i] /\ batch' = [batch EXCEPT ![t] = @ \ {i}]
      BY <1>4 DEF Take
    <2>3. pc' = [pc EXCEPT ![t] = "choose"] /\ at' = at
      BY <1>4 DEF Take
    <2>4. /\ \A u \in Thread : hand'[u] = (IF u = t THEN i ELSE hand[u])
          /\ \A u \in Thread : pc'[u] = (IF u = t THEN "choose" ELSE pc[u])
          /\ \A u \in Thread : batch'[u] \subseteq batch[u]
      BY <2>2, <2>3 DEF BaseInv, TypeOK, TypeWork
    <2>5. i \in Item /\ GoodItem(i, t, config)
      BY DEF BaseInv, TypeOK, TypeWork, ThreadInv
    <2>6. TypeWork'
      BY <2>2, <2>3, <2>5 DEF BaseInv, TypeOK, TypeWork
    <2>7. ThreadInv'
      BY <1>0, <2>3, <2>4, <2>5 DEF BaseInv, ThreadInv
    <2>8. \A u \in Thread : hand'[u] \in Held \cup {NoItem}
      BY <2>4, HeldIs
    <2>9. LinkInv'
      BY <1>0, <1>2, <2>4, <2>8, LinkStep DEF rowVars, pduVars
    <2> QED
      BY <1>1, <2>1, <2>6, <2>7, <2>9 DEF BaseInv, TypeOK
  <1>5. CASE Choose(t)
    <2>1. TypeBox'
      BY <1>0, <1>5 DEF BaseInv, TypeOK, TypeBox, Choose, boxVars
    <2>2. hand' = hand /\ batch' = batch
      BY <1>5 DEF Choose, Goto
    <2>3. /\ pc[t] = "choose"
          /\ \/ pc' = [pc EXCEPT ![t] = "none"] /\ at' = at
             \/ \E e \in Esme : pc' = [pc EXCEPT ![t] = "add"] /\ at' = [at EXCEPT ![t] = e]
      BY <1>5 DEF Choose, Goto, Options
    <2>4. TypeWork'
      BY <2>2, <2>3 DEF BaseInv, TypeOK, TypeWork
    <2>5. /\ \A u \in Thread : u # t => pc'[u] = pc[u] /\ at'[u] = at[u]
          /\ pc'[t] \in {"none", "add"} /\ (pc'[t] = "add" => at'[t] \in Esme)
      BY <2>3 DEF BaseInv, TypeOK, TypeWork
    <2>6. ThreadInv'
      BY <1>0, <2>2, <2>3, <2>5 DEF BaseInv, ThreadInv
    <2>7. LinkInv'
      BY <1>0, <2>2 DEF BaseInv, LinkInv, Held, rowVars, pduVars
    <2> QED
      BY <1>1, <2>1, <2>4, <2>6, <2>7 DEF BaseInv, TypeOK
  <1> QED
    BY <1>3, <1>4, <1>5

\* The parts of messages are units.
LEMMA UnitsTyped ==
  /\ \A m \in Msg : {<<m, k>> : k \in PartsOf(m)} \subseteq Unit
  /\ \A m \in Msg : \A k \in PartsOf(m) : <<m, k>> \in Unit
  <1>1. \A m \in Msg : \A k \in PartsOf(m) : k \in PartNo
    BY DEF PartNo
  <1>2. \A m \in Msg : \A k \in PartsOf(m) : <<m, k>> \in Unit
    BY <1>1 DEF Unit
  <1> QED
    BY <1>2

\* A PDU on its way is a report or a part of a message.
LEMMA PduUnit ==
  ASSUME BaseInv, NEW p \in flight
  PROVE  UnitOf(p) \in Unit /\ UnitOf(p) # NoUnit
  <1>1. p.msg \in Msg /\ p.part \in PartsOf(p.msg)
    BY DEF BaseInv, FlightInv, GoodPdu, Pdu
  <1> QED
    BY <1>1, UnitsTyped DEF UnitOf, NoUnit

\* An INSERT takes a row that nothing refers to.
LEMMA AddMessageStep ==
  ASSUME BaseInv, NEW m \in (Dlr \cup Mo) \cap config.offered, AddMessage(m)
  PROVE  /\ rows' \in [Gid -> Msg \cup {NoMsg}]
         /\ \A g \in Gid : rows'[g] # rows[g] => rows'[g] = m /\ rows[g] = NoMsg
         /\ \E g \in Gid : rows'[g] = m
         /\ \A i \in Held : Linked(i, rows', pdus)
  <1>1. PICK g \in FreeGid : rows' = [rows EXCEPT ![g] = m]
    BY UnusedIn DEF AddMessage
  <1>2. g \in Gid /\ rows[g] = NoMsg /\ \A i \in Held : i.src \in {"mo", "row"} => i.gid # g
    BY DEF FreeGid
  <1>3. rows \in [Gid -> Msg \cup {NoMsg}] /\ m \in Msg
    BY DEF BaseInv, TypeOK, TypeTables, Msg
  <1>4. \A h \in Gid : rows'[h] = IF h = g THEN m ELSE rows[h]
    BY <1>1, <1>3
  <1>5. ASSUME NEW i \in Held
        PROVE  Linked(i, rows', pdus)
    <2>1. Linked(i, rows, pdus)
      BY DEF BaseInv, LinkInv
    <2>2. FromRow(i) => i.gid \in Gid /\ i.gid # g
      BY <1>2, HeldGood DEF FromRow, WellFormed, NoItem
    <2> QED
      BY <1>4, <2>1, <2>2 DEF Linked
  <1> QED
    BY <1>1, <1>2, <1>3, <1>4, <1>5

\* The next three are what the reader and the mover do with what has no receiver.
LEMMA BaseUnrouted ==
  ASSUME BaseInv, NEW t \in Thread, Unrouted(t)
  PROVE  BaseInv'
  <1> DEFINE m == hand[t].msg
  <1>0. UNCHANGED <<config, boxUp, conn, flight, pduVars, dlrs, got>> /\ Done(t)
    BY DEF Unrouted
  <1>1. GoodItem(hand[t], t, config) /\ m \in Msg
    <2>1. pc[t] # "idle"
      BY DEF Unrouted
    <2> QED
      BY <2>1 DEF BaseInv, ThreadInv, GoodItem, Item
  <1>2. /\ TypeBox'
        /\ rows' \in [Gid -> Msg \cup {NoMsg}] /\ pending' \subseteq Gid /\ givenUp' \subseteq Unit
        /\ \A g \in Gid : rows'[g] \in {rows[g], NoMsg}
    <2>1. CASE t = "reader"
      <3>1. Acknowledge(m, "failed") /\ UNCHANGED <<rowVars, givenUp, faults>>
        BY <2>1 DEF Unrouted
      <3>2. box' \in [Msg -> {"held", "out", "ok", "failed"}]
        BY <1>1, <3>1, AckStep
      <3> QED
        BY <1>0, <3>1, <3>2 DEF BaseInv, TypeOK, TypeBox, TypeTables, rowVars
    <2>2. CASE t # "reader"
      <3>1. Remove(hand[t].gid) /\ UNCHANGED box /\ givenUp' = givenUp \cup {<<m, k>> : k \in PartsOf(m)}
        BY <2>2 DEF Unrouted
      <3>2. givenUp' \subseteq Unit
        BY <1>1, <3>1, UnitsTyped DEF BaseInv, TypeOK, TypeTables
      <3>3. /\ rows' \in [Gid -> Msg \cup {NoMsg}] /\ pending' \subseteq Gid
            /\ \A g \in Gid : rows'[g] \in {rows[g], NoMsg}
            /\ faults' \in 0 .. config.faults
        BY <3>1, RemoveStep
      <3> QED
        BY <1>0, <3>1, <3>2, <3>3 DEF BaseInv, TypeOK, TypeBox
    <2> QED
      BY <2>1, <2>2
  <1>3. TypeTables' /\ TableInv'
    <2>1. TableInv'
      BY <1>0, <1>2, TableStep DEF pduVars
    <2> QED
      BY <1>0, <1>2, <2>1 DEF BaseInv, TypeOK, TypeTables, pduVars
  <1>4. FlightInv' /\ flight' \subseteq Pdu /\ LinkInv'
    BY <1>0, <1>2, FlightStep, DoneStep, LinkStep DEF pduVars
  <1> QED
    BY <1>0, <1>2, <1>3, <1>4, DoneStep DEF BaseInv, TypeOK

\* The reader and the mover give up a message, or have stored it.
LEMMA BaseReaderEnds ==
  ASSUME BaseInv, ReaderUnconvertible \/ ReaderStored \/ MoverNone
  PROVE  BaseInv'
  <1>0. UNCHANGED <<config, boxUp, conn, flight, rows, pduVars, dlrs, got, faults>>
    BY DEF ReaderUnconvertible, ReaderStored, MoverNone, boxVars, rowVars, history
  <1>1. PICK t \in Thread : Done(t)
    BY DEF ReaderUnconvertible, ReaderStored, MoverNone, Thread
  <1>2. pending' \subseteq Gid /\ givenUp' \subseteq Unit /\ TypeBox'
    <2>1. CASE ReaderUnconvertible
      <3>1. hand["reader"].msg \in Msg
        <4>1. pc["reader"] # "idle"
          BY <2>1 DEF ReaderUnconvertible
        <4> QED
          BY <4>1 DEF BaseInv, ThreadInv, GoodItem, Item, Thread
      <3>2. givenUp' \subseteq Unit
        BY <2>1, <3>1, UnitsTyped DEF ReaderUnconvertible, BaseInv, TypeOK, TypeTables
      <3>3. box' \in [Msg -> {"held", "out", "ok", "failed"}]
        BY <2>1, <3>1, AckStep DEF ReaderUnconvertible, BaseInv, TypeOK, TypeBox
      <3> QED
        BY <1>0, <2>1, <3>2, <3>3 DEF ReaderUnconvertible, BaseInv, TypeOK, TypeTables, TypeBox, rowVars
    <2>2. CASE ReaderStored
      <3>1. hand["reader"].msg \in Msg
        <4>1. pc["reader"] # "idle"
          BY <2>2 DEF ReaderStored
        <4> QED
          BY <4>1 DEF BaseInv, ThreadInv, GoodItem, Item, Thread
      <3>2. box' \in [Msg -> {"held", "out", "ok", "failed"}]
        BY <2>2, <3>1, AckStep DEF ReaderStored
      <3> QED
        BY <1>0, <2>2, <3>2 DEF ReaderStored, BaseInv, TypeOK, TypeTables, TypeBox, rowVars, history
    <2>3. CASE MoverNone
      BY <1>0, <2>3 DEF MoverNone, BaseInv, TypeOK, TypeTables, TypeBox, history, boxVars
    <2> QED
      BY <2>1, <2>2, <2>3
  <1>3. TypeTables' /\ TableInv'
    BY <1>0, <1>2 DEF BaseInv, TypeOK, TypeTables, TableInv, pduVars
  <1>4. FlightInv' /\ flight' \subseteq Pdu /\ LinkInv'
    BY <1>0, <1>1, FlightStep, DoneStep, LinkStep DEF pduVars
  <1> QED
    BY <1>0, <1>1, <1>2, <1>3, <1>4, DoneStep DEF BaseInv, TypeOK

\* The reader stores what has no receiver.
LEMMA BaseReaderNone ==
  ASSUME BaseInv, ReaderNone
  PROVE  BaseInv'
  <1> DEFINE m == hand["reader"].msg
  <1>0. UNCHANGED <<config, boxUp, conn, flight, pending, pduVars, dlrs, history>>
    BY DEF ReaderNone
  <1>1. "reader" \in Thread /\ m \in (Dlr \cup Mo) \cap config.offered /\ m \in Msg
    <2>1. pc["reader"] # "idle" /\ "reader" \in Thread
      BY DEF ReaderNone, Thread
    <2>2. GoodItem(hand["reader"], "reader", config)
      BY <2>1 DEF BaseInv, ThreadInv
    <2> QED
      BY <2>1, <2>2 DEF GoodItem, WellFormed, Item, SourcesOf
  <1>2. FlightInv' /\ flight' \subseteq Pdu /\ \A p \in flight' : \E i \in Held : i # NoItem /\ SameOrigin(p, i)
    BY <1>0, FlightStep
  <1>3. CASE AddMessage(m) /\ Goto("reader", "ack") /\ UNCHANGED <<box, faults>>
    <2>1. /\ rows' \in [Gid -> Msg \cup {NoMsg}]
          /\ \A g \in Gid : rows'[g] # rows[g] => rows'[g] = m /\ rows[g] = NoMsg
          /\ \A i \in Held : Linked(i, rows', pdus)
      BY <1>1, <1>3, AddMessageStep
    <2>2. TypeBox'
      BY <1>0, <1>3 DEF BaseInv, TypeOK, TypeBox
    <2>3. TypeTables'
      BY <1>0, <2>1 DEF BaseInv, TypeOK, TypeTables, pduVars, history
    <2>4. TableInv'
      BY <1>0, <1>1, <2>1 DEF BaseInv, TableInv, pduVars
    <2>5. TypeWork'
      BY <1>3 DEF BaseInv, TypeOK, TypeWork, Goto
    <2>6. ThreadInv'
      <3>1. \A u \in Thread : pc'[u] = IF u = "reader" THEN "ack" ELSE pc[u]
        BY <1>3 DEF BaseInv, TypeOK, TypeWork, Goto
      <3>2. pc["reader"] = "none"
        BY DEF ReaderNone
      <3> QED
        BY <1>0, <1>3, <3>1, <3>2 DEF BaseInv, ThreadInv, Goto
    <2>7. LinkInv'
      <3>1. Held' = Held
        BY <1>0, <1>3 DEF Held, Goto
      <3> QED
        BY <1>0, <2>1, <3>1 DEF LinkInv, pduVars
    <2> QED
      BY <1>2, <2>2, <2>3, <2>4, <2>5, <2>6, <2>7 DEF BaseInv, TypeOK
  <1>4. CASE Done("reader") /\ UNCHANGED rows
    <2>1. TypeBox'
      <3>1. box' \in [Msg -> {"held", "out", "ok", "failed"}]
        BY <1>1, <1>4, AckStep DEF ReaderNone, BaseInv, TypeOK, TypeBox
      <3>2. faults' \in 0 .. config.faults
        BY <1>4, FaultStep DEF ReaderNone, BaseInv, TypeOK, TypeBox
      <3> QED
        BY <1>0, <3>1, <3>2 DEF BaseInv, TypeOK, TypeBox
    <2>2. TypeTables' /\ TableInv'
      BY <1>0, <1>4 DEF BaseInv, TypeOK, TypeTables, TableInv, pduVars, history
    <2>3. LinkInv'
      BY <1>0, <1>1, <1>2, <1>4, DoneStep, LinkStep DEF pduVars
    <2> QED
      BY <1>0, <1>1, <1>2, <1>4, <2>1, <2>2, <2>3, DoneStep DEF BaseInv, TypeOK
  <1> QED
    BY <1>3, <1>4 DEF ReaderNone

\* The PDUs of the item in a thread's hand.
LEMMA HandToFlight ==
  ASSUME BaseInv, NEW t \in Thread, pc[t] # "idle", NEW e \in Esme \cup {NoEsme}, NEW st \in PduState,
         st \in Open => e \in Esme, st \notin Open => hand[t].src \in {"row", "dlr"},
         flight' = flight \cup PdusOf(hand[t], e, st), config' = config
  PROVE  /\ FlightInv' /\ flight' \subseteq Pdu
         /\ \A q \in PdusOf(hand[t], e, st) : GoodPdu(q, config) /\ SameOrigin(q, hand[t]) /\ q.st = st /\ q.esme = e
         /\ \A p \in flight' : \E i \in Held : i # NoItem /\ SameOrigin(p, i)
  <1>1. GoodItem(hand[t], t, config)
    BY DEF BaseInv, ThreadInv
  <1>2. \A q \in PdusOf(hand[t], e, st) : GoodPdu(q, config) /\ SameOrigin(q, hand[t]) /\ q.st = st /\ q.esme = e
    BY <1>1, PdusOfAre
  <1>3. hand[t] # NoItem
    BY <1>1 DEF GoodItem, WellFormed, NoItem, Msg, Item
  <1>4. \A p \in flight : p # NoItem /\ SameOrigin(p, p)
    BY DEF BaseInv, FlightInv, GoodPdu, Pdu, NoItem, SameOrigin
  <1>5. FlightInv'
    BY <1>2 DEF BaseInv, FlightInv
  <1>6. flight' \subseteq Pdu
    BY <1>5 DEF FlightInv, GoodPdu
  <1>7. \A p \in flight' : \E i \in Held : i # NoItem /\ SameOrigin(p, i)
    BY <1>2, <1>3, <1>4, HeldIs
  <1> QED
    BY <1>2, <1>5, <1>6, <1>7

\* A thread queues the PDU it holds.
LEMMA BaseAddOutbound ==
  ASSUME BaseInv, NEW t \in Thread, AddOutbound(t)
  PROVE  BaseInv'
  <1>0. UNCHANGED <<config, boxVars, conn, rowVars, pduVars, dlrs, history, faults>> /\ Done(t)
    BY DEF AddOutbound
  <1>1. TypeBox' /\ TypeTables' /\ TableInv'
    BY <1>0 DEF BaseInv, TypeOK, TypeBox, TypeTables, TableInv, boxVars, rowVars, pduVars, history
  <1>2. at[t] \in Esme /\ pc[t] # "idle" /\ flight' = flight \cup PdusOf(hand[t], at[t], "queued")
    BY DEF AddOutbound, BaseInv, ThreadInv
  <1>3. /\ FlightInv' /\ flight' \subseteq Pdu
        /\ \A p \in flight' : \E i \in Held : i # NoItem /\ SameOrigin(p, i)
    <2>1. "queued" \in PduState /\ "queued" \in Open
      BY DEF PduState, Open
    <2> QED
      BY <1>0, <1>2, <2>1, HandToFlight
  <1>4. LinkInv'
    BY <1>0, <1>3, DoneStep, LinkStep DEF rowVars, pduVars
  <1> QED
    BY <1>0, <1>1, <1>3, <1>4, DoneStep DEF BaseInv, TypeOK

\* The requeue thread finds no receiver for a stored PDU or report.
LEMMA BaseRequeueNone ==
  ASSUME BaseInv, RequeueNone
  PROVE  BaseInv'
  <1> DEFINE i == hand["requeue"]
  <1>0. /\ UNCHANGED <<config, boxVars, conn, rowVars, dlrs, got>> /\ Done("requeue")
        /\ "requeue" \in Thread /\ pc["requeue"] # "idle"
    BY DEF RequeueNone, Thread
  <1>1. GoodItem(i, "requeue", config)
    BY <1>0 DEF BaseInv, ThreadInv
  <1>2. CASE i.src = "pdu"
    <2>1. /\ flight' = flight /\ pendPdu' = pendPdu \ {i.gid}
          /\ \/ /\ pdus' = [pdus EXCEPT ![i.gid] = NoUnit]
                /\ givenUp' = givenUp \cup {UnitOf(i)} /\ UNCHANGED faults
             \/ Fault /\ UNCHANGED <<pdus, givenUp>>
      BY <1>2 DEF RequeueNone
    <2>2. UnitOf(i) \in Unit
      BY <1>1, <1>2, UnitsTyped DEF GoodItem, Item, UnitOf
    <2>3. /\ pdus' \in [Pid -> Unit0] /\ givenUp' \subseteq Unit /\ faults' \in 0 .. config.faults
          /\ \A p \in Pid : pdus'[p] \in {pdus[p], NoUnit}
      <3>1. pdus \in [Pid -> Unit0] /\ givenUp \subseteq Unit /\ faults \in 0 .. config.faults /\ NoUnit \in Unit0
        BY DEF BaseInv, TypeOK, TypeTables, TypeBox, Unit0
      <3>2. CASE pdus' = [pdus EXCEPT ![i.gid] = NoUnit] /\ givenUp' = givenUp \cup {UnitOf(i)} /\ UNCHANGED faults
        BY <2>2, <3>1, <3>2
      <3>3. CASE Fault /\ UNCHANGED <<pdus, givenUp>>
        BY <3>1, <3>3, FaultStep
      <3> QED
        BY <2>1, <3>2, <3>3
    <2>4. TypeBox' /\ TypeTables'
      BY <1>0, <2>1, <2>3 DEF BaseInv, TypeOK, TypeBox, TypeTables, boxVars, rowVars
    <2>5. TableInv'
      BY <1>0, <2>3, TableStep DEF rowVars
    <2>6. FlightInv' /\ flight' \subseteq Pdu /\ LinkInv'
      BY <1>0, <2>1, <2>3, FlightStep, DoneStep, LinkStep DEF rowVars
    <2> QED
      BY <1>0, <2>4, <2>5, <2>6, DoneStep DEF BaseInv, TypeOK
  <1>3. CASE i.src # "pdu"
    <2>1. /\ i.src \in {"row", "dlr"} /\ flight' = flight \cup PdusOf(i, NoEsme, "move")
          /\ UNCHANGED <<pdus, pendPdu, givenUp, faults>>
      BY <1>3 DEF RequeueNone
    <2>2. TypeBox' /\ TypeTables' /\ TableInv'
      BY <1>0, <2>1 DEF BaseInv, TypeOK, TypeBox, TypeTables, TableInv, boxVars, rowVars
    <2>3. /\ FlightInv' /\ flight' \subseteq Pdu
          /\ \A p \in flight' : \E j \in Held : j # NoItem /\ SameOrigin(p, j)
      <3>1. "move" \in PduState /\ "move" \notin Open
        BY DEF PduState, Open
      <3> QED
        BY <1>0, <2>1, <3>1, HandToFlight
    <2>4. LinkInv'
      BY <1>0, <2>1, <2>3, DoneStep, LinkStep DEF rowVars
    <2> QED
      BY <1>0, <2>2, <2>3, <2>4, DoneStep DEF BaseInv, TypeOK
  <1> QED
    BY <1>2, <1>3

\* The mover claims the MO rows of the store.
LEMMA BaseMoverPoll ==
  ASSUME BaseInv, MoverPoll
  PROVE  BaseInv'
  <1> DEFINE found == {g \in Gid \ pending : rows[g] \in Mo}
             new == {[src |-> "mo", msg |-> rows[g], part |-> 0, gid |-> g] : g \in found}
  <1>0. /\ UNCHANGED <<config, boxVars, conn, pc, hand, at, flight, rows, pduVars, dlrs, history, faults>>
        /\ pending' = pending \cup found /\ batch' = [batch EXCEPT !["mover"] = new] /\ "mover" \in Thread
    BY DEF MoverPoll, Thread
  <1>1. \A i \in new : GoodItem(i, "mover", config) /\ Linked(i, rows, pdus)
    <2> SUFFICES ASSUME NEW g \in found, NEW i, i = [src |-> "mo", msg |-> rows[g], part |-> 0, gid |-> g]
                 PROVE  GoodItem(i, "mover", config) /\ Linked(i, rows, pdus)
      OBVIOUS
    <2>1. g \in Gid /\ rows[g] \in Mo /\ rows[g] \in Msg /\ rows[g] \in config.offered
      BY DEF BaseInv, TableInv, Msg
    <2>2. i.src = "mo" /\ i.msg = rows[g] /\ i.part = 0 /\ i.gid = g
      OBVIOUS
    <2>3. i \in Item
      BY <2>1 DEF Item, Source
    <2> QED
      BY <2>1, <2>2, <2>3 DEF GoodItem, Linked, WellFormed, SourcesOf, FromRow
  <1>2. new \subseteq Item
    BY <1>1 DEF GoodItem
  <1> HIDE DEF new
  <1>3. TypeBox' /\ TypeTables' /\ TableInv' /\ flight' \subseteq Pdu /\ FlightInv'
    BY <1>0 DEF BaseInv, TypeOK, TypeBox, TypeTables, TableInv, FlightInv, boxVars, pduVars, history
  <1>4. TypeWork'
    BY <1>0, <1>2 DEF BaseInv, TypeOK, TypeWork
  <1>5. \A t \in Thread : batch'[t] = IF t = "mover" THEN new ELSE batch[t]
    BY <1>0 DEF BaseInv, TypeOK, TypeWork
  <1>6. ThreadInv'
    BY <1>0, <1>1, <1>5 DEF BaseInv, ThreadInv
  <1>7. LinkInv'
    <2>1. \A i \in Held' : i \in Held \/ i \in new
      BY <1>0, <1>5, HeldIs, HeldIsNext
    <2> QED
      BY <1>0, <1>1, <2>1 DEF BaseInv, LinkInv, pduVars
  <1> QED
    BY <1>3, <1>4, <1>6, <1>7 DEF BaseInv, TypeOK

\* A poll: the PDUs P, the DLR rows and the reports R are claimed; the items of
\* P, of some DLR rows D and of the reports G are taken; the reports gone and the
\* DLR rows goneDlr, which have no PDU, may be deleted.
PollOf(P, D, R, G, gone, goneDlr) ==
  /\ P \subseteq {p \in Pid \ pendPdu : pdus[p] # NoUnit} /\ D \subseteq dlrs
  /\ R \subseteq {g \in Gid \ pending : rows[g] \in Dlr}
  /\ G \subseteq R /\ gone \subseteq R /\ gone \cap G = {} /\ goneDlr \subseteq dlrs
  /\ pendPdu' = pendPdu \cup P
  /\ rows' = [g \in Gid |-> IF g \in gone THEN NoMsg ELSE rows[g]]
  /\ pending' = (pending \cup R) \ gone
  /\ dlrs' = dlrs \ goneDlr
  /\ givenUp' = givenUp \cup {u \in Unit : \E g \in gone : rows[g] = u[1]}
                        \cup {u \in Unit : u[1] \in goneDlr}
  /\ batch' = [batch EXCEPT !["requeue"] = PduItems(P) \cup DlrItems(D) \cup RowItems(G)]

\* A poll is a choice of stored PDUs, reports and rows, whatever their order.
LEMMA PollIs ==
  ASSUME Poll
  PROVE  /\ \E P, D, R, G, gone, goneDlr : PollOf(P, D, R, G, gone, goneDlr)
         /\ pc["requeue"] = "idle" /\ batch["requeue"] = {}
         /\ UNCHANGED <<config, boxVars, conn, pc, hand, at, flight, pdus, got, faults>>
  <1>1. PICK n, m, P, D, R :
          P \in StoredPdus(n) /\ D \in TableDlrs(m) /\ R \in {StoredReports, {}} /\ TakeQueued(P, D, R)
    <2>1. PICK e \in Readers, P \in SUBSET Pid :
            /\ P \in StoredPdus(Room(e))
            /\ \E D \in TableDlrs(Room(e) - Cardinality(P)) :
                 TakeQueued(P, D, IF Room(e) - Cardinality(P) > 0 THEN StoredReports ELSE {})
      BY DEF Poll, StoredPdus, UpTo
    <2>2. PICK D \in TableDlrs(Room(e) - Cardinality(P)) :
            TakeQueued(P, D, IF Room(e) - Cardinality(P) > 0 THEN StoredReports ELSE {})
      BY <2>1
    <2> QED
      BY <2>1, <2>2
  <1>2. P \subseteq {p \in Pid \ pendPdu : pdus[p] # NoUnit} /\ D \subseteq dlrs
    BY <1>1 DEF StoredPdus, TableDlrs, UpTo
  <1>3. R \subseteq {g \in Gid \ pending : rows[g] \in Dlr}
    BY <1>1 DEF StoredReports
  <1> DEFINE bad == {g \in R : rows[g] \in Unconvertible}
             badDlr == D \cap Unconvertible
  <1>4. PICK gone \in SUBSET bad, goneDlr \in SUBSET badDlr :
          /\ pendPdu' = pendPdu \cup P
          /\ rows' = [g \in Gid |-> IF g \in gone THEN NoMsg ELSE rows[g]]
          /\ pending' = (pending \cup R) \ gone
          /\ dlrs' = dlrs \ goneDlr
          /\ givenUp' = givenUp \cup {u \in Unit : \E g \in gone : rows[g] = u[1]}
                                \cup {u \in Unit : u[1] \in goneDlr}
          /\ batch' = [batch EXCEPT !["requeue"] =
               PduItems(P) \cup DlrItems(D \ badDlr) \cup RowItems(R \ bad)]
    BY <1>1 DEF TakeQueued
  <1>5. /\ R \ bad \subseteq R /\ gone \subseteq R /\ gone \cap (R \ bad) = {}
        /\ goneDlr \subseteq dlrs /\ D \ badDlr \subseteq dlrs
    BY <1>2
  <1> HIDE DEF bad, badDlr
  <1>6. PollOf(P, D \ badDlr, R, R \ bad, gone, goneDlr)
    BY <1>2, <1>3, <1>4, <1>5 DEF PollOf
  <1>7. \E P_1, D_1, R_1, G, gone_1, goneDlr_1 : PollOf(P_1, D_1, R_1, G, gone_1, goneDlr_1)
    BY <1>6
  <1> QED
    BY <1>7 DEF Poll

\* The items of a poll are well formed and linked to their rows.
LEMMA PollItems ==
  ASSUME BaseInv, NEW P, NEW D, NEW R, NEW G, NEW gone, NEW goneDlr, PollOf(P, D, R, G, gone, goneDlr),
         NEW i \in PduItems(P) \cup DlrItems(D) \cup RowItems(G)
  PROVE  /\ GoodItem(i, "requeue", config) /\ Linked(i, rows', pdus)
         /\ i.src = "pdu" => i.gid \in P
         /\ i.src # "pdu" => i.src \in {"dlr", "row"}
         /\ i.src = "row" => i.gid \in G /\ i.msg = rows[i.gid]
  <1>1. CASE i \in PduItems(P)
    <2>1. PICK p \in P : i = [src |-> "pdu", msg |-> pdus[p][1], part |-> pdus[p][2], gid |-> p]
      BY <1>1 DEF PduItems
    <2>2. p \in Pid /\ pdus[p] # NoUnit /\ pdus[p] \in Unit /\ pdus[p][1] \in config.offered
      BY DEF PollOf, BaseInv, TypeOK, TypeTables, TableInv, Unit0
    <2>3. /\ i.src = "pdu" /\ i.msg = pdus[p][1] /\ i.part = pdus[p][2] /\ i.gid = p
          /\ UnitOf(i) = pdus[p]
      BY <2>1, <2>2 DEF UnitOf, Unit
    <2>4. i.msg \in Msg /\ i.part \in PartNo /\ i.part \in PartsOf(i.msg)
      BY <2>2, <2>3 DEF Unit
    <2>5. i \in Item
      BY <2>1, <2>2, <2>3, <2>4 DEF Item, Source
    <2> QED
      BY <2>2, <2>3, <2>4, <2>5 DEF GoodItem, SourcesOf, WellFormed, Linked, FromRow
  <1>2. CASE i \in DlrItems(D)
    <2>1. PICK m \in D : i = [src |-> "dlr", msg |-> m, part |-> 1, gid |-> 0]
      BY <1>2 DEF DlrItems
    <2>2. m \in TableDlr /\ m \in Msg /\ m \in config.offered
      BY DEF PollOf, BaseInv, TypeOK, TypeTables, TableInv, Msg
    <2>3. i.src = "dlr" /\ i.msg = m /\ i.part = 1 /\ i.gid = 0
      BY <2>1
    <2>4. 1 \in PartsOf(m) /\ 1 \in PartNo
      BY <2>2 DEF PartsOf, PartNo
    <2>5. i \in Item
      BY <2>1, <2>2, <2>4 DEF Item, Source
    <2> QED
      BY <2>2, <2>3, <2>4, <2>5 DEF GoodItem, SourcesOf, WellFormed, Linked, FromRow
  <1>3. CASE i \in RowItems(G)
    <2>1. PICK g \in G : \E k \in PartsOf(rows[g]) : i = [src |-> "row", msg |-> rows[g], part |-> k, gid |-> g]
      BY <1>3 DEF RowItems
    <2>2. PICK k \in PartsOf(rows[g]) : i = [src |-> "row", msg |-> rows[g], part |-> k, gid |-> g]
      BY <2>1
    <2>3. g \in Gid /\ rows[g] \in Dlr /\ rows[g] \in Msg /\ rows[g] \in config.offered /\ rows'[g] = rows[g]
      BY DEF PollOf, BaseInv, TableInv, Msg
    <2>4. i.src = "row" /\ i.msg = rows[g] /\ i.part = k /\ i.gid = g
      BY <2>2
    <2>5. k \in PartNo
      BY <2>3 DEF PartNo
    <2>6. i \in Item
      BY <2>2, <2>3, <2>5 DEF Item, Source
    <2> QED
      BY <2>3, <2>4, <2>6 DEF GoodItem, SourcesOf, WellFormed, Linked, FromRow
  <1> QED
    BY <1>1, <1>2, <1>3

\* The requeue thread claims an account's PDUs, reports and rows.
LEMMA BasePoll ==
  ASSUME BaseInv, Poll
  PROVE  BaseInv'
  <1>1. PICK P, D, R, G, gone, goneDlr : PollOf(P, D, R, G, gone, goneDlr)
    BY PollIs
  <1>2. UNCHANGED <<config, boxVars, conn, pc, hand, at, flight, pdus, got, faults>>
    BY PollIs
  <1> DEFINE new == PduItems(P) \cup DlrItems(D) \cup RowItems(G)
  <1>3. \A i \in new : GoodItem(i, "requeue", config) /\ Linked(i, rows', pdus)
    BY <1>1, PollItems
  <1> HIDE DEF new
  <1>4. batch' = [batch EXCEPT !["requeue"] = new] /\ "requeue" \in Thread
    BY <1>1 DEF PollOf, new, Thread
  <1>5. \A t \in Thread : batch'[t] = IF t = "requeue" THEN new ELSE batch[t]
    BY <1>4 DEF BaseInv, TypeOK, TypeWork
  <1>6. TypeWork'
    <2>1. new \subseteq Item
      BY <1>3 DEF GoodItem
    <2> QED
      BY <1>2, <1>4, <2>1 DEF BaseInv, TypeOK, TypeWork
  <1>7. \A g \in Gid : rows'[g] \in {rows[g], NoMsg}
    BY <1>1 DEF PollOf
  <1>8. TypeTables'
    <2>1. rows' \in [Gid -> Msg \cup {NoMsg}]
      BY <1>1 DEF PollOf, BaseInv, TypeOK, TypeTables
    <2>2. givenUp' \subseteq Unit
      BY <1>1 DEF PollOf, BaseInv, TypeOK, TypeTables
    <2>3. pending' \subseteq Gid /\ pendPdu' \subseteq Pid /\ dlrs' \subseteq TableDlr
      BY <1>1 DEF PollOf, BaseInv, TypeOK, TypeTables
    <2> QED
      BY <1>2, <2>1, <2>2, <2>3 DEF BaseInv, TypeOK, TypeTables
  <1>9. TableInv'
    <2>1. dlrs' \subseteq dlrs
      BY <1>1 DEF PollOf
    <2> QED
      BY <1>2, <1>7, <2>1, TableStep
  <1>10. TypeBox' /\ flight' \subseteq Pdu /\ FlightInv'
    BY <1>2 DEF BaseInv, TypeOK, TypeBox, FlightInv, boxVars
  <1>11. ThreadInv'
    BY <1>2, <1>3, <1>5 DEF BaseInv, ThreadInv
  <1>12. LinkInv'
    <2>1. \A i \in Held' : i \in Held \/ i \in new
      BY <1>2, <1>5, HeldIs, HeldIsNext
    <2>2. \A i \in Held : Linked(i, rows', pdus')
      <3> SUFFICES ASSUME NEW i \in Held, i # NoItem
                   PROVE  Linked(i, rows', pdus')
        BY NoItemFree
      <3>1. WellFormed(i) /\ SameOrigin(i, i) /\ Linked(i, rows, pdus)
        BY HeldGood DEF SameOrigin, BaseInv, LinkInv
      <3> QED
        BY <1>2, <1>7, <3>1, LinkKept
    <2> QED
      BY <1>2, <1>3, <2>1, <2>2 DEF LinkInv
  <1> QED
    BY <1>6, <1>8, <1>9, <1>10, <1>11, <1>12 DEF BaseInv, TypeOK

\* The state of a PDU changes.
LEMMA PduChanges ==
  ASSUME BaseInv, NEW p \in flight, NEW st \in PduState,
         st \in Open => p.st \in Open, st \notin Open => p.src \in {"row", "dlr"},
         flight' = (flight \ {p}) \cup {[p EXCEPT !.st = st]}, config' = config
  PROVE  /\ FlightInv' /\ flight' \subseteq Pdu
         /\ \A q \in flight' : \E i \in Held : i # NoItem /\ SameOrigin(q, i)
         /\ SameOrigin([p EXCEPT !.st = st], p) /\ UnitOf([p EXCEPT !.st = st]) = UnitOf(p)
         /\ [p EXCEPT !.st = st].st = st /\ [p EXCEPT !.st = st].esme = p.esme
  <1> PICK q : q = [p EXCEPT !.st = st]
    OBVIOUS
  <1>1. GoodPdu(p, config) /\ p \in Pdu
    BY DEF BaseInv, FlightInv, GoodPdu
  <1>2. /\ q.src = p.src /\ q.msg = p.msg /\ q.part = p.part /\ q.gid = p.gid /\ q.esme = p.esme
        /\ q.st = st /\ q \in Pdu
    BY <1>1 DEF Pdu
  <1>3. GoodPdu(q, config)
    BY <1>1, <1>2 DEF GoodPdu, WellFormed
  <1>4. SameOrigin(q, p) /\ UnitOf(q) = UnitOf(p)
    BY <1>2 DEF SameOrigin, UnitOf
  <1>5. FlightInv'
    BY <1>3 DEF BaseInv, FlightInv
  <1>6. \A r \in flight : r # NoItem /\ SameOrigin(r, r)
    BY DEF BaseInv, FlightInv, GoodPdu, Pdu, NoItem, SameOrigin
  <1>7. \A r \in flight' : \E i \in Held : i # NoItem /\ SameOrigin(r, i)
    BY <1>4, <1>6, HeldIs
  <1>8. flight' \subseteq Pdu
    BY <1>5 DEF FlightInv, GoodPdu
  <1> QED
    BY <1>2, <1>4, <1>5, <1>7, <1>8

\* A PDU is sent, or the ESME answers it.
LEMMA BaseOnItsWay ==
  ASSUME BaseInv, NEW p \in flight, OutboundSend(p) \/ EsmeAnswer(p)
  PROVE  BaseInv'
  <1>0. UNCHANGED <<config, boxVars, conn, workVars, rowVars, pduVars, dlrs, faults>>
    BY DEF OutboundSend, EsmeAnswer
  <1>1. PICK st \in {"sent", "unsent", "acked", "nacked"} : flight' = (flight \ {p}) \cup {[p EXCEPT !.st = st]}
    BY DEF OutboundSend, EsmeAnswer
  <1>2. p.st \in Open /\ st \in Open /\ st \in PduState
    BY DEF OutboundSend, EsmeAnswer, Open, PduState
  <1>3. /\ FlightInv' /\ flight' \subseteq Pdu
        /\ \A q \in flight' : \E i \in Held : i # NoItem /\ SameOrigin(q, i)
    BY <1>0, <1>1, <1>2, PduChanges
  <1>4. got' \subseteq Unit /\ givenUp' \subseteq Unit
    BY PduUnit DEF OutboundSend, EsmeAnswer, history, BaseInv, TypeOK, TypeTables
  <1>5. TypeBox' /\ TypeWork' /\ TypeTables' /\ TableInv' /\ ThreadInv'
    <2>1. TypeBox' /\ TypeWork'
      BY <1>0 DEF BaseInv, TypeOK, TypeBox, TypeWork, boxVars, workVars
    <2>2. TypeTables' /\ TableInv'
      BY <1>0, <1>4 DEF BaseInv, TypeOK, TypeTables, TableInv, rowVars, pduVars
    <2>3. ThreadInv'
      BY <1>0 DEF BaseInv, ThreadInv, workVars
    <2> QED
      BY <2>1, <2>2, <2>3
  <1>6. LinkInv'
    BY <1>0, <1>3, LinkStep, HeldIs DEF workVars, rowVars, pduVars
  <1> QED
    BY <1>3, <1>5, <1>6 DEF BaseInv, TypeOK

\* What a callback may do to the tables and to what is on its way.
LEMMA ReportRemoved ==
  ASSUME BaseInv, NEW p \in flight, RemoveReport(p)
  PROVE  /\ \A g \in Gid : rows'[g] \in {rows[g], NoMsg}
         /\ rows' \in [Gid -> Msg \cup {NoMsg}] /\ pending' \subseteq Gid
         /\ faults' \in 0 .. config.faults /\ dlrs' \subseteq dlrs
  <1>1. CASE Remove(p.gid) /\ UNCHANGED dlrs
    BY <1>1, RemoveStep
  <1>2. CASE RemoveDlr(p.msg) /\ UNCHANGED rowVars
    <2>1. faults' \in 0 .. config.faults /\ dlrs' \subseteq dlrs
      BY <1>2, FaultStep DEF RemoveDlr, BaseInv, TypeOK, TypeBox
    <2> QED
      BY <1>2, <2>1 DEF rowVars, BaseInv, TypeOK, TypeTables
  <1> QED
    BY <1>1, <1>2 DEF RemoveReport

\* A callback ends one PDU and empties at most the row it was made from.
LEMMA CallbackStep ==
  ASSUME BaseInv, NEW p \in flight, NEW status, Callback(p, status), config' = config
  PROVE  /\ FlightInv' /\ flight' \subseteq Pdu
         /\ \A q \in flight' : \E i \in Held : i # NoItem /\ SameOrigin(q, i)
         /\ box' \in [Msg -> {"held", "out", "ok", "failed"}] /\ faults' \in 0 .. config.faults
         /\ \A g \in Gid : rows'[g] \in {rows[g], NoMsg}
         /\ \A q \in Pid : pdus'[q] \in {pdus[q], NoUnit}
         /\ rows' \in [Gid -> Msg \cup {NoMsg}] /\ pdus' \in [Pid -> Unit0]
         /\ pending' \subseteq Gid /\ pendPdu' \subseteq Pid /\ dlrs' \subseteq dlrs
  <1>0. /\ p.msg \in Msg /\ faults \in 0 .. config.faults /\ box \in [Msg -> {"held", "out", "ok", "failed"}]
        /\ rows \in [Gid -> Msg \cup {NoMsg}] /\ pdus \in [Pid -> Unit0] /\ NoUnit \in Unit0
        /\ pending \subseteq Gid /\ pendPdu \subseteq Pid
    BY DEF BaseInv, FlightInv, GoodPdu, Pdu, TypeOK, TypeBox, TypeTables, Unit0
  <1>1. CASE CallbackDeliver(p, status)
    <2>1. flight' \subseteq flight /\ UNCHANGED <<pduVars, dlrs>>
      BY <1>1 DEF CallbackDeliver
    <2>2. CASE p.src = "box"
      <3>1. UNCHANGED <<rowVars, faults>>
        BY <1>1, <2>2 DEF CallbackDeliver
      <3>2. box' \in [Msg -> {"held", "out", "ok", "failed"}]
        BY <1>0, <1>1, <2>2, AckStep DEF CallbackDeliver
      <3> QED
        BY <1>0, <2>1, <3>1, <3>2, FlightStep DEF rowVars, pduVars
    <2>3. CASE p.src = "mo"
      <3>1. UNCHANGED box /\ (Remove(p.gid) \/ UNCHANGED <<rowVars, faults>>)
        BY <1>1, <2>3 DEF CallbackDeliver
      <3>2. /\ rows' \in [Gid -> Msg \cup {NoMsg}] /\ pending' \subseteq Gid
            /\ \A g \in Gid : rows'[g] \in {rows[g], NoMsg}
            /\ faults' \in 0 .. config.faults
        BY <1>0, <3>1, RemoveStep DEF rowVars
      <3> QED
        BY <1>0, <2>1, <3>1, <3>2, FlightStep DEF pduVars
    <2> QED
      BY <1>1, <2>2, <2>3 DEF CallbackDeliver
  <1>2. CASE CallbackReport(p, status)
    <2>1. UNCHANGED <<box, pduVars>> /\ p.src \in {"row", "dlr"}
      BY <1>2 DEF CallbackReport
    <2>2. CASE status = "ok"
      <3>1. RemoveReport(p) /\ flight' \subseteq flight
        BY <1>2, <2>2 DEF CallbackReport
      <3> QED
        BY <1>0, <2>1, <3>1, ReportRemoved, FlightStep DEF pduVars
    <2>3. CASE status # "ok"
      <3>1. flight' = (flight \ {p}) \cup {[p EXCEPT !.st = "move"]} /\ UNCHANGED <<rowVars, dlrs, faults>>
        BY <1>2, <2>3 DEF CallbackReport
      <3>2. "move" \in PduState /\ "move" \notin Open
        BY DEF PduState, Open
      <3>3. /\ FlightInv' /\ flight' \subseteq Pdu
            /\ \A q \in flight' : \E i \in Held : i # NoItem /\ SameOrigin(q, i)
        BY <2>1, <3>1, <3>2, PduChanges
      <3> QED
        BY <1>0, <2>1, <3>1, <3>3 DEF rowVars, pduVars
    <2> QED
      BY <2>2, <2>3
  <1>3. CASE CallbackPdu(p, status)
    <2>1. flight' \subseteq flight /\ UNCHANGED <<box, rowVars, dlrs>> /\ pendPdu' \subseteq pendPdu
      BY <1>3 DEF CallbackPdu
    <2>2. /\ pdus' \in [Pid -> Unit0] /\ faults' \in 0 .. config.faults
          /\ \A q \in Pid : pdus'[q] \in {pdus[q], NoUnit}
      <3>1. CASE pdus' = [pdus EXCEPT ![p.gid] = NoUnit] /\ UNCHANGED faults
        BY <1>0, <3>1
      <3>2. CASE UNCHANGED pdus /\ (Fault \/ UNCHANGED faults)
        BY <1>0, <3>2, FaultStep
      <3> QED
        BY <1>3, <3>1, <3>2 DEF CallbackPdu, RemoveStoredPdu
    <2> QED
      BY <1>0, <2>1, <2>2, FlightStep DEF rowVars
  <1> QED
    BY <1>1, <1>2, <1>3 DEF Callback

\* An answer, a timeout or a destroyed ESME ends a PDU.
LEMMA BaseCallback ==
  ASSUME BaseInv, NEW p \in flight, ProcessAck(p) \/ Expire(p) \/ DestroyAck(p)
  PROVE  BaseInv'
  <1>0. UNCHANGED <<config, boxUp, workVars, got>>
    BY DEF ProcessAck, Expire, DestroyAck, history
  <1>1. PICK status : Callback(p, status)
    BY DEF ProcessAck, Expire, DestroyAck
  <1>2. conn' \in [Esme -> {"up", "down"}] /\ givenUp' \subseteq Unit
    BY PduUnit DEF ProcessAck, Expire, DestroyAck, history, BaseInv, TypeOK, TypeBox, TypeTables
  <1>3. /\ FlightInv' /\ flight' \subseteq Pdu
        /\ \A q \in flight' : \E i \in Held : i # NoItem /\ SameOrigin(q, i)
        /\ box' \in [Msg -> {"held", "out", "ok", "failed"}] /\ faults' \in 0 .. config.faults
        /\ \A g \in Gid : rows'[g] \in {rows[g], NoMsg}
        /\ \A q \in Pid : pdus'[q] \in {pdus[q], NoUnit}
        /\ rows' \in [Gid -> Msg \cup {NoMsg}] /\ pdus' \in [Pid -> Unit0]
        /\ pending' \subseteq Gid /\ pendPdu' \subseteq Pid /\ dlrs' \subseteq dlrs
    BY <1>0, <1>1, CallbackStep
  <1>4. TypeBox' /\ TypeTables'
    BY <1>0, <1>2, <1>3 DEF BaseInv, TypeOK, TypeBox, TypeTables
  <1>5. TypeWork' /\ ThreadInv'
    BY <1>0 DEF BaseInv, TypeOK, TypeWork, ThreadInv, workVars
  <1>6. TableInv'
    BY <1>0, <1>3, TableStep
  <1>7. LinkInv'
    BY <1>0, <1>3, LinkStep, HeldIs DEF workVars
  <1> QED
    BY <1>3, <1>4, <1>5, <1>6, <1>7 DEF BaseInv, TypeOK

\* A PDU is inserted where nothing refers to.
LEMMA AddPduStep ==
  ASSUME BaseInv, NEW u \in Unit, u[1] \in config.offered, AddPdu(u)
  PROVE  /\ pdus' \in [Pid -> Unit0]
         /\ \A q \in Pid : pdus'[q] # pdus[q] => pdus'[q] = u /\ pdus[q] = NoUnit
         /\ \E q \in Pid : pdus'[q] = u
         /\ \A i \in Held : Linked(i, rows, pdus')
  <1> DEFINE free == {p \in Pid \ pendPdu : pdus[p] = NoUnit
                 /\ ~\E i \in Held : i.src = "pdu" /\ i.gid = p}
  <1>1. PICK q \in free : pdus' = [pdus EXCEPT ![q] = u]
    BY UnusedIn DEF AddPdu
  <1>2. q \in Pid /\ pdus[q] = NoUnit /\ \A i \in Held : i.src = "pdu" => i.gid # q
    OBVIOUS
  <1>3. pdus \in [Pid -> Unit0] /\ u \in Unit0
    BY DEF BaseInv, TypeOK, TypeTables, Unit0
  <1>4. \A r \in Pid : pdus'[r] = IF r = q THEN u ELSE pdus[r]
    BY <1>1, <1>3
  <1>5. ASSUME NEW i \in Held
        PROVE  Linked(i, rows, pdus')
    <2>1. Linked(i, rows, pdus)
      BY DEF BaseInv, LinkInv
    <2>2. i.src = "pdu" => i.gid \in Pid /\ i.gid # q
      BY <1>2, HeldGood DEF WellFormed, NoItem
    <2> QED
      BY <1>4, <2>1, <2>2 DEF Linked
  <1> QED
    BY <1>1, <1>2, <1>3, <1>4, <1>5

\* The INSERT of a report that was not confirmed.
LEMMA BaseMoveInsert ==
  ASSUME BaseInv, NEW p \in flight, MoveInsert(p)
  PROVE  BaseInv'
  <1>0. /\ UNCHANGED <<config, boxVars, conn, workVars, rowVars, pendPdu, dlrs, got>>
        /\ p.st = "move" /\ flight' = (flight \ {p}) \cup {[p EXCEPT !.st = "moved"]}
    BY DEF MoveInsert
  <1>1. UnitOf(p) \in Unit /\ UnitOf(p)[1] \in config.offered /\ p.src \in {"row", "dlr"}
    BY <1>0, PduUnit DEF BaseInv, FlightInv, GoodPdu, UnitOf, Open
  <1>2. /\ FlightInv' /\ flight' \subseteq Pdu
        /\ SameOrigin([p EXCEPT !.st = "moved"], p)
    <2>1. "moved" \in PduState /\ "moved" \notin Open
      BY DEF PduState, Open
    <2> QED
      BY <1>0, <1>1, <2>1, PduChanges
  <1>3. CASE AddPdu(UnitOf(p)) /\ UNCHANGED <<givenUp, faults>>
    <2>1. /\ pdus' \in [Pid -> Unit0]
          /\ \A q \in Pid : pdus'[q] # pdus[q] => pdus'[q] = UnitOf(p) /\ pdus[q] = NoUnit
          /\ \A i \in Held : Linked(i, rows, pdus')
      BY <1>1, <1>3, AddPduStep
    <2>2. TypeBox' /\ TypeTables' /\ TypeWork'
      BY <1>0, <1>3, <2>1 DEF BaseInv, TypeOK, TypeBox, TypeTables, TypeWork, boxVars, workVars, rowVars
    <2>3. ThreadInv'
      BY <1>0 DEF BaseInv, ThreadInv, workVars
    <2>4. TableInv'
      BY <1>0, <1>1, <2>1 DEF BaseInv, TableInv, rowVars
    <2>5. LinkInv'
      <3> SUFFICES ASSUME NEW j \in Held'
                   PROVE  Linked(j, rows', pdus')
        BY DEF LinkInv
      <3>1. j \in Held \/ j = [p EXCEPT !.st = "moved"]
        BY <1>0, HeldIs, HeldIsNext DEF workVars
      <3>2. Linked([p EXCEPT !.st = "moved"], rows, pdus')
        <4>1. Linked(p, rows, pdus') /\ p.src # "pdu"
          BY <1>1, <2>1, HeldIs
        <4> QED
          BY <1>2, <4>1 DEF Linked, SameOrigin, FromRow
      <3> QED
        BY <1>0, <2>1, <3>1, <3>2 DEF rowVars
    <2> QED
      BY <1>2, <2>2, <2>3, <2>4, <2>5 DEF BaseInv, TypeOK
  <1>4. CASE Fault /\ givenUp' = givenUp \cup {UnitOf(p)} /\ UNCHANGED pdus
    <2>1. faults' \in 0 .. config.faults
      BY <1>4, FaultStep
    <2>2. TypeBox' /\ TypeTables' /\ TypeWork'
      BY <1>0, <1>1, <1>4, <2>1 DEF BaseInv, TypeOK, TypeBox, TypeTables, TypeWork, boxVars, workVars, rowVars
    <2>3. ThreadInv' /\ TableInv'
      BY <1>0, <1>4 DEF BaseInv, ThreadInv, TableInv, workVars, rowVars
    <2>4. \A q \in flight' : \E i \in Held : i # NoItem /\ SameOrigin(q, i)
      <3>1. \A r \in flight : r # NoItem /\ SameOrigin(r, r)
        BY DEF BaseInv, FlightInv, GoodPdu, Pdu, NoItem, SameOrigin
      <3> QED
        BY <1>0, <1>2, <3>1, HeldIs
    <2>5. LinkInv'
      BY <1>0, <1>4, <2>4, LinkStep, HeldIs DEF workVars, rowVars
    <2> QED
      BY <1>2, <2>2, <2>3, <2>5 DEF BaseInv, TypeOK
  <1> QED
    BY <1>3, <1>4 DEF MoveInsert

\* The DELETE that follows it.
LEMMA BaseMoveRemove ==
  ASSUME BaseInv, NEW p \in flight, MoveRemove(p)
  PROVE  BaseInv'
  <1>0. /\ UNCHANGED <<config, boxVars, conn, workVars, pduVars, history>>
        /\ RemoveReport(p) /\ flight' \subseteq flight
    BY DEF MoveRemove
  <1>1. /\ \A g \in Gid : rows'[g] \in {rows[g], NoMsg}
        /\ rows' \in [Gid -> Msg \cup {NoMsg}] /\ pending' \subseteq Gid
        /\ faults' \in 0 .. config.faults /\ dlrs' \subseteq dlrs
    BY <1>0, ReportRemoved
  <1>2. TypeBox' /\ TypeTables' /\ TypeWork'
    BY <1>0, <1>1 DEF BaseInv, TypeOK, TypeBox, TypeTables, TypeWork, boxVars, workVars, pduVars, history
  <1>3. ThreadInv'
    BY <1>0 DEF BaseInv, ThreadInv, workVars
  <1>4. TableInv'
    BY <1>0, <1>1, TableStep DEF pduVars
  <1>5. FlightInv' /\ flight' \subseteq Pdu /\ LinkInv'
    BY <1>0, <1>1, FlightStep, LinkStep, HeldIs DEF workVars, pduVars
  <1> QED
    BY <1>2, <1>3, <1>4, <1>5 DEF BaseInv, TypeOK

\* A crash or a panic leaves the tables and nothing else.
LEMMA BaseRestart ==
  ASSUME BaseInv, Crash \/ MoverPanics
  PROVE  BaseInv'
  <1>0. /\ Restart /\ faults' \in 0 .. config.faults
    BY FaultStep DEF Crash, MoverPanics, BaseInv, TypeOK, TypeBox
  <1>1. /\ UNCHANGED <<config, rows, pdus, dlrs, history>> /\ flight' = {} /\ pending' = {} /\ pendPdu' = {}
        /\ pc' = [t \in Thread |-> "idle"] /\ hand' = [t \in Thread |-> NoItem]
        /\ at' = [t \in Thread |-> NoEsme] /\ batch' = [t \in Thread |-> {}]
    BY <1>0 DEF Restart, Resting
  <1>2. TypeBox'
    <2>1. box' \in [Msg -> {"held", "out", "ok", "failed"}] /\ conn' \in [Esme -> {"up", "down"}] /\ boxUp' = FALSE
      BY <1>0 DEF Restart, BaseInv, TypeOK, TypeBox
    <2> QED
      BY <1>0, <1>1, <2>1 DEF BaseInv, TypeOK, TypeBox
  <1>3. TypeWork' /\ TypeTables' /\ flight' \subseteq Pdu
    BY <1>1 DEF BaseInv, TypeOK, TypeWork, TypeTables, history
  <1>4. ThreadInv' /\ FlightInv' /\ TableInv'
    BY <1>1 DEF BaseInv, ThreadInv, FlightInv, TableInv
  <1>5. LinkInv'
    <2>1. \A i \in Held' : i = NoItem
      BY <1>1, HeldIsNext
    <2> QED
      BY <2>1, NoItemFree DEF LinkInv
  <1> QED
    BY <1>2, <1>3, <1>4, <1>5 DEF BaseInv, TypeOK

\* The invariant at the start.
LEMMA BaseInit == Init => BaseInv
  <1> SUFFICES ASSUME Init
               PROVE  BaseInv
    OBVIOUS
  <1>1. /\ config \in Scenarios /\ config.faults \in Nat /\ config.offered \subseteq Msg
        /\ faults = 0 /\ flight = {} /\ pending = {} /\ pendPdu = {} /\ got = {} /\ givenUp = {}
        /\ rows = [g \in Gid |-> NoMsg] /\ pdus = [p \in Pid |-> NoUnit] /\ dlrs = config.offered \cap TableDlr
        /\ pc = [t \in Thread |-> "idle"] /\ hand = [t \in Thread |-> NoItem]
        /\ at = [t \in Thread |-> NoEsme] /\ batch = [t \in Thread |-> {}]
    BY DEF Init, Resting
  <1>2. TypeBox
    <2>1. box \in [Msg -> {"held", "out", "ok", "failed"}] /\ conn \in [Esme -> {"up", "down"}] /\ boxUp = FALSE
      BY DEF Init
    <2>2. 0 \in 0 .. config.faults
      BY <1>1
    <2> QED
      BY <1>1, <2>1, <2>2 DEF TypeBox
  <1>3. TypeWork /\ TypeTables /\ flight \subseteq Pdu
    BY <1>1 DEF TypeWork, TypeTables, Unit0
  <1>4. ThreadInv /\ FlightInv /\ TableInv
    BY <1>1 DEF ThreadInv, FlightInv, TableInv
  <1>5. LinkInv
    <2>1. \A i \in Held : i = NoItem
      BY <1>1, HeldIs
    <2> QED
      BY <2>1, NoItemFree DEF LinkInv
  <1> QED
    BY <1>2, <1>3, <1>4, <1>5 DEF BaseInv, TypeOK

\* Every step keeps the invariant.
LEMMA BaseStep ==
  ASSUME BaseInv, [Next]_vars
  PROVE  BaseInv'
  <1>1. CASE \E m \in Msg : ReaderRead(m)
    BY <1>1, BaseChoose DEF Thread
  <1>2. CASE \E t \in Thread : ThreadStep(t)
    BY <1>2, BaseChoose, BaseUnrouted, BaseAddOutbound DEF ThreadStep
  <1>3. CASE \E t \in {"mover", "requeue"} : Take(t)
    BY <1>3, BaseChoose DEF Thread
  <1>4. CASE ReaderUnconvertible \/ ReaderNone \/ ReaderStored \/ MoverPoll \/ MoverNone \/ MoverPanics \/ Poll \/ RequeueNone
    BY <1>4, BaseReaderEnds, BaseReaderNone, BaseMoverPoll, BaseRestart, BasePoll, BaseRequeueNone
  <1>5. CASE \E p \in flight : \/ OutboundSend(p) \/ EsmeAnswer(p) \/ ProcessAck(p)
                               \/ Expire(p) \/ DestroyAck(p) \/ MoveInsert(p) \/ MoveRemove(p)
    BY <1>5, BaseOnItsWay, BaseCallback, BaseMoveInsert, BaseMoveRemove
  <1>6. CASE (\E e \in Esme : Bind(e) \/ Disconnect(e)) \/ BoxConnect \/ BoxLost \/ Crash
    BY <1>6, BaseConnections, BaseRestart
  <1>7. CASE UNCHANGED vars
    <2>1. TypeOK'
      BY <1>7 DEF BaseInv, TypeOK, TypeBox, TypeWork, TypeTables, vars, boxVars, workVars, rowVars, pduVars, history
    <2>2. ThreadInv' /\ FlightInv' /\ TableInv' /\ LinkInv'
      BY <1>7 DEF BaseInv, ThreadInv, FlightInv, TableInv, LinkInv, Held, vars, workVars, rowVars, pduVars
    <2> QED
      BY <2>1, <2>2 DEF BaseInv
  <1> QED
    BY <1>1, <1>2, <1>3, <1>4, <1>5, <1>6, <1>7 DEF Next

\* In every reachable state the variables have their types, threads at rest hold
\* nothing, and what a thread or a PDU took from a table is still there or gone.
THEOREM BaseInvariant == Spec => []BaseInv
  <1>1. BaseInv /\ [Next]_vars => BaseInv'
    BY BaseStep
  <1> QED
    BY <1>1, BaseInit, PTL DEF Spec

\* Every variable of the deliver path keeps its type.
THEOREM TypeCorrect == Spec => []TypeOK
  <1>1. BaseInv => TypeOK
    BY DEF BaseInv
  <1> QED
    BY <1>1, BaseInvariant, PTL

-----------------------------------------------------------------------------
(* A claimed row has one holder *)

\* What no claim is about: messages bearerbox waits for and DLR rows.
Apart(i) == ~FromRow(i) /\ i.src # "pdu"

\* What is held without a row clashes with nothing and needs no claim.
LEMMA ApartFree ==
  ASSUME NEW i, Apart(i)
  PROVE  /\ \A x : ~Clash(i, x) /\ ~Clash(x, i)
         /\ \A P, Q : Claimed(i, P, Q)
  BY DEF Apart, Clash, SameRow, Claimed, Sole

\* An empty hand holds no row.
LEMMA NoItemApart == Apart(NoItem)
  BY DEF Apart, NoItem, FromRow

\* At most the claim on the row of x is dropped.
Released(x) ==
  /\ pending \ (IF FromRow(x) THEN {x.gid} ELSE {}) \subseteq pending'
  /\ pendPdu \ (IF x.src = "pdu" THEN {x.gid} ELSE {}) \subseteq pendPdu'

\* That is a claim of nothing that does not clash with x.
LEMMA ClaimKept ==
  ASSUME NEW i, NEW x, Claimed(i, pending, pendPdu), ~Clash(i, x), Released(x)
  PROVE  Claimed(i, pending', pendPdu')
  <1> SUFFICES ASSUME Sole(i)
               PROVE  i.gid \in IF i.src = "pdu" THEN pendPdu' ELSE pending'
    BY DEF Claimed
  <1>1. ~SameRow(i, x)
    BY DEF Clash
  <1>2. CASE i.src = "pdu"
    BY <1>1, <1>2 DEF Claimed, Released, SameRow
  <1>3. CASE i.src # "pdu"
    BY <1>1, <1>3 DEF Claimed, Released, SameRow, Sole
  <1> QED
    BY <1>2, <1>3

\* Those that stay hold what they held.
LEMMA OnceShrinks ==
  ASSUME OnceInv, flight' \subseteq flight,
         \A t \in Thread : batch'[t] \subseteq batch[t],
         \A t \in Thread : hand'[t] = hand[t] \/ Apart(hand'[t])
  PROVE  OnceInv'
  <1>1. \A p, q \in flight' : Clash(p, q) => p = q
    BY DEF OnceInv
  <1>2. \A p \in flight', t \in Thread : ~Clash(p, hand'[t])
    BY ApartFree DEF OnceInv
  <1>3. \A p \in flight', t \in Thread : \A i \in batch'[t] : ~Clash(p, i)
    BY DEF OnceInv
  <1>4. \A t, u \in Thread : Clash(hand'[t], hand'[u]) => t = u
    BY ApartFree DEF OnceInv
  <1>5. \A t, u \in Thread : \A i \in batch'[u] : ~Clash(hand'[t], i)
    BY ApartFree DEF OnceInv
  <1>6. \A t, u \in Thread : \A i \in batch'[t], j \in batch'[u] : Clash(i, j) => t = u /\ i = j
    BY DEF OnceInv
  <1> QED
    BY <1>1, <1>2, <1>3, <1>4, <1>5, <1>6 DEF OnceInv

\* A claim is dropped together with its only holder.
LEMMA ClaimShrinks ==
  ASSUME ClaimInv, NEW x, Released(x),
         \A i \in Held' : (i \in Held /\ ~Clash(i, x)) \/ Apart(i)
  PROVE  ClaimInv'
  BY ClaimKept, ApartFree DEF ClaimInv

\* Nothing is released and nothing new is held.
LEMMA OnceSame ==
  ASSUME ClaimInv, OnceInv, flight' \subseteq flight,
         \A t \in Thread : batch'[t] \subseteq batch[t],
         \A t \in Thread : hand'[t] = hand[t] \/ Apart(hand'[t]),
         pending \subseteq pending', pendPdu \subseteq pendPdu'
  PROVE  ClaimInv' /\ OnceInv'
  <1>1. Released(NoItem)
    BY DEF Released
  <1>2. \A i \in Held' : (i \in Held /\ ~Clash(i, NoItem)) \/ Apart(i)
    BY HeldIsNext, HeldIs, NoItemFree
  <1> QED
    BY <1>1, <1>2, OnceShrinks, ClaimShrinks

\* What a thread has in its hand is dropped, with its claim.
LEMMA OnceHandDropped ==
  ASSUME BaseInv, ClaimInv, OnceInv, NEW t \in Thread, Done(t), config' = config, flight' \subseteq flight,
         Released(hand[t])
  PROVE  ClaimInv' /\ OnceInv'
  <1>1. /\ \A u \in Thread : batch'[u] = batch[u] /\ hand'[u] = (IF u = t THEN NoItem ELSE hand[u])
    BY DoneStep
  <1>2. \A i \in Held' : (i \in Held /\ ~Clash(i, hand[t])) \/ Apart(i)
    <2> SUFFICES ASSUME NEW i \in Held', ~Apart(i)
                 PROVE  i \in Held /\ ~Clash(i, hand[t])
      OBVIOUS
    <2>0. SameOrigin(i, i)
      BY DEF SameOrigin
    <2>1. CASE i \in flight'
      BY <2>1, HeldIs DEF OnceInv
    <2>2. CASE \E u \in Thread : i \in batch'[u]
      BY <1>1, <2>0, <2>2, HeldIs, ClashKept DEF OnceInv
    <2>3. CASE \E u \in Thread : i = hand'[u]
      BY <1>1, <2>3, HeldIs, NoItemApart DEF OnceInv
    <2> QED
      BY <2>1, <2>2, <2>3, HeldIsNext
  <1>3. \A u \in Thread : hand'[u] = hand[u] \/ Apart(hand'[u])
    BY <1>1, NoItemApart
  <1>4. \A u \in Thread : batch'[u] \subseteq batch[u]
    BY <1>1
  <1> QED
    BY <1>2, <1>3, <1>4, ClaimShrinks, OnceShrinks

\* A PDU is through, its claim is dropped.
LEMMA OncePduDropped ==
  ASSUME ClaimInv, OnceInv, NEW p \in flight, flight' = flight \ {p}, UNCHANGED workVars, Released(p)
  PROVE  ClaimInv' /\ OnceInv'
  <1>1. \A i \in Held' : i \in Held /\ ~Clash(i, p)
    <2> SUFFICES ASSUME NEW i \in Held'
                 PROVE  i \in Held /\ ~Clash(i, p)
      OBVIOUS
    <2>0. SameOrigin(i, i)
      BY DEF SameOrigin
    <2>1. CASE i \in flight'
      BY <2>1, HeldIs DEF OnceInv
    <2>2. CASE \E u \in Thread : i \in batch'[u]
      BY <2>0, <2>2, HeldIs, ClashKept DEF OnceInv, workVars
    <2>3. CASE \E u \in Thread : i = hand'[u]
      BY <2>0, <2>3, HeldIs, ClashKept DEF OnceInv, workVars
    <2> QED
      BY <2>1, <2>2, <2>3, HeldIsNext
  <1>2. ClaimInv'
    BY <1>1, ClaimShrinks
  <1>3. OnceInv'
    BY OnceShrinks DEF workVars
  <1> QED
    BY <1>2, <1>3

\* A PDU changes its state.
LEMMA OncePduChanged ==
  ASSUME ClaimInv, OnceInv, NEW p \in flight, NEW q, SameOrigin(q, p), flight' = (flight \ {p}) \cup {q},
         UNCHANGED <<workVars, pending, pendPdu>>
  PROVE  ClaimInv' /\ OnceInv'
  <1>0. hand' = hand /\ batch' = batch
    BY DEF workVars
  <1>1. \A k : (Clash(q, k) <=> Clash(p, k)) /\ (Clash(k, q) <=> Clash(k, p)) /\ (Clash(p, k) <=> Clash(k, p))
    BY ClashKept
  <1>2. ClaimInv'
    <2>1. Claimed(q, pending, pendPdu)
      BY HeldIs DEF ClaimInv, Claimed, Sole, SameOrigin, FromRow
    <2>2. \A i \in Held' : i \in Held \/ i = q
      BY <1>0, HeldIs, HeldIsNext
    <2> QED
      BY <2>1, <2>2 DEF ClaimInv
  <1>3. \A a, b \in flight' : Clash(a, b) => a = b
    BY <1>1 DEF OnceInv
  <1>4. \A a \in flight', t \in Thread : ~Clash(a, hand'[t])
    BY <1>0, <1>1 DEF OnceInv
  <1>5. \A a \in flight', t \in Thread : \A i \in batch'[t] : ~Clash(a, i)
    BY <1>0, <1>1 DEF OnceInv
  <1> QED
    BY <1>0, <1>2, <1>3, <1>4, <1>5 DEF OnceInv

\* A thread takes up the next item of its batch.
LEMMA OnceTaken ==
  ASSUME BaseInv, ClaimInv, OnceInv, NEW t \in Thread, NEW i \in batch[t], hand[t] = NoItem,
         hand' = [hand EXCEPT ![t] = i], batch' = [batch EXCEPT ![t] = @ \ {i}],
         UNCHANGED <<flight, pending, pendPdu>>
  PROVE  ClaimInv' /\ OnceInv'
  <1>1. /\ \A u \in Thread : hand'[u] = IF u = t THEN i ELSE hand[u]
        /\ \A u \in Thread : batch'[u] = IF u = t THEN batch[u] \ {i} ELSE batch[u]
    BY DEF BaseInv, TypeOK, TypeWork
  <1>2. ClaimInv'
    <2>1. \A j \in Held' : j \in Held
      BY <1>1, HeldIs, HeldIsNext
    <2> QED
      BY <2>1 DEF ClaimInv
  <1>3. \A x, y : Clash(x, y) <=> Clash(y, x)
    BY DEF Clash, SameRow
  <1>4. \A a \in flight', u \in Thread : ~Clash(a, hand'[u])
    BY <1>1 DEF OnceInv
  <1>5. \A a \in flight', u \in Thread : \A j \in batch'[u] : ~Clash(a, j)
    BY <1>1 DEF OnceInv
  <1>6. \A u, v \in Thread : Clash(hand'[u], hand'[v]) => u = v
    BY <1>1, <1>3 DEF OnceInv
  <1>7. \A u, v \in Thread : \A j \in batch'[v] : ~Clash(hand'[u], j)
    BY <1>1, <1>3 DEF OnceInv
  <1>8. \A u, v \in Thread : \A j \in batch'[u], k \in batch'[v] : Clash(j, k) => u = v /\ j = k
    BY <1>1 DEF OnceInv
  <1> QED
    BY <1>2, <1>4, <1>5, <1>6, <1>7, <1>8 DEF OnceInv

\* What has a claim of its own becomes one PDU.
LEMMA PdusOfOne ==
  ASSUME NEW t, NEW c, NEW i, GoodItem(i, t, c), Sole(i) \/ Parts[i.msg] = 1, NEW e, NEW st,
         NEW q \in PdusOf(i, e, st), NEW r \in PdusOf(i, e, st)
  PROVE  q = r
  <1> DEFINE ks == IF i.part = 0 THEN PartsOf(i.msg) ELSE {i.part}
  <1>1. PICK k \in ks : q \in NewPdu(i, k, e, st)
    BY DEF PdusOf
  <1>2. PICK l \in ks : r \in NewPdu(i, l, e, st)
    BY DEF PdusOf
  <1>3. k = l
    <2>1. CASE i.part = 0
      <3>1. i.src \in {"box", "mo"}
        <4>1. i.msg \in Msg
          BY DEF GoodItem, Item
        <4> QED
          BY <2>1, <4>1 DEF GoodItem, PartsOf
      <3>2. Parts[i.msg] = 1
        BY <3>1 DEF Sole
      <3> QED
        BY <2>1, <3>2 DEF PartsOf
    <2>2. CASE i.part # 0
      BY <2>2
    <2> QED
      BY <2>1, <2>2
  <1> QED
    BY <1>1, <1>2, <1>3, NewPduIs

\* The item in a thread's hand becomes PDUs.
LEMMA OnceAdded ==
  ASSUME BaseInv, ClaimInv, OnceInv, NEW t \in Thread, pc[t] # "idle", Done(t), config' = config,
         NEW e, NEW st, flight' = flight \cup PdusOf(hand[t], e, st),
         \A q \in PdusOf(hand[t], e, st) : SameOrigin(q, hand[t]),
         UNCHANGED <<pending, pendPdu>>
  PROVE  ClaimInv' /\ OnceInv'
  <1> DEFINE new == PdusOf(hand[t], e, st)
  <1>1. \A u \in Thread : batch'[u] = batch[u] /\ hand'[u] = (IF u = t THEN NoItem ELSE hand[u])
    BY DoneStep
  <1>2. \A q \in new : \A k : (Clash(q, k) <=> Clash(hand[t], k)) /\ (Clash(k, q) <=> Clash(k, hand[t]))
    BY ClashKept
  <1>3. \A x, y : Clash(x, y) <=> Clash(y, x)
    BY DEF Clash, SameRow
  <1>4. \A q, r \in new : Clash(q, r) => q = r
    <2> SUFFICES ASSUME NEW q \in new, NEW r \in new, Clash(q, r)
                 PROVE  q = r
      OBVIOUS
    <2>1. Sole(hand[t])
      BY <1>2 DEF Clash
    <2>2. GoodItem(hand[t], t, config)
      BY DEF BaseInv, ThreadInv
    <2> QED
      BY <2>1, <2>2, PdusOfOne
  <1>5. ClaimInv'
    <2>1. \A q \in new : Claimed(q, pending, pendPdu)
      BY HeldIs DEF ClaimInv, Claimed, Sole, SameOrigin, FromRow
    <2> HIDE DEF new
    <2>2. \A i \in Held' : i \in Held \/ i \in new \/ i = NoItem
      BY <1>1, HeldIs, HeldIsNext DEF new
    <2> QED
      BY <2>1, <2>2, NoItemFree DEF ClaimInv
  <1> HIDE DEF new
  <1>6. flight' = flight \cup new
    BY DEF new
  <1>7. \A a, b \in flight' : Clash(a, b) => a = b
    BY <1>2, <1>3, <1>4, <1>6 DEF OnceInv
  <1>8. \A a \in flight', u \in Thread : ~Clash(a, hand'[u])
    BY <1>1, <1>2, <1>6, NoItemFree DEF OnceInv
  <1>9. \A a \in flight', u \in Thread : \A i \in batch'[u] : ~Clash(a, i)
    BY <1>1, <1>2, <1>6 DEF OnceInv
  <1>10. \A u, v \in Thread : Clash(hand'[u], hand'[v]) => u = v
    BY <1>1, NoItemFree DEF OnceInv
  <1>11. \A u, v \in Thread : \A i \in batch'[v] : ~Clash(hand'[u], i)
    BY <1>1, NoItemFree DEF OnceInv
  <1>12. \A u, v \in Thread : \A i \in batch'[u], j \in batch'[v] : Clash(i, j) => u = v /\ i = j
    BY <1>1 DEF OnceInv
  <1> QED
    BY <1>5, <1>7, <1>8, <1>9, <1>10, <1>11, <1>12 DEF OnceInv

\* A thread reads rows that are not claimed, and claims them.
LEMMA OncePolled ==
  ASSUME BaseInv, ClaimInv, OnceInv, NEW t \in Thread, NEW new, batch[t] = {},
         batch' = [batch EXCEPT ![t] = new], UNCHANGED <<flight, hand>>,
         \A i \in new : \A j \in Held : ~Clash(i, j),
         \A i, j \in new : Clash(i, j) => i = j,
         \A i \in new : Claimed(i, pending', pendPdu'),
         pending \subseteq pending', pendPdu \subseteq pendPdu'
  PROVE  ClaimInv' /\ OnceInv'
  <1>1. \A u \in Thread : batch'[u] = IF u = t THEN new ELSE batch[u]
    BY DEF BaseInv, TypeOK, TypeWork
  <1>2. ClaimInv'
    <2>1. \A i \in Held' : i \in Held \/ i \in new
      BY <1>1, HeldIs, HeldIsNext
    <2>2. \A i \in Held : Claimed(i, pending', pendPdu')
      BY DEF ClaimInv, Claimed
    <2> QED
      BY <2>1, <2>2 DEF ClaimInv
  <1>3. \A x, y : Clash(x, y) <=> Clash(y, x)
    BY DEF Clash, SameRow
  <1>4. \A a \in flight', u \in Thread : \A i \in batch'[u] : ~Clash(a, i)
    BY <1>1, <1>3, HeldIs DEF OnceInv
  <1>5. \A u, v \in Thread : \A i \in batch'[v] : ~Clash(hand'[u], i)
    BY <1>1, <1>3, HeldIs DEF OnceInv
  <1>6. \A u, v \in Thread : \A i \in batch'[u], j \in batch'[v] : Clash(i, j) => u = v /\ i = j
    BY <1>1, <1>3, HeldIs DEF OnceInv
  <1> QED
    BY <1>2, <1>4, <1>5, <1>6 DEF OnceInv

\* A row nobody has claimed is held by nobody, if it has one part.
LEMMA UnclaimedFree ==
  ASSUME BaseInv, ClaimInv, NEW i, NEW j \in Held,
         FromRow(i) => i.gid \in Gid \ pending /\ i.msg = rows[i.gid] /\ i.msg # NoMsg,
         i.src = "pdu" => i.gid \notin pendPdu
  PROVE  ~Clash(i, j)
  <1> SUFFICES ASSUME SameRow(i, j), Sole(i) \/ Sole(j)
               PROVE  FALSE
    BY DEF Clash
  <1>1. Claimed(j, pending, pendPdu) /\ Linked(j, rows, pdus)
    BY DEF BaseInv, ClaimInv, LinkInv
  <1>2. CASE FromRow(i) /\ FromRow(j)
    <2>1. j.msg = i.msg /\ j.src # "pdu" /\ i.src # "pdu"
      BY <1>1, <1>2 DEF Linked, SameRow, FromRow
    <2> QED
      BY <1>1, <1>2, <2>1 DEF Claimed, SameRow, Sole
  <1>3. CASE i.src = "pdu" /\ j.src = "pdu"
    BY <1>1, <1>3 DEF Claimed, SameRow, Sole
  <1> QED
    BY <1>2, <1>3 DEF SameRow

HolderInv == BaseInv /\ ClaimInv /\ OnceInv

\* The mover takes only rows that nobody has claimed.
LEMMA OncePollsMover ==
  ASSUME HolderInv, MoverPoll
  PROVE  ClaimInv' /\ OnceInv'
  <1> DEFINE found == {g \in Gid \ pending : rows[g] \in Mo}
             new == {[src |-> "mo", msg |-> rows[g], part |-> 0, gid |-> g] : g \in found}
  <1>0. /\ UNCHANGED <<flight, hand, pdus, pendPdu>> /\ batch["mover"] = {}
        /\ pending' = pending \cup found /\ batch' = [batch EXCEPT !["mover"] = new] /\ "mover" \in Thread
    BY DEF MoverPoll, Thread, pduVars
  <1>1. \A i \in new : /\ i.src = "mo" /\ i.gid \in found /\ i.msg = rows[i.gid]
                       /\ i = [src |-> "mo", msg |-> rows[i.gid], part |-> 0, gid |-> i.gid]
    OBVIOUS
  <1> HIDE DEF new
  <1>2. \A i \in new : \A j \in Held : ~Clash(i, j)
    <2>1. \A g \in found : rows[g] # NoMsg
      BY DEF Msg
    <2> QED
      BY <1>1, <2>1, UnclaimedFree DEF HolderInv
  <1>3. \A i, j \in new : Clash(i, j) => i = j
    BY <1>1 DEF Clash, SameRow
  <1>4. \A i \in new : Claimed(i, pending', pendPdu')
    BY <1>0, <1>1 DEF Claimed
  <1>5. pending \subseteq pending' /\ pendPdu \subseteq pendPdu'
    BY <1>0
  <1> QED
    BY <1>0, <1>2, <1>3, <1>4, <1>5, OncePolled DEF HolderInv

\* The requeue thread takes only PDUs and rows that nobody has claimed.
LEMMA OncePollsRequeue ==
  ASSUME HolderInv, Poll
  PROVE  ClaimInv' /\ OnceInv'
  <1>1. PICK P, D, R, G, gone, goneDlr : PollOf(P, D, R, G, gone, goneDlr)
    BY PollIs
  <1>2. UNCHANGED <<flight, hand>> /\ batch["requeue"] = {} /\ "requeue" \in Thread
    BY PollIs DEF Thread
  <1> DEFINE new == PduItems(P) \cup DlrItems(D) \cup RowItems(G)
  <1>3. batch' = [batch EXCEPT !["requeue"] = new]
    BY <1>1 DEF PollOf
  <1>4. \A i \in new : /\ GoodItem(i, "requeue", config)
                       /\ i.src = "pdu" => i.gid \in P
                       /\ i.src # "pdu" => i.src \in {"dlr", "row"}
                       /\ i.src = "row" => i.gid \in G /\ i.msg = rows[i.gid]
    BY <1>1, PollItems DEF HolderInv
  <1>5. /\ \A p \in P : p \notin pendPdu /\ p \in pendPdu'
        /\ \A g \in G : g \in Gid \ pending /\ rows[g] # NoMsg /\ g \in pending'
        /\ pending \subseteq pending' /\ pendPdu \subseteq pendPdu'
    BY <1>1 DEF PollOf, Msg
  <1>6. \A i, j \in new : Clash(i, j) => i = j
    <2> SUFFICES ASSUME NEW i \in new, NEW j \in new, Clash(i, j)
                 PROVE  i = j
      OBVIOUS
    <2>1. CASE i.src = "pdu"
      <3>1. j.src = "pdu" /\ i.gid = j.gid
        BY <2>1 DEF Clash, SameRow, FromRow
      <3>2. \A x \in new : x.src = "pdu" => x = [src |-> "pdu", msg |-> pdus[x.gid][1], part |-> pdus[x.gid][2], gid |-> x.gid]
        BY DEF PduItems, DlrItems, RowItems
      <3> QED
        BY <2>1, <3>1, <3>2
    <2>2. CASE i.src # "pdu"
      <3>1. i.src = "row" /\ j.src = "row" /\ i.gid = j.gid
        BY <1>4, <2>2 DEF Clash, SameRow, FromRow
      <3>2. i.msg = j.msg /\ Parts[i.msg] = 1
        BY <1>4, <3>1 DEF Clash, Sole
      <3>3. \A x \in new : x.src = "row" => \E k \in PartsOf(rows[x.gid]) :
              x = [src |-> "row", msg |-> rows[x.gid], part |-> k, gid |-> x.gid]
        BY DEF PduItems, DlrItems, RowItems
      <3>4. \A k \in PartsOf(i.msg) : k = 1
        BY <3>2 DEF PartsOf
      <3> QED
        BY <1>4, <3>1, <3>2, <3>3, <3>4
    <2> QED
      BY <2>1, <2>2
  <1> HIDE DEF new
  <1>7. \A i \in new : \A j \in Held : ~Clash(i, j)
    BY <1>4, <1>5, UnclaimedFree DEF HolderInv, FromRow
  <1>8. \A i \in new : Claimed(i, pending', pendPdu')
    BY <1>4, <1>5 DEF Claimed, Sole, FromRow
  <1> QED
    BY <1>2, <1>3, <1>5, <1>6, <1>7, <1>8, OncePolled DEF HolderInv

\* Items go from a batch to a hand and from a hand to an ESME.
LEMMA OnceThreads ==
  ASSUME HolderInv, NEW t \in Thread,
         \/ \E m \in Msg : ReaderRead(m)
         \/ (t # "reader" /\ Take(t)) \/ Choose(t) \/ Unrouted(t) \/ AddOutbound(t)
  PROVE  ClaimInv' /\ OnceInv'
  <1>1. CASE \E m \in Msg : ReaderRead(m)
    <2>0. PICK m \in Msg : ReaderRead(m)
      BY <1>1
    <2>1. PICK i : hand' = [hand EXCEPT !["reader"] = i] /\ i.src = "box"
      <3> PICK i : i = [src |-> "box", msg |-> m, part |-> 0, gid |-> 0]
        OBVIOUS
      <3>1. hand' = [hand EXCEPT !["reader"] = i] /\ i.src = "box"
        BY <2>0 DEF ReaderRead
      <3> QED
        BY <3>1
    <2>2. UNCHANGED <<flight, batch, pending, pendPdu>>
      BY <1>1 DEF ReaderRead, rowVars, pduVars
    <2>3. \A u \in Thread : hand'[u] = hand[u] \/ Apart(hand'[u])
      BY <2>1 DEF HolderInv, BaseInv, TypeOK, TypeWork, Apart, FromRow
    <2> QED
      BY <2>2, <2>3, OnceSame DEF HolderInv
  <1>2. CASE t # "reader" /\ Take(t)
    <2>1. PICK i \in batch[t] : hand' = [hand EXCEPT ![t] = i] /\ batch' = [batch EXCEPT ![t] = @ \ {i}]
      BY <1>2 DEF Take
    <2>2. hand[t] = NoItem /\ UNCHANGED <<flight, pending, pendPdu>>
      BY <1>2 DEF Take, HolderInv, BaseInv, ThreadInv, rowVars, pduVars
    <2> QED
      BY <2>1, <2>2, OnceTaken DEF HolderInv
  <1>3. CASE Choose(t)
    <2>1. UNCHANGED <<flight, hand, batch, pending, pendPdu>>
      BY <1>3 DEF Choose, Goto, rowVars, pduVars
    <2> QED
      BY <2>1, OnceSame DEF HolderInv
  <1>4. CASE Unrouted(t)
    <2>1. Done(t) /\ UNCHANGED <<config, flight, pendPdu>>
      BY <1>4 DEF Unrouted, pduVars
    <2>2. Released(hand[t])
      <3>1. CASE t = "reader"
        BY <1>4, <2>1, <3>1 DEF Unrouted, Released, rowVars
      <3>2. CASE t # "reader"
        <4>1. pc[t] # "idle" /\ t = "mover" /\ pending' = pending \ {hand[t].gid}
          BY <1>4, <3>2 DEF Unrouted, Remove
        <4>2. hand[t].src = "mo"
          BY <4>1 DEF HolderInv, BaseInv, ThreadInv, GoodItem, SourcesOf
        <4> QED
          BY <2>1, <4>1, <4>2 DEF Released, FromRow
      <3> QED
        BY <3>1, <3>2
    <2> QED
      BY <2>1, <2>2, OnceHandDropped DEF HolderInv
  <1>5. CASE AddOutbound(t)
    <2>1. /\ at[t] \in Esme /\ pc[t] # "idle" /\ flight' = flight \cup PdusOf(hand[t], at[t], "queued")
          /\ Done(t) /\ UNCHANGED <<config, pending, pendPdu>>
      BY <1>5 DEF AddOutbound, HolderInv, BaseInv, ThreadInv, rowVars, pduVars
    <2>2. "queued" \in PduState /\ "queued" \in Open
      BY DEF PduState, Open
    <2>3. \A q \in PdusOf(hand[t], at[t], "queued") : SameOrigin(q, hand[t])
      BY <2>1, <2>2, HandToFlight DEF HolderInv
    <2> QED
      BY <2>1, <2>3, OnceAdded DEF HolderInv
  <1> QED
    BY <1>1, <1>2, <1>3, <1>4, <1>5

\* A thread gives up what it holds, and its claim.
LEMMA OnceNone ==
  ASSUME HolderInv, ReaderUnconvertible \/ ReaderNone \/ ReaderStored \/ MoverNone \/ RequeueNone
  PROVE  ClaimInv' /\ OnceInv'
  <1>1. CASE ReaderUnconvertible \/ ReaderStored
    <2>1. Done("reader") /\ "reader" \in Thread /\ UNCHANGED <<config, flight, pending, pendPdu>>
      BY <1>1 DEF ReaderUnconvertible, ReaderStored, Thread, rowVars, pduVars
    <2>2. Released(hand["reader"])
      BY <2>1 DEF Released
    <2> QED
      BY <2>1, <2>2, OnceHandDropped DEF HolderInv
  <1>2. CASE ReaderNone
    <2>1. UNCHANGED <<config, flight, pending, pendPdu>> /\ "reader" \in Thread
      BY <1>2 DEF ReaderNone, pduVars, Thread
    <2>2. CASE Done("reader")
      <3>1. Released(hand["reader"])
        BY <2>1 DEF Released
      <3> QED
        BY <2>1, <2>2, <3>1, OnceHandDropped DEF HolderInv
    <2>3. CASE Goto("reader", "ack")
      BY <2>1, <2>3, OnceSame DEF Goto, HolderInv
    <2> QED
      BY <1>2, <2>2, <2>3 DEF ReaderNone
  <1>3. CASE MoverNone
    <2>1. /\ Done("mover") /\ "mover" \in Thread /\ UNCHANGED <<config, flight, pendPdu>>
          /\ pending' = pending \ {hand["mover"].gid} /\ pc["mover"] # "idle"
      BY <1>3 DEF MoverNone, Thread, pduVars
    <2>2. hand["mover"].src = "mo"
      BY <2>1 DEF HolderInv, BaseInv, ThreadInv, GoodItem, SourcesOf
    <2>3. Released(hand["mover"])
      BY <2>1, <2>2 DEF Released, FromRow
    <2> QED
      BY <2>1, <2>3, OnceHandDropped DEF HolderInv
  <1>4. CASE RequeueNone
    <2> DEFINE i == hand["requeue"]
    <2>0. Done("requeue") /\ "requeue" \in Thread /\ UNCHANGED <<config, pending>> /\ pc["requeue"] # "idle"
      BY <1>4 DEF RequeueNone, Thread, rowVars
    <2>1. CASE i.src = "pdu"
      <3>1. flight' = flight /\ pendPdu' = pendPdu \ {i.gid}
        BY <1>4, <2>1 DEF RequeueNone
      <3>2. Released(hand["requeue"])
        BY <2>0, <2>1, <3>1 DEF Released
      <3> QED
        BY <2>0, <3>1, <3>2, OnceHandDropped DEF HolderInv
    <2>2. CASE i.src # "pdu"
      <3>1. i.src \in {"row", "dlr"} /\ flight' = flight \cup PdusOf(i, NoEsme, "move") /\ UNCHANGED pendPdu
        BY <1>4, <2>2 DEF RequeueNone
      <3>2. "move" \in PduState /\ "move" \notin Open
        BY DEF PduState, Open
      <3>3. \A q \in PdusOf(i, NoEsme, "move") : SameOrigin(q, i)
        BY <2>0, <3>1, <3>2, HandToFlight DEF HolderInv
      <3> QED
        BY <2>0, <3>1, <3>3, OnceAdded DEF HolderInv
    <2> QED
      BY <2>1, <2>2
  <1> QED
    BY <1>1, <1>2, <1>3, <1>4

\* A PDU on its way stays the only holder until it ends.
LEMMA OncePdus ==
  ASSUME HolderInv, NEW p \in flight,
         \/ OutboundSend(p) \/ EsmeAnswer(p) \/ ProcessAck(p)
         \/ Expire(p) \/ DestroyAck(p) \/ MoveInsert(p) \/ MoveRemove(p)
  PROVE  ClaimInv' /\ OnceInv'
  <1>0. UNCHANGED <<config, workVars>>
    BY DEF OutboundSend, EsmeAnswer, ProcessAck, Expire, DestroyAck, MoveInsert, MoveRemove
  <1>1. CASE OutboundSend(p) \/ EsmeAnswer(p) \/ MoveInsert(p)
    <2>1. PICK st : flight' = (flight \ {p}) \cup {[p EXCEPT !.st = st]}
      BY <1>1 DEF OutboundSend, EsmeAnswer, MoveInsert
    <2>2. SameOrigin([p EXCEPT !.st = st], p)
      BY DEF HolderInv, BaseInv, FlightInv, GoodPdu, Pdu, SameOrigin
    <2>3. UNCHANGED <<pending, pendPdu>>
      BY <1>1 DEF OutboundSend, EsmeAnswer, MoveInsert, rowVars, pduVars
    <2> QED
      BY <1>0, <2>1, <2>2, <2>3, OncePduChanged DEF HolderInv
  <1>2. CASE ProcessAck(p) \/ Expire(p) \/ DestroyAck(p)
    <2>1. PICK status : Callback(p, status)
      BY <1>2 DEF ProcessAck, Expire, DestroyAck
    <2>2. CASE CallbackDeliver(p, status)
      <3>1. flight' = flight \ {p} /\ UNCHANGED pendPdu
        BY <2>2 DEF CallbackDeliver, pduVars
      <3>2. Released(p)
        BY <2>2, <3>1 DEF CallbackDeliver, Released, Remove, rowVars, FromRow
      <3> QED
        BY <1>0, <3>1, <3>2, OncePduDropped DEF HolderInv
    <2>3. CASE CallbackReport(p, status) /\ status = "ok"
      <3>1. flight' = flight \ {p} /\ UNCHANGED pendPdu
        BY <2>3 DEF CallbackReport, pduVars
      <3>2. Released(p)
        BY <2>3, <3>1 DEF CallbackReport, RemoveReport, Released, Remove, rowVars, FromRow
      <3> QED
        BY <1>0, <3>1, <3>2, OncePduDropped DEF HolderInv
    <2>4. CASE CallbackReport(p, status) /\ status # "ok"
      <3>1. /\ flight' = (flight \ {p}) \cup {[p EXCEPT !.st = "move"]} /\ UNCHANGED <<pending, pendPdu>>
        BY <2>4 DEF CallbackReport, rowVars, pduVars
      <3>2. SameOrigin([p EXCEPT !.st = "move"], p)
        BY DEF HolderInv, BaseInv, FlightInv, GoodPdu, Pdu, SameOrigin
      <3> QED
        BY <1>0, <3>1, <3>2, OncePduChanged DEF HolderInv
    <2>5. CASE CallbackPdu(p, status)
      <3>1. flight' = flight \ {p} /\ UNCHANGED pending /\ pendPdu' = pendPdu \ {p.gid} /\ p.src = "pdu"
        BY <2>5 DEF CallbackPdu, rowVars
      <3>2. Released(p)
        BY <3>1 DEF Released
      <3> QED
        BY <1>0, <3>1, <3>2, OncePduDropped DEF HolderInv
    <2> QED
      BY <2>1, <2>2, <2>3, <2>4, <2>5 DEF Callback
  <1>3. CASE MoveRemove(p)
    <2>1. flight' = flight \ {p} /\ UNCHANGED pendPdu
      BY <1>3 DEF MoveRemove, pduVars
    <2>2. Released(p)
      BY <1>3, <2>1 DEF MoveRemove, RemoveReport, Released, Remove, rowVars, FromRow
    <2> QED
      BY <1>0, <2>1, <2>2, OncePduDropped DEF HolderInv
  <1> QED
    BY <1>1, <1>2, <1>3

\* After a restart nothing is held and nothing is claimed.
LEMMA OnceRestart ==
  ASSUME HolderInv, Crash \/ MoverPanics
  PROVE  ClaimInv' /\ OnceInv'
  <1>1. flight' = {} /\ hand' = [t \in Thread |-> NoItem] /\ batch' = [t \in Thread |-> {}]
    BY DEF Crash, MoverPanics, Restart, Resting
  <1>2. \A i \in Held' : i = NoItem
    BY <1>1, HeldIsNext
  <1>3. ClaimInv'
    BY <1>2, NoItemFree DEF ClaimInv
  <1>4. \A t \in Thread : hand'[t] = hand[t] \/ Apart(hand'[t])
    BY <1>1, NoItemApart
  <1>5. OnceInv'
    BY <1>1, <1>4, OnceShrinks DEF HolderInv
  <1> QED
    BY <1>3, <1>5

\* Every step keeps claims and holders in line.
LEMMA HolderStep ==
  ASSUME HolderInv, [Next]_vars
  PROVE  HolderInv'
  <1>0. BaseInv'
    BY BaseStep DEF HolderInv
  <1>1. CASE \E m \in Msg : ReaderRead(m)
    BY <1>0, <1>1, OnceThreads DEF Thread, HolderInv
  <1>2. CASE \E t \in Thread : ThreadStep(t)
    BY <1>0, <1>2, OnceThreads DEF ThreadStep, HolderInv
  <1>3. CASE \E t \in {"mover", "requeue"} : Take(t)
    BY <1>0, <1>3, OnceThreads DEF Thread, HolderInv
  <1>4. CASE ReaderUnconvertible \/ ReaderNone \/ ReaderStored \/ MoverPoll \/ MoverNone \/ MoverPanics \/ Poll \/ RequeueNone
    BY <1>0, <1>4, OnceNone, OncePollsMover, OncePollsRequeue, OnceRestart DEF HolderInv
  <1>5. CASE \E p \in flight : \/ OutboundSend(p) \/ EsmeAnswer(p) \/ ProcessAck(p)
                               \/ Expire(p) \/ DestroyAck(p) \/ MoveInsert(p) \/ MoveRemove(p)
    BY <1>0, <1>5, OncePdus DEF HolderInv
  <1>6. CASE Crash
    BY <1>0, <1>6, OnceRestart DEF HolderInv
  <1>7. CASE (\E e \in Esme : Bind(e) \/ Disconnect(e)) \/ BoxConnect \/ BoxLost \/ UNCHANGED vars
    <2>1. UNCHANGED <<flight, hand, batch, pending, pendPdu>>
      BY <1>7 DEF Bind, Disconnect, BoxConnect, BoxLost, vars, workVars, rowVars, pduVars
    <2> QED
      BY <1>0, <2>1, OnceSame DEF HolderInv
  <1> QED
    BY <1>1, <1>2, <1>3, <1>4, <1>5, <1>6, <1>7 DEF Next

\* In every reachable state a stored PDU, and a row of one part, is claimed while
\* a batch, a thread or a PDU on its way holds it, and one of them at most does.
THEOREM HolderInvariant == Spec => []HolderInv
  <1>1. Init => HolderInv
    <2> SUFFICES ASSUME Init
                 PROVE  HolderInv
      OBVIOUS
    <2>1. flight = {} /\ hand = [t \in Thread |-> NoItem] /\ batch = [t \in Thread |-> {}]
      BY DEF Init, Resting
    <2>2. \A i \in Held : i = NoItem
      BY <2>1, HeldIs
    <2>3. ClaimInv
      BY <2>2, NoItemFree DEF ClaimInv
    <2>4. OnceInv
      BY <2>1, NoItemFree DEF OnceInv
    <2> QED
      BY <2>3, <2>4, BaseInit DEF HolderInv
  <1>2. HolderInv /\ [Next]_vars => HolderInv'
    BY HolderStep
  <1> QED
    BY <1>1, <1>2, PTL DEF Spec

\* No stored PDU, and no row of one part, is on its way to an ESME twice.
THEOREM OnTheWayOnce == Spec => []RowOnTheWayOnce
  <1>1. HolderInv => RowOnTheWayOnce
    <2> SUFFICES ASSUME HolderInv, NEW p \in flight, NEW q \in flight,
                        p.src \in {"mo", "row", "pdu"}, p.src = q.src, p.gid = q.gid,
                        p.src = "pdu" \/ Parts[p.msg] = 1
                 PROVE  p = q
      BY DEF RowOnTheWayOnce
    <2>1. Clash(p, q)
      BY DEF Clash, SameRow, Sole, FromRow
    <2> QED
      BY <2>1 DEF HolderInv, OnceInv
  <1> QED
    BY <1>1, HolderInvariant, PTL

-----------------------------------------------------------------------------
(* What bearerbox may forget is accounted for *)

\* A message that needs no row any more.
Settled(m, c, d, G, U) ==
  \/ \E k \in PartsOf(m) : <<m, k>> \in G
  \/ \A k \in PartsOf(m) : <<m, k>> \in U
  \/ /\ m \notin Mo \/ c.drop
     /\ \E k \in PartsOf(m) : <<m, k>> \in U \/ \E q \in Pid : d[q] = <<m, k>>

\* A message that was accepted, stored part by part or given up is safe.
LEMMA SettledSafe ==
  ASSUME NEW m \in Msg, NEW c, NEW r, NEW d, NEW G, NEW U, Settled(m, c, d, G, U)
  PROVE  Safe(m, c, r, d, G, U)
  <1>1. 1 \in PartsOf(m)
    BY DEF PartsOf
  <1>2. CASE \E k \in PartsOf(m) : <<m, k>> \in G
    BY <1>2 DEF Safe
  <1>3. CASE \A k \in PartsOf(m) : <<m, k>> \in U
    <2>1. SafeParts(m, r, d, U) = PartsOf(m)
      BY <1>3 DEF SafeParts
    <2> QED
      BY <1>1, <2>1 DEF Safe
  <1>4. CASE /\ m \notin Mo \/ c.drop
             /\ \E k \in PartsOf(m) : <<m, k>> \in U \/ \E q \in Pid : d[q] = <<m, k>>
    <2>1. SafeParts(m, r, d, U) # {}
      BY <1>4 DEF SafeParts
    <2> QED
      BY <1>4, <2>1 DEF Safe
  <1> QED
    BY <1>2, <1>3, <1>4 DEF Settled

\* A row is deleted only when its message is settled, a PDU only when it was
\* answered or is given up.
Careful ==
  /\ config' = config /\ got \subseteq got' /\ givenUp \subseteq givenUp'
  /\ \A g \in Gid : rows'[g] # rows[g] /\ rows[g] # NoMsg => Settled(rows[g], config, pdus', got', givenUp')
  /\ \A q \in Pid : pdus'[q] # pdus[q] /\ pdus[q] # NoUnit => pdus[q] \in got' \cup givenUp'

\* No careful step makes a safe message unsafe.
LEMMA SafeKept ==
  ASSUME NEW m \in Msg, Careful, Safe(m, config, rows, pdus, got, givenUp)
  PROVE  Safe(m, config, rows', pdus', got', givenUp')
  <1>1. 1 \in PartsOf(m) /\ m # NoMsg
    BY DEF PartsOf
  <1>2. CASE \E k \in PartsOf(m) : <<m, k>> \in got'
    BY <1>2 DEF Safe
  <1>3. CASE ~\E k \in PartsOf(m) : <<m, k>> \in got'
    <2>1. ~\E k \in PartsOf(m) : <<m, k>> \in got
      BY <1>3 DEF Careful
    <2>2. /\ SafeParts(m, rows, pdus, givenUp) # {}
          /\ m \in Mo /\ ~config.drop => SafeParts(m, rows, pdus, givenUp) = PartsOf(m)
      BY <2>1 DEF Safe
    <2>3. CASE \E g \in Gid : rows[g] = m
      <3>1. CASE \E g \in Gid : rows'[g] = m
        <4>1. SafeParts(m, rows', pdus', givenUp') = PartsOf(m)
          BY <3>1 DEF SafeParts
        <4> QED
          BY <1>1, <4>1 DEF Safe
      <3>2. CASE ~\E g \in Gid : rows'[g] = m
        <4>1. Settled(m, config, pdus', got', givenUp')
          BY <1>1, <2>3, <3>2 DEF Careful
        <4> QED
          BY <4>1, SettledSafe
      <3> QED
        BY <3>1, <3>2
    <2>4. CASE ~\E g \in Gid : rows[g] = m
      <3>1. \A k \in SafeParts(m, rows, pdus, givenUp) : k \in SafeParts(m, rows', pdus', givenUp')
        <4> SUFFICES ASSUME NEW k \in SafeParts(m, rows, pdus, givenUp)
                     PROVE  k \in SafeParts(m, rows', pdus', givenUp')
          OBVIOUS
        <4>1. k \in PartsOf(m) /\ ((\E p \in Pid : pdus[p] = <<m, k>>) \/ <<m, k>> \in givenUp)
          BY <2>4 DEF SafeParts
        <4>2. <<m, k>> # NoUnit
          BY <1>1 DEF NoUnit
        <4>3. (\E p \in Pid : pdus'[p] = <<m, k>>) \/ <<m, k>> \in givenUp'
          BY <1>3, <4>1, <4>2 DEF Careful
        <4> QED
          BY <4>1, <4>3 DEF SafeParts
      <3>2. SafeParts(m, rows', pdus', givenUp') \subseteq PartsOf(m)
        BY DEF SafeParts
      <3> QED
        BY <2>2, <3>1, <3>2 DEF Safe
    <2> QED
      BY <2>3, <2>4
  <1> QED
    BY <1>2, <1>3

\* What became of an answered PDU stays so.
LEMMA AnsweredKept ==
  ASSUME Careful, NEW p, UnitOf(p) # NoUnit, Answered(p, pdus, got, givenUp)
  PROVE  Answered(p, pdus', got', givenUp')
  BY DEF Careful, Answered

\* What a step has to show.
LEMMA AccountStep ==
  ASSUME BaseInv, AccountInv, Careful,
         \A q \in flight' : q \in flight \/ Answered(q, pdus', got', givenUp'),
         pc'["reader"] = "ack" =>
            \/ pc["reader"] = "ack" /\ hand'["reader"] = hand["reader"]
            \/ Safe(hand'["reader"].msg, config, rows', pdus', got', givenUp'),
         \A m \in Dlr \cup Mo : box'[m] = "ok" =>
            box[m] = "ok" \/ Safe(m, config, rows', pdus', got', givenUp')
  PROVE  AccountInv'
  <1>1. \A p \in flight' : Answered(p, pdus', got', givenUp')
    BY AnsweredKept, PduUnit DEF AccountInv
  <1>2. pc'["reader"] = "ack" => Safe(hand'["reader"].msg, config, rows', pdus', got', givenUp')
    <2> SUFFICES ASSUME pc["reader"] = "ack", hand'["reader"] = hand["reader"]
                 PROVE  Safe(hand["reader"].msg, config, rows', pdus', got', givenUp')
      OBVIOUS
    <2>1. hand["reader"].msg \in Msg
      BY DEF BaseInv, ThreadInv, GoodItem, Item, Thread
    <2> QED
      BY <2>1, SafeKept DEF AccountInv
  <1>3. \A m \in Dlr \cup Mo : box'[m] = "ok" => Safe(m, config, rows', pdus', got', givenUp')
    BY SafeKept DEF AccountInv, Msg
  <1> QED
    BY <1>1, <1>2, <1>3 DEF AccountInv, Careful

\* A step that leaves the tables and the history alone.
LEMMA QuietIsCareful ==
  ASSUME UNCHANGED <<config, rows, pdus>>, got \subseteq got', givenUp \subseteq givenUp'
  PROVE  Careful
  BY DEF Careful

\* An acknowledgement says "ok" of nothing else.
LEMMA AckBox ==
  ASSUME BaseInv, NEW m \in Msg, NEW s, Acknowledge(m, s)
  PROVE  \A x \in Dlr \cup Mo : box'[x] = "ok" => box[x] = "ok" \/ (x = m /\ s = "ok")
  BY DEF Acknowledge, BaseInv, TypeOK, TypeBox, Msg

\* A DELETE of the row of a settled message is careful.
LEMMA RemoveCareful ==
  ASSUME BaseInv, NEW g \in Gid, NEW m, Remove(g), rows[g] \in {m, NoMsg},
         Settled(m, config, pdus, got', givenUp'),
         UNCHANGED <<config, pdus>>, got \subseteq got', givenUp \subseteq givenUp'
  PROVE  Careful
  <1>1. \A h \in Gid : rows'[h] # rows[h] => h = g
    BY DEF Remove, BaseInv, TypeOK, TypeTables
  <1> QED
    BY <1>1 DEF Careful

\* Taking, choosing and queueing tell bearerbox nothing.
LEMMA AccountThreads ==
  ASSUME BaseInv, AccountInv, NEW t \in Thread,
         \/ \E m \in Msg : ReaderRead(m)
         \/ (t # "reader" /\ Take(t)) \/ Choose(t) \/ Unrouted(t) \/ AddOutbound(t)
  PROVE  AccountInv'
  <1>1. CASE \E m \in Msg : ReaderRead(m)
    <2>1. Careful /\ UNCHANGED flight
      BY <1>1, QuietIsCareful DEF ReaderRead, rowVars, pduVars, history
    <2>2. pc'["reader"] # "ack"
      BY <1>1 DEF ReaderRead, BaseInv, TypeOK, TypeWork, Thread
    <2>3. \A m \in Dlr \cup Mo : box'[m] = "ok" => box[m] = "ok"
      BY <1>1 DEF ReaderRead, BaseInv, TypeOK, TypeBox, Msg
    <2> QED
      BY <2>1, <2>2, <2>3, AccountStep
  <1>2. CASE (t # "reader" /\ Take(t)) \/ Choose(t)
    <2>1. Careful /\ UNCHANGED <<flight, box>>
      BY <1>2, QuietIsCareful DEF Take, Choose, rowVars, pduVars, history, boxVars
    <2>2. pc'["reader"] = "ack" => pc["reader"] = "ack" /\ hand'["reader"] = hand["reader"]
      <3>1. CASE t # "reader" /\ Take(t)
        BY <3>1 DEF Take, BaseInv, TypeOK, TypeWork, Thread
      <3>2. CASE Choose(t)
        BY <3>2 DEF Choose, Goto, BaseInv, TypeOK, TypeWork, Thread
      <3> QED
        BY <1>2, <3>1, <3>2
    <2> QED
      BY <2>1, <2>2, AccountStep
  <1>3. CASE Unrouted(t)
    <2> DEFINE m == hand[t].msg
    <2>1. Done(t) /\ UNCHANGED <<config, flight, pdus, got>> /\ pc[t] = "choose"
      BY <1>3 DEF Unrouted, pduVars
    <2>2. GoodItem(hand[t], t, config) /\ m \in Msg
      BY <2>1 DEF BaseInv, ThreadInv, GoodItem, Item
    <2>3. pc'["reader"] = "ack" => pc["reader"] = "ack" /\ hand'["reader"] = hand["reader"]
      BY <2>1, DoneStep DEF Thread
    <2>4. Careful /\ \A x \in Dlr \cup Mo : box'[x] = "ok" => box[x] = "ok"
      <3>1. CASE t = "reader"
        <4>1. Acknowledge(m, "failed") /\ UNCHANGED <<rowVars, givenUp>>
          BY <1>3, <3>1 DEF Unrouted
        <4> QED
          BY <2>1, <2>2, <4>1, AckBox, QuietIsCareful DEF rowVars
      <3>2. CASE t # "reader"
        <4>1. Remove(hand[t].gid) /\ givenUp' = givenUp \cup {<<m, k>> : k \in PartsOf(m)} /\ UNCHANGED box /\ t = "mover"
          BY <1>3, <3>2 DEF Unrouted
        <4>2. hand[t].gid \in Gid /\ FromRow(hand[t])
          BY <2>2, <4>1 DEF GoodItem, SourcesOf, WellFormed, FromRow
        <4>3. rows[hand[t].gid] \in {m, NoMsg}
          BY <4>2, HeldIs DEF BaseInv, LinkInv, Linked
        <4>4. Settled(m, config, pdus, got', givenUp')
          BY <4>1 DEF Settled
        <4> QED
          BY <2>1, <4>1, <4>2, <4>3, <4>4, RemoveCareful
      <3> QED
        BY <3>1, <3>2
    <2> QED
      BY <2>1, <2>3, <2>4, AccountStep
  <1>4. CASE AddOutbound(t)
    <2>1. Done(t) /\ Careful /\ UNCHANGED <<config, box>>
      BY <1>4, QuietIsCareful DEF AddOutbound, rowVars, pduVars, history, boxVars
    <2>2. pc'["reader"] = "ack" => pc["reader"] = "ack" /\ hand'["reader"] = hand["reader"]
      BY <2>1, DoneStep DEF Thread
    <2>3. \A q \in flight' : q \in flight \/ q.st = "queued"
      <3>1. at[t] \in Esme /\ pc[t] # "idle" /\ flight' = flight \cup PdusOf(hand[t], at[t], "queued")
        BY <1>4 DEF AddOutbound, BaseInv, ThreadInv
      <3>2. "queued" \in PduState /\ "queued" \in Open
        BY DEF PduState, Open
      <3> QED
        BY <2>1, <3>1, <3>2, HandToFlight
    <2> QED
      BY <2>1, <2>2, <2>3, AccountStep DEF Answered
  <1> QED
    BY <1>1, <1>2, <1>3, <1>4

\* The reader acknowledges what it stored or refuses what it cannot.
LEMMA AccountReader ==
  ASSUME BaseInv, AccountInv, ReaderUnconvertible \/ ReaderNone \/ ReaderStored
  PROVE  AccountInv'
  <1> DEFINE m == hand["reader"].msg
  <1>0. "reader" \in Thread /\ pc["reader"] # "idle" /\ UNCHANGED <<config, flight, pdus, got>>
    BY DEF ReaderUnconvertible, ReaderNone, ReaderStored, Thread, pduVars, history
  <1>1. m \in Dlr \cup Mo /\ m \in Msg /\ m \in config.offered
    BY <1>0 DEF BaseInv, ThreadInv, GoodItem, SourcesOf, WellFormed, Item
  <1>2. CASE ReaderUnconvertible
    <2>1. /\ Done("reader") /\ UNCHANGED rows /\ givenUp' = givenUp \cup {<<m, k>> : k \in PartsOf(m)}
          /\ Acknowledge(m, "ok") \/ UNCHANGED box
      BY <1>2 DEF ReaderUnconvertible, rowVars
    <2>2. Careful
      BY <1>0, <2>1, QuietIsCareful
    <2>3. Settled(m, config, pdus', got', givenUp')
      BY <2>1 DEF Settled
    <2>4. Safe(m, config, rows', pdus', got', givenUp')
      BY <1>1, <2>3, SettledSafe
    <2>5. \A x \in Dlr \cup Mo : box'[x] = "ok" => box[x] = "ok" \/ x = m
      BY <1>1, <2>1, AckBox
    <2>6. pc'["reader"] # "ack"
      BY <1>0, <2>1, DoneStep
    <2> QED
      BY <1>0, <2>2, <2>4, <2>5, <2>6, AccountStep
  <1>3. CASE ReaderStored
    <2>1. Done("reader") /\ UNCHANGED <<rows, givenUp>> /\ Acknowledge(m, "ok") /\ pc["reader"] = "ack"
      BY <1>3 DEF ReaderStored, rowVars, history
    <2>2. Careful
      BY <1>0, <2>1, QuietIsCareful
    <2>3. Safe(m, config, rows', pdus', got', givenUp')
      BY <1>1, <2>1, <2>2, SafeKept DEF AccountInv
    <2>4. \A x \in Dlr \cup Mo : box'[x] = "ok" => box[x] = "ok" \/ x = m
      BY <1>1, <2>1, AckBox
    <2>5. pc'["reader"] # "ack"
      BY <1>0, <2>1, DoneStep
    <2> QED
      BY <1>0, <2>2, <2>3, <2>4, <2>5, AccountStep
  <1>4. CASE ReaderNone
    <2>1. UNCHANGED givenUp
      BY <1>4 DEF ReaderNone, history
    <2>2. CASE AddMessage(m) /\ Goto("reader", "ack") /\ UNCHANGED box
      <3>1. /\ \A g \in Gid : rows'[g] # rows[g] => rows'[g] = m /\ rows[g] = NoMsg
            /\ \E g \in Gid : rows'[g] = m
        BY <1>1, <2>2, AddMessageStep
      <3>2. Careful
        BY <1>0, <2>1, <3>1 DEF Careful
      <3>3. Safe(m, config, rows', pdus', got', givenUp')
        <4>1. SafeParts(m, rows', pdus', givenUp') = PartsOf(m)
          BY <3>1 DEF SafeParts
        <4>2. 1 \in PartsOf(m)
          BY <1>1 DEF PartsOf
        <4> QED
          BY <4>1, <4>2 DEF Safe
      <3> QED
        BY <1>0, <2>2, <3>2, <3>3, AccountStep DEF Goto
    <2>3. CASE Done("reader") /\ UNCHANGED rows /\ (Acknowledge(m, "failed") \/ Acknowledge(m, "held"))
      <3>1. Careful
        BY <1>0, <2>1, <2>3, QuietIsCareful
      <3>2. \A x \in Dlr \cup Mo : box'[x] = "ok" => box[x] = "ok"
        BY <1>1, <2>3, AckBox
      <3>3. pc'["reader"] # "ack"
        BY <1>0, <2>3, DoneStep
      <3> QED
        BY <1>0, <3>1, <3>2, <3>3, AccountStep
    <2> QED
      BY <1>4, <2>2, <2>3 DEF ReaderNone
  <1> QED
    BY <1>2, <1>3, <1>4

\* The requeue threads tell bearerbox nothing and record what they give up.
LEMMA AccountRequeue ==
  ASSUME BaseInv, AccountInv, MoverPoll \/ MoverNone \/ Poll \/ RequeueNone
  PROVE  AccountInv'
  <1>1. CASE MoverPoll \/ MoverNone
    <2>1. Careful /\ UNCHANGED <<flight, box>>
      BY <1>1, QuietIsCareful DEF MoverPoll, MoverNone, pduVars, history, boxVars
    <2>2. pc'["reader"] = "ack" => pc["reader"] = "ack" /\ hand'["reader"] = hand["reader"]
      <3>1. CASE MoverPoll
        BY <3>1 DEF MoverPoll
      <3>2. CASE MoverNone
        <4>1. Done("mover") /\ config' = config /\ "mover" \in Thread /\ "reader" \in Thread
          BY <3>2 DEF MoverNone, Thread
        <4> QED
          BY <4>1, DoneStep
      <3> QED
        BY <1>1, <3>1, <3>2
    <2> QED
      BY <2>1, <2>2, AccountStep
  <1>2. CASE Poll
    <2>1. PICK P, D, R, G, gone, goneDlr : PollOf(P, D, R, G, gone, goneDlr)
      BY <1>2, PollIs
    <2>2. UNCHANGED <<config, boxVars, pc, hand, flight, pdus, got>>
      BY <1>2, PollIs
    <2>3. Careful
      <3>1. \A g \in Gid : rows'[g] # rows[g] => g \in gone
        BY <2>1 DEF PollOf
      <3>2. ASSUME NEW g \in gone
            PROVE  Settled(rows[g], config, pdus', got', givenUp')
        <4>1. rows[g] \in Msg
          BY <2>1 DEF PollOf, Msg
        <4>2. \A k \in PartsOf(rows[g]) : <<rows[g], k>> \in Unit
          BY <4>1, UnitsTyped
        <4>3. \A k \in PartsOf(rows[g]) : <<rows[g], k>> \in givenUp'
          BY <2>1, <4>2 DEF PollOf
        <4> QED
          BY <4>3 DEF Settled
      <3>3. givenUp \subseteq givenUp'
        BY <2>1 DEF PollOf
      <3> QED
        BY <2>2, <3>1, <3>2, <3>3 DEF Careful
    <2> QED
      BY <2>2, <2>3, AccountStep DEF boxVars
  <1>3. CASE RequeueNone
    <2> DEFINE i == hand["requeue"]
    <2>0. /\ Done("requeue") /\ "requeue" \in Thread /\ "reader" \in Thread
          /\ UNCHANGED <<config, box, rows, got>> /\ pc["requeue"] # "idle"
      BY <1>3 DEF RequeueNone, Thread, rowVars, boxVars
    <2>1. pc'["reader"] = "ack" => pc["reader"] = "ack" /\ hand'["reader"] = hand["reader"]
      BY <2>0, DoneStep
    <2>2. CASE i.src = "pdu"
      <3>1. /\ flight' = flight
            /\ \/ pdus' = [pdus EXCEPT ![i.gid] = NoUnit] /\ givenUp' = givenUp \cup {UnitOf(i)}
               \/ UNCHANGED <<pdus, givenUp>>
        BY <1>3, <2>2 DEF RequeueNone
      <3>2. pdus[i.gid] \in {UnitOf(i), NoUnit}
        BY <2>0, <2>2, HeldIs DEF BaseInv, LinkInv, Linked
      <3>3. Careful
        BY <2>0, <3>1, <3>2 DEF Careful, BaseInv, TypeOK, TypeTables
      <3> QED
        BY <2>0, <2>1, <3>1, <3>3, AccountStep
    <2>3. CASE i.src # "pdu"
      <3>1. i.src \in {"row", "dlr"} /\ flight' = flight \cup PdusOf(i, NoEsme, "move") /\ UNCHANGED <<pdus, givenUp>>
        BY <1>3, <2>3 DEF RequeueNone
      <3>2. "move" \in PduState /\ "move" \notin Open
        BY DEF PduState, Open
      <3>3. \A q \in flight' : q \in flight \/ q.st = "move"
        BY <2>0, <3>1, <3>2, HandToFlight
      <3>4. Careful
        BY <2>0, <3>1, QuietIsCareful
      <3> QED
        BY <2>0, <2>1, <3>3, <3>4, AccountStep DEF Answered
    <2> QED
      BY <2>2, <2>3
  <1> QED
    BY <1>1, <1>2, <1>3

\* A message of which a part was accepted, or, where one part decides, given up.
LEMMA PartSettles ==
  ASSUME NEW c, NEW p, GoodPdu(p, c), NEW d, NEW G, NEW U,
         \/ UnitOf(p) \in G
         \/ /\ p.msg \notin Mo \/ c.drop
            /\ UnitOf(p) \in U \/ \E q \in Pid : d[q] = UnitOf(p)
  PROVE  Settled(p.msg, c, d, G, U)
  <1>1. p.part \in PartsOf(p.msg)
    BY DEF GoodPdu
  <1> QED
    BY <1>1 DEF Settled, UnitOf

\* The row a report came from is deleted once the report is settled.
LEMMA ReportCareful ==
  ASSUME BaseInv, NEW p \in flight, RemoveReport(p), Settled(p.msg, config, pdus, got', givenUp'),
         UNCHANGED <<config, pdus>>, got \subseteq got', givenUp \subseteq givenUp'
  PROVE  Careful
  <1>1. CASE p.src = "row" /\ Remove(p.gid)
    <2>1. p.gid \in Gid
      BY <1>1 DEF BaseInv, FlightInv, GoodPdu, WellFormed
    <2>2. rows[p.gid] \in {p.msg, NoMsg}
      BY <1>1, HeldIs DEF BaseInv, LinkInv, Linked, FromRow
    <2> QED
      BY <1>1, <2>1, <2>2, RemoveCareful
  <1>2. CASE UNCHANGED rowVars
    BY <1>2, QuietIsCareful DEF rowVars
  <1> QED
    BY <1>1, <1>2 DEF RemoveReport

\* A callback acknowledges, and deletes, only what the status it is called with
\* says was accepted, refused or dropped.
LEMMA AccountCallback ==
  ASSUME BaseInv, AccountInv, NEW p \in flight, NEW status, Callback(p, status),
         UNCHANGED <<config, workVars>>, got \subseteq got', givenUp \subseteq givenUp',
         status = "ok" => UnitOf(p) \in got',
         status = "error" => UnitOf(p) \in givenUp',
         status = "dropped" => UnitOf(p) \in givenUp' /\ config.drop
  PROVE  AccountInv'
  <1>0. GoodPdu(p, config) /\ p.msg \in Msg /\ UNCHANGED <<pc, hand>>
    BY DEF BaseInv, FlightInv, GoodPdu, Pdu, workVars
  <1>1. status \in {"ok", "dropped"} => \A d : Settled(p.msg, config, d, got', givenUp')
    BY <1>0, PartSettles
  <1>2. CASE CallbackDeliver(p, status)
    <2>1. flight' \subseteq flight /\ UNCHANGED pdus
      BY <1>2 DEF CallbackDeliver, pduVars
    <2>2. CASE p.src = "box"
      <3>1. /\ UNCHANGED rows
            /\ \/ status \in {"ok", "dropped"} /\ Acknowledge(p.msg, "ok")
               \/ UNCHANGED box
               \/ Acknowledge(p.msg, "held")
        BY <1>2, <2>2 DEF CallbackDeliver, rowVars
      <3>2. Careful
        BY <2>1, <3>1, QuietIsCareful
      <3>3. \A x \in Dlr \cup Mo : box'[x] = "ok" => box[x] = "ok" \/ (x = p.msg /\ status \in {"ok", "dropped"})
        BY <1>0, <3>1, AckBox
      <3>4. status \in {"ok", "dropped"} => Safe(p.msg, config, rows', pdus', got', givenUp')
        BY <1>0, <1>1, SettledSafe
      <3> QED
        BY <1>0, <2>1, <3>2, <3>3, <3>4, AccountStep
    <2>3. CASE p.src = "mo"
      <3>1. /\ UNCHANGED box
            /\ (status \in {"ok", "dropped"} /\ Remove(p.gid)) \/ UNCHANGED rowVars
        BY <1>2, <2>3 DEF CallbackDeliver
      <3>2. Careful
        <4>1. CASE status \in {"ok", "dropped"} /\ Remove(p.gid)
          <5>1. p.gid \in Gid
            BY <1>0, <2>3 DEF GoodPdu, WellFormed
          <5>2. rows[p.gid] \in {p.msg, NoMsg}
            BY <2>3, HeldIs DEF BaseInv, LinkInv, Linked, FromRow
          <5> QED
            BY <1>1, <2>1, <4>1, <5>1, <5>2, RemoveCareful
        <4>2. CASE UNCHANGED rowVars
          BY <2>1, <4>2, QuietIsCareful DEF rowVars
        <4> QED
          BY <3>1, <4>1, <4>2
      <3> QED
        BY <1>0, <2>1, <3>1, <3>2, AccountStep
    <2> QED
      BY <1>2, <2>2, <2>3 DEF CallbackDeliver
  <1>3. CASE CallbackReport(p, status)
    <2>1. UNCHANGED <<box, pdus>>
      BY <1>3 DEF CallbackReport, pduVars
    <2>2. CASE status = "ok"
      <3>1. RemoveReport(p) /\ flight' \subseteq flight
        BY <1>3, <2>2 DEF CallbackReport
      <3>2. Careful
        BY <1>1, <2>1, <2>2, <3>1, ReportCareful
      <3> QED
        BY <1>0, <2>1, <3>1, <3>2, AccountStep
    <2>3. CASE status # "ok"
      <3>1. flight' = (flight \ {p}) \cup {[p EXCEPT !.st = "move"]} /\ UNCHANGED rows
        BY <1>3, <2>3 DEF CallbackReport, rowVars
      <3>2. [p EXCEPT !.st = "move"].st = "move"
        BY <1>0 DEF GoodPdu, Pdu
      <3>3. \A q \in flight' : q \in flight \/ Answered(q, pdus', got', givenUp')
        BY <3>1, <3>2 DEF Answered
      <3>4. Careful
        BY <2>1, <3>1, QuietIsCareful
      <3> QED
        BY <1>0, <2>1, <3>3, <3>4, AccountStep
    <2> QED
      BY <2>2, <2>3
  <1>4. CASE CallbackPdu(p, status)
    <2>1. /\ flight' \subseteq flight /\ UNCHANGED <<box, rows>> /\ p.src = "pdu"
          /\ UNCHANGED pdus \/ (status \in {"ok", "error"} /\ pdus' = [pdus EXCEPT ![p.gid] = NoUnit])
      BY <1>4 DEF CallbackPdu, RemoveStoredPdu, rowVars
    <2>2. pdus[p.gid] \in {UnitOf(p), NoUnit}
      BY <2>1, HeldIs DEF BaseInv, LinkInv, Linked
    <2>3. Careful
      BY <2>1, <2>2 DEF Careful, BaseInv, TypeOK, TypeTables
    <2> QED
      BY <1>0, <2>1, <2>3, AccountStep
  <1> QED
    BY <1>2, <1>3, <1>4 DEF Callback

\* A PDU on its way is sent, answered, confirmed, expired, or moved to its table.
LEMMA AccountPdus ==
  ASSUME BaseInv, AccountInv, NEW p \in flight,
         \/ OutboundSend(p) \/ EsmeAnswer(p) \/ ProcessAck(p)
         \/ Expire(p) \/ DestroyAck(p) \/ MoveInsert(p) \/ MoveRemove(p)
  PROVE  AccountInv'
  <1>0. GoodPdu(p, config) /\ p \in Pdu /\ Answered(p, pdus, got, givenUp)
    BY DEF BaseInv, FlightInv, GoodPdu, AccountInv
  <1>1. CASE OutboundSend(p)
    <2>1. UNCHANGED <<config, box, pc, hand, rows, pdus, got, givenUp>>
      BY <1>1 DEF OutboundSend, boxVars, workVars, rowVars, pduVars, history
    <2>2. PICK st \in {"sent", "unsent"} : flight' = (flight \ {p}) \cup {[p EXCEPT !.st = st]}
      BY <1>1 DEF OutboundSend
    <2>3. [p EXCEPT !.st = st].st = st
      BY <1>0 DEF Pdu
    <2>4. \A q \in flight' : q \in flight \/ Answered(q, pdus', got', givenUp')
      BY <2>2, <2>3 DEF Answered
    <2> QED
      BY <2>1, <2>4, QuietIsCareful, AccountStep
  <1>2. CASE EsmeAnswer(p)
    <2>1. UNCHANGED <<config, box, pc, hand, rows, pdus>> /\ got \subseteq got' /\ givenUp \subseteq givenUp'
      BY <1>2 DEF EsmeAnswer, boxVars, workVars, rowVars, pduVars
    <2>2. \A st : UnitOf([p EXCEPT !.st = st]) = UnitOf(p) /\ [p EXCEPT !.st = st].st = st
      BY <1>0 DEF UnitOf, Pdu
    <2>3. \A q \in flight' : q \in flight \/ Answered(q, pdus', got', givenUp')
      <3>1. PICK st \in {"acked", "nacked"} :
              /\ flight' = (flight \ {p}) \cup {[p EXCEPT !.st = st]}
              /\ UnitOf(p) \in IF st = "acked" THEN got' ELSE givenUp'
        BY <1>2 DEF EsmeAnswer
      <3>2. Answered([p EXCEPT !.st = st], pdus', got', givenUp')
        BY <2>2, <3>1 DEF Answered
      <3> QED
        BY <3>1, <3>2
    <2> QED
      BY <2>1, <2>3, QuietIsCareful, AccountStep
  <1>3. CASE ProcessAck(p)
    <2>1. PICK status \in {"ok", "error"} :
             Callback(p, status) /\ p.st = (IF status = "ok" THEN "acked" ELSE "nacked")
      BY <1>3 DEF ProcessAck
    <2>2. UNCHANGED <<config, workVars, got, givenUp>>
      BY <1>3 DEF ProcessAck, history
    <2> QED
      BY <1>0, <2>1, <2>2, AccountCallback DEF Answered
  <1>4. CASE Expire(p)
    <2>1. PICK status \in {"dropped", "timeout"} :
             /\ Callback(p, status)
             /\ status = "dropped" => UnitOf(p) \in givenUp' /\ config.drop
      BY <1>4 DEF Expire
    <2>2. UNCHANGED <<config, workVars, got>> /\ givenUp \subseteq givenUp'
      BY <1>4 DEF Expire
    <2> QED
      BY <2>1, <2>2, AccountCallback
  <1>5. CASE DestroyAck(p)
    <2>1. Callback(p, "destroyed") /\ UNCHANGED <<config, workVars, got, givenUp>>
      BY <1>5 DEF DestroyAck, history
    <2> QED
      BY <2>1, AccountCallback
  <1>6. CASE MoveInsert(p)
    <2>1. /\ UNCHANGED <<config, box, pc, hand, rows, got>> /\ p.st = "move"
          /\ flight' = (flight \ {p}) \cup {[p EXCEPT !.st = "moved"]}
      BY <1>6 DEF MoveInsert, boxVars, workVars, rowVars
    <2>2. UnitOf(p) \in Unit /\ UnitOf(p)[1] \in config.offered
      BY <1>0, PduUnit DEF GoodPdu, UnitOf
    <2>3. /\ Careful
          /\ UnitOf(p) \in givenUp' \/ \E q \in Pid : pdus'[q] = UnitOf(p)
      <3>1. CASE AddPdu(UnitOf(p)) /\ UNCHANGED givenUp
        <4>1. /\ \A q \in Pid : pdus'[q] # pdus[q] => pdus'[q] = UnitOf(p) /\ pdus[q] = NoUnit
              /\ \E q \in Pid : pdus'[q] = UnitOf(p)
          BY <2>2, <3>1, AddPduStep
        <4> QED
          BY <2>1, <3>1, <4>1 DEF Careful
      <3>2. CASE givenUp' = givenUp \cup {UnitOf(p)} /\ UNCHANGED pdus
        BY <2>1, <3>2, QuietIsCareful
      <3> QED
        BY <1>6, <3>1, <3>2 DEF MoveInsert
    <2>4. UnitOf([p EXCEPT !.st = "moved"]) = UnitOf(p) /\ [p EXCEPT !.st = "moved"].st = "moved"
      BY <1>0 DEF UnitOf, Pdu
    <2>5. \A q \in flight' : q \in flight \/ Answered(q, pdus', got', givenUp')
      BY <2>1, <2>3, <2>4 DEF Answered
    <2> QED
      BY <2>1, <2>3, <2>5, AccountStep
  <1>7. CASE MoveRemove(p)
    <2>1. /\ UNCHANGED <<config, box, pc, hand, pdus, got, givenUp>> /\ p.st = "moved"
          /\ RemoveReport(p) /\ flight' \subseteq flight
      BY <1>7 DEF MoveRemove, boxVars, workVars, pduVars, history
    <2>2. p.msg \notin Mo
      BY <1>0, <2>1 DEF GoodPdu, WellFormed, Open
    <2>3. Settled(p.msg, config, pdus, got', givenUp')
      BY <1>0, <2>1, <2>2, PartSettles DEF Answered
    <2> QED
      BY <2>1, <2>3, ReportCareful, AccountStep
  <1> QED
    BY <1>1, <1>2, <1>3, <1>4, <1>5, <1>6, <1>7

\* Connections come and go, the program restarts: bearerbox keeps what it was
\* told, the tables stay.
LEMMA AccountConnections ==
  ASSUME BaseInv, AccountInv,
         \/ (\E e \in Esme : Bind(e) \/ Disconnect(e)) \/ BoxConnect \/ BoxLost
         \/ Crash \/ MoverPanics \/ UNCHANGED vars
  PROVE  AccountInv'
  <1>1. UNCHANGED <<config, rows, pdus, got, givenUp>> /\ flight' \subseteq flight
    BY DEF Bind, Disconnect, BoxConnect, BoxLost, Crash, MoverPanics, Restart, vars, rowVars, pduVars, history
  <1>2. pc'["reader"] = "ack" => pc["reader"] = "ack" /\ hand'["reader"] = hand["reader"]
    BY DEF Bind, Disconnect, BoxConnect, BoxLost, Crash, MoverPanics, Restart, Resting, Thread, vars, workVars
  <1>3. \A m \in Dlr \cup Mo : box'[m] = "ok" => box[m] = "ok"
    BY DEF Bind, Disconnect, BoxConnect, BoxLost, Crash, MoverPanics, Restart, Msg, vars, boxVars
  <1> QED
    BY <1>1, <1>2, <1>3, QuietIsCareful, AccountStep

\* Every step keeps the accounts.
LEMMA AccountNext ==
  ASSUME BaseInv, AccountInv, [Next]_vars
  PROVE  AccountInv'
  <1>1. CASE (\E m \in Msg : ReaderRead(m)) \/ (\E t \in Thread : ThreadStep(t)) \/ \E t \in {"mover", "requeue"} : Take(t)
    BY <1>1, AccountThreads DEF ThreadStep, Thread
  <1>2. CASE ReaderUnconvertible \/ ReaderNone \/ ReaderStored
    BY <1>2, AccountReader
  <1>3. CASE MoverPoll \/ MoverNone \/ Poll \/ RequeueNone
    BY <1>3, AccountRequeue
  <1>4. CASE \E p \in flight : \/ OutboundSend(p) \/ EsmeAnswer(p) \/ ProcessAck(p)
                               \/ Expire(p) \/ DestroyAck(p) \/ MoveInsert(p) \/ MoveRemove(p)
    BY <1>4, AccountPdus
  <1>5. CASE (\E e \in Esme : Bind(e) \/ Disconnect(e)) \/ BoxConnect \/ BoxLost \/ Crash \/ MoverPanics \/ UNCHANGED vars
    BY <1>5, AccountConnections
  <1> QED
    BY <1>1, <1>2, <1>3, <1>4, <1>5 DEF Next

\* In every reachable state answered PDUs are recorded, and what bearerbox was
\* told, or is about to be told, is stored, accepted or given up.
THEOREM AccountInvariant == Spec => [](BaseInv /\ AccountInv)
  <1>1. Init => AccountInv
    <2> SUFFICES ASSUME Init
                 PROVE  AccountInv
      OBVIOUS
    <2>1. flight = {} /\ pc["reader"] # "ack" /\ \A m \in Dlr \cup Mo : box[m] # "ok"
      BY DEF Init, Resting, Thread, Msg
    <2> QED
      BY <2>1 DEF AccountInv
  <1>2. BaseInv /\ AccountInv /\ [Next]_vars => AccountInv'
    BY AccountNext
  <1> QED
    BY <1>1, <1>2, BaseInvariant, PTL DEF Spec

\* What bearerbox was told is safe has been accepted by an ESME, is in a table,
\* or was refused or discarded by a decision of the code, whatever the order of
\* acknowledgements, INSERTs, DELETEs, timeouts and crashes.
THEOREM OkAccounted == Spec => []OkIsAccounted
  <1>1. BaseInv /\ AccountInv => OkIsAccounted
    <2> SUFFICES ASSUME AccountInv, NEW m \in Dlr \cup Mo, box[m] = "ok"
                 PROVE  LET safe == {k \in PartsOf(m) : InTable(<<m, k>>) \/ <<m, k>> \in givenUp}
                        IN  \/ \E k \in PartsOf(m) : <<m, k>> \in got
                            \/ safe # {} /\ (m \in Mo /\ ~config.drop => safe = PartsOf(m))
      BY DEF OkIsAccounted
    <2>1. Safe(m, config, rows, pdus, got, givenUp)
      BY DEF AccountInv
    <2>2. SafeParts(m, rows, pdus, givenUp) = {k \in PartsOf(m) : InTable(<<m, k>>) \/ <<m, k>> \in givenUp}
      BY DEF SafeParts, InTable
    <2> QED
      BY <2>1, <2>2 DEF Safe
  <1> QED
    BY <1>1, AccountInvariant, PTL

-----------------------------------------------------------------------------
(* max-open-acks *)

\* Three threads choose receivers.
LEMMA ThreeThreads == IsFiniteSet(Thread) /\ Cardinality(Thread) = 3
  <1>1. IsFiniteSet({}) /\ Cardinality({}) = 0
    BY FS_EmptySet
  <1>2. IsFiniteSet({"reader"}) /\ Cardinality({"reader"}) = 1
    BY FS_Singleton
  <1>3. IsFiniteSet({"reader"} \cup {"mover"}) /\ Cardinality({"reader"} \cup {"mover"}) = 2
    <2>1. "mover" \notin {"reader"}
      OBVIOUS
    <2>2. /\ IsFiniteSet({"reader"} \cup {"mover"})
          /\ Cardinality({"reader"} \cup {"mover"}) = Cardinality({"reader"}) + 1
      BY <1>2, <2>1, FS_AddElement
    <2> QED
      BY <1>2, <2>2
  <1>4. /\ IsFiniteSet(({"reader"} \cup {"mover"}) \cup {"requeue"})
        /\ Cardinality(({"reader"} \cup {"mover"}) \cup {"requeue"}) = 3
    <2>1. "requeue" \notin {"reader"} \cup {"mover"}
      OBVIOUS
    <2>2. /\ IsFiniteSet(({"reader"} \cup {"mover"}) \cup {"requeue"})
          /\ Cardinality(({"reader"} \cup {"mover"}) \cup {"requeue"}) = Cardinality({"reader"} \cup {"mover"}) + 1
      BY <1>3, <2>1, FS_AddElement
    <2> QED
      BY <1>3, <2>2
  <1>5. Thread = ({"reader"} \cup {"mover"}) \cup {"requeue"}
    BY DEF Thread
  <1> QED
    BY <1>4, <1>5

\* The counts are natural numbers, at most three threads add to one bind.
LEMMA AcksCounted ==
  ASSUME NEW F, IsFiniteSet(F), NEW P, NEW A, NEW e
  PROVE  /\ IsFiniteSet(AcksOf(F, e)) /\ Cardinality(AcksOf(F, e)) \in Nat
         /\ IsFiniteSet(AddersOf(P, A, e)) /\ Cardinality(AddersOf(P, A, e)) \in 0 .. 3
  <1>1. IsFiniteSet(AcksOf(F, e)) /\ Cardinality(AcksOf(F, e)) \in Nat
    <2>1. AcksOf(F, e) \subseteq F
      BY DEF AcksOf
    <2>2. IsFiniteSet(AcksOf(F, e))
      BY <2>1, FS_Subset
    <2> QED
      BY <2>2, FS_CardinalityType
  <1>2. IsFiniteSet(Thread) /\ Cardinality(Thread) = 3
    BY ThreeThreads
  <1>3. AddersOf(P, A, e) \subseteq Thread
    BY DEF AddersOf
  <1>4. IsFiniteSet(AddersOf(P, A, e)) /\ Cardinality(AddersOf(P, A, e)) <= Cardinality(Thread)
    BY <1>2, <1>3, FS_Subset
  <1>5. Cardinality(AddersOf(P, A, e)) \in Nat
    BY <1>4, FS_CardinalityType
  <1> QED
    BY <1>1, <1>2, <1>4, <1>5

\* Fewer open acks and fewer threads fit as well.
LEMMA AcksKept ==
  ASSUME NEW c \in Scenarios, NEW F, NEW P, NEW A, NEW F2, NEW P2, NEW A2, AcksFit(c, F, P, A),
         IsFiniteSet(F) => IsFiniteSet(F2) /\ \A e \in Esme : Cardinality(AcksOf(F2, e)) <= Cardinality(AcksOf(F, e)),
         \A t \in Thread : P2[t] = "add" => P[t] = "add" /\ A2[t] = A[t]
  PROVE  AcksFit(c, F2, P2, A2)
  <1> SUFFICES ASSUME \A m \in c.offered : Parts[m] = 1
               PROVE  /\ IsFiniteSet(F2)
                      /\ \A e \in Esme : Cardinality(AcksOf(F2, e)) + Cardinality(AddersOf(P2, A2, e)) <= c.acks + 2
    BY DEF AcksFit
  <1>1. IsFiniteSet(F) /\ IsFiniteSet(F2)
    BY DEF AcksFit
  <1>2. ASSUME NEW e \in Esme
        PROVE  Cardinality(AcksOf(F2, e)) + Cardinality(AddersOf(P2, A2, e)) <= c.acks + 2
    <2>1. AddersOf(P2, A2, e) \subseteq AddersOf(P, A, e)
      BY DEF AddersOf
    <2>2. /\ Cardinality(AcksOf(F, e)) \in Nat /\ Cardinality(AcksOf(F2, e)) \in Nat
          /\ IsFiniteSet(AddersOf(P, A, e)) /\ Cardinality(AddersOf(P, A, e)) \in 0 .. 3
          /\ Cardinality(AddersOf(P2, A2, e)) \in 0 .. 3
      BY <1>1, AcksCounted
    <2>3. Cardinality(AddersOf(P2, A2, e)) <= Cardinality(AddersOf(P, A, e))
      BY <2>1, <2>2, FS_Subset
    <2>4. /\ Cardinality(AcksOf(F, e)) + Cardinality(AddersOf(P, A, e)) <= c.acks + 2
          /\ Cardinality(AcksOf(F2, e)) <= Cardinality(AcksOf(F, e))
      BY <1>1 DEF AcksFit
    <2>5. c.acks \in Nat
      OBVIOUS
    <2> QED
      BY <2>2, <2>3, <2>4, <2>5
  <1> QED
    BY <1>1, <1>2

\* PDUs that leave make no count larger.
LEMMA AcksDropped ==
  ASSUME NEW F, NEW F2, F2 \subseteq F, IsFiniteSet(F)
  PROVE  IsFiniteSet(F2) /\ \A e \in Esme : Cardinality(AcksOf(F2, e)) <= Cardinality(AcksOf(F, e))
  <1>1. IsFiniteSet(F2)
    BY FS_Subset
  <1>2. ASSUME NEW e \in Esme
        PROVE  Cardinality(AcksOf(F2, e)) <= Cardinality(AcksOf(F, e))
    <2>1. AcksOf(F2, e) \subseteq AcksOf(F, e)
      BY DEF AcksOf
    <2>2. IsFiniteSet(AcksOf(F, e))
      BY AcksCounted
    <2> QED
      BY <2>1, <2>2, FS_Subset
  <1> QED
    BY <1>1, <1>2

\* A step after which there are no more PDUs and no more threads that add one.
LEMMA AcksQuiet ==
  ASSUME BaseInv, AcksInv, config' = config, flight' \subseteq flight,
         \A t \in Thread : pc'[t] = "add" => pc[t] = "add" /\ at'[t] = at[t]
  PROVE  AcksInv'
  <1>1. IsFiniteSet(flight) => /\ IsFiniteSet(flight')
                               /\ \A e \in Esme : Cardinality(AcksOf(flight', e)) <= Cardinality(AcksOf(flight, e))
    BY AcksDropped
  <1>2. config \in Scenarios /\ AcksFit(config, flight, pc, at)
    BY DEF BaseInv, TypeOK, TypeBox, AcksInv
  <1>3. AcksFit(config, flight', pc', at')
    BY <1>1, <1>2, AcksKept
  <1> QED
    BY <1>3 DEF AcksInv

\* A PDU that is not open counts against nobody.
LEMMA AcksUncounted ==
  ASSUME NEW F, NEW q, q.st \notin Open, IsFiniteSet(F)
  PROVE  /\ IsFiniteSet(F \cup {q})
         /\ \A e \in Esme : Cardinality(AcksOf(F \cup {q}, e)) = Cardinality(AcksOf(F, e))
  <1>1. IsFiniteSet(F \cup {q})
    BY FS_AddElement
  <1>2. \A e \in Esme : AcksOf(F \cup {q}, e) = AcksOf(F, e)
    BY DEF AcksOf
  <1> QED
    BY <1>1, <1>2

\* The state of an open ack changes.
LEMMA AcksReplaced ==
  ASSUME NEW F, NEW p \in F, NEW q, p.st \in Open, q.esme = p.esme, IsFiniteSet(F)
  PROVE  /\ IsFiniteSet((F \ {p}) \cup {q})
         /\ \A e \in Esme : Cardinality(AcksOf((F \ {p}) \cup {q}, e)) <= Cardinality(AcksOf(F, e))
  <1>1. IsFiniteSet(F \ {p})
    BY FS_RemoveElement
  <1>2. IsFiniteSet((F \ {p}) \cup {q})
    BY <1>1, FS_AddElement
  <1>3. ASSUME NEW e \in Esme
        PROVE  Cardinality(AcksOf((F \ {p}) \cup {q}, e)) <= Cardinality(AcksOf(F, e))
    <2> DEFINE S == AcksOf(F, e)
               T == AcksOf((F \ {p}) \cup {q}, e)
    <2>1. IsFiniteSet(S) /\ Cardinality(S) \in Nat
      BY AcksCounted
    <2>2. CASE p.esme = e
      <3>1. T \subseteq (S \ {p}) \cup {q} /\ p \in S
        BY <2>2 DEF AcksOf
      <3> HIDE DEF S, T
      <3>2. IsFiniteSet(S \ {p}) /\ Cardinality(S \ {p}) = Cardinality(S) - 1
        BY <2>1, <3>1, FS_RemoveElement
      <3>3. /\ IsFiniteSet((S \ {p}) \cup {q})
            /\ Cardinality((S \ {p}) \cup {q}) \in {Cardinality(S \ {p}), Cardinality(S \ {p}) + 1}
        BY <3>2, FS_AddElement
      <3>4. IsFiniteSet(T) /\ Cardinality(T) <= Cardinality((S \ {p}) \cup {q})
        BY <3>1, <3>3, FS_Subset
      <3>5. Cardinality(T) \in Nat
        BY <3>4, FS_CardinalityType
      <3> QED
        BY <2>1, <3>2, <3>3, <3>4, <3>5 DEF S, T
    <2>3. CASE p.esme # e
      <3>1. T \subseteq S
        BY <2>3 DEF AcksOf
      <3> QED
        BY <2>1, <3>1, FS_Subset
    <2> QED
      BY <2>2, <2>3
  <1> QED
    BY <1>2, <1>3

\* While messages have one part a thread adds at most one PDU.
LEMMA OneIsAdded ==
  ASSUME BaseInv, NEW t \in Thread, pc[t] # "idle", \A m \in config.offered : Parts[m] = 1,
         NEW e \in Esme \cup {NoEsme}, NEW st \in PduState,
         st \in Open => e \in Esme, st \notin Open => hand[t].src \in {"row", "dlr"}
  PROVE  \/ PdusOf(hand[t], e, st) = {}
         \/ \E q : PdusOf(hand[t], e, st) = {q} /\ q.st = st /\ q.esme = e
  <1>1. GoodItem(hand[t], t, config) /\ Parts[hand[t].msg] = 1
    BY DEF BaseInv, ThreadInv, GoodItem
  <1>2. \A q, r \in PdusOf(hand[t], e, st) : q = r
    BY <1>1, PdusOfOne
  <1>3. \A q \in PdusOf(hand[t], e, st) : q.st = st /\ q.esme = e
    BY <1>1, PdusOfAre
  <1> QED
    BY <1>2, <1>3

\* The count is compared with the limit when the receiver is chosen.
LEMMA AcksChoose ==
  ASSUME BaseInv, AcksInv, NEW t \in Thread, Choose(t)
  PROVE  AcksInv'
  <1>0. UNCHANGED <<config, flight>> /\ pc \in [Thread -> {"idle", "choose", "add", "none", "ack"}]
        /\ at \in [Thread -> Esme \cup {NoEsme}] /\ config \in Scenarios /\ config.acks \in Nat \ {0}
    BY DEF Choose, BaseInv, TypeOK, TypeWork, TypeBox
  <1>1. CASE Goto(t, "none")
    <2>1. \A u \in Thread : pc'[u] = "add" => pc[u] = "add" /\ at'[u] = at[u]
      BY <1>0, <1>1 DEF Goto
    <2> QED
      BY <1>0, <2>1, AcksQuiet
  <1>2. CASE \E e \in Options : pc' = [pc EXCEPT ![t] = "add"] /\ at' = [at EXCEPT ![t] = e]
    <2>1. PICK r \in Options : pc' = [pc EXCEPT ![t] = "add"] /\ at' = [at EXCEPT ![t] = r]
      BY <1>2
    <2> SUFFICES ASSUME \A m \in config.offered : Parts[m] = 1, NEW e \in Esme
                 PROVE  /\ IsFiniteSet(flight)
                        /\ Cardinality(AcksOf(flight, e)) + Cardinality(AddersOf(pc', at', e)) <= config.acks + 2
      BY <1>0 DEF AcksInv, AcksFit
    <2>2. IsFiniteSet(flight) /\ Cardinality(AcksOf(flight, e)) + Cardinality(AddersOf(pc, at, e)) <= config.acks + 2
      BY DEF AcksInv, AcksFit
    <2>3. /\ Cardinality(AcksOf(flight, e)) \in Nat
          /\ IsFiniteSet(AddersOf(pc, at, e)) /\ Cardinality(AddersOf(pc, at, e)) \in 0 .. 3
          /\ Cardinality(AddersOf(pc', at', e)) \in 0 .. 3
      BY <2>2, AcksCounted
    <2>4. CASE e = r
      <3>1. Cardinality(AcksOf(flight, e)) < config.acks
        BY <2>4 DEF Options, OpenAcks, AcksOf
      <3> QED
        BY <1>0, <2>2, <2>3, <3>1
    <2>5. CASE e # r
      <3>1. AddersOf(pc', at', e) \subseteq AddersOf(pc, at, e)
        BY <1>0, <2>1, <2>5 DEF AddersOf
      <3>2. Cardinality(AddersOf(pc', at', e)) <= Cardinality(AddersOf(pc, at, e))
        BY <2>3, <3>1, FS_Subset
      <3> QED
        BY <1>0, <2>2, <2>3, <3>2
    <2> QED
      BY <2>4, <2>5
  <1> QED
    BY <1>1, <1>2 DEF Choose

\* The thread's PDU takes its place among the open acks.
LEMMA AcksAdd ==
  ASSUME BaseInv, AcksInv, NEW t \in Thread, AddOutbound(t)
  PROVE  AcksInv'
  <1>0. /\ config' = config /\ Done(t) /\ pc[t] = "add" /\ flight' = flight \cup PdusOf(hand[t], at[t], "queued")
        /\ at[t] \in Esme /\ config.acks \in Nat
    BY DEF AddOutbound, BaseInv, ThreadInv, TypeOK, TypeBox
  <1> SUFFICES ASSUME \A m \in config.offered : Parts[m] = 1
               PROVE  /\ IsFiniteSet(flight')
                      /\ \A e \in Esme : Cardinality(AcksOf(flight', e)) + Cardinality(AddersOf(pc', at', e)) <= config.acks + 2
    BY <1>0 DEF AcksInv, AcksFit
  <1>1. IsFiniteSet(flight)
    BY DEF AcksInv, AcksFit
  <1>2. flight' = flight \/ \E q : flight' = flight \cup {q} /\ q.esme = at[t]
    <2>1. "queued" \in PduState /\ "queued" \in Open
      BY DEF PduState, Open
    <2>2. \/ PdusOf(hand[t], at[t], "queued") = {}
          \/ \E q : PdusOf(hand[t], at[t], "queued") = {q} /\ q.esme = at[t]
      <3>1. PICK e \in Esme : e = at[t]
        BY <1>0
      <3>2. pc[t] # "idle" /\ e \in Esme \cup {NoEsme}
        BY <1>0
      <3>3. \/ PdusOf(hand[t], e, "queued") = {}
            \/ \E q : PdusOf(hand[t], e, "queued") = {q} /\ q.st = "queued" /\ q.esme = e
        BY <2>1, <3>2, OneIsAdded
      <3> QED
        BY <3>1, <3>3
    <2> QED
      BY <1>0, <2>2
  <1>3. IsFiniteSet(flight')
    BY <1>1, <1>2, FS_AddElement
  <1>4. ASSUME NEW e \in Esme
        PROVE  Cardinality(AcksOf(flight', e)) + Cardinality(AddersOf(pc', at', e)) <= config.acks + 2
    <2>1. /\ IsFiniteSet(AcksOf(flight, e)) /\ IsFiniteSet(AcksOf(flight', e))
          /\ Cardinality(AcksOf(flight, e)) \in Nat /\ Cardinality(AcksOf(flight', e)) \in Nat
          /\ IsFiniteSet(AddersOf(pc, at, e)) /\ Cardinality(AddersOf(pc, at, e)) \in 0 .. 3
          /\ Cardinality(AddersOf(pc', at', e)) \in 0 .. 3
      BY <1>1, <1>3, AcksCounted
    <2>2. Cardinality(AcksOf(flight, e)) + Cardinality(AddersOf(pc, at, e)) <= config.acks + 2
      BY DEF AcksInv, AcksFit
    <2>3. \A u \in Thread : pc'[u] = (IF u = t THEN "idle" ELSE pc[u]) /\ at'[u] = (IF u = t THEN NoEsme ELSE at[u])
      BY <1>0, DoneStep
    <2>4. CASE e = at[t]
      <3>1. AddersOf(pc', at', e) = AddersOf(pc, at, e) \ {t} /\ t \in AddersOf(pc, at, e)
        BY <1>0, <2>3, <2>4 DEF AddersOf
      <3>2. Cardinality(AddersOf(pc', at', e)) = Cardinality(AddersOf(pc, at, e)) - 1
        <4>1. Cardinality(AddersOf(pc, at, e) \ {t}) = Cardinality(AddersOf(pc, at, e)) - 1
          BY <2>1, <3>1, FS_RemoveElement
        <4> QED
          BY <3>1, <4>1
      <3>3. AcksOf(flight', e) = AcksOf(flight, e) \/ \E q : AcksOf(flight', e) \subseteq AcksOf(flight, e) \cup {q}
        BY <1>2 DEF AcksOf
      <3>4. Cardinality(AcksOf(flight', e)) <= Cardinality(AcksOf(flight, e)) + 1
        <4>1. ASSUME NEW q, AcksOf(flight', e) \subseteq AcksOf(flight, e) \cup {q}
              PROVE  Cardinality(AcksOf(flight', e)) <= Cardinality(AcksOf(flight, e)) + 1
          <5>1. /\ IsFiniteSet(AcksOf(flight, e) \cup {q})
                /\ Cardinality(AcksOf(flight, e) \cup {q}) \in {Cardinality(AcksOf(flight, e)), Cardinality(AcksOf(flight, e)) + 1}
            BY <2>1, FS_AddElement
          <5>2. Cardinality(AcksOf(flight', e)) <= Cardinality(AcksOf(flight, e) \cup {q})
            BY <4>1, <5>1, FS_Subset
          <5> QED
            BY <2>1, <5>1, <5>2
        <4> QED
          BY <2>1, <3>3, <4>1
      <3> QED
        BY <1>0, <2>1, <2>2, <3>2, <3>4
    <2>5. CASE e # at[t]
      <3>1. AcksOf(flight', e) = AcksOf(flight, e)
        BY <1>2, <2>5 DEF AcksOf
      <3>2. AddersOf(pc', at', e) \subseteq AddersOf(pc, at, e)
        BY <2>3 DEF AddersOf
      <3>3. Cardinality(AddersOf(pc', at', e)) <= Cardinality(AddersOf(pc, at, e))
        BY <2>1, <3>2, FS_Subset
      <3> QED
        BY <1>0, <2>1, <2>2, <3>1, <3>3
    <2> QED
      BY <2>4, <2>5
  <1> QED
    BY <1>3, <1>4

\* The other steps of the threads add no open ack.
LEMMA AcksThreads ==
  ASSUME BaseInv, AcksInv,
         \/ \E m \in Msg : ReaderRead(m)
         \/ \E t \in Thread : Take(t) \/ Unrouted(t)
         \/ ReaderUnconvertible \/ ReaderNone \/ ReaderStored \/ MoverPoll \/ MoverNone \/ Poll
  PROVE  AcksInv'
  <1>0. UNCHANGED <<config, flight>> /\ config \in Scenarios
    BY DEF ReaderRead, Take, Unrouted, ReaderUnconvertible, ReaderNone, ReaderStored, MoverPoll, MoverNone, Poll,
           BaseInv, TypeOK, TypeBox
  <1>1. \A u \in Thread : pc'[u] = "add" => pc[u] = "add" /\ at'[u] = at[u]
    <2>1. CASE \E m \in Msg : ReaderRead(m)
      BY <2>1 DEF ReaderRead, BaseInv, TypeOK, TypeWork
    <2>2. CASE \E t \in Thread : Take(t)
      BY <2>2 DEF Take, BaseInv, TypeOK, TypeWork
    <2>3. CASE MoverPoll \/ Poll
      BY <2>3 DEF MoverPoll, Poll
    <2>4. CASE \E t \in Thread : Done(t)
      BY <1>0, <2>4, DoneStep
    <2>5. CASE Goto("reader", "ack")
      BY <2>5 DEF Goto, BaseInv, TypeOK, TypeWork
    <2> QED
      BY <2>1, <2>2, <2>3, <2>4, <2>5
      DEF Unrouted, ReaderUnconvertible, ReaderNone, ReaderStored, MoverNone, Thread
  <1> QED
    BY <1>0, <1>1, AcksQuiet

\* A report that finds no receiver is to be moved: no open ack.
LEMMA AcksRequeueNone ==
  ASSUME BaseInv, AcksInv, RequeueNone
  PROVE  AcksInv'
  <1>0. Done("requeue") /\ "requeue" \in Thread /\ config' = config /\ config \in Scenarios /\ pc["requeue"] # "idle"
    BY DEF RequeueNone, Thread, BaseInv, TypeOK, TypeBox
  <1>1. \A u \in Thread : pc'[u] = "add" => pc[u] = "add" /\ at'[u] = at[u]
    BY <1>0, DoneStep
  <1>2. CASE UNCHANGED flight
    BY <1>0, <1>1, <1>2, AcksQuiet
  <1>3. CASE hand["requeue"].src \in {"row", "dlr"} /\ flight' = flight \cup PdusOf(hand["requeue"], NoEsme, "move")
    <2>1. CASE \A m \in config.offered : Parts[m] = 1
      <3>1. "move" \in PduState /\ "move" \notin Open
        BY DEF PduState, Open
      <3>2. flight' = flight \/ \E q : flight' = flight \cup {q} /\ q.st \notin Open
        BY <1>0, <1>3, <2>1, <3>1, OneIsAdded
      <3>3. CASE flight' = flight
        BY <1>0, <1>1, <3>3, AcksQuiet
      <3>4. CASE flight' # flight
        <4>1. PICK q : flight' = flight \cup {q} /\ q.st \notin Open
          BY <3>2, <3>4
        <4>2. IsFiniteSet(flight) => /\ IsFiniteSet(flight')
                                     /\ \A e \in Esme : Cardinality(AcksOf(flight', e)) <= Cardinality(AcksOf(flight, e))
          <5> SUFFICES ASSUME IsFiniteSet(flight)
                       PROVE  /\ IsFiniteSet(flight')
                              /\ \A e \in Esme : Cardinality(AcksOf(flight', e)) <= Cardinality(AcksOf(flight, e))
            OBVIOUS
          <5>1. \A e \in Esme : Cardinality(AcksOf(flight, e)) \in Nat
            BY AcksCounted
          <5> QED
            BY <4>1, <5>1, AcksUncounted
        <4> QED
          BY <1>0, <1>1, <4>2, AcksKept DEF AcksInv
      <3> QED
        BY <3>3, <3>4
    <2>2. CASE ~\A m \in config.offered : Parts[m] = 1
      BY <1>0, <2>2 DEF AcksInv, AcksFit
    <2> QED
      BY <2>1, <2>2
  <1> QED
    BY <1>2, <1>3 DEF RequeueNone

\* PDUs on their way: an open ack stays one or ends.
LEMMA AcksPdus ==
  ASSUME BaseInv, AcksInv, NEW p \in flight,
         \/ OutboundSend(p) \/ EsmeAnswer(p) \/ ProcessAck(p)
         \/ Expire(p) \/ DestroyAck(p) \/ MoveInsert(p) \/ MoveRemove(p)
  PROVE  AcksInv'
  <1>0. UNCHANGED <<config, pc, at>> /\ config \in Scenarios /\ p \in Pdu
    BY DEF OutboundSend, EsmeAnswer, ProcessAck, Expire, DestroyAck, MoveInsert, MoveRemove, workVars,
           BaseInv, TypeOK, TypeBox
  <1>1. \/ flight' \subseteq flight
        \/ \E st : /\ flight' = (flight \ {p}) \cup {[p EXCEPT !.st = st]}
                   /\ st \notin Open \/ p.st \in Open
    <2>1. CASE OutboundSend(p) \/ EsmeAnswer(p)
      BY <2>1 DEF OutboundSend, EsmeAnswer, Open
    <2>2. CASE MoveInsert(p)
      BY <2>2 DEF MoveInsert, Open
    <2>3. CASE MoveRemove(p)
      BY <2>3 DEF MoveRemove
    <2>4. CASE \E status : Callback(p, status)
      BY <2>4 DEF Callback, CallbackDeliver, CallbackReport, CallbackPdu, Open
    <2> QED
      BY <2>1, <2>2, <2>3, <2>4 DEF ProcessAck, Expire, DestroyAck
  <1>2. IsFiniteSet(flight) => /\ IsFiniteSet(flight')
                               /\ \A e \in Esme : Cardinality(AcksOf(flight', e)) <= Cardinality(AcksOf(flight, e))
    <2> SUFFICES ASSUME IsFiniteSet(flight)
                 PROVE  /\ IsFiniteSet(flight')
                        /\ \A e \in Esme : Cardinality(AcksOf(flight', e)) <= Cardinality(AcksOf(flight, e))
      OBVIOUS
    <2>1. CASE flight' \subseteq flight
      BY <2>1, AcksDropped
    <2>2. CASE ~(flight' \subseteq flight)
      <3>1. PICK st : /\ flight' = (flight \ {p}) \cup {[p EXCEPT !.st = st]}
                      /\ st \notin Open \/ p.st \in Open
        BY <1>1, <2>2
      <3>2. [p EXCEPT !.st = st].st = st /\ [p EXCEPT !.st = st].esme = p.esme
        BY <1>0 DEF Pdu
      <3>3. CASE st \notin Open
        <4>1. /\ IsFiniteSet(flight \ {p})
              /\ \A e \in Esme : Cardinality(AcksOf(flight \ {p}, e)) <= Cardinality(AcksOf(flight, e))
          BY AcksDropped
        <4> QED
          BY <3>1, <3>2, <3>3, <4>1, AcksUncounted, ZenonT(40)
      <3>4. CASE p.st \in Open
        BY <3>1, <3>2, <3>4, AcksReplaced
      <3> QED
        BY <3>1, <3>3, <3>4
    <2> QED
      BY <2>1, <2>2
  <1> QED
    BY <1>0, <1>2, AcksKept DEF AcksInv

\* Connections and restarts add nothing.
LEMMA AcksConnections ==
  ASSUME BaseInv, AcksInv,
         \/ (\E e \in Esme : Bind(e) \/ Disconnect(e)) \/ BoxConnect \/ BoxLost
         \/ Crash \/ MoverPanics \/ UNCHANGED vars
  PROVE  AcksInv'
  <1>1. config' = config /\ flight' \subseteq flight /\ config \in Scenarios
    BY DEF Bind, Disconnect, BoxConnect, BoxLost, Crash, MoverPanics, Restart, vars, BaseInv, TypeOK, TypeBox
  <1>2. \A t \in Thread : pc'[t] = "add" => pc[t] = "add" /\ at'[t] = at[t]
    BY DEF Bind, Disconnect, BoxConnect, BoxLost, Crash, MoverPanics, Restart, Resting, vars, workVars
  <1> QED
    BY <1>1, <1>2, AcksQuiet

\* In every reachable state the open acks of a bind and the threads about to add
\* one pass max-open-acks by at most two, while messages have one part.
THEOREM AcksInvariant == Spec => [](BaseInv /\ AcksInv)
  <1>1. Init => AcksInv
    <2> SUFFICES ASSUME Init
                 PROVE  AcksInv
      OBVIOUS
    <2>1. flight = {} /\ (\A t \in Thread : pc[t] = "idle") /\ config.acks \in Nat
      BY DEF Init, Resting
    <2>2. IsFiniteSet({}) /\ Cardinality({}) = 0
      BY FS_EmptySet
    <2>3. \A e \in Esme : AcksOf(flight, e) = {} /\ AddersOf(pc, at, e) = {}
      BY <2>1 DEF AcksOf, AddersOf
    <2>4. \A e \in Esme : Cardinality(AcksOf(flight, e)) = 0 /\ Cardinality(AddersOf(pc, at, e)) = 0
      BY <2>2, <2>3
    <2> QED
      BY <2>1, <2>2, <2>4 DEF AcksInv, AcksFit
  <1>2. ASSUME BaseInv, AcksInv, [Next]_vars
        PROVE  AcksInv'
    <2>1. CASE \E t \in Thread : ThreadStep(t)
      BY <1>2, <2>1, AcksChoose, AcksAdd, AcksThreads DEF ThreadStep
    <2>2. CASE \/ \E m \in Msg : ReaderRead(m)
               \/ \E t \in {"mover", "requeue"} : Take(t)
               \/ ReaderUnconvertible \/ ReaderNone \/ ReaderStored \/ MoverPoll \/ MoverNone \/ Poll
      BY <1>2, <2>2, AcksThreads DEF Thread
    <2>3. CASE RequeueNone
      BY <1>2, <2>3, AcksRequeueNone
    <2>4. CASE \E p \in flight : \/ OutboundSend(p) \/ EsmeAnswer(p) \/ ProcessAck(p)
                                 \/ Expire(p) \/ DestroyAck(p) \/ MoveInsert(p) \/ MoveRemove(p)
      BY <1>2, <2>4, AcksPdus
    <2>5. CASE (\E e \in Esme : Bind(e) \/ Disconnect(e)) \/ BoxConnect \/ BoxLost \/ Crash \/ MoverPanics \/ UNCHANGED vars
      BY <1>2, <2>5, AcksConnections
    <2> QED
      BY <1>2, <2>1, <2>2, <2>3, <2>4, <2>5 DEF Next
  <1> QED
    BY <1>1, <1>2, BaseInvariant, PTL DEF Spec

\* Three threads compare a bind's open acks with max-open-acks before they add to
\* them: the limit is passed by at most two, whatever the limit.
THEOREM AcksBounded == Spec => []OpenAcksBounded
  <1>1. BaseInv /\ AcksInv => OpenAcksBounded
    <2> SUFFICES ASSUME BaseInv, AcksInv, \A m \in config.offered : Parts[m] = 1, NEW e \in Esme
                 PROVE  Cardinality(OpenAcks(e)) <= config.acks + Cardinality(Thread) - 1
      BY DEF OpenAcksBounded
    <2>1. IsFiniteSet(flight) /\ Cardinality(AcksOf(flight, e)) + Cardinality(AddersOf(pc, at, e)) <= config.acks + 2
      BY DEF AcksInv, AcksFit
    <2>2. Cardinality(AcksOf(flight, e)) \in Nat /\ Cardinality(AddersOf(pc, at, e)) \in 0 .. 3
      BY <2>1, AcksCounted
    <2>3. OpenAcks(e) = AcksOf(flight, e) /\ config.acks \in Nat
      BY DEF OpenAcks, AcksOf, BaseInv, TypeOK, TypeBox
    <2> QED
      BY <2>1, <2>2, <2>3, ThreeThreads
  <1> QED
    BY <1>1, AcksInvariant, PTL

=============================================================================
