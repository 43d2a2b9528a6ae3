------------------------- MODULE EsmeLifecycleProofs -------------------------
(***************************************************************************)
(* Proofs about the life of an ESME: for any number of connections, queue  *)
(* threads and PDUs, the cleanup thread frees a connection that bound once *)
(* only when no queue, no queue thread and no list of the server refers to *)
(* it; its replacement of cleanup_queue loses nothing it had looked at;    *)
(* and max_binds is passed by at most one bind per extra inbound thread.   *)
(***************************************************************************)
EXTENDS EsmeLifecycle, FiniteSetTheorems, TLAPS

USE EsmeAssumption, ThreadAssumption, LimitAssumption DEF Global, Kind, Idle, OutIdle

-----------------------------------------------------------------------------
(* The inductive invariant *)

\* Inbound threads that found the account missing and will create it.
Absent == {t \in InThread : tpc[t].pc = "absent"}

\* A queue thread at work has a connection, and a PDU of it was handled lately;
\* a thread past the check of a bind is working on an authenticated one.
ThreadInv ==
  /\ \A t \in InThread :
       /\ tpc[t].pc = "idle" => tpc[t].esme = NoEsme
       /\ tpc[t].pc # "idle" => tpc[t].esme \in Esme /\ recent[tpc[t].esme]
       /\ tpc[t].pc \in {"authed", "absent"} => tpc[t].kind = "bind" /\ authed[tpc[t].esme]
  /\ \A o \in OutThread :
       /\ opc[o].pc = "idle" => opc[o].esme = NoEsme
       /\ opc[o].pc # "idle" => opc[o].esme \in Esme /\ recent[opc[o].esme]

\* The account the lookup finds is the last one created, every creation uses up
\* a thread that found none, and only authenticated connections are listed.
GlobalInv ==
  /\ current = created
  /\ created + Cardinality(Absent) <= Cardinality(InThread)
  /\ \A g \in Global, e \in Esme : binds[g][e] > 0 => g <= created /\ authed[e]

\* The pass has the lock to itself, looks at every listed entry once, then at
\* every entry of cleanup_queue once.
PassInv ==
  /\ cpc # "sleep" => Readers = {}
  /\ cpc = "scan" => \A e \in Esme : todo[e] > 0 => current \in Global /\ todo[e] <= binds[current][e]
  /\ cpc = "reap" =>
       /\ snap \subseteq cleanupq /\ keep \subseteq snap
       /\ \A e \in Esme : todo[e] > 0 => todo[e] = 1 /\ e \in snap /\ e \notin keep
       /\ \A e \in snap : todo[e] = 0 => e \in keep \/ life[e] = "freed"

\* A connection that is read from is allocated, and nobody is cleaning it up.
ConnInv ==
  \A e \in Esme : connected[e] => life[e] = "live" /\ e \notin cleanupq /\ closing # e

\* Nothing refers to a connection before it is accepted.
Untouched(e) ==
  /\ ~connected[e] /\ closing # e /\ e \notin cleanupq
  /\ inq[e] = <<>> /\ outq[e] = <<>> /\ routing[e] = 0
  /\ \A t \in InThread : tpc[t].esme # e
  /\ \A o \in OutThread : opc[o].esme # e
  /\ \A g \in Global : binds[g][e] = 0
FreshInv == \A e \in Esme : life[e] = "absent" => Untouched(e)

BaseInv == TypeOK /\ ThreadInv /\ GlobalInv /\ PassInv /\ ConnInv /\ FreshInv

\* The one bind of a connection is queued, with one thread, or listed.
Binder(t, e) == tpc[t].esme = e /\ tpc[t].kind = "bind"
BindQueued(e) == \E i \in 1 .. Len(inq[e]) : inq[e][i] = "bind"
OneBind(e) ==
  /\ bindReqs[e] = 0 =>
       ~BindQueued(e) /\ (\A t \in InThread : ~Binder(t, e)) /\ (\A g \in Global : binds[g][e] = 0)
  /\ \A i, j \in 1 .. Len(inq[e]) : inq[e][i] = "bind" /\ inq[e][j] = "bind" => i = j
  /\ BindQueued(e) => (\A t \in InThread : ~Binder(t, e)) /\ (\A g \in Global : binds[g][e] = 0)
  /\ \A t, u \in InThread : Binder(t, e) /\ Binder(u, e) => t = u
  /\ (\E t \in InThread : Binder(t, e)) => \A g \in Global : binds[g][e] = 0
  /\ \A g \in Global : binds[g][e] <= 1

\* e is allocated as long as anything that could use it refers to it: a queue or
\* a thread, the list of binds, or cleanup_queue, of which the second loop of the
\* pass has looked at a part.
Refs(e) ==
  \/ Queued(e) \/ e \in Listed
  \/ e \in cleanupq /\ (cpc # "reap" \/ e \notin snap)
  \/ cpc = "reap" /\ (todo[e] > 0 \/ e \in keep)
RefsAlive(e) == Refs(e) => life[e] = "live"

\* A connection the listener is about to clean up, and that somebody else lists
\* as well, was active lately and is not freed before the listener is done.
ClosingRecent(e) ==
  closing = e /\ (e \in cleanupq \/ \E g \in Global : binds[g][e] > 0) => recent[e]

\* The pass takes a connection that is to be cleaned up off the list of binds
\* before it looks at cleanup_queue.
UnlistedFirst(e) ==
  e \in Listed /\ (e \in cleanupq \/ closing = e) =>
    cpc = "sleep" \/ (cpc = "scan" /\ todo[e] > 0)

OnceInv(e) == OneBind(e) /\ RefsAlive(e) /\ ClosingRecent(e) /\ UnlistedFirst(e)

EsmeInv == BaseInv /\ \A e \in Esme : BoundOnce(e) => OnceInv(e)

-----------------------------------------------------------------------------
(* Types *)

\* A PDU for e on the outbound queue.
LEMMA OutTyped ==
  ASSUME TypeQueue, NEW e \in Esme, NEW d \in BOOLEAN, AddOutbound(e, d)
  PROVE  outq' \in [Esme -> Seq(BOOLEAN)]
  <1>1. outq \in [Esme -> Seq(BOOLEAN)]
    BY DEF TypeQueue
  <1>2. Append(outq[e], d) \in Seq(BOOLEAN)
    BY <1>1
  <1> QED
    BY <1>1, <1>2 DEF AddOutbound

\* A PDU of the server's own.
LEMMA OriginateTyped ==
  ASSUME TypeQueue, NEW e \in Esme, NEW d \in BOOLEAN, Originate(e, d)
  PROVE  outq' \in [Esme -> Seq(BOOLEAN)] /\ sentByUs' \in [Esme -> 0 .. MaxOut]
  <1>1. /\ sentByUs \in [Esme -> 0 .. MaxOut] /\ sentByUs[e] < MaxOut
        /\ sentByUs' = [sentByUs EXCEPT ![e] = @ + 1]
    BY DEF TypeQueue, Originate
  <1>2. outq' \in [Esme -> Seq(BOOLEAN)]
    BY OutTyped DEF Originate
  <1>3. sentByUs[e] + 1 \in 0 .. MaxOut
    BY <1>1
  <1> QED
    BY <1>1, <1>2, <1>3

\* Every step of the listener, the receivers and the clock keeps the types.
LEMMA ListenerType ==
  ASSUME BaseInv,
         \/ Listener \/ UseReceiver
         \/ \E e \in Esme : RoutingDone(e) \/ CallbackSubmit(e) \/ FindBestReceiver(e)
                            \/ UnbindCommand(e) \/ Elapse(e)
  PROVE  TypeOK'
  <1>a. TypeLife /\ TypeGlobal /\ TypeQueue /\ TypeThread /\ TypeWork /\ TypePass
    BY DEF BaseInv, TypeOK
  <1> USE <1>a DEF esmeVars, globalVars, readVars, queueVars, threadVars, workVars, passVars
  <1>1. CASE ListenerCleanup
    <2>1. closing \in Esme
      BY <1>1 DEF ListenerCleanup, TypeWork
    <2>2. TypeLife' /\ TypeGlobal' /\ TypeQueue' /\ TypeThread'
      BY <1>1 DEF ListenerCleanup, TypeLife, TypeGlobal, TypeQueue, TypeThread
    <2>3. TypeWork'
      BY <1>1, <2>1 DEF ListenerCleanup, TypeWork, Enqueue
    <2>4. TypePass'
      BY <1>1, <2>1 DEF ListenerCleanup, TypePass, Enqueue
    <2> QED
      BY <2>2, <2>3, <2>4 DEF TypeOK
  <1>2. ASSUME NEW e \in Esme, Connect(e) PROVE TypeOK'
    <2>1. TypeGlobal' /\ TypeQueue' /\ TypeThread' /\ TypeWork' /\ TypePass'
      BY <1>2 DEF Connect, TypeGlobal, TypeQueue, TypeThread, TypeWork, TypePass
    <2>2. TypeLife'
      BY <1>2 DEF Connect, TypeLife
    <2> QED
      BY <2>1, <2>2 DEF TypeOK
  <1>3. ASSUME NEW e \in Esme, PeerCloses(e) PROVE TypeOK'
    <2>1. TypeGlobal' /\ TypeQueue' /\ TypeThread' /\ TypePass'
      BY <1>3 DEF PeerCloses, TypeGlobal, TypeQueue, TypeThread, TypePass
    <2>2. TypeLife'
      BY <1>3 DEF PeerCloses, TypeLife, StopListening
    <2>3. TypeWork'
      BY <1>3 DEF PeerCloses, TypeWork, StopListening
    <2> QED
      BY <2>1, <2>2, <2>3 DEF TypeOK
  <1>4. ASSUME NEW e \in Esme, NEW k \in Kind, ReadPdu(e, k) PROVE TypeOK'
    <2>1. TypeLife' /\ TypeGlobal' /\ TypeThread' /\ TypeWork' /\ TypePass'
      BY <1>4 DEF ReadPdu, TypeLife, TypeGlobal, TypeThread, TypeWork, TypePass
    <2>2. TypeQueue'
      <3>1. Append(inq[e], k) \in Seq(Kind) /\ received[e] + 1 \in 0 .. MaxPdu
        BY <1>4, SMTT(30) DEF ReadPdu, TypeQueue
      <3>2. k = "bind" => bindReqs[e] + 1 \in 0 .. MaxBindPdu
        BY <1>4, SMTT(30) DEF ReadPdu, TypeQueue
      <3>3. inq' \in [Esme -> Seq(Kind)] /\ received' \in [Esme -> 0 .. MaxPdu]
        BY <1>4, <3>1 DEF ReadPdu, TypeQueue
      <3>4. bindReqs' \in [Esme -> 0 .. MaxBindPdu]
        BY <1>4, <3>2 DEF ReadPdu, TypeQueue
      <3> QED
        BY <1>4, <3>3, <3>4 DEF ReadPdu, TypeQueue
    <2> QED
      BY <2>1, <2>2 DEF TypeOK
  <1>5. CASE UseReceiver
    <2>1. receiver \in Esme
      BY <1>5 DEF UseReceiver, TypeWork
    <2>2. TypeLife' /\ TypeGlobal' /\ TypeThread' /\ TypePass'
      BY <1>5 DEF UseReceiver, TypeLife, TypeGlobal, TypeThread, TypePass
    <2>3. TypeQueue'
      <3>1. CASE UNCHANGED <<outq, sentByUs>>
        BY <1>5, <3>1 DEF UseReceiver, TypeQueue
      <3>2. CASE Originate(receiver, FALSE)
        <4>1. outq' \in [Esme -> Seq(BOOLEAN)] /\ sentByUs' \in [Esme -> 0 .. MaxOut]
          BY <2>1, <3>2, OriginateTyped
        <4> QED
          BY <1>5, <4>1 DEF UseReceiver, TypeQueue
      <3> QED
        BY <1>5, <3>1, <3>2 DEF UseReceiver
    <2>4. TypeWork'
      BY <1>5, <2>1 DEF UseReceiver, TypeWork, Originate, AddOutbound
    <2> QED
      BY <2>2, <2>3, <2>4 DEF TypeOK
  <1>6. ASSUME NEW e \in Esme, RoutingDone(e) PROVE TypeOK'
    <2>1. TypeLife' /\ TypeGlobal' /\ TypeQueue' /\ TypeThread' /\ TypePass'
      BY <1>6 DEF RoutingDone, TypeLife, TypeGlobal, TypeQueue, TypeThread, TypePass
    <2>2. TypeWork'
      BY <1>6 DEF RoutingDone, TypeWork
    <2> QED
      BY <2>1, <2>2 DEF TypeOK
  <1>7. ASSUME NEW e \in Esme, CallbackSubmit(e) PROVE TypeOK'
    <2>1. TypeLife' /\ TypeGlobal' /\ TypeThread' /\ TypePass'
      BY <1>7 DEF CallbackSubmit, TypeLife, TypeGlobal, TypeThread, TypePass
    <2>2. TypeQueue'
      BY <1>7 DEF CallbackSubmit, TypeQueue, AddOutbound
    <2>3. TypeWork'
      BY <1>7 DEF CallbackSubmit, TypeWork, AddOutbound
    <2> QED
      BY <2>1, <2>2, <2>3 DEF TypeOK
  <1>8. ASSUME NEW e \in Esme, FindBestReceiver(e) PROVE TypeOK'
    <2>1. TypeLife' /\ TypeGlobal' /\ TypeQueue' /\ TypeThread' /\ TypePass'
      BY <1>8 DEF FindBestReceiver, TypeLife, TypeGlobal, TypeQueue, TypeThread, TypePass
    <2>2. TypeWork'
      BY <1>8 DEF FindBestReceiver, TypeWork
    <2> QED
      BY <2>1, <2>2 DEF TypeOK
  <1>9. ASSUME NEW e \in Esme, UnbindCommand(e) PROVE TypeOK'
    <2>1. TypeLife' /\ TypeGlobal' /\ TypeThread' /\ TypeWork' /\ TypePass'
      BY <1>9 DEF UnbindCommand, TypeLife, TypeGlobal, TypeThread, TypeWork, TypePass
    <2>2. TypeQueue'
      BY <1>9 DEF UnbindCommand, TypeQueue, Originate, AddOutbound
    <2> QED
      BY <2>1, <2>2 DEF TypeOK
  <1>10. ASSUME NEW e \in Esme, Elapse(e) PROVE TypeOK'
    <2>1. TypeLife' /\ TypeGlobal' /\ TypeQueue' /\ TypeThread' /\ TypePass'
      BY <1>10 DEF Elapse, TypeLife, TypeGlobal, TypeQueue, TypeThread, TypePass
    <2>2. TypeWork'
      BY <1>10 DEF Elapse, TypeWork
    <2> QED
      BY <2>1, <2>2 DEF TypeOK
  <1> QED
    BY <1>1, <1>2, <1>3, <1>4, <1>5, <1>6, <1>7, <1>8, <1>9, <1>10 DEF Listener

\* A thread that found no account has an account left to create: the others
\* were created by threads that found none either.
LEMMA RoomForAccount ==
  ASSUME BaseInv, NEW t \in InThread, tpc[t].pc = "absent"
  PROVE  created + 1 \in Global
  <1>1. t \in Absent /\ Absent \subseteq InThread
    BY DEF Absent
  <1>2. IsFiniteSet(Absent) /\ Cardinality(Absent) \in Nat /\ Cardinality(InThread) \in Nat
    BY <1>1, FS_Subset, FS_CardinalityType
  <1>3. Cardinality(Absent) # 0
    BY <1>1, <1>2, FS_EmptySet
  <1>4. created + Cardinality(Absent) <= Cardinality(InThread) /\ created \in Nat
    BY <1>2 DEF BaseInv, GlobalInv, TypeOK, TypeGlobal
  <1> QED
    BY <1>2, <1>3, <1>4

\* So do the inbound queue threads.  An account is created only by a thread that
\* found none, so there are never more accounts than inbound threads.
LEMMA InboundType ==
  ASSUME BaseInv, NEW t \in InThread, Inbound(t)
  PROVE  TypeOK'
  <1>a. TypeLife /\ TypeGlobal /\ TypeQueue /\ TypeThread /\ TypeWork /\ TypePass
    BY DEF BaseInv, TypeOK
  <1> USE <1>a DEF esmeVars, globalVars, readVars, queueVars, threadVars, workVars, passVars
  <1>1. ASSUME NEW e \in Esme, ConsumeInbound(t, e) PROVE TypeOK'
    <2>1. Head(inq[e]) \in Kind
      BY <1>1 DEF ConsumeInbound, TypeQueue
    <2>2. TypeLife' /\ TypeGlobal' /\ TypePass'
      BY <1>1 DEF ConsumeInbound, TypeLife, TypeGlobal, TypePass
    <2>3. TypeQueue'
      BY <1>1, <2>1 DEF ConsumeInbound, TypeQueue
    <2>4. TypeThread'
      BY <1>1, <2>1 DEF ConsumeInbound, TypeThread
    <2>5. TypeWork'
      BY <1>1, <2>1 DEF ConsumeInbound, TypeWork
    <2> QED
      BY <2>2, <2>3, <2>4, <2>5 DEF TypeOK
  <1>2. CASE HandlePdu(t)
    <2>1. tpc[t].esme \in Esme
      BY <1>2 DEF HandlePdu, BaseInv, ThreadInv
    <2>2. TypeLife' /\ TypeGlobal' /\ TypePass'
      BY <1>2 DEF HandlePdu, TypeLife, TypeGlobal, TypePass
    <2>3. TypeQueue'
      <3>1. outq' \in [Esme -> Seq(BOOLEAN)]
        <4>1. UNCHANGED outq \/ AddOutbound(tpc[t].esme, TRUE) \/ AddOutbound(tpc[t].esme, FALSE)
          BY <1>2 DEF HandlePdu
        <4> QED
          BY <2>1, <4>1, OutTyped DEF TypeQueue
      <3> QED
        BY <1>2, <3>1 DEF HandlePdu, TypeQueue
    <2>4. TypeThread'
      BY <1>2, <2>1 DEF HandlePdu, TypeThread, AddOutbound
    <2>5. TypeWork'
      <3>1. UNCHANGED routing \/ routing' = [routing EXCEPT ![tpc[t].esme] = @ + 1]
        BY <1>2 DEF HandlePdu
      <3>2. routing' \in [Esme -> Nat]
        BY <2>1, <3>1 DEF TypeWork
      <3> QED
        BY <1>2, <3>2 DEF HandlePdu, TypeWork
    <2> QED
      BY <2>2, <2>3, <2>4, <2>5 DEF TypeOK
  <1>3. CASE BindRefused(t)
    <2>1. tpc[t].esme \in Esme
      BY <1>3 DEF BindRefused, BaseInv, ThreadInv
    <2>2. TypeLife' /\ TypeGlobal' /\ TypeWork' /\ TypePass'
      BY <1>3 DEF BindRefused, TypeLife, TypeGlobal, TypeWork, TypePass
    <2>3. TypeQueue'
      BY <1>3, <2>1, SMTT(30) DEF BindRefused, TypeQueue, AddOutbound
    <2>4. TypeThread'
      BY <1>3, <2>1 DEF BindRefused, TypeThread, AddOutbound
    <2> QED
      BY <2>2, <2>3, <2>4 DEF TypeOK
  <1>4. CASE BindAccepted(t)
    <2>1. tpc[t].esme \in Esme
      BY <1>4 DEF BindAccepted, BaseInv, ThreadInv
    <2>2. TypeGlobal' /\ TypeQueue' /\ TypeWork' /\ TypePass'
      BY <1>4 DEF BindAccepted, TypeGlobal, TypeQueue, TypeWork, TypePass
    <2>3. TypeLife'
      BY <1>4, <2>1 DEF BindAccepted, TypeLife
    <2>4. TypeThread'
      BY <1>4, <2>1 DEF BindAccepted, TypeThread
    <2> QED
      BY <2>2, <2>3, <2>4 DEF TypeOK
  <1>5. CASE GlobalAdd(t)
    <2>1. tpc[t].esme \in Esme
      BY <1>5 DEF GlobalAdd, BaseInv, ThreadInv
    <2>2. current # 0 => current \in Global
      BY DEF TypeGlobal
    <2>3. TypeLife' /\ TypeWork' /\ TypePass'
      BY <1>5 DEF GlobalAdd, TypeLife, TypeWork, TypePass
    <2>4. TypeGlobal'
      <3>1. CASE UNCHANGED <<globalOf, binds>>
        BY <1>5, <3>1 DEF GlobalAdd, TypeGlobal
      <3>2. CASE current # 0
        <4>1. /\ globalOf' = [globalOf EXCEPT ![tpc[t].esme] = current]
              /\ binds' = [binds EXCEPT ![current][tpc[t].esme] = @ + 1]
          BY <1>5, <3>2 DEF GlobalAdd
        <4>2. globalOf' \in [Esme -> Global \cup {0}]
          BY <2>1, <2>2, <3>2, <4>1 DEF TypeGlobal
        <4>3. binds' \in [Global -> [Esme -> Nat]]
          BY <2>1, <2>2, <3>2, <4>1 DEF TypeGlobal
        <4> QED
          BY <1>5, <4>2, <4>3 DEF GlobalAdd, TypeGlobal
      <3> QED
        BY <1>5, <3>1, <3>2 DEF GlobalAdd
    <2>5. TypeQueue'
      <3>1. outq' \in [Esme -> Seq(BOOLEAN)]
        <4>1. UNCHANGED outq \/ AddOutbound(tpc[t].esme, FALSE)
          BY <1>5 DEF GlobalAdd
        <4> QED
          BY <2>1, <4>1, OutTyped DEF TypeQueue
      <3> QED
        BY <1>5, <3>1 DEF GlobalAdd, TypeQueue
    <2>6. TypeThread'
      <3>1. tpc' = [tpc EXCEPT ![t] = Idle] \/ tpc' = [tpc EXCEPT ![t].pc = "absent"]
        BY <1>5 DEF GlobalAdd
      <3>2. UNCHANGED opc
        BY <1>5 DEF GlobalAdd
      <3> QED
        BY <3>1, <3>2 DEF TypeThread
    <2> QED
      BY <2>3, <2>4, <2>5, <2>6 DEF TypeOK
  <1>6. CASE GlobalCreate(t)
    <2>1. tpc[t].esme \in Esme
      BY <1>6 DEF GlobalCreate, BaseInv, ThreadInv
    <2>2. created + 1 \in Global
      BY <1>6, RoomForAccount DEF GlobalCreate
    <2>3. TypeLife' /\ TypeWork' /\ TypePass'
      BY <1>6 DEF GlobalCreate, TypeLife, TypeWork, TypePass
    <2>4. TypeGlobal'
      BY <1>6, <2>1, <2>2 DEF GlobalCreate, TypeGlobal, AddOutbound
    <2>5. TypeQueue'
      BY <1>6, <2>1, <2>2, SMTT(30) DEF GlobalCreate, TypeQueue, AddOutbound
    <2>6. TypeThread'
      BY <1>6, <2>1, <2>2 DEF GlobalCreate, TypeThread, AddOutbound
    <2> QED
      BY <2>3, <2>4, <2>5, <2>6 DEF TypeOK
  <1> QED
    BY <1>1, <1>2, <1>3, <1>4, <1>5, <1>6 DEF Inbound

\* And the outbound threads and the cleanup pass.
LEMMA OutboundType ==
  ASSUME BaseInv, NEW o \in OutThread, Outbound(o)
  PROVE  TypeOK'
  <1>a. TypeLife /\ TypeGlobal /\ TypeQueue /\ TypeThread /\ TypeWork /\ TypePass
    BY DEF BaseInv, TypeOK
  <1> USE <1>a DEF esmeVars, globalVars, readVars, queueVars, threadVars, workVars, passVars
  <1>1. ASSUME NEW e \in Esme, ConsumeOutbound(o, e) PROVE TypeOK'
    <2>1. Head(outq[e]) \in BOOLEAN
      BY <1>1 DEF ConsumeOutbound, TypeQueue
    <2>2. TypeLife' /\ TypeGlobal' /\ TypePass'
      BY <1>1 DEF ConsumeOutbound, TypeLife, TypeGlobal, TypePass
    <2>3. TypeQueue'
      BY <1>1, <2>1 DEF ConsumeOutbound, TypeQueue
    <2>4. TypeThread'
      BY <1>1, <2>1 DEF ConsumeOutbound, TypeThread
    <2>5. TypeWork'
      BY <1>1, <2>1 DEF ConsumeOutbound, TypeWork
    <2> QED
      BY <2>2, <2>3, <2>4, <2>5 DEF TypeOK
  <1>2. CASE CheckConnected(o)
    <2>1. TypeLife' /\ TypeGlobal' /\ TypeQueue' /\ TypeWork' /\ TypePass'
      BY <1>2 DEF CheckConnected, TypeLife, TypeGlobal, TypeQueue, TypeWork, TypePass
    <2>2. TypeThread'
      BY <1>2 DEF CheckConnected, TypeThread
    <2> QED
      BY <2>1, <2>2 DEF TypeOK
  <1>3. CASE Send(o)
    <2>1. opc[o].esme \in Esme
      BY <1>3 DEF Send, BaseInv, ThreadInv
    <2>2. TypeGlobal' /\ TypeQueue' /\ TypeWork'
      BY <1>3 DEF Send, TypeGlobal, TypeQueue, TypeWork
    <2>3. TypeLife'
      BY <1>3, <2>1 DEF Send, TypeLife, StopListening, Enqueue
    <2>4. TypeThread'
      BY <1>3, <2>1 DEF Send, TypeThread, StopListening, Enqueue
    <2>5. TypePass'
      BY <1>3, <2>1 DEF Send, TypePass, StopListening, Enqueue
    <2> QED
      BY <2>2, <2>3, <2>4, <2>5 DEF TypeOK
  <1> QED
    BY <1>1, <1>2, <1>3 DEF Outbound

\* The cleanup pass keeps the types.
LEMMA CleanupType ==
  ASSUME BaseInv, Cleanup
  PROVE  TypeOK'
  <1>a. TypeLife /\ TypeGlobal /\ TypeQueue /\ TypeThread /\ TypeWork /\ TypePass
    BY DEF BaseInv, TypeOK
  <1> USE <1>a DEF esmeVars, globalVars, readVars, queueVars, threadVars, workVars, passVars
  <1>1. CASE PassStart
    <2>1. \A e \in Esme : e \in Listed => binds[current][e] \in Nat
      BY DEF Listed, TypeGlobal
    <2>2. todo' \in [Esme -> Nat]
      BY <1>1, <2>1 DEF PassStart
    <2>3. TypeLife' /\ TypeGlobal' /\ TypeQueue' /\ TypeThread' /\ TypeWork'
      BY <1>1 DEF PassStart, TypeLife, TypeGlobal, TypeQueue, TypeThread, TypeWork
    <2>4. TypePass'
      BY <1>1, <2>1, <2>2 DEF PassStart, TypePass
    <2> QED
      BY <2>3, <2>4 DEF TypeOK
  <1>2. CASE ReapStart
    <2>1. TypeLife' /\ TypeGlobal' /\ TypeQueue' /\ TypeThread' /\ TypeWork'
      BY <1>2 DEF ReapStart, TypeLife, TypeGlobal, TypeQueue, TypeThread, TypeWork
    <2>2. TypePass'
      BY <1>2 DEF ReapStart, TypePass
    <2> QED
      BY <2>1, <2>2 DEF TypeOK
  <1>3. CASE ReapEnd
    <2>1. TypeLife' /\ TypeGlobal' /\ TypeQueue' /\ TypeThread' /\ TypeWork'
      BY <1>3 DEF ReapEnd, TypeLife, TypeGlobal, TypeQueue, TypeThread, TypeWork
    <2>2. TypePass'
      BY <1>3 DEF ReapEnd, TypePass
    <2> QED
      BY <2>1, <2>2 DEF TypeOK
  <1>4. ASSUME NEW e \in Esme, ScanBind(e) PROVE TypeOK'
    <2>1. current \in Global /\ todo[e] > 0 /\ todo[e] <= binds[current][e]
      BY <1>4 DEF ScanBind, LookAt, BaseInv, PassInv
    <2>2. binds[current][e] \in Nat /\ todo[e] \in Nat
      BY <2>1 DEF TypeGlobal, TypePass
    <2>3. binds[current][e] - 1 \in Nat /\ todo[e] - 1 \in Nat
      BY <2>1, <2>2
    <2>4. TypeThread' /\ TypeWork'
      BY <1>4 DEF ScanBind, TypeThread, TypeWork
    <2>5. TypeLife'
      BY <1>4, <2>1, <2>2, <2>3 DEF ScanBind, TypeLife, LookAt, Enqueue, StopListening, Originate, AddOutbound
    <2>6. TypeGlobal'
      <3>1. UNCHANGED binds \/ binds' = [binds EXCEPT ![current][e] = @ - 1]
        BY <1>4 DEF ScanBind
      <3>2. binds' \in [Global -> [Esme -> Nat]]
        BY <2>1, <2>3, <3>1 DEF TypeGlobal
      <3> QED
        BY <1>4, <3>2 DEF ScanBind, TypeGlobal
    <2>7. TypeQueue'
      <3>1. UNCHANGED <<outq, sentByUs>> \/ Originate(e, FALSE)
        BY <1>4 DEF ScanBind
      <3>2. outq' \in [Esme -> Seq(BOOLEAN)] /\ sentByUs' \in [Esme -> 0 .. MaxOut]
        BY <3>1, OriginateTyped DEF TypeQueue
      <3> QED
        BY <1>4, <3>2 DEF ScanBind, TypeQueue
    <2>8. TypePass'
      BY <1>4, <2>1, <2>2, <2>3 DEF ScanBind, TypePass, LookAt, Enqueue, StopListening, Originate, AddOutbound
    <2> QED
      BY <2>4, <2>5, <2>6, <2>7, <2>8 DEF TypeOK
  <1>5. ASSUME NEW e \in Esme, ReapEsme(e) PROVE TypeOK'
    <2>1. TypeGlobal' /\ TypeQueue' /\ TypeThread' /\ TypeWork'
      BY <1>5 DEF ReapEsme, TypeGlobal, TypeQueue, TypeThread, TypeWork
    <2>2. TypeLife'
      BY <1>5 DEF ReapEsme, TypeLife, LookAt, StopListening
    <2>3. TypePass'
      BY <1>5 DEF ReapEsme, TypePass, LookAt, StopListening
    <2> QED
      BY <2>1, <2>2, <2>3 DEF TypeOK
  <1> QED
    BY <1>1, <1>2, <1>3, <1>4, <1>5 DEF Cleanup

\* Every step keeps the types.
LEMMA NextType == BaseInv /\ [Next]_vars => TypeOK'
  <1> SUFFICES ASSUME BaseInv, [Next]_vars PROVE TypeOK'
    OBVIOUS
  <1>1. CASE UNCHANGED vars
    BY <1>1 DEF vars, BaseInv, TypeOK, TypeLife, TypeGlobal, TypeQueue, TypeThread, TypeWork, TypePass
  <1> QED
    BY <1>1, ListenerType, InboundType, OutboundType, CleanupType DEF Next

-----------------------------------------------------------------------------
(* Threads, accounts, the pass and the connections *)

\* A step that touches none of what the part is about keeps it.
LEMMA BaseFrame ==
  ASSUME BaseInv
  PROVE  /\ UNCHANGED <<tpc, opc, recent, authed>> => ThreadInv'
         /\ UNCHANGED <<tpc, current, created, binds, authed>> => GlobalInv'
         /\ UNCHANGED <<tpc, current, binds, cpc, todo, keep, snap, cleanupq, life>> => PassInv'
         /\ UNCHANGED <<connected, life, cleanupq, closing>> => ConnInv'
  <1>1. UNCHANGED <<tpc, opc, recent, authed>> => ThreadInv'
    BY DEF BaseInv, ThreadInv
  <1>2. UNCHANGED <<tpc, current, created, binds, authed>> => GlobalInv'
    BY DEF BaseInv, GlobalInv, Absent
  <1>3. UNCHANGED <<tpc, current, binds, cpc, todo, keep, snap, cleanupq, life>> => PassInv'
    BY DEF BaseInv, PassInv, Readers
  <1>4. UNCHANGED <<connected, life, cleanupq, closing>> => ConnInv'
    BY DEF BaseInv, ConnInv
  <1> QED
    BY <1>1, <1>2, <1>3, <1>4

\* A step that concerns a connection in use leaves the others untouched.
LEMMA FreshFrame ==
  ASSUME BaseInv, NEW e \in Esme, ~Untouched(e) \/ life'[e] # "absent",
         \A d \in Esme \ {e} :
           /\ life'[d] = life[d] /\ connected'[d] = connected[d] /\ (closing' = d => closing = d)
           /\ (d \in cleanupq' => d \in cleanupq)
           /\ inq'[d] = inq[d] /\ outq'[d] = outq[d] /\ routing'[d] = routing[d]
           /\ \A t \in InThread : tpc'[t].esme = d => tpc[t].esme = d
           /\ \A o \in OutThread : opc'[o].esme = d => opc[o].esme = d
           /\ \A g \in Global : binds'[g][d] = binds[g][d],
         life'[e] = "absent" => life[e] = "absent"
  PROVE  FreshInv'
  <1>1. ASSUME NEW d \in Esme \ {e}, life'[d] = "absent" PROVE Untouched(d)'
    BY <1>1 DEF BaseInv, FreshInv, Untouched
  <1>2. life'[e] # "absent"
    BY DEF BaseInv, FreshInv
  <1> QED
    BY <1>1, <1>2 DEF FreshInv

\* A connection that a thread works on, that is listed, or that has PDUs queued
\* has been accepted.
LEMMA InUse ==
  ASSUME BaseInv, NEW e \in Esme
  PROVE  /\ \A t \in InThread : tpc[t].esme = e => ~Untouched(e)
         /\ \A o \in OutThread : opc[o].esme = e => ~Untouched(e)
         /\ e \in Listed => ~Untouched(e)
         /\ inq[e] # <<>> \/ outq[e] # <<>> \/ routing[e] > 0 => ~Untouched(e)
         /\ connected[e] \/ closing = e \/ e \in cleanupq => ~Untouched(e)
  <1>1. e \in Listed => ~Untouched(e)
    <2> SUFFICES ASSUME e \in Listed PROVE ~Untouched(e)
      OBVIOUS
    <2>1. current \in Global /\ binds[current][e] > 0
      BY DEF Listed, BaseInv, TypeOK, TypeGlobal
    <2> QED
      BY <2>1 DEF Untouched
  <1>2. routing[e] \in Nat
    BY DEF BaseInv, TypeOK, TypeWork
  <1> QED
    BY <1>1, <1>2 DEF Untouched

\* The listener.
LEMMA ListenerBase ==
  ASSUME BaseInv, Listener
  PROVE  ThreadInv' /\ GlobalInv' /\ PassInv' /\ ConnInv' /\ FreshInv'
  <1>a. TypeLife /\ TypeQueue /\ TypeWork /\ TypePass /\ ThreadInv /\ PassInv /\ ConnInv /\ FreshInv
    BY DEF BaseInv, TypeOK
  <1> USE DEF esmeVars, globalVars, readVars, queueVars, threadVars, workVars, passVars
  <1>1. CASE ListenerCleanup
    <2>1. closing \in Esme
      BY <1>1, <1>a DEF ListenerCleanup, TypeWork
    <2>2. /\ cleanupq' = cleanupq \cup {closing} /\ closing' = NoEsme
          /\ UNCHANGED <<connected, life, tpc, opc, recent, authed, current, created, binds, cpc,
                         todo, keep, snap, inq, outq, routing>>
      BY <1>1 DEF ListenerCleanup, Enqueue
    <2>3. ConnInv'
      BY <1>a, <2>1, <2>2 DEF ConnInv
    <2>4. PassInv'
      BY <1>a, <2>2 DEF PassInv, Readers
    <2>5. FreshInv'
      BY <2>1, <2>2, FreshFrame, InUse
    <2> QED
      BY <2>2, <2>3, <2>4, <2>5, BaseFrame
  <1>2. ASSUME NEW e \in Esme, Connect(e)
        PROVE  ThreadInv' /\ GlobalInv' /\ PassInv' /\ ConnInv' /\ FreshInv'
    <2>1. /\ life[e] = "absent" /\ life'[e] = "live" /\ \A d \in Esme \ {e} : life'[d] = life[d]
          /\ \A d \in Esme \ {e} : connected'[d] = connected[d]
          /\ UNCHANGED <<cleanupq, closing, tpc, opc, recent, authed, current, created, binds, cpc,
                         todo, keep, snap, inq, outq, routing>>
      BY <1>2, <1>a DEF Connect, TypeLife
    <2>2. e \notin cleanupq /\ closing # e
      BY <1>a, <2>1 DEF FreshInv, Untouched
    <2>3. ConnInv'
      BY <1>a, <2>1, <2>2 DEF ConnInv
    <2>4. PassInv'
      <3>1. \A d \in Esme : life[d] = "freed" => life'[d] = "freed"
        BY <2>1
      <3>2. snap \subseteq Esme
        BY <1>a DEF TypePass
      <3> QED
        BY <1>a, <2>1, <3>1, <3>2 DEF PassInv, Readers
    <2>5. FreshInv'
      BY <2>1, FreshFrame
    <2> QED
      BY <2>1, <2>3, <2>4, <2>5, BaseFrame
  <1>3. ASSUME NEW e \in Esme, PeerCloses(e)
        PROVE  ThreadInv' /\ GlobalInv' /\ PassInv' /\ ConnInv' /\ FreshInv'
    <2>1. /\ connected[e] /\ ~connected'[e] /\ \A d \in Esme \ {e} : connected'[d] = connected[d]
          /\ closing' \in {NoEsme, e}
          /\ UNCHANGED <<life, cleanupq, tpc, opc, recent, authed, current, created, binds, cpc,
                         todo, keep, snap, inq, outq, routing>>
      BY <1>3, <1>a DEF PeerCloses, StopListening, TypeLife
    <2>2. ConnInv'
      BY <1>a, <2>1 DEF ConnInv
    <2>3. FreshInv'
      BY <2>1, FreshFrame, InUse
    <2> QED
      BY <2>1, <2>2, <2>3, BaseFrame
  <1>4. ASSUME NEW e \in Esme, NEW k \in Kind, ReadPdu(e, k)
        PROVE  ThreadInv' /\ GlobalInv' /\ PassInv' /\ ConnInv' /\ FreshInv'
    <2>1. /\ connected[e] /\ \A d \in Esme \ {e} : inq'[d] = inq[d]
          /\ UNCHANGED <<life, connected, cleanupq, closing, tpc, opc, recent, authed, current, created,
                         binds, cpc, todo, keep, snap, outq, routing>>
      BY <1>4, <1>a DEF ReadPdu, TypeQueue
    <2>2. FreshInv'
      BY <2>1, FreshFrame, InUse
    <2> QED
      BY <2>1, <2>2, BaseFrame
  <1> QED
    BY <1>1, <1>2, <1>3, <1>4 DEF Listener

\* The callbacks, receivers, the unbind command and the clock.
LEMMA CallbackBase ==
  ASSUME BaseInv,
         \/ UseReceiver
         \/ \E e \in Esme : RoutingDone(e) \/ CallbackSubmit(e) \/ FindBestReceiver(e)
                            \/ UnbindCommand(e) \/ Elapse(e)
  PROVE  ThreadInv' /\ GlobalInv' /\ PassInv' /\ ConnInv' /\ FreshInv'
  <1>a. TypeLife /\ TypeQueue /\ TypeWork /\ TypePass /\ ThreadInv /\ PassInv /\ ConnInv /\ FreshInv
    BY DEF BaseInv, TypeOK
  <1> USE DEF esmeVars, globalVars, readVars, queueVars, threadVars, workVars, passVars
  <1>1. ASSUME NEW e \in Esme, ~Untouched(e) \/ life[e] # "absent",
               UNCHANGED <<life, connected, cleanupq, closing, tpc, opc, recent, authed, current, created,
                           binds, cpc, todo, keep, snap, inq>>,
               \A d \in Esme \ {e} : outq'[d] = outq[d] /\ routing'[d] = routing[d]
        PROVE  ThreadInv' /\ GlobalInv' /\ PassInv' /\ ConnInv' /\ FreshInv'
    <2>1. FreshInv'
      BY <1>1, FreshFrame
    <2> QED
      BY <1>1, <2>1, BaseFrame
  <1>2. CASE UseReceiver
    <2>1. receiver \in Esme /\ life[receiver] # "absent"
      BY <1>2, <1>a DEF UseReceiver, TypeWork
    <2>2. \A d \in Esme \ {receiver} : outq'[d] = outq[d] /\ routing'[d] = routing[d]
      BY <1>2, <1>a, <2>1 DEF UseReceiver, Originate, AddOutbound, TypeQueue
    <2>3. UNCHANGED <<life, connected, cleanupq, closing, tpc, opc, recent, authed, current, created,
                      binds, cpc, todo, keep, snap, inq>>
      BY <1>2 DEF UseReceiver
    <2> QED
      BY <1>1, <2>1, <2>2, <2>3
  <1>3. ASSUME NEW e \in Esme, RoutingDone(e) \/ CallbackSubmit(e) \/ FindBestReceiver(e) \/ UnbindCommand(e)
        PROVE  ThreadInv' /\ GlobalInv' /\ PassInv' /\ ConnInv' /\ FreshInv'
    <2>1. ~Untouched(e) \/ life[e] # "absent"
      BY <1>3, InUse DEF RoutingDone, CallbackSubmit, FindBestReceiver, UnbindCommand
    <2>2. \A d \in Esme \ {e} : outq'[d] = outq[d] /\ routing'[d] = routing[d]
      BY <1>3, <1>a DEF RoutingDone, CallbackSubmit, FindBestReceiver, UnbindCommand, Originate,
                        AddOutbound, TypeQueue, TypeWork
    <2>3. UNCHANGED <<life, connected, cleanupq, closing, tpc, opc, recent, authed, current, created,
                      binds, cpc, todo, keep, snap, inq>>
      BY <1>3 DEF RoutingDone, CallbackSubmit, FindBestReceiver, UnbindCommand
    <2> QED
      BY <1>1, <2>1, <2>2, <2>3
  <1>4. ASSUME NEW e \in Esme, Elapse(e)
        PROVE  ThreadInv' /\ GlobalInv' /\ PassInv' /\ ConnInv' /\ FreshInv'
    <2>1. /\ UNCHANGED <<life, connected, cleanupq, closing, tpc, opc, authed, current, created,
                         binds, cpc, todo, keep, snap, inq, outq, routing>>
          /\ \A d \in Esme \ {e} : recent'[d] = recent[d]
          /\ \A t \in InThread : tpc[t].esme # e
          /\ \A o \in OutThread : opc[o].esme # e
      BY <1>4, <1>a DEF Elapse, TypeWork
    <2>2. ThreadInv'
      BY <1>a, <2>1 DEF ThreadInv
    <2>3. FreshInv'
      BY <1>a, <2>1 DEF FreshInv, Untouched
    <2> QED
      BY <2>1, <2>2, <2>3, BaseFrame
  <1> QED
    BY <1>2, <1>3, <1>4

\* The second half of a bind: the connection of the thread is listed once more
\* under the account that is then the current one, or the thread found none.
ListsUnder(t, e, g) ==
  /\ current' = g /\ created' = g
  /\ (g = created \/ (g = created + 1 /\ tpc[t].pc = "absent"))
  /\ binds'[g][e] = binds[g][e] + 1
  /\ \A d \in Esme \ {e} : binds'[g][d] = binds[g][d]
  /\ \A h \in Global \ {g} : binds'[h] = binds[h]
  /\ outq' = [outq EXCEPT ![e] = Append(@, FALSE)]
  /\ tpc' = [tpc EXCEPT ![t] = Idle]
FindsNone(t) ==
  /\ current = 0 /\ tpc[t].pc = "authed"
  /\ tpc' = [tpc EXCEPT ![t].pc = "absent"]
  /\ UNCHANGED <<current, created, binds, outq>>

\* A bind is listed in the account that the lookup found or created.
LEMMA Listing ==
  ASSUME BaseInv, NEW t \in InThread, GlobalAdd(t) \/ GlobalCreate(t)
  PROVE  /\ tpc[t].esme \in Esme /\ tpc[t].pc \in {"authed", "absent"} /\ tpc[t].kind = "bind"
         /\ cpc = "sleep" /\ recent[tpc[t].esme] /\ authed[tpc[t].esme]
         /\ FindsNone(t) \/ \E g \in Global : ListsUnder(t, tpc[t].esme, g)
         /\ UNCHANGED <<life, connected, authed, received, bindReqs, sentByUs, inq, opc, routing,
                        jobs, closing, receiver, recent, cleanupq, cpc, todo, keep, snap>>
  <1>a. TypeGlobal /\ TypePass /\ ThreadInv /\ PassInv /\ GlobalInv
    BY DEF BaseInv, TypeOK
  <1>1. /\ tpc[t].esme \in Esme /\ tpc[t].pc \in {"authed", "absent"} /\ tpc[t].kind = "bind"
        /\ cpc = "sleep" /\ recent[tpc[t].esme] /\ authed[tpc[t].esme]
    BY <1>a DEF GlobalAdd, GlobalCreate, ThreadInv, PassInv, Readers, TypePass
  <1>2. UNCHANGED <<life, connected, authed, received, bindReqs, sentByUs, inq, opc, routing,
                    jobs, closing, receiver, recent, cleanupq, cpc, todo, keep, snap>>
    BY DEF GlobalAdd, GlobalCreate, esmeVars, readVars, workVars, passVars
  <1>3. CASE GlobalAdd(t) /\ current = 0
    <2>1. FindsNone(t)
      BY <1>3 DEF GlobalAdd, FindsNone
    <2> QED
      BY <1>1, <1>2, <2>1
  <1>4. CASE GlobalAdd(t) /\ current # 0
    <2>1. current \in Global /\ current = created
      BY <1>4, <1>a DEF TypeGlobal, GlobalInv
    <2>2. /\ binds' = [binds EXCEPT ![current][tpc[t].esme] = @ + 1]
          /\ outq' = [outq EXCEPT ![tpc[t].esme] = Append(@, FALSE)]
          /\ tpc' = [tpc EXCEPT ![t] = Idle] /\ UNCHANGED <<current, created>>
      BY <1>4 DEF GlobalAdd, AddOutbound
    <2>3. ListsUnder(t, tpc[t].esme, current)
      BY <1>a, <1>1, <2>1, <2>2 DEF ListsUnder, TypeGlobal
    <2> QED
      BY <2>1, <2>3, <1>1, <1>2
  <1>5. CASE GlobalCreate(t)
    <2>1. created + 1 \in Global /\ tpc[t].pc = "absent"
      BY <1>5, RoomForAccount DEF GlobalCreate
    <2>2. /\ binds' = [binds EXCEPT ![created + 1][tpc[t].esme] = @ + 1]
          /\ outq' = [outq EXCEPT ![tpc[t].esme] = Append(@, FALSE)]
          /\ tpc' = [tpc EXCEPT ![t] = Idle] /\ current' = created + 1 /\ created' = created + 1
      BY <1>5 DEF GlobalCreate, AddOutbound
    <2>3. ListsUnder(t, tpc[t].esme, created + 1)
      BY <1>a, <1>1, <2>1, <2>2 DEF ListsUnder, TypeGlobal
    <2> QED
      BY <2>1, <2>3, <1>1, <1>2
  <1> QED
    BY <1>1, <1>2, <1>3, <1>4, <1>5

\* The inbound queue threads.
LEMMA InboundBase ==
  ASSUME BaseInv, NEW t \in InThread, Inbound(t)
  PROVE  ThreadInv' /\ GlobalInv' /\ PassInv' /\ ConnInv' /\ FreshInv'
  <1>a. /\ TypeLife /\ TypeGlobal /\ TypeQueue /\ TypeThread /\ TypeWork /\ TypePass
        /\ ThreadInv /\ GlobalInv /\ PassInv /\ ConnInv /\ FreshInv
    BY DEF BaseInv, TypeOK
  <1> USE DEF esmeVars, globalVars, readVars, queueVars, threadVars, workVars, passVars
  <1>b. IsFiniteSet(Absent) /\ Cardinality(Absent) \in Nat /\ Cardinality(InThread) \in Nat
        /\ created \in Nat /\ created \in Global \cup {0}
    <2>1. IsFiniteSet(Absent) /\ Cardinality(InThread) \in Nat
      BY FS_Subset, FS_CardinalityType DEF Absent
    <2> QED
      BY <1>a, <2>1, FS_CardinalityType DEF TypeGlobal
  \* A step that takes no thread into or out of the creation of an account.
  <1>c. ASSUME UNCHANGED <<current, created, binds>>, Absent' \subseteq Absent,
               \A e \in Esme : authed[e] => authed'[e]
        PROVE  GlobalInv'
    <2>1. IsFiniteSet(Absent') /\ Cardinality(Absent') <= Cardinality(Absent) /\ Cardinality(Absent') \in Nat
      BY <1>b, <1>c, FS_Subset, FS_CardinalityType
    <2>2. created' + Cardinality(Absent') <= Cardinality(InThread)
      BY <1>a, <1>b, <1>c, <2>1 DEF GlobalInv
    <2> QED
      BY <1>a, <1>c, <2>2 DEF GlobalInv
  <1>d. ASSUME current' = created', created' + Cardinality(Absent') <= Cardinality(InThread),
               \A g \in Global, e \in Esme : binds'[g][e] > 0 => g <= created' /\ authed'[e]
        PROVE  GlobalInv'
    BY <1>d DEF GlobalInv
  <1>1. ASSUME NEW e \in Esme, ConsumeInbound(t, e)
        PROVE  ThreadInv' /\ GlobalInv' /\ PassInv' /\ ConnInv' /\ FreshInv'
    <2>1. /\ tpc[t].pc = "idle" /\ inq[e] # <<>>
          /\ tpc'[t].pc = "got" /\ tpc'[t].esme = e /\ \A u \in InThread \ {t} : tpc'[u] = tpc[u]
          /\ recent'[e] /\ \A d \in Esme \ {e} : recent'[d] = recent[d] /\ inq'[d] = inq[d]
          /\ UNCHANGED <<life, connected, cleanupq, closing, opc, authed, current, created,
                         binds, cpc, todo, keep, snap, outq, routing>>
      BY <1>1, <1>a DEF ConsumeInbound, TypeThread, TypeWork, TypeQueue
    <2>2. ThreadInv'
      BY <1>a, <2>1 DEF ThreadInv
    <2>3. GlobalInv'
      BY <1>c, <2>1 DEF Absent
    <2>4. PassInv'
      BY <1>a, <2>1 DEF PassInv, Readers
    <2>5. FreshInv'
      BY <2>1, FreshFrame, InUse
    <2> QED
      BY <2>1, <2>2, <2>3, <2>4, <2>5, BaseFrame
  <1>2. CASE HandlePdu(t) \/ BindRefused(t) \/ BindAccepted(t)
    <2> DEFINE e == tpc[t].esme
    <2>0. e \in Esme /\ tpc[t].pc = "got" /\ cpc = "sleep" /\ recent[e]
      BY <1>2, <1>a DEF HandlePdu, BindRefused, BindAccepted, ThreadInv, WriteLocked
    <2>1. /\ UNCHANGED <<life, connected, cleanupq, closing, opc, recent, current, created,
                         binds, cpc, todo, keep, snap, inq>>
          /\ \A u \in InThread \ {t} : tpc'[u] = tpc[u]
          /\ \A d \in Esme \ {e} : outq'[d] = outq[d] /\ routing'[d] = routing[d]
      BY <1>2, <1>a, <2>0 DEF HandlePdu, BindRefused, BindAccepted, AddOutbound, TypeThread,
                              TypeQueue, TypeWork
    <2>2. \/ tpc'[t] = Idle /\ UNCHANGED authed
          \/ /\ tpc'[t].pc = "authed" /\ tpc'[t].esme = e /\ tpc'[t].kind = "bind"
             /\ authed' = [authed EXCEPT ![e] = TRUE]
      <3>1. CASE HandlePdu(t) \/ BindRefused(t)
        BY <3>1, <1>a DEF HandlePdu, BindRefused, TypeThread
      <3>2. CASE BindAccepted(t)
        BY <3>2, <1>a DEF BindAccepted, TypeThread
      <3> QED
        BY <1>2, <3>1, <3>2
    <2> HIDE DEF e
    <2>3. \A d \in Esme : authed[d] => authed'[d]
      BY <1>a, <2>0, <2>2 DEF TypeLife
    <2>4. ThreadInv'
      <3>1. \A u \in InThread \ {t} :
              /\ tpc'[u].pc = "idle" => tpc'[u].esme = NoEsme
              /\ tpc'[u].pc # "idle" => tpc'[u].esme \in Esme /\ recent'[tpc'[u].esme]
              /\ tpc'[u].pc \in {"authed", "absent"} => tpc'[u].kind = "bind" /\ authed'[tpc'[u].esme]
        BY <1>a, <2>1, <2>3 DEF ThreadInv
      <3>2. /\ tpc'[t].pc = "idle" => tpc'[t].esme = NoEsme
            /\ tpc'[t].pc # "idle" => tpc'[t].esme \in Esme /\ recent'[tpc'[t].esme]
            /\ tpc'[t].pc \in {"authed", "absent"} => tpc'[t].kind = "bind" /\ authed'[tpc'[t].esme]
        BY <1>a, <2>0, <2>1, <2>2 DEF TypeLife
      <3> QED
        BY <1>a, <2>1, <3>1, <3>2 DEF ThreadInv
    <2>5. GlobalInv'
      BY <1>c, <2>1, <2>2, <2>3 DEF Absent
    <2>6. PassInv'
      BY <1>a, <2>0, <2>1 DEF PassInv
    <2>7. FreshInv'
      <3>1. ~Untouched(e)
        BY <2>0, InUse DEF e
      <3>2. \A u \in InThread : \A d \in Esme \ {e} : tpc'[u].esme = d => tpc[u].esme = d
        BY <2>1, <2>2
      <3> QED
        BY <2>0, <2>1, <3>1, <3>2, FreshFrame
    <2> QED
      BY <2>1, <2>4, <2>5, <2>6, <2>7, BaseFrame
  <1>3. CASE GlobalAdd(t) \/ GlobalCreate(t)
    <2>1. PICK e \in Esme : e = tpc[t].esme
      BY <1>3, Listing
    <2>2. /\ tpc[t].pc \in {"authed", "absent"} /\ tpc[t].kind = "bind" /\ cpc = "sleep"
          /\ recent[e] /\ authed[e] /\ ~Untouched(e)
          /\ FindsNone(t) \/ \E g \in Global : ListsUnder(t, e, g)
          /\ UNCHANGED <<life, connected, cleanupq, closing, opc, recent, authed,
                         cpc, todo, keep, snap, inq, routing>>
      BY <1>3, <2>1, Listing, InUse
    <2>3. /\ \A u \in InThread \ {t} : tpc'[u] = tpc[u]
          /\ \A d \in Esme \ {e} : outq'[d] = outq[d] /\ \A g \in Global : binds'[g][d] = binds[g][d]
      <3>1. CASE FindsNone(t)
        BY <1>a, <3>1 DEF FindsNone, TypeThread
      <3>2. ASSUME NEW g \in Global, ListsUnder(t, e, g)
            PROVE  /\ \A u \in InThread \ {t} : tpc'[u] = tpc[u]
                   /\ \A d \in Esme \ {e} : outq'[d] = outq[d] /\ \A h \in Global : binds'[h][d] = binds[h][d]
        BY <1>a, <3>2 DEF ListsUnder, TypeThread, TypeQueue
      <3> QED
        BY <2>2, <3>1, <3>2
    <2>4. tpc'[t] = Idle \/ (tpc'[t].pc = "absent" /\ tpc'[t].esme = e /\ tpc'[t].kind = "bind")
      <3>1. CASE FindsNone(t)
        BY <1>a, <2>1, <2>2, <3>1 DEF FindsNone, TypeThread
      <3>2. ASSUME NEW g \in Global, ListsUnder(t, e, g) PROVE tpc'[t] = Idle
        BY <1>a, <3>2 DEF ListsUnder, TypeThread
      <3> QED
        BY <2>2, <3>1, <3>2
    <2>5. ThreadInv'
      <3>1. /\ tpc'[t].pc = "idle" => tpc'[t].esme = NoEsme
            /\ tpc'[t].pc # "idle" => tpc'[t].esme \in Esme /\ recent'[tpc'[t].esme]
            /\ tpc'[t].pc \in {"authed", "absent"} => tpc'[t].kind = "bind" /\ authed'[tpc'[t].esme]
        BY <2>2, <2>4
      <3> QED
        BY <1>a, <2>2, <2>3, <3>1 DEF ThreadInv
    <2>6. PassInv'
      BY <1>a, <2>2 DEF PassInv
    <2>7. FreshInv'
      <3>1. \A u \in InThread : \A d \in Esme \ {e} : tpc'[u].esme = d => tpc[u].esme = d
        BY <2>3, <2>4
      <3> QED
        BY <2>2, <2>3, <3>1, FreshFrame
    <2>8. GlobalInv'
      <3>1. CASE FindsNone(t)
        <4>1. UNCHANGED <<current, created, binds>> /\ current = 0 /\ created = 0
          BY <1>a, <3>1 DEF FindsNone, GlobalInv
        <4>2. Absent' \subseteq InThread
          BY DEF Absent
        <4>3. IsFiniteSet(Absent') /\ Cardinality(Absent') <= Cardinality(InThread) /\ Cardinality(Absent') \in Nat
          BY <4>2, FS_Subset, FS_CardinalityType
        <4>4. created' + Cardinality(Absent') <= Cardinality(InThread)
          BY <1>b, <4>1, <4>3
        <4> QED
          BY <1>a, <2>2, <4>1, <4>4, <1>d DEF GlobalInv
      <3>2. ASSUME NEW g \in Global, ListsUnder(t, e, g) PROVE GlobalInv'
        <4>1. current' = created' /\ created' = g /\ (g = created \/ (g = created + 1 /\ tpc[t].pc = "absent"))
          BY <3>2 DEF ListsUnder
        <4>2. tpc'[t].pc = "idle"
          BY <1>a, <3>2 DEF ListsUnder, TypeThread
        <4>3. Absent' = Absent \ {t}
          BY <2>3, <4>2 DEF Absent
        <4>4. /\ Cardinality(Absent') \in Nat /\ Cardinality(Absent') <= Cardinality(Absent)
              /\ t \in Absent => Cardinality(Absent') = Cardinality(Absent) - 1
          <5>1. CASE t \in Absent
            <6>1. Cardinality(Absent \ {t}) = Cardinality(Absent) - 1 /\ IsFiniteSet(Absent \ {t})
              BY <1>b, <5>1, FS_RemoveElement
            <6>2. Cardinality(Absent \ {t}) \in Nat
              BY <6>1, FS_CardinalityType
            <6> QED
              BY <1>b, <4>3, <6>1, <6>2
          <5>2. CASE t \notin Absent
            BY <1>b, <4>3, <5>2, Absent' = Absent
          <5> QED
            BY <5>1, <5>2
        <4>5. tpc[t].pc = "absent" => t \in Absent
          BY DEF Absent
        <4>6. created' + Cardinality(Absent') <= Cardinality(InThread)
          BY <1>a, <1>b, <4>1, <4>4, <4>5 DEF GlobalInv
        <4>7. ASSUME NEW h \in Global, NEW d \in Esme, binds'[h][d] > 0 PROVE h <= created' /\ authed'[d]
          <5>1. \/ binds[h][d] > 0 \/ (h = g /\ d = e)
            BY <3>2, <4>7 DEF ListsUnder
          <5> QED
            BY <1>a, <1>b, <2>2, <4>1, <5>1 DEF GlobalInv
        <4> QED
          BY <4>1, <4>6, <4>7, <1>d
      <3> QED
        BY <2>2, <3>1, <3>2
    <2> QED
      BY <2>2, <2>5, <2>6, <2>7, <2>8, BaseFrame
  <1> QED
    BY <1>1, <1>2, <1>3 DEF Inbound

\* The outbound queue threads.
LEMMA OutboundBase ==
  ASSUME BaseInv, NEW o \in OutThread, Outbound(o)
  PROVE  ThreadInv' /\ GlobalInv' /\ PassInv' /\ ConnInv' /\ FreshInv'
  <1>a. /\ TypeLife /\ TypeQueue /\ TypeThread /\ TypeWork /\ TypePass
        /\ ThreadInv /\ PassInv /\ ConnInv /\ FreshInv
    BY DEF BaseInv, TypeOK
  <1> USE DEF esmeVars, globalVars, readVars, queueVars, threadVars, workVars, passVars
  <1>1. ASSUME NEW e \in Esme, ConsumeOutbound(o, e)
        PROVE  ThreadInv' /\ GlobalInv' /\ PassInv' /\ ConnInv' /\ FreshInv'
    <2>1. /\ outq[e] # <<>>
          /\ opc'[o].pc = "got" /\ opc'[o].esme = e /\ \A p \in OutThread \ {o} : opc'[p] = opc[p]
          /\ recent'[e] /\ \A d \in Esme \ {e} : recent'[d] = recent[d] /\ outq'[d] = outq[d]
          /\ UNCHANGED <<life, connected, cleanupq, closing, tpc, authed, current, created,
                         binds, cpc, todo, keep, snap, inq, routing>>
      BY <1>1, <1>a DEF ConsumeOutbound, TypeThread, TypeWork, TypeQueue
    <2>2. ThreadInv'
      BY <1>a, <2>1 DEF ThreadInv
    <2>3. FreshInv'
      BY <2>1, FreshFrame, InUse
    <2> QED
      BY <2>1, <2>2, <2>3, BaseFrame
  <1>2. CASE CheckConnected(o)
    <2>1. /\ opc'[o].pc = "idle" => opc'[o].esme = NoEsme
          /\ opc'[o].pc # "idle" => opc'[o].esme = opc[o].esme
          /\ opc[o].pc = "got" /\ opc'[o].esme \in {NoEsme, opc[o].esme}
          /\ \A p \in OutThread \ {o} : opc'[p] = opc[p]
      <3>1. CASE connected[opc[o].esme]
        BY <1>2, <1>a, <3>1 DEF CheckConnected, TypeThread
      <3>2. CASE ~connected[opc[o].esme]
        BY <1>2, <1>a, <3>2 DEF CheckConnected, TypeThread
      <3> QED
        BY <3>1, <3>2
    <2>2. UNCHANGED <<life, connected, cleanupq, closing, tpc, recent, authed, current, created,
                      binds, cpc, todo, keep, snap, inq, outq, routing>>
      BY <1>2 DEF CheckConnected
    <2>3. ThreadInv'
      BY <1>a, <2>1, <2>2 DEF ThreadInv
    <2>4. \A p \in OutThread : \A d \in Esme : opc'[p].esme = d => opc[p].esme = d
      BY <2>1
    <2>5. FreshInv'
      BY <1>a, <2>2, <2>4 DEF FreshInv, Untouched
    <2> QED
      BY <2>2, <2>3, <2>5, BaseFrame
  <1>3. CASE Send(o)
    <2>1. PICK e \in Esme : e = opc[o].esme
      BY <1>3, <1>a DEF Send, ThreadInv
    <2>2. /\ opc'[o] = OutIdle /\ \A p \in OutThread \ {o} : opc'[p] = opc[p]
          /\ UNCHANGED <<life, closing, tpc, recent, authed, current, created,
                         binds, cpc, todo, keep, snap, inq, outq, routing>>
      BY <1>3, <1>a DEF Send, TypeThread
    <2>3. /\ \A d \in Esme \ {e} : connected'[d] = connected[d]
          /\ connected'[e] => connected[e] /\ UNCHANGED cleanupq
          /\ cleanupq' = cleanupq \/ cleanupq' = cleanupq \cup {e}
      <3>1. CASE opc[o].disconnect
        BY <1>3, <1>a, <2>1, <3>1 DEF Send, StopListening, Enqueue, TypeLife
      <3>2. CASE ~opc[o].disconnect
        BY <1>3, <2>1, <3>2 DEF Send
      <3> QED
        BY <3>1, <3>2
    <2>4. ThreadInv'
      BY <1>a, <2>2 DEF ThreadInv
    <2>5. PassInv'
      <3>1. cleanupq \subseteq cleanupq'
        BY <2>3
      <3> QED
        BY <1>a, <2>2, <3>1 DEF PassInv, Readers
    <2>6. ConnInv'
      BY <1>a, <2>2, <2>3 DEF ConnInv
    <2>7. FreshInv'
      <3>1. ~Untouched(e)
        BY <2>1, InUse
      <3> QED
        BY <2>2, <2>3, <3>1, FreshFrame
    <2> QED
      BY <2>2, <2>4, <2>5, <2>6, <2>7, BaseFrame
  <1> QED
    BY <1>1, <1>2, <1>3 DEF Outbound

\* What one entry of the first loop changes.
LEMMA ScanEffect ==
  ASSUME BaseInv, NEW e \in Esme, ScanBind(e)
  PROVE  /\ cpc = "scan"
         /\ UNCHANGED <<life, closing, tpc, opc, recent, authed, current, created, cpc, keep, snap, inq,
                        routing, received, bindReqs>>
         /\ current \in Global /\ current # 0 /\ todo[e] > 0 /\ todo[e] <= binds[current][e]
         /\ todo[e] \in Nat /\ binds[current][e] \in Nat /\ e \in Listed
         /\ todo'[e] = todo[e] - 1 /\ \A d \in Esme \ {e} : todo'[d] = todo[d]
         /\ \A d \in Esme \ {e} : outq'[d] = outq[d] /\ connected'[d] = connected[d]
         /\ connected'[e] => connected[e] /\ UNCHANGED cleanupq
         /\ cleanupq' = cleanupq \/ cleanupq' = cleanupq \cup {e}
         /\ \A g \in Global : \A d \in Esme \ {e} : binds'[g][d] = binds[g][d]
         /\ \A g \in Global \ {current} : binds'[g][e] = binds[g][e]
         /\ binds'[current][e] \in {binds[current][e], binds[current][e] - 1}
         /\ (connected[e] /\ UNCHANGED cleanupq) \/ binds'[current][e] = binds[current][e] - 1
  <1>a. TypeLife /\ TypeGlobal /\ TypeQueue /\ TypePass /\ PassInv
    BY DEF BaseInv, TypeOK
  <1>1. /\ cpc = "scan"
        /\ UNCHANGED <<life, closing, tpc, opc, recent, authed, current, created, cpc, keep, snap, inq,
                       routing, received, bindReqs>>
        /\ todo[e] > 0 /\ todo' = [todo EXCEPT ![e] = @ - 1]
    BY DEF ScanBind, LookAt, threadVars, workVars, readVars
  <1>2. current \in Global /\ todo[e] <= binds[current][e]
    BY <1>a, <1>1 DEF PassInv
  <1>3. todo[e] \in Nat /\ binds[current][e] \in Nat /\ current # 0 /\ e \in Listed
    BY <1>a, <1>1, <1>2 DEF TypePass, TypeGlobal, Listed
  <1>4. todo'[e] = todo[e] - 1 /\ \A d \in Esme \ {e} : todo'[d] = todo[d]
    BY <1>a, <1>1 DEF TypePass
  <1>5. \A d \in Esme \ {e} : outq'[d] = outq[d]
    BY <1>a DEF ScanBind, Originate, AddOutbound, TypeQueue
  <1>6. CASE Enqueue(e) /\ StopListening(e) /\ binds' = [binds EXCEPT ![current][e] = @ - 1]
    <2>1. /\ \A d \in Esme \ {e} : connected'[d] = connected[d]
          /\ ~connected'[e] /\ cleanupq' = cleanupq \cup {e}
      BY <1>a, <1>6 DEF StopListening, Enqueue, TypeLife
    <2>2. /\ \A g \in Global : \A d \in Esme \ {e} : binds'[g][d] = binds[g][d]
          /\ \A g \in Global \ {current} : binds'[g][e] = binds[g][e]
          /\ binds'[current][e] = binds[current][e] - 1
      BY <1>a, <1>2, <1>6 DEF TypeGlobal
    <2> QED
      BY <1>1, <1>2, <1>3, <1>4, <1>5, <2>1, <2>2
  <1>7. CASE connected[e] /\ (StopListening(e) \/ UNCHANGED connected) /\ UNCHANGED <<binds, cleanupq>>
    <2>1. \A d \in Esme \ {e} : connected'[d] = connected[d]
      BY <1>a, <1>7 DEF StopListening, TypeLife
    <2> QED
      BY <1>1, <1>2, <1>3, <1>4, <1>5, <1>7, <2>1
  <1> QED
    BY <1>6, <1>7 DEF ScanBind

\* What one entry of the second loop changes.
LEMMA ReapEffect ==
  ASSUME BaseInv, NEW e \in Esme, ReapEsme(e)
  PROVE  /\ cpc = "reap"
         /\ UNCHANGED <<closing, tpc, opc, recent, authed, current, created, binds, cpc, snap, cleanupq,
                        inq, outq, routing, received, bindReqs>>
         /\ todo[e] = 1 /\ e \in snap /\ e \notin keep /\ e \in cleanupq
         /\ snap \subseteq cleanupq /\ keep \subseteq snap
         /\ todo'[e] = 0 /\ \A d \in Esme \ {e} : todo'[d] = todo[d]
         /\ \A d \in Esme \ {e} : life'[d] = life[d] /\ connected'[d] = connected[d]
         /\ connected'[e] => connected[e] /\ life'[e] = life[e]
         /\ \/ life'[e] = "freed" /\ keep' = keep /\ QueueDepth(e) = 0 /\ ~recent[e]
            \/ life'[e] = life[e] /\ keep' = keep \cup {e}
  <1>a. TypeLife /\ TypePass /\ PassInv
    BY DEF BaseInv, TypeOK
  <1>1. /\ cpc = "reap"
        /\ UNCHANGED <<closing, tpc, opc, recent, authed, current, created, binds, cpc, snap, cleanupq,
                       inq, outq, routing, received, bindReqs>>
        /\ todo[e] > 0 /\ todo' = [todo EXCEPT ![e] = @ - 1]
    BY DEF ReapEsme, LookAt, globalVars, threadVars, workVars, queueVars, readVars
  <1>2. /\ todo[e] = 1 /\ e \in snap /\ e \notin keep /\ e \in cleanupq
        /\ snap \subseteq cleanupq /\ keep \subseteq snap
    BY <1>a, <1>1 DEF PassInv
  <1>3. todo'[e] = 0 /\ \A d \in Esme \ {e} : todo'[d] = todo[d]
    BY <1>a, <1>1, <1>2 DEF TypePass
  <1>4. /\ \A d \in Esme \ {e} : life'[d] = life[d] /\ connected'[d] = connected[d]
        /\ connected'[e] => connected[e] /\ life'[e] = life[e]
        /\ \/ life'[e] = "freed" /\ keep' = keep /\ QueueDepth(e) = 0 /\ ~recent[e]
           \/ life'[e] = life[e] /\ keep' = keep \cup {e}
    BY <1>a DEF ReapEsme, StopListening, TypeLife
  <1> QED
    BY <1>1, <1>2, <1>3, <1>4

\* The cleanup pass.
LEMMA CleanupBase ==
  ASSUME BaseInv, Cleanup
  PROVE  ThreadInv' /\ GlobalInv' /\ PassInv' /\ ConnInv' /\ FreshInv'
  <1>a. /\ TypeLife /\ TypeGlobal /\ TypeQueue /\ TypePass
        /\ GlobalInv /\ PassInv /\ ConnInv /\ FreshInv
    BY DEF BaseInv, TypeOK
  <1> USE DEF esmeVars, globalVars, readVars, queueVars, threadVars, workVars, passVars
  <1>0. UNCHANGED <<tpc, opc, recent, authed>> => Readers' = Readers /\ ThreadInv'
    BY BaseFrame DEF Readers
  <1>1. CASE PassStart
    <2>1. /\ Readers = {} /\ cpc' = "scan"
          /\ todo' = [e \in Esme |-> IF e \in Listed THEN binds[current][e] ELSE 0]
          /\ UNCHANGED <<life, connected, cleanupq, closing, tpc, opc, recent, authed, current, created,
                         binds, keep, snap, inq, outq, routing>>
      BY <1>1 DEF PassStart
    <2>2. PassInv'
      <3>1. \A e \in Esme : e \in Listed => current \in Global
        BY <1>a DEF Listed, TypeGlobal
      <3>2. \A e \in Esme : todo'[e] > 0 => e \in Listed /\ todo'[e] = binds[current][e]
        BY <2>1
      <3>3. \A e \in Esme : todo'[e] > 0 => current' \in Global /\ todo'[e] <= binds'[current'][e]
        <4> TAKE e \in Esme
        <4> HAVE todo'[e] > 0
        <4>1. current \in Global /\ todo'[e] = binds[current][e]
          BY <3>1, <3>2
        <4>2. binds[current][e] \in Nat
          BY <4>1, <1>a DEF TypeGlobal
        <4> QED
          BY <2>1, <4>1, <4>2
      <3> QED
        BY <1>0, <2>1, <3>3 DEF PassInv
    <2>3. FreshInv'
      BY <1>a, <2>1 DEF FreshInv, Untouched
    <2> QED
      BY <2>1, <2>2, <2>3, BaseFrame
  <1>2. CASE ReapStart
    <2>1. /\ cpc = "scan" /\ cpc' = "reap" /\ snap' = cleanupq /\ keep' = {}
          /\ todo' = [e \in Esme |-> IF e \in cleanupq THEN 1 ELSE 0]
          /\ UNCHANGED <<life, connected, cleanupq, closing, tpc, opc, recent, authed, current, created,
                         binds, inq, outq, routing>>
      BY <1>2 DEF ReapStart
    <2>2. PassInv'
      <3>1. \A e \in Esme : todo'[e] > 0 => todo'[e] = 1 /\ e \in snap'
        BY <2>1
      <3>2. \A e \in snap' : todo'[e] = 1
        BY <1>a, <2>1 DEF TypePass
      <3> QED
        BY <1>a, <1>0, <2>1, <3>1, <3>2 DEF PassInv
    <2>3. FreshInv'
      BY <1>a, <2>1 DEF FreshInv, Untouched
    <2> QED
      BY <2>1, <2>2, <2>3, BaseFrame
  <1>3. CASE ReapEnd
    <2>1. /\ cpc = "reap" /\ cpc' = "sleep" /\ cleanupq' \in {cleanupq, keep}
          /\ UNCHANGED <<life, connected, closing, tpc, opc, recent, authed, current, created,
                         binds, inq, outq, routing>>
      BY <1>3 DEF ReapEnd
    <2>2. PassInv'
      BY <2>1 DEF PassInv
    <2>3. cleanupq' \subseteq cleanupq
      BY <1>a, <2>1 DEF PassInv
    <2>4. ConnInv'
      BY <1>a, <2>1, <2>3 DEF ConnInv
    <2>5. FreshInv'
      BY <1>a, <2>1, <2>3 DEF FreshInv, Untouched
    <2> QED
      BY <2>1, <2>2, <2>4, <2>5, BaseFrame
  <1>4. ASSUME NEW e \in Esme, ScanBind(e)
        PROVE  ThreadInv' /\ GlobalInv' /\ PassInv' /\ ConnInv' /\ FreshInv'
    <2>1. /\ cpc = "scan" /\ UNCHANGED <<life, closing, tpc, opc, recent, authed, current, created, cpc,
                                         keep, snap, inq, routing>>
      BY <1>4, ScanEffect
    <2>2. /\ current \in Global /\ todo[e] <= binds[current][e]
          /\ todo[e] \in Nat /\ binds[current][e] \in Nat /\ e \in Listed
      BY <1>4, ScanEffect
    <2>3. todo'[e] = todo[e] - 1 /\ \A d \in Esme \ {e} : todo'[d] = todo[d]
      BY <1>4, ScanEffect
    <2>4. \A d \in Esme \ {e} : outq'[d] = outq[d] /\ connected'[d] = connected[d]
      BY <1>4, ScanEffect
    <2>5. /\ connected'[e] => connected[e] /\ UNCHANGED cleanupq
          /\ cleanupq' = cleanupq \/ cleanupq' = cleanupq \cup {e}
      BY <1>4, ScanEffect
    <2>6. /\ \A g \in Global : \A d \in Esme \ {e} : binds'[g][d] = binds[g][d]
          /\ \A g \in Global \ {current} : binds'[g][e] = binds[g][e]
          /\ binds'[current][e] \in {binds[current][e], binds[current][e] - 1}
      BY <1>4, ScanEffect
    <2>7. PassInv'
      <3>1. \A d \in Esme : todo'[d] > 0 => current' \in Global /\ todo'[d] <= binds'[current'][d]
        <4> TAKE d \in Esme
        <4> HAVE todo'[d] > 0
        <4>1. CASE d = e
          BY <2>1, <2>2, <2>3, <2>6, <4>1
        <4>2. CASE d # e
          BY <1>a, <2>1, <2>2, <2>3, <2>6, <4>2 DEF PassInv
        <4> QED
          BY <4>1, <4>2
      <3> QED
        BY <1>a, <1>0, <2>1, <3>1 DEF PassInv
    <2>8. GlobalInv'
      <3>1. \A g \in Global, d \in Esme : binds'[g][d] > 0 => binds[g][d] > 0
        BY <2>2, <2>6
      <3>2. Absent' = Absent
        BY <2>1 DEF Absent
      <3> QED
        BY <1>a, <2>1, <3>1, <3>2 DEF GlobalInv
    <2>9. ConnInv'
      BY <1>a, <2>1, <2>4, <2>5 DEF ConnInv
    <2>10. FreshInv'
      <3>1. ~Untouched(e)
        BY <2>2, InUse
      <3> QED
        BY <2>1, <2>4, <2>5, <2>6, <3>1, FreshFrame
    <2> QED
      BY <1>0, <2>1, <2>7, <2>8, <2>9, <2>10
  <1>5. ASSUME NEW e \in Esme, ReapEsme(e)
        PROVE  ThreadInv' /\ GlobalInv' /\ PassInv' /\ ConnInv' /\ FreshInv'
    <2>1. /\ cpc = "reap" /\ UNCHANGED <<closing, tpc, opc, recent, authed, current, created, binds, cpc,
                                         snap, cleanupq, inq, outq, routing>>
      BY <1>5, ReapEffect
    <2>2. /\ todo[e] = 1 /\ e \in snap /\ e \notin keep /\ e \in cleanupq
          /\ snap \subseteq cleanupq /\ keep \subseteq snap
      BY <1>5, ReapEffect
    <2>3. todo'[e] = 0 /\ \A d \in Esme \ {e} : todo'[d] = todo[d]
      BY <1>5, ReapEffect
    <2>4. /\ \A d \in Esme \ {e} : life'[d] = life[d] /\ connected'[d] = connected[d]
          /\ connected'[e] => connected[e] /\ life'[e] = life[e]
          /\ \/ life'[e] = "freed" /\ keep' = keep
             \/ life'[e] = life[e] /\ keep' = keep \cup {e}
      BY <1>5, ReapEffect
    <2>5. PassInv'
      <3>1. keep' \subseteq snap'
        BY <2>1, <2>2, <2>4
      <3>2. \A d \in Esme : todo'[d] > 0 => todo'[d] = 1 /\ d \in snap' /\ d \notin keep'
        BY <1>a, <2>1, <2>2, <2>3, <2>4 DEF PassInv
      <3>3. snap \subseteq Esme
        BY <1>a DEF TypePass
      <3>4. ASSUME NEW d \in snap, todo'[d] = 0 PROVE d \in keep' \/ life'[d] = "freed"
        <4>1. CASE d = e
          BY <2>4, <4>1
        <4>2. CASE d # e
          BY <1>a, <2>1, <2>3, <2>4, <3>3, <3>4, <4>2 DEF PassInv
        <4> QED
          BY <4>1, <4>2
      <3> QED
        BY <1>a, <1>0, <2>1, <2>2, <3>1, <3>2, <3>4 DEF PassInv
    <2>6. ConnInv'
      BY <1>a, <2>1, <2>4 DEF ConnInv
    <2>7. FreshInv'
      <3>1. ~Untouched(e)
        BY <2>2, InUse
      <3>2. life[e] # "absent"
        BY <1>a, <3>1 DEF FreshInv
      <3> QED
        BY <2>1, <2>4, <3>1, <3>2, FreshFrame
    <2> QED
      BY <2>1, <2>5, <2>6, <2>7, BaseFrame
  <1> QED
    BY <1>1, <1>2, <1>3, <1>4, <1>5 DEF Cleanup

\* Every step keeps the part of the invariant that holds for all connections.
LEMMA NextBase == BaseInv /\ [Next]_vars => BaseInv'
  <1> SUFFICES ASSUME BaseInv, [Next]_vars PROVE BaseInv'
    OBVIOUS
  <1>1. TypeOK'
    BY NextType
  <1>2. ThreadInv' /\ GlobalInv' /\ PassInv' /\ ConnInv' /\ FreshInv'
    <2>1. CASE UNCHANGED vars
      <3>1. FreshInv'
        BY <2>1 DEF vars, BaseInv, FreshInv, Untouched
      <3> QED
        BY <2>1, <3>1, BaseFrame DEF vars
    <2> QED
      BY <2>1, ListenerBase, CallbackBase, InboundBase, OutboundBase, CleanupBase DEF Next
  <1> QED
    BY <1>1, <1>2 DEF BaseInv

\* The invariant at the start.
LEMMA InitBase == Init => BaseInv
  <1> SUFFICES ASSUME Init PROVE BaseInv
    OBVIOUS
  <1>1. TypeOK
    <2>1. \A S : <<>> \in Seq(S)
      OBVIOUS
    <2> QED
      BY <2>1 DEF Init, TypeOK, TypeLife, TypeGlobal, TypeQueue, TypeThread, TypeWork, TypePass
  <1>2. ThreadInv /\ PassInv /\ ConnInv
    BY DEF Init, ThreadInv, PassInv, ConnInv
  <1>3. GlobalInv
    <2>1. Absent = {}
      BY DEF Init, Absent
    <2>2. Cardinality(Absent) = 0 /\ Cardinality(InThread) \in Nat
      BY <2>1, FS_EmptySet, FS_CardinalityType
    <2> QED
      BY <2>2 DEF Init, GlobalInv
  <1>4. FreshInv
    BY DEF Init, FreshInv, Untouched
  <1> QED
    BY <1>1, <1>2, <1>3, <1>4 DEF BaseInv

\* The types, and the part of the invariant that holds for all connections.
THEOREM BaseInvariant == Spec => []BaseInv
  <1> QED
    BY InitBase, NextBase, PTL DEF Spec

\* The fields, queues, threads and lists keep their types for any number of
\* threads and connections; never more accounts than inbound threads exist.
THEOREM TypeCorrect == Spec => []TypeOK
  <1>1. BaseInv => TypeOK
    BY DEF BaseInv
  <1> QED
    BY <1>1, BaseInvariant, PTL

-----------------------------------------------------------------------------
(* cleanup_queue *)

\* Only the replacement at the end of a pass takes an ESME out of cleanup_queue.
LEMMA OnlyReapEndShrinks ==
  ASSUME [Next]_vars, ~ReapEnd
  PROVE  cleanupq \subseteq cleanupq'
  <1> USE DEF esmeVars, globalVars, readVars, queueVars, threadVars, workVars, passVars
  <1>1. CASE Listener
    BY <1>1 DEF Listener, ListenerCleanup, Connect, PeerCloses, ReadPdu, Enqueue
  <1>2. CASE Cleanup
    BY <1>2 DEF Cleanup, PassStart, ReapStart, ScanBind, ReapEsme, Enqueue
  <1>3. CASE UseReceiver
    BY <1>3 DEF UseReceiver
  <1>4. ASSUME NEW t \in InThread, Inbound(t) PROVE cleanupq \subseteq cleanupq'
    BY <1>4 DEF Inbound, ConsumeInbound, HandlePdu, BindRefused, BindAccepted, GlobalAdd, GlobalCreate
  <1>5. ASSUME NEW o \in OutThread, Outbound(o) PROVE cleanupq \subseteq cleanupq'
    BY <1>5 DEF Outbound, ConsumeOutbound, CheckConnected, Send, Enqueue
  <1>6. ASSUME NEW e \in Esme,
               RoutingDone(e) \/ CallbackSubmit(e) \/ FindBestReceiver(e) \/ UnbindCommand(e) \/ Elapse(e)
        PROVE  cleanupq \subseteq cleanupq'
    BY <1>6 DEF RoutingDone, CallbackSubmit, FindBestReceiver, UnbindCommand, Elapse
  <1>7. CASE UNCHANGED vars
    BY <1>7 DEF vars
  <1> QED
    BY <1>1, <1>2, <1>3, <1>4, <1>5, <1>6, <1>7 DEF Next

\* The pass replaces cleanup_queue by what it kept.  An ESME that the replacement
\* drops was destroyed by the pass, or was appended behind its back after the
\* second loop had taken the length: an entry it looked at and did not destroy
\* is on the new list.
THEOREM LosesOnlyLate == Spec => CleanupLosesOnlyLate
  <1>1. ASSUME BaseInv, [Next]_vars, NEW e \in Esme, e \in cleanupq, e \notin cleanupq'
        PROVE  life[e] = "freed" \/ e \notin snap
    <2>1. ReapEnd
      BY <1>1, OnlyReapEndShrinks
    <2>2. cpc = "reap" /\ todo[e] = 0 /\ cleanupq' = keep
      BY <1>1, <2>1 DEF ReapEnd, LoopDone
    <2> QED
      BY <1>1, <2>2 DEF BaseInv, PassInv
  <1>2. BaseInv /\ [Next]_vars =>
          [\A e \in Esme : e \in cleanupq /\ e \notin cleanupq' => life[e] = "freed" \/ e \notin snap]_vars
    BY <1>1
  <1> QED
    BY <1>2, BaseInvariant, PTL DEF Spec, CleanupLosesOnlyLate

-----------------------------------------------------------------------------
(* max_binds *)

\* Every inbound thread between the check of the limit and the listing of the
\* bind may still add one.
CountInv ==
  MaxBinds > 0 =>
    /\ IsFiniteSet(Entries)
    /\ Cardinality(Entries) + Cardinality(Readers) <= MaxBinds + Cardinality(InThread) - 1

\* What is an entry of the list, before and after a step.
LEMMA EntryIs ==
  ASSUME NEW x
  PROVE  /\ x \in Entries <=>
              current # 0 /\ \E e \in Esme : \E n \in 1 .. binds[current][e] : x = <<e, n>>
         /\ x \in Entries' <=>
              current' # 0 /\ \E e \in Esme : \E n \in 1 .. binds'[current'][e] : x = <<e, n>>
  BY DEF Entries


\* The readers are among the inbound threads.
LEMMA ReadersFinite ==
  /\ IsFiniteSet(Readers) /\ Cardinality(Readers) \in Nat /\ Cardinality(InThread) \in Nat
  /\ Cardinality(Readers) <= Cardinality(InThread)
  /\ \A t \in InThread : t \notin Readers => Cardinality(Readers) <= Cardinality(InThread) - 1
  <1>1. Readers \subseteq InThread
    BY DEF Readers
  <1>2. IsFiniteSet(Readers) /\ Cardinality(Readers) <= Cardinality(InThread)
    BY <1>1, FS_Subset
  <1>3. Cardinality(Readers) \in Nat /\ Cardinality(InThread) \in Nat
    BY <1>2, FS_CardinalityType
  <1>4. ASSUME NEW t \in InThread, t \notin Readers
        PROVE  Cardinality(Readers) <= Cardinality(InThread) - 1
    <2>1. Readers # InThread
      BY <1>4
    <2>2. Cardinality(Readers) # Cardinality(InThread)
      BY <1>1, <2>1, FS_Subset
    <2> QED
      BY <1>2, <1>3, <2>2
  <1> QED
    BY <1>2, <1>3, <1>4

\* A step that adds neither an entry nor a reader keeps the count.
LEMMA CountSmaller ==
  ASSUME CountInv, Entries' \subseteq Entries, Readers' \subseteq Readers
  PROVE  CountInv'
  <1> SUFFICES ASSUME MaxBinds > 0
               PROVE  /\ IsFiniteSet(Entries')
                      /\ Cardinality(Entries') + Cardinality(Readers') <= MaxBinds + Cardinality(InThread) - 1
    BY DEF CountInv
  <1>1. /\ IsFiniteSet(Entries)
        /\ Cardinality(Entries) + Cardinality(Readers) <= MaxBinds + Cardinality(InThread) - 1
    BY DEF CountInv
  <1>2. IsFiniteSet(Entries') /\ Cardinality(Entries') <= Cardinality(Entries)
    BY <1>1, FS_Subset
  <1>3. IsFiniteSet(Readers') /\ Cardinality(Readers') <= Cardinality(Readers)
    BY ReadersFinite, FS_Subset
  <1>4. Cardinality(Entries) \in Nat /\ Cardinality(Entries') \in Nat /\ Cardinality(Readers') \in Nat
    BY <1>1, <1>2, <1>3, FS_CardinalityType
  <1> QED
    BY <1>1, <1>2, <1>3, <1>4, ReadersFinite

\* A bind that was checked is listed: its thread leaves the readers.
LEMMA CountListing ==
  ASSUME BaseInv, CountInv, NEW t \in InThread, NEW e \in Esme, NEW g \in Global,
         tpc[t].pc \in {"authed", "absent"}, ListsUnder(t, e, g)
  PROVE  CountInv'
  <1> SUFFICES ASSUME MaxBinds > 0
               PROVE  /\ IsFiniteSet(Entries')
                      /\ Cardinality(Entries') + Cardinality(Readers') <= MaxBinds + Cardinality(InThread) - 1
    BY DEF CountInv
  <1>1. /\ IsFiniteSet(Entries)
        /\ Cardinality(Entries) + Cardinality(Readers) <= MaxBinds + Cardinality(InThread) - 1
    BY DEF CountInv
  <1>2. Cardinality(Entries) \in Nat
    BY <1>1, FS_CardinalityType
  <1>3. t \in Readers /\ Readers' = Readers \ {t}
    BY DEF Readers, ListsUnder, BaseInv, TypeOK, TypeThread
  <1>4. Cardinality(Readers') = Cardinality(Readers) - 1
    BY <1>3, ReadersFinite, FS_RemoveElement
  <1>5. /\ current' = g /\ g # 0 /\ binds'[g][e] = binds[g][e] + 1 /\ binds[g] \in [Esme -> Nat]
        /\ \A d \in Esme \ {e} : binds'[g][d] = binds[g][d]
    BY DEF ListsUnder, BaseInv, TypeOK, TypeGlobal
  <1>6. CASE g = created
    <2>1. current = g
      BY <1>6 DEF BaseInv, GlobalInv
    <2>2. Entries' \subseteq Entries \cup {<<e, binds[g][e] + 1>>}
      <3>1. ASSUME NEW x \in Entries' PROVE x \in Entries \cup {<<e, binds[g][e] + 1>>}
        <4>1. PICK d \in Esme : \E n \in 1 .. binds'[g][d] : x = <<d, n>>
          BY <1>5, <3>1, EntryIs
        <4>2. PICK n \in 1 .. binds'[g][d] : x = <<d, n>>
          BY <4>1
        <4>3. n \in 1 .. binds[g][d] \/ (d = e /\ n = binds[g][e] + 1)
          BY <1>5, <4>2
        <4> QED
          BY <1>5, <2>1, <4>2, <4>3, EntryIs
      <3> QED
        BY <3>1
    <2>3. /\ IsFiniteSet(Entries \cup {<<e, binds[g][e] + 1>>})
          /\ Cardinality(Entries \cup {<<e, binds[g][e] + 1>>}) <= Cardinality(Entries) + 1
      <3>1. /\ IsFiniteSet(Entries \cup {<<e, binds[g][e] + 1>>})
            /\ Cardinality(Entries \cup {<<e, binds[g][e] + 1>>}) =
                 IF <<e, binds[g][e] + 1>> \in Entries THEN Cardinality(Entries) ELSE Cardinality(Entries) + 1
        BY <1>1, FS_AddElement
      <3> QED
        BY <1>2, <3>1
    <2>4. /\ IsFiniteSet(Entries')
          /\ Cardinality(Entries') <= Cardinality(Entries \cup {<<e, binds[g][e] + 1>>})
      BY <2>2, <2>3, FS_Subset
    <2>5. Cardinality(Entries') \in Nat /\ Cardinality(Entries \cup {<<e, binds[g][e] + 1>>}) \in Nat
      BY <2>3, <2>4, FS_CardinalityType
    <2> QED
      BY <1>1, <1>2, <1>4, <2>3, <2>4, <2>5, ReadersFinite
  <1>7. CASE g = created + 1
    <2>1. \A d \in Esme : binds[g][d] = 0
      <3>1. created \in Nat
        BY DEF BaseInv, TypeOK, TypeGlobal
      <3>2. \A d \in Esme : binds[g][d] \in Nat /\ ~(binds[g][d] > 0)
        BY <1>5, <1>7, <3>1 DEF BaseInv, GlobalInv
      <3> QED
        BY <3>2
    <2>2. Entries' \subseteq {<<e, 1>>}
      <3>1. ASSUME NEW x \in Entries' PROVE x = <<e, 1>>
        <4>1. PICK d \in Esme : \E n \in 1 .. binds'[g][d] : x = <<d, n>>
          BY <1>5, <3>1, EntryIs
        <4> QED
          BY <1>5, <2>1, <4>1
      <3> QED
        BY <3>1
    <2>3. IsFiniteSet({<<e, 1>>}) /\ Cardinality({<<e, 1>>}) = 1
      BY FS_Singleton
    <2>4. IsFiniteSet(Entries') /\ Cardinality(Entries') <= 1
      BY <2>2, <2>3, FS_Subset
    <2>5. Cardinality(Entries') \in Nat
      BY <2>4, FS_CardinalityType
    <2> QED
      BY <1>4, <2>4, <2>5, ReadersFinite
  <1> QED
    BY <1>6, <1>7 DEF ListsUnder

\* Every step keeps the count.
LEMMA NextCount == BaseInv /\ CountInv /\ [Next]_vars => CountInv'
  <1> SUFFICES ASSUME BaseInv, CountInv, [Next]_vars PROVE CountInv'
    OBVIOUS
  <1> USE DEF esmeVars, globalVars, readVars, queueVars, threadVars, workVars, passVars
  <1>a. TypeThread /\ TypeGlobal /\ TypePass
    BY DEF BaseInv, TypeOK
  <1>b. ASSUME UNCHANGED <<current, binds, tpc>> PROVE CountInv'
    BY <1>b, CountSmaller DEF Entries, Readers
  <1>1. CASE Listener
    BY <1>1, <1>b DEF Listener, ListenerCleanup, Connect, PeerCloses, ReadPdu
  <1>2. CASE UseReceiver
    BY <1>2, <1>b DEF UseReceiver
  <1>3. ASSUME NEW o \in OutThread, Outbound(o) PROVE CountInv'
    BY <1>3, <1>b DEF Outbound, ConsumeOutbound, CheckConnected, Send
  <1>4. ASSUME NEW e \in Esme,
               RoutingDone(e) \/ CallbackSubmit(e) \/ FindBestReceiver(e) \/ UnbindCommand(e) \/ Elapse(e)
        PROVE  CountInv'
    BY <1>4, <1>b DEF RoutingDone, CallbackSubmit, FindBestReceiver, UnbindCommand, Elapse
  <1>5. CASE PassStart \/ ReapStart \/ ReapEnd \/ \E e \in Esme : ReapEsme(e)
    BY <1>5, <1>b DEF PassStart, ReapStart, ReapEnd, ReapEsme
  <1>6. ASSUME NEW e \in Esme, ScanBind(e) PROVE CountInv'
    <2>1. /\ current \in Global /\ current # 0 /\ binds[current][e] \in Nat /\ UNCHANGED <<current, tpc>>
          /\ UNCHANGED binds \/ binds' = [binds EXCEPT ![current][e] = @ - 1]
      <3>1. cpc = "scan" /\ todo[e] > 0
        BY <1>6 DEF ScanBind, LookAt
      <3>2. current \in Global
        BY <3>1 DEF BaseInv, PassInv
      <3>3. UNCHANGED <<current, tpc>> /\ (UNCHANGED binds \/ binds' = [binds EXCEPT ![current][e] = @ - 1])
        BY <1>6 DEF ScanBind
      <3> QED
        BY <1>a, <3>2, <3>3 DEF TypeGlobal
    <2>2. \A d \in Esme : 1 .. binds'[current][d] \subseteq 1 .. binds[current][d]
      <3>1. CASE UNCHANGED binds
        BY <3>1
      <3>2. CASE binds' = [binds EXCEPT ![current][e] = @ - 1]
        <4>1. binds'[current][e] = binds[current][e] - 1
          BY <1>a, <2>1, <3>2 DEF TypeGlobal
        <4>2. \A d \in Esme \ {e} : binds'[current][d] = binds[current][d]
          BY <1>a, <2>1, <3>2 DEF TypeGlobal
        <4> QED
          BY <2>1, <4>1, <4>2
      <3> QED
        BY <2>1, <3>1, <3>2
    <2>3. Entries' \subseteq Entries
      <3>1. ASSUME NEW x \in Entries' PROVE x \in Entries
        <4>1. PICK d \in Esme : \E n \in 1 .. binds'[current][d] : x = <<d, n>>
          BY <2>1, <3>1, EntryIs
        <4> QED
          BY <2>1, <2>2, <4>1, EntryIs
      <3> QED
        BY <3>1
    <2> QED
      BY <2>1, <2>3, CountSmaller DEF Readers
  <1>7. ASSUME NEW t \in InThread, Inbound(t) PROVE CountInv'
    <2>1. CASE HandlePdu(t) \/ BindRefused(t) \/ \E e \in Esme : ConsumeInbound(t, e)
      <3>1. /\ UNCHANGED <<current, binds>> /\ tpc'[t].pc \in {"idle", "got"}
            /\ \A u \in InThread \ {t} : tpc'[u] = tpc[u]
        <4>1. CASE HandlePdu(t)
          BY <1>a, <4>1 DEF HandlePdu, TypeThread
        <4>2. CASE BindRefused(t)
          BY <1>a, <4>2 DEF BindRefused, TypeThread
        <4>3. CASE \E e \in Esme : ConsumeInbound(t, e)
          BY <1>a, <4>3 DEF ConsumeInbound, TypeThread
        <4> QED
          BY <2>1, <4>1, <4>2, <4>3
      <3>2. Readers' \subseteq Readers
        BY <3>1 DEF Readers
      <3>3. Entries' = Entries
        BY <3>1 DEF Entries
      <3> QED
        BY <3>2, <3>3, CountSmaller
    <2>2. CASE BindAccepted(t)
      <3> SUFFICES ASSUME MaxBinds > 0
                   PROVE  /\ IsFiniteSet(Entries')
                          /\ Cardinality(Entries') + Cardinality(Readers')
                               <= MaxBinds + Cardinality(InThread) - 1
        BY DEF CountInv
      <3>1. /\ UNCHANGED <<current, binds>> /\ tpc[t].pc = "got" /\ tpc'[t].pc = "authed"
            /\ \A u \in InThread \ {t} : tpc'[u] = tpc[u]
            /\ Cardinality(Entries) < MaxBinds
        BY <1>a, <2>2 DEF BindAccepted, TypeThread, BindCount
      <3>2. t \notin Readers /\ Readers' = Readers \cup {t}
        BY <3>1 DEF Readers
      <3>3. Cardinality(Readers') = Cardinality(Readers) + 1
        BY <3>2, ReadersFinite, FS_AddElement
      <3>4. Entries' = Entries
        BY <3>1 DEF Entries
      <3>5. IsFiniteSet(Entries) /\ Cardinality(Entries) \in Nat
        BY FS_CardinalityType DEF CountInv
      <3>6. Cardinality(Readers) <= Cardinality(InThread) - 1
        BY <3>2, ReadersFinite
      <3> QED
        BY <3>1, <3>3, <3>4, <3>5, <3>6, ReadersFinite
    <2>3. CASE GlobalAdd(t) \/ GlobalCreate(t)
      <3>1. tpc[t].pc \in {"authed", "absent"} /\ tpc[t].esme \in Esme
        BY <2>3, Listing
      <3>2. CASE FindsNone(t)
        <4>1. Readers' \subseteq Readers
          BY <1>a, <3>1, <3>2 DEF FindsNone, Readers, TypeThread
        <4>2. Entries' = Entries
          BY <3>2 DEF FindsNone, Entries
        <4> QED
          BY <4>1, <4>2, CountSmaller
      <3>3. ASSUME NEW g \in Global, ListsUnder(t, tpc[t].esme, g) PROVE CountInv'
        BY <3>1, <3>3, CountListing
      <3> QED
        BY <2>3, <3>2, <3>3, Listing
    <2> QED
      BY <1>7, <2>1, <2>2, <2>3 DEF Inbound
  <1>8. CASE UNCHANGED vars
    BY <1>8, <1>b DEF vars
  <1> QED
    BY <1>1, <1>2, <1>3, <1>4, <1>5, <1>6, <1>7, <1>8 DEF Next, Cleanup

\* max_binds is compared with the number of binds before the bind is listed, and
\* inbound threads share the lock meanwhile: for any number of threads the limit
\* is passed by at most one bind for each thread but the first.
THEOREM BindsAreBounded == Spec => []BindsBounded
  <1>1. Init => CountInv
    <2> SUFFICES ASSUME Init, MaxBinds > 0
                 PROVE  /\ IsFiniteSet(Entries)
                        /\ Cardinality(Entries) + Cardinality(Readers) <= MaxBinds + Cardinality(InThread) - 1
      BY DEF CountInv
    <2>1. Entries = {} /\ Readers = {}
      BY DEF Init, Entries, Readers
    <2>2. Cardinality(Entries) = 0 /\ Cardinality(Readers) = 0 /\ IsFiniteSet(Entries)
      BY <2>1, FS_EmptySet
    <2> QED
      BY <2>2, ReadersFinite
  <1>2. CountInv => BindsBounded
    <2> SUFFICES ASSUME CountInv, MaxBinds > 0
                 PROVE  Cardinality(Entries) <= MaxBinds + Cardinality(InThread) - 1
      BY DEF BindsBounded, BindCount
    <2>1. IsFiniteSet(Entries) /\ Cardinality(Entries) \in Nat
      BY FS_CardinalityType DEF CountInv
    <2> QED
      BY <2>1, ReadersFinite DEF CountInv
  <1> QED
    BY <1>1, <1>2, BaseInvariant, NextCount, PTL DEF Spec

-----------------------------------------------------------------------------
(* The one bind of a connection *)

\* Nothing is added: the bind stays where it was or is gone.
LEMMA OneBindFrame ==
  ASSUME BaseInv, BaseInv', NEW e \in Esme, OneBind(e), bindReqs'[e] = bindReqs[e], inq'[e] = inq[e],
         \A t \in InThread : Binder(t, e)' => Binder(t, e),
         \A g \in Global : binds'[g][e] <= binds[g][e]
  PROVE  OneBind(e)'
  <1>1. \A g \in Global : binds[g][e] \in Nat /\ binds'[g][e] \in Nat
    BY DEF BaseInv, TypeOK, TypeGlobal
  <1>2. \A g \in Global : (binds[g][e] = 0 => binds'[g][e] = 0) /\ (binds[g][e] <= 1 => binds'[g][e] <= 1)
    BY <1>1
  <1>3. BindQueued(e)' <=> BindQueued(e)
    BY DEF BindQueued
  <1> QED
    BY <1>2, <1>3 DEF OneBind

\* The listener reads a PDU of the connection: a bind is its first.
LEMMA OneBindRead ==
  ASSUME BaseInv, NEW e \in Esme, OneBind(e), NEW k \in Kind, ReadPdu(e, k), bindReqs'[e] <= 1
  PROVE  OneBind(e)'
  <1>1. inq[e] \in Seq(Kind) /\ bindReqs[e] \in Nat
    BY DEF BaseInv, TypeOK, TypeQueue
  <1>2. /\ UNCHANGED <<tpc, binds>> /\ inq'[e] = Append(inq[e], k)
        /\ bindReqs'[e] = IF k = "bind" THEN bindReqs[e] + 1 ELSE bindReqs[e]
    BY DEF ReadPdu, globalVars, threadVars, BaseInv, TypeOK, TypeQueue
  <1>3. /\ Len(inq'[e]) = Len(inq[e]) + 1 /\ Len(inq[e]) \in Nat
        /\ inq'[e][Len(inq[e]) + 1] = k
        /\ \A i \in 1 .. Len(inq[e]) : inq'[e][i] = inq[e][i]
    BY <1>1, <1>2
  <1>4. \A t \in InThread : Binder(t, e)' = Binder(t, e)
    BY <1>2 DEF Binder
  <1>5. CASE k = "bind"
    <2>1. bindReqs[e] = 0 /\ bindReqs'[e] = 1
      BY <1>1, <1>2, <1>5
    <2>2. /\ ~BindQueued(e) /\ (\A t \in InThread : ~Binder(t, e)) /\ (\A g \in Global : binds[g][e] = 0)
      BY <2>1 DEF OneBind
    <2>3. \A i \in 1 .. Len(inq'[e]) : inq'[e][i] = "bind" => i = Len(inq[e]) + 1
      BY <1>3, <2>2 DEF BindQueued
    <2> QED
      BY <1>2, <1>4, <2>1, <2>2, <2>3 DEF OneBind
  <1>6. CASE k # "bind"
    <2>1. \A i \in 1 .. Len(inq'[e]) : inq'[e][i] = "bind" => i \in 1 .. Len(inq[e]) /\ inq[e][i] = "bind"
      BY <1>3, <1>6
    <2>2. BindQueued(e)' => BindQueued(e)
      BY <2>1 DEF BindQueued
    <2> QED
      BY <1>2, <1>4, <1>6, <2>1, <2>2 DEF OneBind
  <1> QED
    BY <1>5, <1>6

\* An inbound thread takes a PDU of the connection off the queue.
LEMMA OneBindConsume ==
  ASSUME BaseInv, NEW e \in Esme, OneBind(e), NEW t \in InThread, ConsumeInbound(t, e)
  PROVE  OneBind(e)'
  <1>1. inq[e] \in Seq(Kind) /\ inq[e] # <<>>
    BY DEF BaseInv, TypeOK, TypeQueue, ConsumeInbound
  <1>2. /\ UNCHANGED <<bindReqs, binds>> /\ inq'[e] = Tail(inq[e])
        /\ tpc'[t] = [pc |-> "got", esme |-> e, kind |-> Head(inq[e])]
        /\ \A u \in InThread \ {t} : tpc'[u] = tpc[u]
    BY DEF ConsumeInbound, globalVars, readVars, BaseInv, TypeOK, TypeQueue, TypeThread
  <1>3. /\ Len(inq[e]) \in Nat /\ 1 \in 1 .. Len(inq[e]) /\ Head(inq[e]) = inq[e][1]
        /\ Len(inq'[e]) = Len(inq[e]) - 1
        /\ \A i \in 1 .. Len(inq'[e]) : i + 1 \in 1 .. Len(inq[e]) /\ inq'[e][i] = inq[e][i + 1]
    BY <1>1, <1>2
  <1>4. \A u \in InThread : Binder(u, e)' => Binder(u, e) \/ (u = t /\ inq[e][1] = "bind")
    BY <1>2, <1>3 DEF Binder
  <1>5. BindQueued(e)' => BindQueued(e)
    BY <1>3 DEF BindQueued
  <1>6. \A i, j \in 1 .. Len(inq'[e]) : inq'[e][i] = "bind" /\ inq'[e][j] = "bind" => i = j
    BY <1>3 DEF OneBind
  <1>7. CASE inq[e][1] = "bind"
    <2>1. BindQueued(e)
      BY <1>3, <1>7 DEF BindQueued
    <2>2. bindReqs[e] # 0 /\ (\A u \in InThread : ~Binder(u, e)) /\ (\A g \in Global : binds[g][e] = 0)
      BY <2>1 DEF OneBind
    <2>3. ~BindQueued(e)'
      BY <1>3, <1>7 DEF OneBind, BindQueued
    <2> QED
      BY <1>2, <1>4, <1>6, <2>2, <2>3 DEF OneBind
  <1>8. CASE inq[e][1] # "bind"
    BY <1>2, <1>4, <1>5, <1>6, <1>8 DEF OneBind
  <1> QED
    BY <1>7, <1>8

\* The thread that has the bind lists it.
LEMMA OneBindList ==
  ASSUME BaseInv, NEW e \in Esme, OneBind(e), NEW t \in InThread, GlobalAdd(t) \/ GlobalCreate(t),
         NEW g \in Global, tpc[t].esme = e, ListsUnder(t, e, g)
  PROVE  OneBind(e)'
  <1>1. Binder(t, e) /\ UNCHANGED <<bindReqs, inq>>
    BY Listing DEF Binder
  <1>2. /\ bindReqs[e] # 0 /\ ~BindQueued(e) /\ (\A u \in InThread : Binder(u, e) => u = t)
        /\ \A h \in Global : binds[h][e] = 0
    BY <1>1 DEF OneBind
  <1>3. /\ tpc'[t].esme = NoEsme /\ \A u \in InThread \ {t} : tpc'[u] = tpc[u]
    BY DEF ListsUnder, BaseInv, TypeOK, TypeThread
  <1>4. \A u \in InThread : ~Binder(u, e)'
    BY <1>2, <1>3 DEF Binder
  <1>5. \A h \in Global : binds'[h][e] <= 1
    BY <1>2 DEF ListsUnder
  <1>6. ~BindQueued(e)'
    BY <1>1, <1>2 DEF BindQueued
  <1>7. \A i, j \in 1 .. Len(inq'[e]) : inq'[e][i] = "bind" /\ inq'[e][j] = "bind" => i = j
    BY <1>1 DEF OneBind
  <1> QED
    BY <1>1, <1>2, <1>4, <1>5, <1>6, <1>7 DEF OneBind

\* Every step keeps the one bind of a connection in one place.
LEMMA NextOneBind ==
  ASSUME BaseInv, BaseInv', [Next]_vars, NEW e \in Esme, OneBind(e), BoundOnce(e)'
  PROVE  OneBind(e)'
  <1> USE DEF esmeVars, globalVars, readVars, queueVars, threadVars, workVars, passVars
  <1>a. TypeThread /\ TypeGlobal /\ TypeQueue /\ TypeGlobal'
    BY DEF BaseInv, TypeOK
  <1>b. \A g \in Global : binds[g][e] \in Nat
    BY <1>a DEF TypeGlobal
  <1>c. ASSUME UNCHANGED <<bindReqs, inq, tpc, binds>> PROVE OneBind(e)'
    BY <1>b, <1>c, OneBindFrame DEF Binder
  <1>1. CASE Listener
    <2>1. CASE ListenerCleanup \/ \E d \in Esme : Connect(d) \/ PeerCloses(d)
      BY <1>c, <2>1 DEF ListenerCleanup, Connect, PeerCloses
    <2>2. ASSUME NEW d \in Esme, NEW k \in Kind, ReadPdu(d, k) PROVE OneBind(e)'
      <3>1. CASE d = e
        BY <2>2, <3>1, OneBindRead DEF BoundOnce
      <3>2. CASE d # e
        <4>1. UNCHANGED <<tpc, binds>> /\ bindReqs'[e] = bindReqs[e] /\ inq'[e] = inq[e]
          BY <1>a, <2>2, <3>2 DEF ReadPdu, TypeQueue
        <4> QED
          BY <1>b, <4>1, OneBindFrame DEF Binder
      <3> QED
        BY <3>1, <3>2
    <2> QED
      BY <1>1, <2>1, <2>2 DEF Listener
  <1>2. CASE UseReceiver
    BY <1>2, <1>c DEF UseReceiver
  <1>3. ASSUME NEW o \in OutThread, Outbound(o) PROVE OneBind(e)'
    BY <1>3, <1>c DEF Outbound, ConsumeOutbound, CheckConnected, Send
  <1>4. ASSUME NEW d \in Esme,
               RoutingDone(d) \/ CallbackSubmit(d) \/ FindBestReceiver(d) \/ UnbindCommand(d) \/ Elapse(d)
        PROVE  OneBind(e)'
    BY <1>4, <1>c DEF RoutingDone, CallbackSubmit, FindBestReceiver, UnbindCommand, Elapse
  <1>5. CASE PassStart \/ ReapStart \/ ReapEnd \/ \E d \in Esme : ReapEsme(d)
    BY <1>5, <1>c DEF PassStart, ReapStart, ReapEnd, ReapEsme
  <1>6. ASSUME NEW d \in Esme, ScanBind(d) PROVE OneBind(e)'
    <2>1. UNCHANGED <<bindReqs, inq, tpc>>
      BY <1>6, ScanEffect
    <2>2. \A g \in Global : binds'[g][e] \in {binds[g][e], binds[g][e] - 1}
      BY <1>6, ScanEffect
    <2>3. \A g \in Global : binds'[g][e] <= binds[g][e]
      BY <1>b, <2>2
    <2> QED
      BY <2>1, <2>3, OneBindFrame DEF Binder
  <1>7. ASSUME NEW t \in InThread, Inbound(t) PROVE OneBind(e)'
    <2>1. CASE HandlePdu(t) \/ BindRefused(t) \/ BindAccepted(t)
      <3>1. UNCHANGED <<bindReqs, inq, binds>>
        BY <2>1 DEF HandlePdu, BindRefused, BindAccepted
      <3>2. \A u \in InThread : tpc'[u] = tpc[u] \/ tpc'[u] = Idle \/ tpc'[u] = [tpc[u] EXCEPT !.pc = "authed"]
        BY <1>a, <2>1 DEF HandlePdu, BindRefused, BindAccepted, TypeThread
      <3>3. \A u \in InThread : Binder(u, e)' => Binder(u, e)
        <4> TAKE u \in InThread
        <4>1. \/ tpc'[u].esme = tpc[u].esme /\ tpc'[u].kind = tpc[u].kind
              \/ tpc'[u].esme = NoEsme
          <5>1. CASE tpc'[u] = tpc[u]
            BY <5>1
          <5>2. CASE tpc'[u] = Idle
            BY <5>2
          <5>3. CASE tpc'[u] = [tpc[u] EXCEPT !.pc = "authed"]
            BY <1>a, <5>3 DEF TypeThread
          <5> QED
            BY <3>2, <5>1, <5>2, <5>3
        <4> QED
          BY <4>1 DEF Binder
      <3> QED
        BY <1>b, <3>1, <3>3, OneBindFrame
    <2>2. ASSUME NEW d \in Esme, ConsumeInbound(t, d) PROVE OneBind(e)'
      <3>1. CASE d = e
        BY <2>2, <3>1, OneBindConsume
      <3>2. CASE d # e
        <4>1. UNCHANGED <<bindReqs, binds>> /\ inq'[e] = inq[e]
          BY <1>a, <2>2, <3>2 DEF ConsumeInbound, TypeQueue
        <4>2. tpc'[t].esme = d /\ \A u \in InThread \ {t} : tpc'[u] = tpc[u]
          BY <1>a, <2>2 DEF ConsumeInbound, TypeThread
        <4>3. \A u \in InThread : Binder(u, e)' => Binder(u, e)
          BY <3>2, <4>2 DEF Binder
        <4> QED
          BY <1>b, <4>1, <4>3, OneBindFrame
      <3> QED
        BY <3>1, <3>2
    <2>3. CASE GlobalAdd(t) \/ GlobalCreate(t)
      <3>1. UNCHANGED <<bindReqs, inq>>
        BY <2>3, Listing
      <3>2. CASE FindsNone(t)
        <4>1. UNCHANGED binds /\ \A u \in InThread : tpc'[u] = tpc[u] \/ tpc'[u] = [tpc[u] EXCEPT !.pc = "absent"]
          BY <1>a, <3>2 DEF FindsNone, TypeThread
        <4>2. \A u \in InThread : Binder(u, e)' => Binder(u, e)
          <5> TAKE u \in InThread
          <5>1. tpc'[u].esme = tpc[u].esme /\ tpc'[u].kind = tpc[u].kind
            <6>1. CASE tpc'[u] = tpc[u]
              BY <6>1
            <6>2. CASE tpc'[u] = [tpc[u] EXCEPT !.pc = "absent"]
              BY <1>a, <6>2 DEF TypeThread
            <6> QED
              BY <4>1, <6>1, <6>2
          <5> QED
            BY <5>1 DEF Binder
        <4> QED
          BY <1>b, <3>1, <4>1, <4>2, OneBindFrame
      <3>3. ASSUME NEW g \in Global, ListsUnder(t, tpc[t].esme, g) PROVE OneBind(e)'
        <4>1. CASE tpc[t].esme = e
          BY <2>3, <3>3, <4>1, OneBindList
        <4>2. CASE tpc[t].esme # e
          <5>1. \A u \in InThread : tpc'[u] = tpc[u] \/ tpc'[u] = Idle
            BY <1>a, <3>3 DEF ListsUnder, TypeThread
          <5>2. \A u \in InThread : Binder(u, e)' => Binder(u, e)
            BY <5>1 DEF Binder
          <5>3. \A h \in Global : binds'[h][e] = binds[h][e]
            BY <3>3, <4>2 DEF ListsUnder
          <5> QED
            BY <1>b, <3>1, <5>2, <5>3, OneBindFrame
        <4> QED
          BY <4>1, <4>2
      <3> QED
        BY <2>3, <3>2, <3>3, Listing
    <2> QED
      BY <1>7, <2>1, <2>2, <2>3 DEF Inbound
  <1>8. CASE UNCHANGED vars
    BY <1>8, <1>c DEF vars
  <1> QED
    BY <1>1, <1>2, <1>3, <1>4, <1>5, <1>6, <1>7, <1>8 DEF Next, Cleanup

-----------------------------------------------------------------------------
(* What refers to a connection *)

\* A step that concerns another connection adds no reference to this one.
LEMMA RefsFrame ==
  ASSUME NEW e \in Esme, inq'[e] = inq[e], outq'[e] = outq[e], routing'[e] = routing[e],
         closing' = e => closing = e,
         \A t \in InThread : tpc'[t].esme = e => tpc[t].esme = e,
         \A o \in OutThread : opc'[o].esme = e => opc[o].esme = e,
         e \in Listed' => e \in Listed, e \in cleanupq' => e \in cleanupq,
         UNCHANGED <<cpc, snap>>, todo'[e] = todo[e], e \in keep' => e \in keep,
         life'[e] = life[e], RefsAlive(e)
  PROVE  RefsAlive(e)'
  <1>1. Queued(e)' => Queued(e)
    BY DEF Queued, QueueDepth
  <1>2. Refs(e)' => Refs(e)
    BY <1>1 DEF Refs
  <1> QED
    BY <1>2 DEF RefsAlive

\* A step that concerns this connection finds it alive.
LEMMA StaysAlive ==
  ASSUME NEW e \in Esme, RefsAlive(e), Refs(e) \/ life[e] = "live", life'[e] = life[e]
  PROVE  RefsAlive(e)'
  BY DEF RefsAlive

\* What the listener and the pass know of it stays true when nothing is added.
LEMMA SideFrame ==
  ASSUME NEW e \in Esme, ClosingRecent(e), UnlistedFirst(e), closing' = e => closing = e,
         e \in cleanupq' => e \in cleanupq, \A g \in Global : binds'[g][e] > 0 => binds[g][e] > 0,
         e \in Listed' => e \in Listed, recent[e] => recent'[e], UNCHANGED cpc, todo'[e] = todo[e]
  PROVE  ClosingRecent(e)' /\ UnlistedFirst(e)'
  BY DEF ClosingRecent, UnlistedFirst

\* A thread that works on a connection, or a PDU it has queued, is a reference.
LEMMA RefsOf ==
  ASSUME BaseInv, NEW e \in Esme
  PROVE  /\ \A t \in InThread : tpc[t].esme = e => Refs(e)
         /\ \A o \in OutThread : opc[o].esme = e => Refs(e)
         /\ inq[e] # <<>> \/ outq[e] # <<>> \/ routing[e] > 0 \/ closing = e => Refs(e)
  <1>1. inq[e] \in Seq(Kind) /\ outq[e] \in Seq(BOOLEAN) /\ routing[e] \in Nat
    BY DEF BaseInv, TypeOK, TypeQueue, TypeWork
  <1>2. Len(inq[e]) \in Nat /\ Len(outq[e]) \in Nat
    BY <1>1
  <1>3. inq[e] # <<>> => Len(inq[e]) > 0
    BY <1>1
  <1>4. outq[e] # <<>> => Len(outq[e]) > 0
    BY <1>1
  <1>5. inq[e] # <<>> \/ outq[e] # <<>> \/ routing[e] > 0 => QueueDepth(e) > 0
    <2>1. \A a, b, c \in Nat : a > 0 \/ b > 0 \/ c > 0 => a + b + c > 0
      OBVIOUS
    <2>2. routing[e] \in Nat
      BY <1>1
    <2> QED
      BY <1>2, <1>3, <1>4, <2>1, <2>2 DEF QueueDepth
  <1> QED
    BY <1>5 DEF Refs, Queued

\* Only authenticated connections are listed.
LEMMA ListedAuthed ==
  ASSUME BaseInv, NEW e \in Esme
  PROVE  /\ e \in Listed => authed[e] /\ current \in Global /\ binds[current][e] > 0
         /\ \A g \in Global : binds[g][e] > 0 => authed[e]
  BY DEF BaseInv, TypeOK, TypeGlobal, GlobalInv, Listed

OtherInv(e) == RefsAlive(e) /\ ClosingRecent(e) /\ UnlistedFirst(e)

\* The listener.
LEMMA ListenerOther ==
  ASSUME BaseInv, Listener, NEW e \in Esme, OtherInv(e)
  PROVE  OtherInv(e)'
  <1> USE DEF esmeVars, globalVars, readVars, queueVars, threadVars, workVars, passVars
  <1>a. /\ TypeLife /\ TypeQueue /\ TypeWork /\ ConnInv
        /\ RefsAlive(e) /\ ClosingRecent(e) /\ UnlistedFirst(e)
    BY DEF BaseInv, TypeOK, OtherInv
  <1>1. CASE ListenerCleanup
    <2>1. /\ closing \in Esme /\ cleanupq' = cleanupq \cup {closing} /\ closing' = NoEsme
          /\ UNCHANGED <<life, inq, outq, routing, tpc, opc, current, binds, recent, cpc, snap, todo, keep>>
      BY <1>a, <1>1 DEF ListenerCleanup, Enqueue, TypeWork
    <2>2. Listed' = Listed
      BY <2>1 DEF Listed
    <2>3. CASE closing = e
      <3>1. RefsAlive(e)'
        BY <1>a, <2>1, <2>3, StaysAlive, RefsOf
      <3>2. ClosingRecent(e)' /\ UnlistedFirst(e)'
        BY <1>a, <2>1, <2>2, <2>3 DEF ClosingRecent, UnlistedFirst
      <3> QED
        BY <3>1, <3>2 DEF OtherInv
    <2>4. CASE closing # e
      BY <1>a, <2>1, <2>2, <2>4, RefsFrame, SideFrame DEF OtherInv
    <2> QED
      BY <2>3, <2>4
  <1>2. ASSUME NEW d \in Esme, Connect(d) PROVE OtherInv(e)'
    <2>1. /\ UNCHANGED <<closing, cleanupq, inq, outq, routing, tpc, opc, current, binds, recent, cpc, snap,
                         todo, keep>>
          /\ life'[d] = "live" /\ \A c \in Esme \ {d} : life'[c] = life[c]
      BY <1>a, <1>2 DEF Connect, TypeLife
    <2>2. Listed' = Listed
      BY <2>1 DEF Listed
    <2>3. ClosingRecent(e)' /\ UnlistedFirst(e)'
      BY <1>a, <2>1, <2>2, SideFrame
    <2>4. RefsAlive(e)'
      <3>1. CASE d = e
        BY <2>1, <3>1 DEF RefsAlive
      <3>2. CASE d # e
        BY <1>a, <2>1, <2>2, <3>2, RefsFrame
      <3> QED
        BY <3>1, <3>2
    <2> QED
      BY <2>3, <2>4 DEF OtherInv
  <1>3. ASSUME NEW d \in Esme, PeerCloses(d) PROVE OtherInv(e)'
    <2>1. /\ UNCHANGED <<life, cleanupq, inq, outq, routing, tpc, opc, current, binds, recent, cpc, snap,
                         todo, keep>>
          /\ connected[d] /\ closing = NoEsme /\ closing' = IF authed[d] THEN NoEsme ELSE d
      BY <1>3 DEF PeerCloses
    <2>2. Listed' = Listed
      BY <2>1 DEF Listed
    <2>3. CASE d = e
      <3>1. life[e] = "live" /\ e \notin cleanupq
        BY <1>a, <2>1, <2>3 DEF ConnInv
      <3>2. closing' = e => ~authed[e]
        BY <2>1, <2>3
      <3>3. ClosingRecent(e)'
        BY <2>1, <3>1, <3>2, ListedAuthed DEF ClosingRecent
      <3>4. UnlistedFirst(e)'
        BY <2>1, <2>2, <3>1, <3>2, ListedAuthed DEF UnlistedFirst
      <3>5. RefsAlive(e)'
        BY <1>a, <2>1, <3>1, StaysAlive
      <3> QED
        BY <3>3, <3>4, <3>5 DEF OtherInv
    <2>4. CASE d # e
      <3>1. closing' # e
        BY <2>1, <2>4
      <3> QED
        BY <1>a, <2>1, <2>2, <3>1, RefsFrame, SideFrame DEF OtherInv
    <2> QED
      BY <2>3, <2>4
  <1>4. ASSUME NEW d \in Esme, NEW k \in Kind, ReadPdu(d, k) PROVE OtherInv(e)'
    <2>1. /\ UNCHANGED <<life, closing, cleanupq, outq, routing, tpc, opc, current, binds, recent, cpc, snap,
                         todo, keep>>
          /\ connected[d] /\ \A c \in Esme \ {d} : inq'[c] = inq[c]
      BY <1>a, <1>4 DEF ReadPdu, TypeQueue
    <2>2. Listed' = Listed
      BY <2>1 DEF Listed
    <2>3. ClosingRecent(e)' /\ UnlistedFirst(e)'
      BY <1>a, <2>1, <2>2, SideFrame
    <2>4. RefsAlive(e)'
      <3>1. CASE d = e
        BY <1>a, <2>1, <3>1, StaysAlive DEF ConnInv
      <3>2. CASE d # e
        BY <1>a, <2>1, <2>2, <3>2, RefsFrame
      <3> QED
        BY <3>1, <3>2
    <2> QED
      BY <2>3, <2>4 DEF OtherInv
  <1> QED
    BY <1>1, <1>2, <1>3, <1>4 DEF Listener

\* The callbacks, receivers, the unbind command and the clock.
LEMMA CallbackOther ==
  ASSUME BaseInv, NEW e \in Esme, OtherInv(e),
         \/ UseReceiver
         \/ \E d \in Esme : RoutingDone(d) \/ CallbackSubmit(d) \/ FindBestReceiver(d)
                            \/ UnbindCommand(d) \/ Elapse(d)
  PROVE  OtherInv(e)'
  <1> USE DEF esmeVars, globalVars, readVars, queueVars, threadVars, workVars, passVars
  <1>a. TypeQueue /\ TypeWork /\ RefsAlive(e) /\ ClosingRecent(e) /\ UnlistedFirst(e)
    BY DEF BaseInv, TypeOK, OtherInv
  <1>b. ASSUME NEW d \in Esme, Refs(d) \/ life[d] = "live" \/ UNCHANGED <<outq, routing>>,
               \A c \in Esme \ {d} : outq'[c] = outq[c] /\ routing'[c] = routing[c],
               UNCHANGED <<life, closing, cleanupq, inq, tpc, opc, current, binds, recent, cpc, snap, todo,
                           keep>>
        PROVE  OtherInv(e)'
    <2>1. Listed' = Listed
      BY <1>b DEF Listed
    <2>2. ClosingRecent(e)' /\ UnlistedFirst(e)'
      BY <1>a, <1>b, <2>1, SideFrame
    <2>3. RefsAlive(e)'
      <3>1. CASE d = e /\ (Refs(d) \/ life[d] = "live")
        BY <1>a, <1>b, <3>1, StaysAlive
      <3>2. CASE d # e \/ UNCHANGED <<outq, routing>>
        <4>1. outq'[e] = outq[e] /\ routing'[e] = routing[e]
          BY <1>b, <3>2
        <4> QED
          BY <1>a, <1>b, <2>1, <4>1, RefsFrame
      <3> QED
        BY <1>b, <3>1, <3>2
    <2> QED
      BY <2>2, <2>3 DEF OtherInv
  <1>1. CASE UseReceiver
    <2>1. receiver \in Esme /\ life[receiver] = "live"
      BY <1>1, <1>a DEF UseReceiver, TypeWork
    <2>2. \A c \in Esme \ {receiver} : outq'[c] = outq[c] /\ routing'[c] = routing[c]
      BY <1>1, <1>a, <2>1 DEF UseReceiver, Originate, AddOutbound, TypeQueue
    <2>3. UNCHANGED <<life, closing, cleanupq, inq, tpc, opc, current, binds, recent, cpc, snap, todo, keep>>
      BY <1>1 DEF UseReceiver
    <2> QED
      BY <1>b, <2>1, <2>2, <2>3
  <1>2. ASSUME NEW d \in Esme, RoutingDone(d) \/ CallbackSubmit(d) \/ FindBestReceiver(d) \/ UnbindCommand(d)
        PROVE  OtherInv(e)'
    <2>1. Refs(d) \/ life[d] = "live" \/ UNCHANGED <<outq, routing>>
      <3>1. CASE RoutingDone(d)
        BY <3>1, RefsOf DEF RoutingDone
      <3>2. CASE UnbindCommand(d)
        BY <3>2 DEF UnbindCommand, Refs
      <3> QED
        BY <1>2, <3>1, <3>2 DEF CallbackSubmit, FindBestReceiver
    <2>2. \A c \in Esme \ {d} : outq'[c] = outq[c] /\ routing'[c] = routing[c]
      BY <1>2, <1>a DEF RoutingDone, CallbackSubmit, FindBestReceiver, UnbindCommand, Originate,
                        AddOutbound, TypeQueue, TypeWork
    <2>3. UNCHANGED <<life, closing, cleanupq, inq, tpc, opc, current, binds, recent, cpc, snap, todo, keep>>
      BY <1>2 DEF RoutingDone, CallbackSubmit, FindBestReceiver, UnbindCommand
    <2> QED
      BY <1>b, <2>1, <2>2, <2>3
  <1>3. ASSUME NEW d \in Esme, Elapse(d) PROVE OtherInv(e)'
    <2>1. /\ closing # d /\ \A c \in Esme \ {d} : recent'[c] = recent[c]
          /\ UNCHANGED <<life, closing, cleanupq, inq, outq, routing, tpc, opc, current, binds, cpc, snap,
                         todo, keep>>
      BY <1>a, <1>3 DEF Elapse, TypeWork
    <2>2. Listed' = Listed
      BY <2>1 DEF Listed
    <2>3. RefsAlive(e)'
      BY <1>a, <2>1, <2>2, RefsFrame
    <2>4. ClosingRecent(e)'
      BY <1>a, <2>1 DEF ClosingRecent
    <2>5. UnlistedFirst(e)'
      BY <1>a, <2>1, <2>2 DEF UnlistedFirst
    <2> QED
      BY <2>3, <2>4, <2>5 DEF OtherInv
  <1> QED
    BY <1>1, <1>2, <1>3

\* The inbound queue threads.
LEMMA InboundOther ==
  ASSUME BaseInv, NEW t \in InThread, Inbound(t), NEW e \in Esme, OtherInv(e)
  PROVE  OtherInv(e)'
  <1> USE DEF esmeVars, globalVars, readVars, queueVars, threadVars, workVars, passVars
  <1>a. /\ TypeQueue /\ TypeWork /\ TypeThread /\ TypeGlobal /\ ThreadInv /\ GlobalInv
        /\ RefsAlive(e) /\ ClosingRecent(e) /\ UnlistedFirst(e)
    BY DEF BaseInv, TypeOK, OtherInv
  \* The thread works on d: references to other connections stay as they are.
  <1>b. ASSUME NEW d \in Esme, Refs(d), \A c \in Esme : recent[c] => recent'[c],
               \A c \in Esme \ {d} : inq'[c] = inq[c] /\ outq'[c] = outq[c] /\ routing'[c] = routing[c],
               \A c \in Esme \ {d} : \A u \in InThread : tpc'[u].esme = c => tpc[u].esme = c,
               UNCHANGED <<life, closing, cleanupq, opc, cpc, snap, todo, keep>>,
               UNCHANGED <<current, binds>> \/
                 (\A c \in Esme \ {d} : (c \in Listed' => c \in Listed)
                                        /\ \A g \in Global : binds'[g][c] = binds[g][c]),
               UNCHANGED <<current, binds>> \/ (recent[d] /\ cpc = "sleep")
        PROVE  OtherInv(e)'
    <2>1. UNCHANGED <<current, binds>> => Listed' = Listed
      BY DEF Listed
    <2>2. CASE d = e
      <3>1. RefsAlive(e)'
        BY <1>a, <1>b, <2>2, StaysAlive
      <3>2. CASE UNCHANGED <<current, binds>>
        BY <1>a, <1>b, <2>1, <3>1, <3>2, SideFrame DEF OtherInv
      <3>3. CASE recent[d] /\ cpc = "sleep"
        BY <1>b, <2>2, <3>1, <3>3 DEF OtherInv, ClosingRecent, UnlistedFirst
      <3> QED
        BY <1>b, <3>2, <3>3
    <2>3. CASE d # e
      <3>1. (e \in Listed' => e \in Listed) /\ \A g \in Global : binds'[g][e] = binds[g][e]
        BY <1>b, <2>1, <2>3
      <3> QED
        BY <1>a, <1>b, <2>3, <3>1, RefsFrame, SideFrame DEF OtherInv
    <2> QED
      BY <2>2, <2>3
  <1>1. ASSUME NEW d \in Esme, ConsumeInbound(t, d) PROVE OtherInv(e)'
    <2>1. /\ UNCHANGED <<life, closing, cleanupq, outq, routing, opc, current, binds, cpc, snap, todo, keep>>
          /\ inq[d] # <<>> /\ \A c \in Esme \ {d} : inq'[c] = inq[c]
          /\ \A c \in Esme : recent[c] => recent'[c]
          /\ tpc'[t].esme = d /\ \A u \in InThread \ {t} : tpc'[u] = tpc[u]
      BY <1>1, <1>a DEF ConsumeInbound, TypeQueue, TypeWork, TypeThread
    <2>2. Refs(d)
      BY <2>1, RefsOf
    <2>3. \A c \in Esme \ {d} : \A u \in InThread : tpc'[u].esme = c => tpc[u].esme = c
      BY <2>1
    <2> QED
      BY <1>b, <2>1, <2>2, <2>3
  <1>2. CASE HandlePdu(t) \/ BindRefused(t) \/ BindAccepted(t)
    <2>1. PICK d \in Esme : d = tpc[t].esme
      BY <1>2, <1>a DEF HandlePdu, BindRefused, BindAccepted, ThreadInv
    <2>2. UNCHANGED <<life, closing, cleanupq, inq, opc, current, binds, recent, cpc, snap, todo, keep>>
      BY <1>2 DEF HandlePdu, BindRefused, BindAccepted
    <2>3. \A c \in Esme \ {d} : outq'[c] = outq[c] /\ routing'[c] = routing[c]
      BY <1>2, <1>a, <2>1 DEF HandlePdu, BindRefused, BindAccepted, AddOutbound, TypeQueue, TypeWork
    <2>4. /\ \A u \in InThread \ {t} : tpc'[u] = tpc[u]
          /\ tpc'[t].esme \in {NoEsme, d}
      <3>1. CASE HandlePdu(t) \/ BindRefused(t)
        <4>1. tpc' = [tpc EXCEPT ![t] = Idle]
          BY <3>1 DEF HandlePdu, BindRefused
        <4> QED
          BY <1>a, <4>1 DEF TypeThread
      <3>2. CASE BindAccepted(t)
        BY <3>2, <1>a, <2>1 DEF BindAccepted, TypeThread
      <3> QED
        BY <1>2, <3>1, <3>2
    <2>5. \A c \in Esme \ {d} : \A u \in InThread : tpc'[u].esme = c => tpc[u].esme = c
      BY <2>4
    <2>6. Refs(d)
      BY <2>1, RefsOf
    <2> QED
      BY <1>b, <2>2, <2>3, <2>5, <2>6
  <1>3. CASE GlobalAdd(t) \/ GlobalCreate(t)
    <2>1. PICK d \in Esme : d = tpc[t].esme
      BY <1>3, Listing
    <2>2. /\ cpc = "sleep" /\ recent[d] /\ Refs(d)
          /\ FindsNone(t) \/ \E g \in Global : ListsUnder(t, d, g)
          /\ UNCHANGED <<life, closing, cleanupq, inq, opc, routing, recent, cpc, snap, todo, keep>>
      BY <1>3, <2>1, Listing, RefsOf
    <2>3. CASE FindsNone(t)
      <3>1. UNCHANGED <<current, binds, outq>>
        BY <2>3 DEF FindsNone
      <3>2. tpc'[t].esme = d /\ \A u \in InThread \ {t} : tpc'[u] = tpc[u]
        BY <1>a, <2>1, <2>3 DEF FindsNone, TypeThread
      <3>3. \A c \in Esme \ {d} : \A u \in InThread : tpc'[u].esme = c => tpc[u].esme = c
        BY <3>2
      <3> QED
        BY <1>b, <2>2, <3>1, <3>3
    <2>4. ASSUME NEW g \in Global, ListsUnder(t, d, g) PROVE OtherInv(e)'
      <3>1. \A c \in Esme \ {d} : outq'[c] = outq[c] /\ \A h \in Global : binds'[h][c] = binds[h][c]
        BY <1>a, <2>4 DEF ListsUnder, TypeQueue
      <3>2. tpc'[t].esme = NoEsme /\ \A u \in InThread \ {t} : tpc'[u] = tpc[u]
        BY <1>a, <2>4 DEF ListsUnder, TypeThread
      <3>3. \A c \in Esme \ {d} : \A u \in InThread : tpc'[u].esme = c => tpc[u].esme = c
        BY <3>2
      <3>4. \A c \in Esme \ {d} : c \in Listed' => c \in Listed
        <4> TAKE c \in Esme \ {d}
        <4> HAVE c \in Listed'
        <4>1. current' = g /\ binds'[g][c] > 0
          BY <2>4 DEF ListsUnder, Listed
        <4>2. binds[g][c] > 0
          BY <3>1, <4>1
        <4>3. g <= created /\ created \in Nat
          BY <1>a, <4>2 DEF GlobalInv, TypeGlobal
        <4>4. g = current /\ current # 0
          BY <1>a, <2>4, <4>3 DEF ListsUnder, GlobalInv
        <4> QED
          BY <4>2, <4>4 DEF Listed
      <3> QED
        BY <1>b, <2>2, <3>1, <3>3, <3>4
    <2> QED
      BY <2>2, <2>3, <2>4
  <1> QED
    BY <1>1, <1>2, <1>3 DEF Inbound

\* The outbound queue threads.  The one that disconnects a connection which is
\* not authenticated queues it for cleanup; it is not listed then.
LEMMA OutboundOther ==
  ASSUME BaseInv, NEW o \in OutThread, Outbound(o), NEW e \in Esme, OtherInv(e)
  PROVE  OtherInv(e)'
  <1> USE DEF esmeVars, globalVars, readVars, queueVars, threadVars, workVars, passVars
  <1>a. /\ TypeQueue /\ TypeWork /\ TypeThread /\ ThreadInv
        /\ RefsAlive(e) /\ ClosingRecent(e) /\ UnlistedFirst(e)
    BY DEF BaseInv, TypeOK, OtherInv
  <1>b. UNCHANGED <<current, binds>> => Listed' = Listed
    BY DEF Listed
  <1>1. ASSUME NEW d \in Esme, ConsumeOutbound(o, d) PROVE OtherInv(e)'
    <2>1. /\ UNCHANGED <<life, closing, cleanupq, inq, routing, tpc, current, binds, cpc, snap, todo, keep>>
          /\ outq[d] # <<>> /\ \A c \in Esme \ {d} : outq'[c] = outq[c]
          /\ \A c \in Esme : recent[c] => recent'[c]
          /\ opc'[o].esme = d /\ \A p \in OutThread \ {o} : opc'[p] = opc[p]
      BY <1>1, <1>a DEF ConsumeOutbound, TypeQueue, TypeWork, TypeThread
    <2>2. ClosingRecent(e)' /\ UnlistedFirst(e)'
      BY <1>a, <1>b, <2>1, SideFrame
    <2>3. CASE d = e
      <3>1. Refs(e)
        BY <2>1, <2>3, RefsOf
      <3>2. RefsAlive(e)'
        BY <1>a, <2>1, <3>1, StaysAlive
      <3> QED
        BY <2>2, <3>2 DEF OtherInv
    <2>4. CASE d # e
      <3>1. \A p \in OutThread : opc'[p].esme = e => opc[p].esme = e
        BY <2>1, <2>4
      <3>2. RefsAlive(e)'
        BY <1>a, <1>b, <2>1, <2>4, <3>1, RefsFrame
      <3> QED
        BY <2>2, <3>2 DEF OtherInv
    <2> QED
      BY <2>3, <2>4
  <1>2. CASE CheckConnected(o)
    <2>1. UNCHANGED <<life, closing, cleanupq, inq, outq, routing, tpc, current, binds, recent, cpc, snap,
                      todo, keep>>
      BY <1>2 DEF CheckConnected
    <2>2. \A p \in OutThread : opc'[p].esme = e => opc[p].esme = e
      <3>1. opc'[o].esme \in {NoEsme, opc[o].esme} /\ \A p \in OutThread \ {o} : opc'[p] = opc[p]
        <4>1. CASE connected[opc[o].esme]
          BY <1>2, <1>a, <4>1 DEF CheckConnected, TypeThread
        <4>2. CASE ~connected[opc[o].esme]
          BY <1>2, <1>a, <4>2 DEF CheckConnected, TypeThread
        <4> QED
          BY <4>1, <4>2
      <3> QED
        BY <3>1
    <2> QED
      BY <1>a, <1>b, <2>1, <2>2, RefsFrame, SideFrame DEF OtherInv
  <1>3. CASE Send(o)
    <2>1. PICK d \in Esme : d = opc[o].esme /\ recent[d]
      BY <1>3, <1>a DEF Send, ThreadInv
    <2>2. /\ opc'[o].esme = NoEsme /\ \A p \in OutThread \ {o} : opc'[p] = opc[p]
          /\ UNCHANGED <<life, closing, inq, outq, routing, tpc, current, binds, recent, authed, cpc, snap,
                         todo, keep>>
      BY <1>3, <1>a DEF Send, TypeThread
    <2>3. cleanupq' = cleanupq \/ (cleanupq' = cleanupq \cup {d} /\ ~authed[d])
      BY <1>3, <2>1 DEF Send, Enqueue
    <2>4. \A p \in OutThread : opc'[p].esme = e => opc[p].esme = e
      BY <2>2
    <2>5. CASE d = e
      <3>1. Refs(e)
        BY <2>1, <2>5, RefsOf
      <3>2. RefsAlive(e)'
        BY <1>a, <2>2, <3>1, StaysAlive
      <3>3. ClosingRecent(e)'
        BY <2>1, <2>2, <2>5 DEF ClosingRecent
      <3>4. e \in Listed => authed[e]
        BY ListedAuthed
      <3>5. UnlistedFirst(e)'
        BY <1>a, <1>b, <2>2, <2>3, <2>5, <3>4 DEF UnlistedFirst
      <3> QED
        BY <3>2, <3>3, <3>5 DEF OtherInv
    <2>6. CASE d # e
      BY <1>a, <1>b, <2>2, <2>3, <2>4, <2>6, RefsFrame, SideFrame DEF OtherInv
    <2> QED
      BY <2>5, <2>6
  <1> QED
    BY <1>1, <1>2, <1>3 DEF Outbound

\* The cleanup pass.  What it destroys is in the part of cleanup_queue it looks
\* at, so it is off the list; it is not recent, so no thread has it and the
\* listener is not about to append it; and its queues are empty.
LEMMA CleanupOther ==
  ASSUME BaseInv, Cleanup, NEW e \in Esme, OneBind(e), OtherInv(e)
  PROVE  OtherInv(e)'
  <1> USE DEF esmeVars, globalVars, readVars, queueVars, threadVars, workVars, passVars
  <1>a. /\ TypePass /\ TypeGlobal /\ ThreadInv /\ PassInv /\ ConnInv
        /\ RefsAlive(e) /\ ClosingRecent(e) /\ UnlistedFirst(e)
    BY DEF BaseInv, TypeOK, OtherInv
  <1>b. UNCHANGED <<current, binds>> => Listed' = Listed
    BY DEF Listed
  <1>c. UNCHANGED <<inq, outq, routing, closing, tpc, opc>> => Queued(e)' = Queued(e)
    BY DEF Queued, QueueDepth
  <1>1. CASE PassStart
    <2>1. /\ UNCHANGED <<life, closing, cleanupq, inq, outq, routing, tpc, opc, current, binds, recent>>
          /\ cpc = "sleep" /\ cpc' = "scan"
          /\ todo' = [d \in Esme |-> IF d \in Listed THEN binds[current][d] ELSE 0]
      BY <1>1 DEF PassStart
    <2>2. RefsAlive(e)'
      BY <1>a, <1>b, <1>c, <2>1 DEF RefsAlive, Refs
    <2>3. ClosingRecent(e)'
      BY <1>a, <2>1 DEF ClosingRecent
    <2>4. e \in Listed => todo'[e] > 0
      BY <2>1, ListedAuthed
    <2>5. UnlistedFirst(e)'
      BY <1>b, <2>1, <2>4 DEF UnlistedFirst
    <2> QED
      BY <2>2, <2>3, <2>5 DEF OtherInv
  <1>2. CASE ReapStart
    <2>1. /\ UNCHANGED <<life, closing, cleanupq, inq, outq, routing, tpc, opc, current, binds, recent>>
          /\ cpc = "scan" /\ cpc' = "reap" /\ snap' = cleanupq /\ keep' = {} /\ todo[e] = 0
          /\ todo'[e] = IF e \in cleanupq THEN 1 ELSE 0
      BY <1>2 DEF ReapStart, LoopDone
    <2>2. RefsAlive(e)'
      BY <1>a, <1>b, <1>c, <2>1 DEF RefsAlive, Refs
    <2>3. ClosingRecent(e)'
      BY <1>a, <2>1 DEF ClosingRecent
    <2>4. UnlistedFirst(e)'
      BY <1>a, <1>b, <2>1 DEF UnlistedFirst
    <2> QED
      BY <2>2, <2>3, <2>4 DEF OtherInv
  <1>3. CASE ReapEnd
    <2>1. /\ UNCHANGED <<life, closing, inq, outq, routing, tpc, opc, current, binds, recent>>
          /\ cpc = "reap" /\ cpc' = "sleep" /\ cleanupq' = IF snap = {} THEN cleanupq ELSE keep
      BY <1>3 DEF ReapEnd
    <2>2. cleanupq' \subseteq cleanupq
      BY <1>a, <2>1 DEF PassInv
    <2>3. RefsAlive(e)'
      BY <1>a, <1>b, <1>c, <2>1 DEF RefsAlive, Refs
    <2>4. ClosingRecent(e)'
      BY <1>a, <2>1, <2>2 DEF ClosingRecent
    <2>5. UnlistedFirst(e)'
      BY <2>1 DEF UnlistedFirst
    <2> QED
      BY <2>3, <2>4, <2>5 DEF OtherInv
  <1>4. ASSUME NEW d \in Esme, ScanBind(d) PROVE OtherInv(e)'
    <2>1. /\ UNCHANGED <<life, closing, tpc, opc, recent, authed, current, cpc, keep, snap, inq, routing>>
          /\ cpc = "scan" /\ current \in Global /\ current # 0 /\ d \in Listed
      BY <1>4, ScanEffect
    <2>2. CASE d = e
      <3>1. RefsAlive(e)'
        BY <1>a, <2>1, <2>2, StaysAlive DEF Refs
      <3>2. ClosingRecent(e)'
        <4>1. binds[current][e] > 0
          BY <2>1, <2>2, ListedAuthed
        <4> QED
          BY <1>a, <2>1, <4>1 DEF ClosingRecent
      <3>3. UnlistedFirst(e)'
        <4>1. CASE connected[e] /\ UNCHANGED cleanupq
          BY <1>a, <2>1, <4>1 DEF ConnInv, UnlistedFirst
        <4>2. CASE binds'[current][e] = binds[current][e] - 1
          <5>1. binds[current][e] \in Nat /\ binds[current][e] <= 1
            BY <2>1, <1>a DEF OneBind, TypeGlobal
          <5>2. e \notin Listed'
            BY <2>1, <4>2, <5>1 DEF Listed
          <5> QED
            BY <5>2 DEF UnlistedFirst
        <4> QED
          BY <1>4, <2>2, <4>1, <4>2, ScanEffect
      <3> QED
        BY <3>1, <3>2, <3>3 DEF OtherInv
    <2>3. CASE d # e
      <3>1. /\ outq'[e] = outq[e] /\ todo'[e] = todo[e] /\ (e \in cleanupq' => e \in cleanupq)
            /\ \A g \in Global : binds'[g][e] = binds[g][e]
        BY <1>4, <2>3, ScanEffect
      <3>2. e \in Listed' => e \in Listed
        BY <2>1, <3>1 DEF Listed
      <3> QED
        BY <1>a, <2>1, <3>1, <3>2, RefsFrame, SideFrame DEF OtherInv
    <2> QED
      BY <2>2, <2>3
  <1>5. ASSUME NEW d \in Esme, ReapEsme(d) PROVE OtherInv(e)'
    <2>1. /\ UNCHANGED <<closing, tpc, opc, recent, authed, current, binds, cpc, snap, cleanupq, inq, outq,
                         routing>>
          /\ cpc = "reap"
      BY <1>5, ReapEffect
    <2>2. CASE d = e
      <3>1. ClosingRecent(e)' /\ UnlistedFirst(e)'
        BY <1>a, <1>b, <2>1 DEF ClosingRecent, UnlistedFirst
      <3>2. CASE life'[e] = life[e]
        <4>1. Refs(e)
          BY <1>5, <2>2, ReapEffect DEF Refs
        <4> QED
          BY <1>a, <3>1, <3>2, <4>1, StaysAlive DEF OtherInv
      <3>3. CASE keep' = keep /\ QueueDepth(e) = 0 /\ ~recent[e]
        <4>1. e \in snap /\ e \notin keep /\ e \in cleanupq /\ todo'[e] = 0
          BY <1>5, <2>2, ReapEffect
        <4>2. closing # e
          BY <1>a, <3>3, <4>1 DEF ClosingRecent
        <4>3. e \notin Listed
          BY <1>a, <2>1, <4>1 DEF UnlistedFirst
        <4>4. \A t \in InThread : tpc[t].esme # e
          BY <1>a, <3>3 DEF ThreadInv, BaseInv, TypeOK, TypeThread
        <4>5. \A o \in OutThread : opc[o].esme # e
          BY <1>a, <3>3 DEF ThreadInv, BaseInv, TypeOK, TypeThread
        <4>6. ~Queued(e)
          BY <3>3, <4>2, <4>4, <4>5 DEF Queued
        <4>7. ~Refs(e)'
          BY <1>b, <1>c, <2>1, <3>3, <4>1, <4>3, <4>6 DEF Refs
        <4> QED
          BY <3>1, <4>7 DEF OtherInv, RefsAlive
      <3> QED
        BY <1>5, <2>2, <3>2, <3>3, ReapEffect
    <2>3. CASE d # e
      <3>1. todo'[e] = todo[e] /\ life'[e] = life[e] /\ (e \in keep' => e \in keep)
        BY <1>5, <2>3, ReapEffect
      <3> QED
        BY <1>a, <1>b, <2>1, <3>1, RefsFrame, SideFrame DEF OtherInv
    <2> QED
      BY <2>2, <2>3
  <1> QED
    BY <1>1, <1>2, <1>3, <1>4, <1>5 DEF Cleanup

-----------------------------------------------------------------------------
(* The theorems *)

\* A connection never sends fewer bind requests than it has sent.
LEMMA BindReqsGrow ==
  ASSUME BaseInv, [Next]_vars, NEW e \in Esme, BoundOnce(e)'
  PROVE  BoundOnce(e)
  <1> USE DEF esmeVars, globalVars, readVars, queueVars, threadVars, workVars, passVars
  <1>1. bindReqs \in [Esme -> Nat]
    BY DEF BaseInv, TypeOK, TypeQueue
  <1>2. ASSUME UNCHANGED bindReqs PROVE BoundOnce(e)
    BY <1>2 DEF BoundOnce
  <1>3. ASSUME NEW d \in Esme, NEW k \in Kind, ReadPdu(d, k) PROVE BoundOnce(e)
    <2>1. bindReqs'[e] \in {bindReqs[e], bindReqs[e] + 1}
      BY <1>1, <1>3 DEF ReadPdu
    <2> QED
      BY <1>1, <2>1 DEF BoundOnce
  <1>4. CASE Listener
    BY <1>2, <1>3, <1>4 DEF Listener, ListenerCleanup, Connect, PeerCloses
  <1>5. CASE Cleanup
    BY <1>2, <1>5 DEF Cleanup, PassStart, ReapStart, ReapEnd, ScanBind, ReapEsme
  <1>6. CASE UseReceiver
    BY <1>2, <1>6 DEF UseReceiver
  <1>7. ASSUME NEW t \in InThread, Inbound(t) PROVE BoundOnce(e)
    BY <1>2, <1>7 DEF Inbound, ConsumeInbound, HandlePdu, BindRefused, BindAccepted, GlobalAdd, GlobalCreate
  <1>8. ASSUME NEW o \in OutThread, Outbound(o) PROVE BoundOnce(e)
    BY <1>2, <1>8 DEF Outbound, ConsumeOutbound, CheckConnected, Send
  <1>9. ASSUME NEW d \in Esme,
               RoutingDone(d) \/ CallbackSubmit(d) \/ FindBestReceiver(d) \/ UnbindCommand(d) \/ Elapse(d)
        PROVE  BoundOnce(e)
    BY <1>2, <1>9 DEF RoutingDone, CallbackSubmit, FindBestReceiver, UnbindCommand, Elapse
  <1>10. CASE UNCHANGED vars
    BY <1>2, <1>10 DEF vars
  <1> QED
    BY <1>4, <1>5, <1>6, <1>7, <1>8, <1>9, <1>10 DEF Next

\* The inductive invariant: what holds of all connections, and what holds of
\* one that sent a single bind request.
THEOREM EsmeInvariant == Spec => []EsmeInv
  <1>1. Init => EsmeInv
    <2> SUFFICES ASSUME Init PROVE EsmeInv
      OBVIOUS
    <2>1. BaseInv
      BY InitBase
    <2>2. ASSUME NEW e \in Esme PROVE OnceInv(e)
      <3>1. Len(inq[e]) = 0 /\ Len(outq[e]) = 0 /\ routing[e] = 0
        BY DEF Init
      <3>2. ~Queued(e) /\ e \notin Listed
        BY <3>1 DEF Init, Queued, QueueDepth, Listed
      <3>3. RefsAlive(e) /\ ClosingRecent(e) /\ UnlistedFirst(e)
        BY <3>2 DEF Init, RefsAlive, Refs, ClosingRecent, UnlistedFirst
      <3>4. OneBind(e)
        <4>1. ~BindQueued(e) /\ \A i \in 1 .. Len(inq[e]) : FALSE
          BY <3>1 DEF BindQueued
        <4>2. \A t \in InThread : ~Binder(t, e)
          BY DEF Init, Binder
        <4>3. \A g \in Global : binds[g][e] = 0
          BY DEF Init
        <4> QED
          BY <4>1, <4>2, <4>3 DEF OneBind
      <3> QED
        BY <3>3, <3>4 DEF OnceInv
    <2> QED
      BY <2>1, <2>2 DEF EsmeInv
  <1>2. EsmeInv /\ [Next]_vars => EsmeInv'
    <2> SUFFICES ASSUME EsmeInv, [Next]_vars PROVE EsmeInv'
      OBVIOUS
    <2>1. BaseInv /\ BaseInv'
      BY NextBase DEF EsmeInv
    <2>2. ASSUME NEW e \in Esme, BoundOnce(e)' PROVE OnceInv(e)'
      <3>1. OneBind(e) /\ OtherInv(e)
        BY <2>1, <2>2, BindReqsGrow DEF EsmeInv, OnceInv, OtherInv
      <3>2. OneBind(e)'
        BY <2>1, <2>2, <3>1, NextOneBind
      <3>3. OtherInv(e)'
        <4>1. CASE UNCHANGED vars
          BY <3>1, <4>1 DEF vars, OtherInv, RefsAlive, Refs, Queued, QueueDepth, Listed, ClosingRecent,
                            UnlistedFirst
        <4> QED
          BY <2>1, <3>1, <4>1, ListenerOther, CallbackOther, InboundOther, OutboundOther, CleanupOther
             DEF Next
      <3> QED
        BY <3>2, <3>3 DEF OnceInv, OtherInv
    <2> QED
      BY <2>1, <2>2 DEF EsmeInv
  <1> QED
    BY <1>1, <1>2, PTL DEF Spec

\* smpp_esme_destroy runs only when nothing the queue threads will touch refers
\* to the ESME: a connection that bound once and has a PDU queued, being handled
\* or with the router, or that the listener is closing, is still allocated.
THEOREM QueuedAreAlive == Spec => []QueuedIsAlive
  <1>1. EsmeInv => QueuedIsAlive
    BY DEF EsmeInv, OnceInv, RefsAlive, Refs, QueuedIsAlive
  <1> QED
    BY <1>1, EsmeInvariant, PTL

\* A destroyed ESME that bound once is on neither list of the server once the
\* pass is over, so no later lookup or pass meets it again.
THEOREM ListedAreAlive == Spec => []ListedIsAlive
  <1>1. EsmeInv => ListedIsAlive
    BY DEF EsmeInv, OnceInv, RefsAlive, Refs, ListedIsAlive
  <1> QED
    BY <1>1, EsmeInvariant, PTL

=============================================================================
