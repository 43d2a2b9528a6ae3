--------------------------- MODULE BlocklistProofs ---------------------------
(***************************************************************************)
(* Proofs about the block list, for every number of connections and        *)
(* addresses, every exemption and every limit.                             *)
(***************************************************************************)
EXTENDS Blocklist, FiniteSetTheorems, TLAPS

USE LimitAssumption, BoundAssumption

\* What the counters say of each other: a bind that waits was sent, a new
\* connection has no errors, and one that is still read has not used them up.
Counters ==
  \A c \in Conn : /\ inq[c] <= sent[c]
                  /\ st[c] = "absent" => errors[c] = 0
                  /\ st[c] = "open" => errors[c] < MaxErrors

\* What SMPPBlockedIp holds of an address.
Entry == [attempts : Nat, time_blocked : 0 .. MaxTime]

Inv == TypeOK /\ Counters /\ CountedOnce

\* Nothing has happened at the start.
LEMMA InvInit == Init => Inv
  BY DEF Init, Inv, TypeOK, Counters, CountedOnce

\* A failure gives the list an entry and the history of c one element more.
LEMMA FailureCounts ==
  ASSUME TypeOK, NEW c \in Conn, AuthFailed(c)
  PROVE  /\ listed' \in [Ip -> Entry]
         /\ failures' \in [Conn -> Seq(0 .. MaxTime)]
         /\ Len(failures'[c]) = Len(failures[c]) + 1
         /\ \A d \in Conn : d # c => failures'[d] = failures[d]
  <1>1. now \in 0 .. MaxTime /\ failures \in [Conn -> Seq(0 .. MaxTime)]
    BY DEF TypeOK
  <1>2. failures[c] \in Seq(0 .. MaxTime)
    BY <1>1
  <1>3. Append(failures[c], now) \in Seq(0 .. MaxTime) /\ Len(Append(failures[c], now)) = Len(failures[c]) + 1
    BY <1>1, <1>2
  <1>4. failures' = [failures EXCEPT ![c] = Append(failures[c], now)]
    BY DEF AuthFailed
  <1>5. listed \in [Ip -> Entry] /\ ip[c] \in Ip
    BY AddressAssumption DEF TypeOK, Entry
  <1>6. listed' \in [Ip -> Entry]
    <2> DEFINE entry == [attempts |-> listed[ip[c]].attempts + 1, time_blocked |-> now]
    <2>1. entry \in Entry
      BY <1>1, <1>5 DEF Entry
    <2>2. listed' = listed \/ listed' = [listed EXCEPT ![ip[c]] = entry]
      BY DEF AuthFailed
    <2> HIDE DEF entry
    <2> QED
      BY <1>5, <2>1, <2>2
  <1> QED
    BY <1>1, <1>3, <1>4, <1>6

\* The end of a connection is counted at most once, and stops it.
LEMMA EndCounts ==
  ASSUME TypeOK, NEW c \in Conn, EndConnection(c)
  PROVE  /\ listed' \in [Ip -> Entry]
         /\ failures' \in [Conn -> Seq(0 .. MaxTime)]
         /\ Len(failures'[c]) <= Len(failures[c]) + 1
         /\ \A d \in Conn : d # c => failures'[d] = failures[d]
         /\ st' = [st EXCEPT ![c] = "stopped"]
  <1>1. CASE AuthFailed(c)
    <2>1. Len(failures[c]) \in Nat
      BY DEF TypeOK
    <2>2. Len(failures'[c]) <= Len(failures[c]) + 1
      BY <1>1, <2>1, FailureCounts
    <2> QED
      BY <1>1, <2>2, FailureCounts DEF EndConnection
  <1>2. CASE UNCHANGED <<listed, failures>>
    <2>1. Len(failures[c]) \in Nat
      BY DEF TypeOK
    <2> QED
      BY <1>2, <2>1 DEF EndConnection, TypeOK, Entry
  <1> QED
    BY <1>1, <1>2 DEF EndConnection

\* A step changes what is counted about one connection c only, keeps the
\* types and does not count more for c than CountedOnce allows.
LEMMA OneConnection ==
  ASSUME Inv, TypeOK', NEW c \in Conn,
         \A d \in Conn \ {c} : /\ st'[d] = st[d] /\ errors'[d] = errors[d]
                               /\ sent'[d] = sent[d] /\ inq'[d] = inq[d]
                               /\ failures'[d] = failures[d],
         inq'[c] <= sent'[c],
         st'[c] = "absent" => errors'[c] = 0,
         st'[c] = "open" => errors'[c] < MaxErrors,
         Len(failures'[c]) <= sent'[c] - inq'[c] + (IF st'[c] = "stopped" THEN 1 ELSE 0)
  PROVE  Inv'
  <1>1. Counters'
    BY DEF Inv, Counters
  <1>2. CountedOnce'
    BY DEF Inv, CountedOnce
  <1> QED
    BY <1>1, <1>2 DEF Inv

\* Every step of the listener, the queue threads and the clock keeps the
\* counters in step.
LEMMA InvNext == Inv /\ [Next]_vars => Inv'
  <1> SUFFICES ASSUME Inv, [Next]_vars PROVE Inv'
    OBVIOUS
  <1>a. TypeOK /\ Counters /\ CountedOnce
    BY DEF Inv
  <1>b. \A c \in Conn :
          /\ Len(failures[c]) \in Nat /\ sent[c] \in Nat /\ inq[c] \in Nat /\ errors[c] \in Nat
          /\ inq[c] <= sent[c]
          /\ Len(failures[c]) <= sent[c] - inq[c] + (IF st[c] = "stopped" THEN 1 ELSE 0)
    BY <1>a DEF TypeOK, Counters, CountedOnce
  <1> USE DEF connVars, pduVars
  <1>1. ASSUME NEW c \in Conn, Connect(c) PROVE Inv'
    <2>1. listed' \in [Ip -> Entry]
      <3>1. listed \in [Ip -> Entry] /\ [attempts |-> 0, time_blocked |-> 0] \in Entry
        BY <1>a DEF TypeOK, Entry
      <3>2. \/ listed' = listed
            \/ listed' = [listed EXCEPT ![ip[c]] = [attempts |-> 0, time_blocked |-> 0]]
        BY <1>1 DEF Connect, Forgotten
      <3> QED
        BY <3>1, <3>2
    <2>2. TypeOK'
      BY <1>a, <1>1, <2>1 DEF Connect, TypeOK, Entry
    <2>3. st[c] = "absent" /\ st'[c] \in {"rejected", "open"}
      BY <1>a, <1>1 DEF Connect, TypeOK
    <2>4. errors'[c] = 0
      BY <1>a, <1>1, <2>3 DEF Connect, Counters
    <2>5. /\ Len(failures[c]) \in Nat /\ sent[c] \in Nat /\ inq[c] \in Nat /\ inq[c] <= sent[c]
          /\ Len(failures[c]) <= sent[c] - inq[c]
      BY <1>b, <2>3
    <2>6. failures' = failures /\ sent' = sent /\ inq' = inq
      BY <1>1 DEF Connect
    <2>f. \A d \in Conn \ {c} : /\ st'[d] = st[d] /\ errors'[d] = errors[d]
                                /\ sent'[d] = sent[d] /\ inq'[d] = inq[d]
                                /\ failures'[d] = failures[d]
      BY <1>a, <1>1 DEF Connect, TypeOK
    <2>c. /\ inq'[c] <= sent'[c]
          /\ st'[c] = "absent" => errors'[c] = 0
          /\ st'[c] = "open" => errors'[c] < MaxErrors
          /\ Len(failures'[c]) <= sent'[c] - inq'[c] + (IF st'[c] = "stopped" THEN 1 ELSE 0)
      BY <2>3, <2>4, <2>5, <2>6
    <2> QED
      BY <2>2, <2>f, <2>c, OneConnection
  <1>2. ASSUME NEW c \in Conn, ReadBind(c) PROVE Inv'
    <2>1. /\ sent'[c] = sent[c] + 1 /\ inq'[c] = inq[c] + 1 /\ errors'[c] = 0
          /\ st'[c] = "open" /\ failures' = failures /\ sent[c] < MaxBindPdu
      BY <1>a, <1>2 DEF ReadBind, TypeOK
    <2>2. TypeOK'
      <3>1. sent' \in [Conn -> 0 .. MaxBindPdu]
        BY <1>a, <1>b, <1>2 DEF ReadBind, TypeOK
      <3>2. inq' \in [Conn -> 0 .. MaxBindPdu]
        BY <1>a, <1>b, <1>2 DEF ReadBind, TypeOK
      <3>3. errors' \in [Conn -> 0 .. MaxErrors]
        BY <1>a, <1>2 DEF ReadBind, TypeOK
      <3> QED
        BY <1>a, <1>2, <3>1, <3>2, <3>3 DEF ReadBind, TypeOK
    <2>3. /\ inq'[c] <= sent'[c]
          /\ Len(failures'[c]) <= sent'[c] - inq'[c] + (IF st'[c] = "stopped" THEN 1 ELSE 0)
      BY <1>b, <1>2, <2>1 DEF ReadBind
    <2>f. \A d \in Conn \ {c} : /\ st'[d] = st[d] /\ errors'[d] = errors[d]
                                /\ sent'[d] = sent[d] /\ inq'[d] = inq[d]
                                /\ failures'[d] = failures[d]
      BY <1>a, <1>2 DEF ReadBind, TypeOK
    <2>c. /\ inq'[c] <= sent'[c]
          /\ st'[c] = "absent" => errors'[c] = 0
          /\ st'[c] = "open" => errors'[c] < MaxErrors
          /\ Len(failures'[c]) <= sent'[c] - inq'[c] + (IF st'[c] = "stopped" THEN 1 ELSE 0)
      BY <2>1, <2>3
    <2> QED
      BY <2>2, <2>f, <2>c, OneConnection
  <1>3. ASSUME NEW c \in Conn, PeerCloses(c) PROVE Inv'
    <2>1. /\ EndConnection(c) /\ st[c] = "open"
          /\ UNCHANGED <<ip, now, authed, errors, sent, inq, refusal>>
      BY <1>3 DEF PeerCloses
    <2>2. TypeOK'
      BY <1>a, <2>1, EndCounts DEF TypeOK, Entry
    <2>3. st'[c] = "stopped" /\ Len(failures'[c]) <= Len(failures[c]) + 1
      BY <1>a, <2>1, EndCounts DEF TypeOK, Entry
    <2>4. Len(failures'[c]) \in Nat
      BY <2>2 DEF TypeOK
    <2>f. \A d \in Conn \ {c} : /\ st'[d] = st[d] /\ errors'[d] = errors[d]
                                /\ sent'[d] = sent[d] /\ inq'[d] = inq[d]
                                /\ failures'[d] = failures[d]
      BY <1>a, <2>1, EndCounts, SMTT(30) DEF TypeOK, Entry
    <2>c. /\ inq'[c] <= sent'[c]
          /\ st'[c] = "absent" => errors'[c] = 0
          /\ st'[c] = "open" => errors'[c] < MaxErrors
          /\ Len(failures'[c]) <= sent'[c] - inq'[c] + (IF st'[c] = "stopped" THEN 1 ELSE 0)
      BY <1>b, <2>1, <2>3, <2>4
    <2> QED
      BY <2>2, <2>f, <2>c, OneConnection
  <1>4. ASSUME NEW c \in Conn, Garbage(c) PROVE Inv'
    <2>1. /\ st[c] = "open" /\ errors[c] < MaxErrors
          /\ errors' = [errors EXCEPT ![c] = errors[c] + 1]
          /\ UNCHANGED <<ip, now, authed, sent, inq, refusal>>
      BY <1>a, <1>4 DEF Garbage, Counters
    <2>2. errors' \in [Conn -> 0 .. MaxErrors] /\ errors'[c] = errors[c] + 1
      BY <1>a, <1>b, <2>1 DEF TypeOK
    <2>3. CASE errors[c] + 1 < MaxErrors /\ UNCHANGED <<st, listed, failures>>
      <3>1. TypeOK'
        BY <1>a, <2>1, <2>2, <2>3 DEF TypeOK
      <3> QED
        BY <1>a, <1>b, <2>1, <2>2, <2>3, <3>1, OneConnection DEF TypeOK
    <2>4. CASE EndConnection(c)
      <3>1. TypeOK'
        BY <1>a, <2>1, <2>2, <2>4, EndCounts DEF TypeOK, Entry
      <3>2. st'[c] = "stopped" /\ Len(failures'[c]) <= Len(failures[c]) + 1
        BY <1>a, <2>4, EndCounts DEF TypeOK, Entry
      <3>3. Len(failures'[c]) \in Nat
        BY <3>1 DEF TypeOK
      <3>f. \A d \in Conn \ {c} : /\ st'[d] = st[d] /\ errors'[d] = errors[d]
                                  /\ sent'[d] = sent[d] /\ inq'[d] = inq[d]
                                  /\ failures'[d] = failures[d]
        BY <1>a, <2>1, <2>4, EndCounts, SMTT(30) DEF TypeOK, Entry
      <3>c. /\ inq'[c] <= sent'[c]
            /\ st'[c] = "absent" => errors'[c] = 0
            /\ st'[c] = "open" => errors'[c] < MaxErrors
            /\ Len(failures'[c]) <= sent'[c] - inq'[c] + (IF st'[c] = "stopped" THEN 1 ELSE 0)
        BY <1>b, <2>1, <3>2, <3>3
      <3> QED
        BY <3>1, <3>f, <3>c, OneConnection
    <2> QED
      BY <1>4, <2>3, <2>4 DEF Garbage
  <1>5. ASSUME NEW c \in Conn, SendRefusal(c) PROVE Inv'
    <2>1. TypeOK'
      BY <1>a, <1>5 DEF SendRefusal, TypeOK
    <2>2. st'[c] = (IF st[c] = "open" THEN "stopped" ELSE st[c])
      BY <1>a, <1>5 DEF SendRefusal, TypeOK
    <2>3. st[c] = "absent" => errors[c] = 0
      BY <1>a DEF Counters
    <2> QED
      BY <1>a, <1>b, <1>5, <2>1, <2>2, <2>3, OneConnection, SMTT(30) DEF SendRefusal, TypeOK
  <1>6. ASSUME NEW c \in Conn, NEW answer \in Answers, HandleBind(c, answer) PROVE Inv'
    <2>1. /\ inq[c] > 0 /\ inq' = [inq EXCEPT ![c] = inq[c] - 1]
          /\ UNCHANGED <<ip, now, st, errors, sent>>
      BY <1>6 DEF HandleBind
    <2>2. inq' \in [Conn -> 0 .. MaxBindPdu] /\ inq'[c] = inq[c] - 1
      BY <1>a, <1>b, <2>1 DEF TypeOK
    <2>3. /\ st[c] = "absent" => errors[c] = 0
          /\ st[c] = "open" => errors[c] < MaxErrors
      BY <1>a DEF Counters
    <2>4. CASE UNCHANGED <<listed, failures, refusal>> /\ authed' = [authed EXCEPT ![c] = TRUE]
      <3>1. TypeOK'
        BY <1>a, <2>1, <2>2, <2>4 DEF TypeOK
      <3>f. \A d \in Conn \ {c} : /\ st'[d] = st[d] /\ errors'[d] = errors[d]
                                  /\ sent'[d] = sent[d] /\ inq'[d] = inq[d]
                                  /\ failures'[d] = failures[d]
        BY <1>a, <2>1, <2>4 DEF TypeOK
      <3>c. /\ inq'[c] <= sent'[c]
            /\ st'[c] = "absent" => errors'[c] = 0
            /\ st'[c] = "open" => errors'[c] < MaxErrors
            /\ Len(failures'[c]) <= sent'[c] - inq'[c] + (IF st'[c] = "stopped" THEN 1 ELSE 0)
        BY <1>b, <2>1, <2>2, <2>3, <2>4, SMTT(30)
      <3> QED
        BY <3>1, <3>f, <3>c, OneConnection
    <2>5. CASE AuthFailed(c) /\ refusal' = [refusal EXCEPT ![c] = TRUE] /\ UNCHANGED authed
      <3>1. TypeOK'
        BY <1>a, <2>1, <2>2, <2>5, FailureCounts DEF TypeOK, Entry
      <3>2. Len(failures'[c]) = Len(failures[c]) + 1
        BY <1>a, <2>5, FailureCounts
      <3>3. /\ Len(failures[c]) \in Nat /\ sent[c] \in Nat /\ inq[c] \in Nat /\ inq[c] <= sent[c]
            /\ Len(failures[c]) <= sent[c] - inq[c] + (IF st[c] = "stopped" THEN 1 ELSE 0)
        BY <1>b
      <3>4. st' = st /\ sent' = sent /\ errors' = errors
        BY <2>1
      <3>f. \A d \in Conn \ {c} : /\ st'[d] = st[d] /\ errors'[d] = errors[d]
                                  /\ sent'[d] = sent[d] /\ inq'[d] = inq[d]
                                  /\ failures'[d] = failures[d]
        BY <1>a, <2>1, <2>5, FailureCounts DEF TypeOK, Entry
      <3>c. /\ inq'[c] <= sent'[c]
            /\ st'[c] = "absent" => errors'[c] = 0
            /\ st'[c] = "open" => errors'[c] < MaxErrors
            /\ Len(failures'[c]) <= sent'[c] - inq'[c] + (IF st'[c] = "stopped" THEN 1 ELSE 0)
        <4>1. inq'[c] = inq[c] - 1
          BY <2>2
        <4>2. inq'[c] <= sent'[c]
          BY <3>3, <3>4, <4>1
        <4>3. CASE st[c] = "stopped"
          BY <2>3, <3>2, <3>3, <3>4, <4>1, <4>2, <4>3
        <4>4. CASE st[c] # "stopped"
          BY <2>3, <3>2, <3>3, <3>4, <4>1, <4>2, <4>4
        <4> QED
          BY <4>3, <4>4
      <3> QED
        BY <3>1, <3>f, <3>c, OneConnection
    <2> QED
      BY <1>6, <2>4, <2>5 DEF HandleBind
  <1>7. CASE Tick
    <2>1. TypeOK'
      BY <1>a, <1>7 DEF Tick, TypeOK
    <2> QED
      BY <1>a, <1>7, <2>1 DEF Tick, Inv, Counters, CountedOnce
  <1>8. CASE UNCHANGED vars
    <2>1. TypeOK'
      BY <1>a, <1>8 DEF vars, TypeOK
    <2> QED
      BY <1>a, <1>8, <2>1 DEF vars, Inv, Counters, CountedOnce
  <1> QED
    BY <1>1, <1>2, <1>3, <1>4, <1>5, <1>6, <1>7, <1>8 DEF Next

\* The list, the counters and the history keep their types; in particular
\* smpp_esme->errors never passes SMPP_ESME_MAX_CONSECUTIVE_ERRORS.
THEOREM TypeCorrect == Spec => []TypeOK
  <1>1. Inv => TypeOK
    BY DEF Inv
  <1> QED
    BY <1>1, InvInit, InvNext, PTL DEF Spec

\* A connection counts against its address once for each of its binds and
\* once for ending unauthenticated, in any order of the listener's and the
\* queue threads' calls of smpp_listener_auth_failed.
THEOREM NeverCountedAgain == Spec => []CountedOnce
  <1>1. Inv => CountedOnce
    BY DEF Inv
  <1> QED
    BY <1>1, InvInit, InvNext, PTL DEF Spec

-----------------------------------------------------------------------------
(* What the list knows of the failures *)

\* When a failure happened.
When(f) == failures[f[1]][f[2]]

\* What an entry of the list says of the failures of its address: it counts
\* at least the recent ones and no more than there were, time_blocked is the
\* time of one of them, and the ones it does not know of, which are the ones
\* after time_blocked, no longer matter.
EntryTells(addr) ==
  /\ IsFiniteSet(FailuresOf(addr)) /\ listed[addr].time_blocked <= now
  /\ Cardinality(Recent(addr)) <= listed[addr].attempts
  /\ listed[addr].attempts <= Cardinality(FailuresOf(addr))
  /\ listed[addr].attempts > 0 =>
       \E f \in FailuresOf(addr) : When(f) = listed[addr].time_blocked
  /\ \A f \in FailuresOf(addr) :
       When(f) <= listed[addr].time_blocked \/ now - When(f) > BlockTime

ListInv == \A addr \in Ip : ~Exempt(addr) => EntryTells(addr)

BlockInv == Inv /\ ListInv

\* The times of the failures are numbers.
LEMMA WhenType ==
  ASSUME TypeOK, NEW addr \in Ip, NEW f \in FailuresOf(addr)
  PROVE  When(f) \in Nat
  <1>1. f[1] \in Conn /\ f[2] \in DOMAIN failures[f[1]]
    BY DEF FailuresOf
  <1>2. failures[f[1]] \in Seq(0 .. MaxTime)
    BY <1>1 DEF TypeOK
  <1>3. failures[f[1]][f[2]] \in 0 .. MaxTime
    BY <1>1, <1>2
  <1> QED
    BY <1>3 DEF When

\* There are no failures at the start.
LEMMA BlockInit == Init => BlockInv
  <1> SUFFICES ASSUME Init PROVE BlockInv
    OBVIOUS
  <1>1. Inv
    BY InvInit
  <1>2. ASSUME NEW addr \in Ip PROVE EntryTells(addr)
    <2>1. FailuresOf(addr) = {}
      BY DEF Init, FailuresOf
    <2>2. Recent(addr) = {}
      BY <2>1 DEF Recent
    <2>3. listed[addr].attempts = 0 /\ listed[addr].time_blocked = 0 /\ now = 0
      BY DEF Init
    <2> QED
      BY <2>1, <2>2, <2>3, FS_EmptySet DEF EntryTells
  <1> QED
    BY <1>1, <1>2 DEF BlockInv, ListInv

\* The clock, and a step that changes neither the list nor the failures,
\* leave an entry true: failures only get older.
LEMMA EntryAges ==
  ASSUME TypeOK, TypeOK', NEW addr \in Ip, EntryTells(addr),
         ip' = ip, failures' = failures, listed'[addr] = listed[addr], now <= now'
  PROVE  EntryTells(addr)'
  <1>1. FailuresOf(addr)' = FailuresOf(addr)
    BY DEF FailuresOf
  <1>2. \A f \in FailuresOf(addr) : When(f) \in Nat /\ When(f)' = When(f)
    BY WhenType DEF When
  <1>3. now \in Nat /\ now' \in Nat
    BY DEF TypeOK
  <1>4. Recent(addr)' \subseteq Recent(addr) /\ Recent(addr) \subseteq FailuresOf(addr)
    BY <1>1, <1>2, <1>3 DEF Recent, When
  <1>5. IsFiniteSet(FailuresOf(addr))
    BY DEF EntryTells
  <1>6. IsFiniteSet(Recent(addr))
    BY <1>4, <1>5, FS_Subset
  <1>7. /\ Cardinality(Recent(addr)') <= Cardinality(Recent(addr))
        /\ Cardinality(Recent(addr)') \in Nat /\ Cardinality(Recent(addr)) \in Nat
    BY <1>4, <1>6, FS_Subset, FS_CardinalityType
  <1>8. /\ listed[addr].attempts \in Nat /\ listed[addr].time_blocked \in Nat
        /\ listed'[addr].time_blocked <= now'
    BY <1>3 DEF TypeOK, EntryTells
  <1>9. Cardinality(Recent(addr))' <= listed'[addr].attempts
    BY <1>7, <1>8 DEF EntryTells
  <1>10. \A f \in FailuresOf(addr)' :
           When(f)' <= listed'[addr].time_blocked \/ now' - When(f)' > BlockTime
    BY <1>1, <1>2, <1>3 DEF EntryTells
  <1>11. listed'[addr].attempts > 0 =>
           \E f \in FailuresOf(addr)' : When(f)' = listed'[addr].time_blocked
    BY <1>1, <1>2 DEF EntryTells
  <1>12. listed'[addr].attempts <= Cardinality(FailuresOf(addr)')
    BY <1>1 DEF EntryTells
  <1> QED
    BY <1>1, <1>5, <1>8, <1>9, <1>10, <1>11, <1>12 DEF EntryTells

\* smpp_listener_auth_failed records one failure more, of the address of c,
\* and it happened now.
LEMMA FailureAdds ==
  ASSUME Inv, Inv', NEW c \in Conn, AuthFailed(c), ip' = ip, now' = now
  PROVE  /\ \E f : /\ f \notin FailuresOf(ip[c]) /\ FailuresOf(ip[c])' = FailuresOf(ip[c]) \cup {f}
                   /\ When(f)' = now
         /\ \A addr \in Ip \ {ip[c]} : FailuresOf(addr)' = FailuresOf(addr)
         /\ \A addr \in Ip : \A f \in FailuresOf(addr) : When(f)' = When(f)
  <1>0. PICK n : n = Len(failures[c]) + 1
    OBVIOUS
  <1>1. TypeOK /\ TypeOK' /\ CountedOnce'
    BY DEF Inv
  <1>2. failures[c] \in Seq(0 .. MaxTime) /\ now \in 0 .. MaxTime
    BY <1>1 DEF TypeOK
  <1>3. failures' = [failures EXCEPT ![c] = Append(failures[c], now)] /\ failures \in [Conn -> Seq(0 .. MaxTime)]
    BY <1>1 DEF AuthFailed, TypeOK
  <1>4. failures'[c] = Append(failures[c], now) /\ \A d \in Conn : d # c => failures'[d] = failures[d]
    BY <1>3
  <1>5. /\ DOMAIN failures[c] = 1 .. (n - 1) /\ DOMAIN failures'[c] = 1 .. n /\ n \in Nat \ {0}
        /\ failures'[c][n] = now /\ \A i \in 1 .. (n - 1) : failures'[c][i] = failures[c][i]
        /\ Len(failures'[c]) = n
    BY <1>0, <1>2, <1>4
  <1>6. n <= MaxBindPdu + 1
    <2>1. sent'[c] \in 0 .. MaxBindPdu /\ inq'[c] \in 0 .. MaxBindPdu
      BY <1>1 DEF TypeOK
    <2>2. Len(failures'[c]) <= sent'[c] - inq'[c] + (IF st'[c] = "stopped" THEN 1 ELSE 0)
      BY <1>1 DEF CountedOnce
    <2> QED
      BY <1>5, <2>1, <2>2
  <1>7. <<c, n>> \in Conn \X (1 .. MaxBindPdu + 1) /\ <<c, n>>[1] = c /\ <<c, n>>[2] = n
    BY <1>5, <1>6
  <1>8. ASSUME NEW d \in Conn, NEW i \in 1 .. MaxBindPdu + 1
        PROVE  /\ i \in DOMAIN failures[d] => failures'[d][i] = failures[d][i]
               /\ i \in DOMAIN failures'[d] <=> i \in DOMAIN failures[d] \/ (d = c /\ i = n)
    BY <1>4, <1>5
  <1>9. <<c, n>> \notin FailuresOf(ip[c])
    BY <1>5, <1>7 DEF FailuresOf
  <1>10. FailuresOf(ip[c])' = FailuresOf(ip[c]) \cup {<<c, n>>}
    <2>1. ASSUME NEW f \in Conn \X (1 .. MaxBindPdu + 1)
          PROVE  f \in FailuresOf(ip[c])' <=> f \in FailuresOf(ip[c]) \/ f = <<c, n>>
      <3>1. /\ f[1] \in Conn /\ f[2] \in 1 .. MaxBindPdu + 1
            /\ (f = <<c, n>> <=> f[1] = c /\ f[2] = n)
        OBVIOUS
      <3>2. f[2] \in DOMAIN failures'[f[1]] <=> f[2] \in DOMAIN failures[f[1]] \/ (f[1] = c /\ f[2] = n)
        BY <1>8, <3>1
      <3> QED
        BY <3>1, <3>2 DEF FailuresOf
    <2> QED
      BY <1>7, <2>1 DEF FailuresOf
  <1>11. ASSUME NEW addr \in Ip \ {ip[c]} PROVE FailuresOf(addr)' = FailuresOf(addr)
    <2>1. ASSUME NEW f \in Conn \X (1 .. MaxBindPdu + 1)
          PROVE  f \in FailuresOf(addr)' <=> f \in FailuresOf(addr)
      <3>1. f[1] \in Conn /\ f[2] \in 1 .. MaxBindPdu + 1
        OBVIOUS
      <3>2. f[2] \in DOMAIN failures'[f[1]] <=> f[2] \in DOMAIN failures[f[1]] \/ (f[1] = c /\ f[2] = n)
        BY <1>8, <3>1
      <3> QED
        BY <3>1, <3>2 DEF FailuresOf
    <2> QED
      BY <2>1 DEF FailuresOf
  <1>12. ASSUME NEW addr \in Ip, NEW f \in FailuresOf(addr) PROVE When(f)' = When(f)
    <2>1. f[1] \in Conn /\ f[2] \in 1 .. MaxBindPdu + 1 /\ f[2] \in DOMAIN failures[f[1]]
      BY DEF FailuresOf
    <2> QED
      BY <1>8, <2>1 DEF When
  <1>13. When(<<c, n>>)' = now
    BY <1>5, <1>7 DEF When
  <1> QED
    BY <1>9, <1>10, <1>11, <1>12, <1>13

\* A failure is counted by the entry of its address and does not touch the
\* others.
LEMMA EntryCounts ==
  ASSUME Inv, Inv', ListInv, NEW c \in Conn, AuthFailed(c), ip' = ip, now' = now
  PROVE  ListInv'
  <1> SUFFICES ASSUME NEW addr \in Ip, ~Exempt(addr) PROVE EntryTells(addr)'
    BY DEF ListInv, Exempt
  <1>1. TypeOK /\ TypeOK' /\ EntryTells(addr)
    BY DEF Inv, ListInv
  <1>2. now \in Nat /\ listed \in [Ip -> Entry] /\ ip[c] \in Ip
    BY <1>1, AddressAssumption, SMTT(30) DEF TypeOK, Entry
  <1>t. listed[addr].attempts \in Nat
    BY <1>2 DEF Entry
  <1>3. \A f \in FailuresOf(addr) : When(f) \in Nat /\ When(f)' = When(f)
    BY <1>1, WhenType, FailureAdds
  <1>4. IsFiniteSet(FailuresOf(addr)) /\ Recent(addr) \subseteq FailuresOf(addr)
    BY <1>1 DEF EntryTells, Recent
  <1>5. IsFiniteSet(Recent(addr))
    BY <1>4, FS_Subset
  <1>6. CASE addr # ip[c]
    <2>1. listed'[addr] = listed[addr]
      BY <1>2, <1>6 DEF AuthFailed
    <2>2. FailuresOf(addr)' = FailuresOf(addr)
      BY <1>6, FailureAdds
    <2>3. Recent(addr)' = Recent(addr)
      BY <1>3, <2>2 DEF Recent, When
    <2> QED
      BY <1>1, <1>3, <2>1, <2>2, <2>3 DEF EntryTells
  <1>7. CASE addr = ip[c]
    <2>1. listed'[addr] = [attempts |-> listed[addr].attempts + 1, time_blocked |-> now]
      BY <1>2, <1>7 DEF AuthFailed
    <2>2. PICK f : /\ f \notin FailuresOf(addr) /\ FailuresOf(addr)' = FailuresOf(addr) \cup {f}
                   /\ When(f)' = now
      BY <1>7, FailureAdds
    <2>3. Recent(addr)' \subseteq Recent(addr) \cup {f}
      BY <1>3, <2>2 DEF Recent, When
    <2>4. /\ IsFiniteSet(FailuresOf(addr) \cup {f})
          /\ Cardinality(FailuresOf(addr) \cup {f}) = Cardinality(FailuresOf(addr)) + 1
      BY <1>4, <2>2, FS_AddElement
    <2>5. /\ IsFiniteSet(Recent(addr) \cup {f})
          /\ Cardinality(Recent(addr) \cup {f}) = Cardinality(Recent(addr)) + 1
      BY <1>4, <1>5, <2>2, FS_AddElement
    <2>6. /\ Cardinality(Recent(addr)') <= Cardinality(Recent(addr) \cup {f})
          /\ Cardinality(Recent(addr)') \in Nat
      BY <2>3, <2>5, FS_Subset, FS_CardinalityType
    <2>7. Cardinality(Recent(addr)) \in Nat /\ Cardinality(FailuresOf(addr)) \in Nat
      BY <1>4, <1>5, FS_CardinalityType
    <2>8. Cardinality(Recent(addr)') <= listed'[addr].attempts
      BY <1>1, <1>t, <2>1, <2>5, <2>6, <2>7 DEF EntryTells
    <2>9. listed'[addr].attempts <= Cardinality(FailuresOf(addr)')
      BY <1>1, <1>t, <2>1, <2>2, <2>4, <2>7 DEF EntryTells
    <2>10. \A g \in FailuresOf(addr)' :
             When(g)' <= listed'[addr].time_blocked \/ now' - When(g)' > BlockTime
      <3> SUFFICES ASSUME NEW g \in FailuresOf(addr)'
                   PROVE  When(g)' <= now \/ now - When(g)' > BlockTime
        BY <2>1
      <3>1. CASE g = f
        BY <1>2, <2>2, <3>1
      <3>2. CASE g \in FailuresOf(addr)
        <4>1. When(g) \in Nat /\ When(g)' = When(g)
          BY <1>3, <3>2
        <4>2. /\ When(g) <= listed[addr].time_blocked \/ now - When(g) > BlockTime
              /\ listed[addr].time_blocked <= now
          BY <1>1, <3>2 DEF EntryTells
        <4>3. listed[addr].time_blocked \in Nat
          BY <1>2 DEF Entry
        <4> QED
          BY <1>2, <4>1, <4>2, <4>3
      <3> QED
        BY <2>2, <3>1, <3>2
    <2> QED
      BY <1>2, <2>1, <2>2, <2>4, <2>8, <2>9, <2>10 DEF EntryTells
  <1> QED
    BY <1>6, <1>7

\* A connection attempt forgets an entry only when all of its failures are
\* too old to matter.
LEMMA EntryForgets ==
  ASSUME Inv, Inv', ListInv, NEW c \in Conn, listed' = Forgotten(ip[c]),
         UNCHANGED <<ip, now, failures>>
  PROVE  ListInv'
  <1> SUFFICES ASSUME NEW addr \in Ip, ~Exempt(addr) PROVE EntryTells(addr)'
    BY DEF ListInv, Exempt
  <1>1. TypeOK /\ TypeOK' /\ EntryTells(addr)
    BY DEF Inv, ListInv
  <1>2. now \in Nat /\ listed \in [Ip -> Entry] /\ ip[c] \in Ip
    BY <1>1, AddressAssumption DEF TypeOK, Entry
  <1>3. CASE addr = ip[c] /\ Elapsed(addr)
    <2>1. listed'[addr] = [attempts |-> 0, time_blocked |-> 0]
      BY <1>2, <1>3 DEF Forgotten
    <2>2. FailuresOf(addr)' = FailuresOf(addr) /\ Recent(addr)' = Recent(addr)
      BY DEF FailuresOf, Recent
    <2>3. \A f \in FailuresOf(addr) : now - When(f) > BlockTime /\ When(f)' = When(f)
      <3> SUFFICES ASSUME NEW f \in FailuresOf(addr) PROVE now - When(f) > BlockTime
        BY DEF When
      <3>1. When(f) \in Nat /\ listed[addr].time_blocked \in Nat
        BY <1>1, <1>2, WhenType DEF Entry
      <3>2. When(f) <= listed[addr].time_blocked \/ now - When(f) > BlockTime
        BY <1>1 DEF EntryTells
      <3> QED
        BY <1>2, <1>3, <3>1, <3>2 DEF Elapsed
    <2>4. Recent(addr) = {}
      <3>1. \A f \in FailuresOf(addr) : When(f) \in Nat
        BY <1>1, WhenType
      <3> QED
        BY <1>2, <2>3, <3>1 DEF Recent, When
    <2>5. Cardinality(Recent(addr)') = 0
      BY <2>2, <2>4, FS_EmptySet
    <2>6. IsFiniteSet(FailuresOf(addr)') /\ Cardinality(FailuresOf(addr)') \in Nat
      BY <1>1, <2>2, FS_CardinalityType DEF EntryTells
    <2> QED
      BY <1>2, <2>1, <2>2, <2>3, <2>5, <2>6 DEF EntryTells
  <1>4. CASE ~(addr = ip[c] /\ Elapsed(addr))
    <2>1. listed'[addr] = listed[addr]
      BY <1>2, <1>4 DEF Forgotten
    <2> QED
      BY <1>1, <1>2, <2>1, EntryAges
  <1> QED
    BY <1>3, <1>4

\* A step that changes neither the list nor the failures.
LEMMA ListStays ==
  ASSUME Inv, Inv', ListInv, UNCHANGED <<ip, listed, failures>>, now <= now'
  PROVE  ListInv'
  <1> SUFFICES ASSUME NEW addr \in Ip, ~Exempt(addr) PROVE EntryTells(addr)'
    BY DEF ListInv, Exempt
  <1>1. TypeOK /\ TypeOK' /\ EntryTells(addr)
    BY DEF Inv, ListInv
  <1> QED
    BY <1>1, EntryAges

\* Every step of the listener, the queue threads and the clock leaves the
\* list true to the failures.
LEMMA BlockNext == BlockInv /\ [Next]_vars => BlockInv'
  <1> SUFFICES ASSUME BlockInv, [Next]_vars PROVE BlockInv'
    OBVIOUS
  <1>1. Inv /\ Inv' /\ ListInv
    BY InvNext DEF BlockInv
  <1>2. now \in Nat /\ now <= now
    BY <1>1 DEF Inv, TypeOK
  <1> SUFFICES ListInv'
    BY <1>1 DEF BlockInv
  <1> USE DEF connVars, pduVars
  <1>3. ASSUME NEW c \in Conn, Connect(c) PROVE ListInv'
    BY <1>1, <1>3, EntryForgets DEF Connect
  <1>4. ASSUME NEW c \in Conn, ReadBind(c) PROVE ListInv'
    BY <1>1, <1>2, <1>4, ListStays DEF ReadBind
  <1>5. ASSUME NEW c \in Conn, EndConnection(c), ip' = ip, now' = now PROVE ListInv'
    BY <1>1, <1>2, <1>5, ListStays, EntryCounts DEF EndConnection
  <1>6. ASSUME NEW c \in Conn, PeerCloses(c) PROVE ListInv'
    BY <1>5, <1>6 DEF PeerCloses
  <1>7. ASSUME NEW c \in Conn, Garbage(c) PROVE ListInv'
    BY <1>1, <1>2, <1>5, <1>7, ListStays DEF Garbage
  <1>8. ASSUME NEW c \in Conn, SendRefusal(c) PROVE ListInv'
    BY <1>1, <1>2, <1>8, ListStays DEF SendRefusal
  <1>9. ASSUME NEW c \in Conn, NEW answer \in Answers, HandleBind(c, answer) PROVE ListInv'
    BY <1>1, <1>2, <1>9, ListStays, EntryCounts DEF HandleBind
  <1>10. CASE Tick
    BY <1>1, <1>2, <1>10, ListStays DEF Tick
  <1>11. CASE UNCHANGED vars
    BY <1>1, <1>2, <1>11, ListStays DEF vars
  <1> QED
    BY <1>3, <1>4, <1>6, <1>7, <1>8, <1>9, <1>10, <1>11 DEF Next

\* Only smpp_listener_connection_callback takes a connection on or turns it
\* away.
LEMMA OnlyConnect ==
  ASSUME Inv, [Next]_vars, NEW c \in Conn, st[c] = "absent", st'[c] # "absent"
  PROVE  Connect(c)
  <1>1. st \in [Conn -> {"absent", "rejected", "open", "stopped"}]
    BY DEF Inv, TypeOK
  <1> USE DEF connVars, pduVars
  <1>2. ASSUME NEW d \in Conn, Connect(d) PROVE d = c
    BY <1>1, <1>2 DEF Connect
  <1>3. ASSUME NEW d \in Conn, ReadBind(d) PROVE FALSE
    BY <1>1, <1>3 DEF ReadBind
  <1>4. ASSUME NEW d \in Conn, st[d] = "open", EndConnection(d) PROVE FALSE
    BY <1>1, <1>4 DEF EndConnection
  <1>5. ASSUME NEW d \in Conn, PeerCloses(d) PROVE FALSE
    BY <1>4, <1>5 DEF PeerCloses
  <1>6. ASSUME NEW d \in Conn, Garbage(d) PROVE FALSE
    BY <1>4, <1>6 DEF Garbage
  <1>7. ASSUME NEW d \in Conn, SendRefusal(d) PROVE FALSE
    BY <1>1, <1>7 DEF SendRefusal
  <1>8. ASSUME NEW d \in Conn, NEW answer \in Answers, HandleBind(d, answer) PROVE FALSE
    BY <1>8 DEF HandleBind
  <1>9. ~Tick /\ ~UNCHANGED vars
    BY DEF Tick, vars
  <1> QED
    BY <1>2, <1>3, <1>5, <1>6, <1>7, <1>8, <1>9 DEF Next

\* An address gets no connection while ip-blocklist-attempts or more of its
\* failures lie within ip-blocklist-time, for any number of connections and
\* whichever of the two threads counted them: the entry counts at least the
\* recent ones, and smpp_listener_ip_is_blocked forgets it only when there
\* are none.
THEOREM AdmittedBelowLimit == Spec => AdmittedIsBelowLimit
  <1>1. ASSUME BlockInv, [Next]_vars, NEW c \in Conn, st[c] = "absent", st'[c] = "open"
        PROVE  Exempt(ip[c]) \/ Cardinality(Recent(ip[c])) < Attempts
    <2> SUFFICES ASSUME ~Exempt(ip[c]) PROVE Cardinality(Recent(ip[c])) < Attempts
      OBVIOUS
    <2>1. Inv /\ ListInv /\ TypeOK
      BY <1>1 DEF BlockInv, Inv
    <2>2. ip[c] \in Ip /\ now \in Nat /\ listed \in [Ip -> Entry]
      BY <2>1, AddressAssumption DEF TypeOK, Entry
    <2>3. Connect(c)
      BY <1>1, <2>1, OnlyConnect
    <2>4. ~Blocked(ip[c])
      BY <1>1, <2>1, <2>3 DEF Connect, TypeOK
    <2>5. EntryTells(ip[c])
      BY <2>1, <2>2 DEF ListInv
    <2>6. listed[ip[c]].attempts \in Nat /\ listed[ip[c]].time_blocked \in Nat
      BY <2>2 DEF Entry
    <2>7. CASE Elapsed(ip[c])
      <3>1. ASSUME NEW f \in FailuresOf(ip[c]) PROVE ~(now - failures[f[1]][f[2]] <= BlockTime)
        <4>1. When(f) \in Nat
          BY <2>1, <2>2, WhenType
        <4>2. When(f) <= listed[ip[c]].time_blocked \/ now - When(f) > BlockTime
          BY <2>5 DEF EntryTells
        <4> QED
          BY <2>2, <2>6, <2>7, <4>1, <4>2 DEF Elapsed, When
      <3>2. Recent(ip[c]) = {}
        BY <3>1 DEF Recent
      <3> QED
        BY <3>2, FS_EmptySet
    <2>8. CASE listed[ip[c]].attempts < Attempts
      <3>1. Recent(ip[c]) \subseteq FailuresOf(ip[c]) /\ IsFiniteSet(FailuresOf(ip[c]))
        BY <2>5 DEF Recent, EntryTells
      <3>2. Cardinality(Recent(ip[c])) \in Nat
        BY <3>1, FS_Subset, FS_CardinalityType
      <3>3. Cardinality(Recent(ip[c])) <= listed[ip[c]].attempts
        BY <2>5 DEF EntryTells
      <3> QED
        BY <2>6, <2>8, <3>2, <3>3
    <2> QED
      BY <2>4, <2>6, <2>7, <2>8 DEF Blocked
  <1>2. BlockInv /\ [Next]_vars =>
          [\A c \in Conn : st[c] = "absent" /\ st'[c] = "open" =>
             Exempt(ip[c]) \/ Cardinality(Recent(ip[c])) < Attempts]_vars
    BY <1>1
  <1> QED
    BY <1>2, BlockInit, BlockNext, PTL DEF Spec, AdmittedIsBelowLimit

\* An address is turned away only within ip-blocklist-time of one of its
\* failures and after enough of them: the time of the entry is that of a
\* failure and its count never runs ahead of them, so that being turned away
\* does not prolong the block.
THEOREM RejectedFailed == Spec => RejectedHasFailed
  <1>1. ASSUME BlockInv, [Next]_vars, NEW c \in Conn, st[c] = "absent", st'[c] = "rejected"
        PROVE  Recent(ip[c]) # {} /\ Cardinality(FailuresOf(ip[c])) >= Attempts
    <2>1. Inv /\ ListInv /\ TypeOK
      BY <1>1 DEF BlockInv, Inv
    <2>2. ip[c] \in Ip /\ now \in Nat /\ listed \in [Ip -> Entry]
      BY <2>1, AddressAssumption DEF TypeOK, Entry
    <2>3. Connect(c)
      BY <1>1, <2>1, OnlyConnect
    <2>4. ~Exempt(ip[c]) /\ ~Elapsed(ip[c]) /\ listed[ip[c]].attempts >= Attempts
      BY <1>1, <2>1, <2>3 DEF Connect, TypeOK, Blocked
    <2>5. EntryTells(ip[c])
      BY <2>1, <2>2, <2>4 DEF ListInv
    <2>6. listed[ip[c]].attempts \in Nat /\ listed[ip[c]].time_blocked \in Nat
      BY <2>2 DEF Entry
    <2>7. PICK f \in FailuresOf(ip[c]) : When(f) = listed[ip[c]].time_blocked
      BY <2>4, <2>5, <2>6 DEF EntryTells
    <2>8. now - failures[f[1]][f[2]] <= BlockTime
      BY <2>2, <2>4, <2>6, <2>7 DEF Elapsed, When
    <2>9. Recent(ip[c]) # {}
      BY <2>7, <2>8 DEF Recent
    <2>10. Cardinality(FailuresOf(ip[c])) \in Nat
      BY <2>5, FS_CardinalityType DEF EntryTells
    <2>11. listed[ip[c]].attempts <= Cardinality(FailuresOf(ip[c]))
      BY <2>5 DEF EntryTells
    <2> QED
      BY <2>4, <2>6, <2>9, <2>10, <2>11
  <1>2. BlockInv /\ [Next]_vars =>
          [\A c \in Conn : st[c] = "absent" /\ st'[c] = "rejected" =>
             /\ Recent(ip[c]) # {}
             /\ Cardinality(FailuresOf(ip[c])) >= Attempts]_vars
    BY <1>1
  <1> QED
    BY <1>2, BlockInit, BlockNext, PTL DEF Spec, RejectedHasFailed

=============================================================================
