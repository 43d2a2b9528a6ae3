-------------------------- MODULE RedisStoreProofs --------------------------
(***************************************************************************)
(* Proofs about the Redis store, for any messages, accounts, batch sizes   *)
(* and number of faults: the passes of the requeue threads never multiply  *)
(* or lose a message, and an account with something stored is polled.      *)
(***************************************************************************)
EXTENDS RedisStore, FiniteSetTheorems, SequenceTheorems, TLAPS

USE KindAssumption, ScenarioAssumption, BoundAssumption

-----------------------------------------------------------------------------
(* The inductive invariant, of the parts of a state it is about: c, A, G and E
   stand for config, add, gid and ended                                      *)

StoredIn(m, c, A) == m \in TableDlr \cap c.offered \/ A[m] \in {"index", "ok"}
SharedIn(m, c, A, G) ==
  \E n \in Msg \ {m} : StoredIn(n, c, A) /\ G[n] = G[m] /\ TableDlr \cap {m, n} = {}
CountedIn(m, c, A, G) == G[m] # 0 \/ ~SharedIn(m, c, A, G)

\* The entries of a store, the items of a pass and of flight, the contents of
\* the lists of an account: stored messages with the number they were given.
Entries(t, c, A, G) ==
  {e \in Entry : /\ e.msg \notin TableDlr /\ StoredIn(e.msg, c, A)
                 /\ e.gid = G[e.msg] /\ TableOf(e.msg) = t}

RightKind(i, G) ==
  /\ i.kind = "mo" => i.msg \in Mo
  /\ i.kind = "mt" => i.msg \in Mt
  /\ i.kind = "report" => i.msg \in Report
  /\ i.kind = "dlr" => i.msg \in TableDlr
  /\ i.kind = "pdu" => i.msg \in Report \cup TableDlr
  /\ i.kind \in {"mo", "mt", "report"} => i.gid = G[i.msg]
Items(c, A, G) == {i \in Item : StoredIn(i.msg, c, A) /\ RightKind(i, G)}

Flight == [msg : Msg, gid : Gid, kind : Kind, st : {"sent", "move", "moved"}]
Flights(c, A, G) ==
  {f \in Flight : /\ StoredIn(f.msg, c, A) /\ RightKind(f, G)
                  /\ f.st # "sent" => f.kind \in {"report", "dlr"}}

StoredPdus(a, c, A) == {m \in Report \cup TableDlr : AccountOf[m] = a /\ StoredIn(m, c, A)}
TableDlrs(a, c) == {m \in TableDlr \cap c.offered : AccountOf[m] = a}

Pass == [pc : PassPc, kind : Kind, acct : Account \cup {NoAccount}, limit : Nat,
         picked : Nat, empty : Nat, some : BOOLEAN, items : Seq(Entry), claimed : Seq(Item)]

TypeInv ==
  /\ config \in Scenarios /\ faults \in 0 .. config.faults
  /\ ids \in [Table -> Nat] /\ gid \in [Msg -> Gid]
  /\ add \in [Msg -> {"new", "push", "index", "ok", "failed"}]
  /\ ended \in [Msg -> {"no", "done", "dropped", "fault"}]
  /\ pending \in [Gid -> Msg \cup {NoMsg}]
  /\ index \in [Table -> SUBSET Account] /\ pduIndex \subseteq Account

\* INCR gives each message of a store a number of its own.
NumberInv ==
  /\ \A t \in Table : ids[t] <= Cardinality({m \in Msg : add[m] # "new"})
  /\ \A m \in Msg : /\ gid[m] <= ids[TableOf(m)]
                    /\ add[m] = "new" => gid[m] = 0
                    /\ m \in TableDlr => add[m] = "new"
                    /\ ended[m] # "no" => StoredIn(m, config, add)
  /\ \A m, n \in Msg : TableOf(m) = TableOf(n) /\ gid[m] = gid[n] /\ gid[m] # 0 => m = n

ListInv ==
  /\ list \in [Table -> Seq(Entry)] /\ pduList \in [Account -> Seq(Msg)]
  /\ dlrList \in [Account -> Seq(TableDlr)]
  /\ \A t \in Table : list[t] \in Seq(Entries(t, config, add, gid))
  /\ \A a \in Account : pduList[a] \in Seq(StoredPdus(a, config, add))
  /\ \A a \in Account : dlrList[a] \in Seq(TableDlrs(a, config))

FlightInv == flight \subseteq Flights(config, add, gid) /\ IsFiniteSet(flight)

Recorded(m, g, c, A, G) == m = NoMsg \/ (m \notin TableDlr /\ StoredIn(m, c, A) /\ G[m] = g)
PendingInv == \A g \in Gid : Recorded(pending[g], g, config, add, gid)

\* What the pass p of thread t holds at each point, and its counters.
Claims(t, kind, c, A, G) ==
  {i \in Items(c, A, G) : IF t = "mover" THEN i.kind = kind ELSE i.kind \notin {"mo", "mt"}}
GoodPass(t, p, c, A, G) ==
  /\ p \in Pass
  /\ p.items \in Seq(Entries(PassTable(p), c, A, G)) /\ p.claimed \in Seq(Claims(t, p.kind, c, A, G))
  /\ p.pc # "item" => p.items = <<>>
  /\ p.pc \in {"idle", "pdu"} => p.claimed = <<>>
  /\ p.picked <= p.limit /\ p.empty <= MaxEmpty
  /\ p.pc = "item" => p.picked + Len(p.items) <= p.limit /\ p.empty < MaxEmpty
  /\ p.pc \in {"pdu", "llen", "srem", "dlr"} => p.acct \in Account /\ p.limit > 0 /\ p.picked = 0
  /\ t = "mover" => p.pc \notin {"pdu", "llen", "srem", "dlr"} /\ p.kind \in {"mo", "mt"}
  /\ t = "requeue" => p.kind # "mt" /\ (p.pc \in {"pop", "item"} => p.kind = "report")
PassInv == pass \in [Thread -> Pass] /\ \A t \in Thread : GoodPass(t, pass[t], config, add, gid)

BaseInv == TypeInv /\ NumberInv /\ ListInv /\ FlightInv /\ PendingInv /\ PassInv

\* Of s, how many are in S.  The copies of m by the places they are in.
HowMany(s, S) == Cardinality({i \in DOMAIN s : s[i] \in S})
With(m) == {x \in Entry \cup Item : x.msg = m}
InStores(m, L) == HowMany(L["store"], With(m)) + HowMany(L["queue"], With(m))
InList(m, D) == HowMany(D[AccountOf[m]], {m})
InPass(m, p) == HowMany(p.items, With(m)) + HowMany(p.claimed, With(m))
InFlightOf(m, F) == Cardinality({f \in F : f.msg = m /\ f.st # "moved"})
Total(m, L, D, T, P, F) ==
  InStores(m, L) + InList(m, D) + InList(m, T) + InPass(m, P["mover"]) + InPass(m, P["requeue"])
  + InFlightOf(m, F)

\* m has n copies as it should.
Fine(m, n, c, A, G, E) ==
  CountedIn(m, c, A, G) =>
    /\ n <= 1
    /\ StoredIn(m, c, A) /\ E[m] = "no" => n = 1 \/ (m \in Mo /\ SharedIn(m, c, A, G))
    /\ E[m] # "no" => n = 0
CopyInv ==
  \A m \in Msg : Fine(m, Total(m, list, pduList, dlrList, pass, flight), config, add, gid, ended)

\* An MO message in the mover's hands is the one recorded under its number, or
\* the record was dropped in the name of another.
ClaimedIn(i, P, c, A, G) ==
  i.kind = "mo" /\ CountedIn(i.msg, c, A, G) =>
    P[i.gid] = i.msg \/ (P[i.gid] = NoMsg /\ SharedIn(i.msg, c, A, G))
ClaimInv ==
  \A k \in DOMAIN pass["mover"].claimed : ClaimedIn(pass["mover"].claimed[k], pending, config, add, gid)

StoreInv == BaseInv /\ CopyInv /\ ClaimInv

PolledInv ==
  faults = 0 => \A m \in Report : add[m] = "ok" => AccountOf[m] \in index["store"]

-----------------------------------------------------------------------------
(* Counting in sequences *)

\* The positions are finitely many.
LEMMA CountType ==
  ASSUME NEW X, NEW s \in Seq(X), NEW S
  PROVE  /\ IsFiniteSet({i \in DOMAIN s : s[i] \in S}) /\ HowMany(s, S) \in Nat
         /\ HowMany(s, S) = 0 <=> \A i \in DOMAIN s : s[i] \notin S
  <1>1. DOMAIN s = 1 .. Len(s) /\ Len(s) \in Nat
    OBVIOUS
  <1>2. IsFiniteSet(1 .. Len(s))
    BY <1>1, FS_Interval
  <1>3. IsFiniteSet({i \in DOMAIN s : s[i] \in S})
    BY <1>1, <1>2, FS_Subset
  <1>4. /\ Cardinality({i \in DOMAIN s : s[i] \in S}) \in Nat
        /\ Cardinality({i \in DOMAIN s : s[i] \in S}) = 0 <=> {i \in DOMAIN s : s[i] \in S} = {}
    BY <1>3, FS_CardinalityType, FS_EmptySet
  <1> QED
    BY <1>3, <1>4 DEF HowMany

\* Nothing is counted in the empty sequence, one at most in one of length one.
LEMMA CountShort ==
  ASSUME NEW x, NEW S
  PROVE  HowMany(<<>>, S) = 0 /\ HowMany(<<x>>, S) = IF x \in S THEN 1 ELSE 0
  <1>1. HowMany(<<>>, S) = 0
    <2>1. {i \in DOMAIN <<>> : <<>>[i] \in S} = {}
      OBVIOUS
    <2> QED
      BY <2>1, FS_EmptySet DEF HowMany
  <1>2. HowMany(<<x>>, S) = IF x \in S THEN 1 ELSE 0
    <2>1. {i \in DOMAIN <<x>> : <<x>>[i] \in S} = IF x \in S THEN {1} ELSE {}
      OBVIOUS
    <2>2. Cardinality({1}) = 1 /\ Cardinality({}) = 0
      BY FS_Singleton, FS_EmptySet
    <2> QED
      BY <2>1, <2>2 DEF HowMany
  <1> QED
    BY <1>1, <1>2

\* The counts of two sequences add up.
LEMMA CountConcat ==
  ASSUME NEW X, NEW s \in Seq(X), NEW t \in Seq(X), NEW S
  PROVE  HowMany(s \o t, S) = HowMany(s, S) + HowMany(t, S)
  <1> DEFINE A == {i \in DOMAIN s : s[i] \in S}
             B == {i \in DOMAIN t : t[i] \in S}
             C == {i \in DOMAIN (s \o t) : (s \o t)[i] \in S}
             D == {i \in DOMAIN (s \o t) : i > Len(s) /\ (s \o t)[i] \in S}
             f == [i \in B |-> i + Len(s)]
  <1>0. /\ Len(s) \in Nat /\ Len(t) \in Nat /\ DOMAIN s = 1 .. Len(s) /\ DOMAIN t = 1 .. Len(t)
        /\ DOMAIN (s \o t) = 1 .. (Len(s) + Len(t))
        /\ \A i \in 1 .. Len(s) : (s \o t)[i] = s[i]
        /\ \A i \in 1 .. Len(t) : (s \o t)[i + Len(s)] = t[i]
    OBVIOUS
  <1>1. IsFiniteSet(A) /\ IsFiniteSet(B) /\ Cardinality(A) \in Nat /\ Cardinality(B) \in Nat
    <2>1. IsFiniteSet(A) /\ IsFiniteSet(B)
      BY CountType
    <2> HIDE DEF A, B
    <2> QED
      BY <2>1, FS_CardinalityType
  <1>2. f \in Bijection(B, D)
    <2>1. \A i \in B : i + Len(s) \in D
      BY <1>0
    <2>2. f \in [B -> D]
      BY <2>1
    <2>3. \A i, j \in B : f[i] = f[j] => i = j
      BY <1>0
    <2>4. \A d \in D : \E i \in B : f[i] = d
      <3> SUFFICES ASSUME NEW d \in D
                   PROVE  \E i \in B : f[i] = d
        OBVIOUS
      <3>1. d - Len(s) \in 1 .. Len(t) /\ d = (d - Len(s)) + Len(s)
        BY <1>0
      <3>2. d - Len(s) \in B
        BY <1>0, <3>1
      <3> QED
        BY <3>1, <3>2
    <2> QED
      BY <2>2, <2>3, <2>4 DEF Bijection, Injection, Surjection, IsInjective
  <1>3. IsFiniteSet(D) /\ Cardinality(D) = Cardinality(B)
    <2>1. ExistsBijection(B, D)
      BY <1>2 DEF ExistsBijection
    <2> HIDE DEF B, D
    <2> QED
      BY <1>1, <2>1, FS_Bijection
  <1>4. C = A \cup D /\ A \cap D = {}
    BY <1>0
  <1>5. Cardinality(C) = Cardinality(A) + Cardinality(D)
    <2> HIDE DEF A, B, C, D
    <2>1. Cardinality(A \cup D) = Cardinality(A) + Cardinality(D) - Cardinality(A \cap D)
      BY <1>1, <1>3, FS_Union
    <2>2. Cardinality(A \cap D) = 0
      BY <1>4, FS_EmptySet
    <2>3. C = A \cup D
      BY <1>4
    <2> QED
      BY <1>1, <1>3, <2>1, <2>2, <2>3
  <1> QED
    BY <1>3, <1>5 DEF HowMany

\* Taking one from the head, and putting one at either end.
LEMMA CountEnds ==
  ASSUME NEW X, NEW s \in Seq(X), NEW x \in X, NEW S
  PROVE  /\ HowMany(<<x>> \o s, S) = HowMany(s, S) + IF x \in S THEN 1 ELSE 0
         /\ HowMany(Append(s, x), S) = HowMany(s, S) + IF x \in S THEN 1 ELSE 0
  <1>0. <<x>> \in Seq(X)
    OBVIOUS
  <1>1. PICK y \in Seq(X) : y = <<x>>
    BY <1>0
  <1>2. HowMany(s, S) \in Nat /\ HowMany(y, S) = IF x \in S THEN 1 ELSE 0
    BY <1>1, CountType, CountShort
  <1>3. HowMany(y \o s, S) = HowMany(y, S) + HowMany(s, S) /\ HowMany(s \o y, S) = HowMany(s, S) + HowMany(y, S)
    BY CountConcat
  <1>4. Append(s, x) = s \o y
    BY <1>1, AppendIsConcat
  <1> QED
    BY <1>1, <1>2, <1>3, <1>4

\* LPOP takes one from the count exactly if the head is counted.
LEMMA CountHead ==
  ASSUME NEW X, NEW s \in Seq(X), s # <<>>, NEW S
  PROVE  /\ Tail(s) \in Seq(X) /\ Head(s) \in X /\ HowMany(Tail(s), S) \in Nat
         /\ HowMany(s, S) = HowMany(Tail(s), S) + IF Head(s) \in S THEN 1 ELSE 0
  <1>1. Tail(s) \in Seq(X) /\ Head(s) \in X
    BY HeadTailProperties
  <1>2. s = <<Head(s)>> \o Tail(s)
    OBVIOUS
  <1>3. HowMany(<<Head(s)>> \o Tail(s), S) = HowMany(Tail(s), S) + IF Head(s) \in S THEN 1 ELSE 0
    <2>1. PICK h \in X : h = Head(s)
      BY <1>1
    <2>2. PICK r \in Seq(X) : r = Tail(s)
      BY <1>1
    <2>3. HowMany(<<h>> \o r, S) = HowMany(r, S) + IF h \in S THEN 1 ELSE 0
      BY CountEnds
    <2> QED
      BY <2>1, <2>2, <2>3
  <1>4. HowMany(Tail(s), S) \in Nat
    BY <1>1, CountType
  <1> QED
    BY <1>1, <1>2, <1>3, <1>4

\* LPOP of several: what is popped and what is left.
LEMMA PopSplits ==
  ASSUME NEW X, NEW s \in Seq(X), NEW n \in Nat
  PROVE  /\ Popped(s, n) \in Seq(X) /\ Rest(s, n) \in Seq(X) /\ Len(Popped(s, n)) <= n
         /\ \A S : HowMany(s, S) = HowMany(Popped(s, n), S) + HowMany(Rest(s, n), S)
  <1> DEFINE k == IF n < Len(s) THEN n ELSE Len(s)
  <1>1. k \in Nat /\ k <= Len(s) /\ k <= n
    OBVIOUS
  <1>2. Popped(s, n) = SubSeq(s, 1, k) /\ Rest(s, n) = SubSeq(s, k + 1, Len(s))
    BY DEF Popped, Rest
  <1> HIDE DEF k
  <1>3. SubSeq(s, 1, k) \in Seq(X) /\ SubSeq(s, k + 1, Len(s)) \in Seq(X) /\ Len(SubSeq(s, 1, k)) = k
    BY <1>1
  <1>4. SubSeq(s, 1, k) \o SubSeq(s, k + 1, Len(s)) = s
    <2>1. /\ 1 \in 1 .. Len(s) + 1 /\ k \in 1 - 1 .. Len(s) /\ Len(s) \in k .. Len(s)
      BY <1>1
    <2>2. SubSeq(s, 1, k) \o SubSeq(s, k + 1, Len(s)) = SubSeq(s, 1, Len(s))
      BY <2>1, ConcatAdjacentSubSeq
    <2> QED
      BY <2>2, SubSeqFull
  <1>5. ASSUME NEW S
        PROVE  HowMany(s, S) = HowMany(SubSeq(s, 1, k), S) + HowMany(SubSeq(s, k + 1, Len(s)), S)
    <2>1. PICK a \in Seq(X) : a = SubSeq(s, 1, k)
      BY <1>3
    <2>2. PICK b \in Seq(X) : b = SubSeq(s, k + 1, Len(s))
      BY <1>3
    <2>3. HowMany(a \o b, S) = HowMany(a, S) + HowMany(b, S)
      BY CountConcat
    <2> QED
      BY <1>4, <2>1, <2>2, <2>3
  <1> QED
    BY <1>1, <1>2, <1>3, <1>5

-----------------------------------------------------------------------------
(* Types, numbers and places *)

\* The names of the two stores and the two threads.
LEMMA Names ==
  /\ "store" \in Table /\ "queue" \in Table /\ "mover" \in Thread /\ "requeue" \in Thread
  /\ \A m : TableOf(m) \in Table
  /\ \A p : PassTable(p) \in Table
  BY DEF Table, Thread, TableOf, PassTable

\* Messages are finitely many, and so are their numbers.
LEMMA NumbersFinite ==
  /\ IsFiniteSet(Msg) /\ Cardinality(Msg) \in Nat /\ 0 \in Gid /\ Gid \subseteq Nat
  <1>1. IsFiniteSet(Msg) /\ Cardinality(Msg) \in Nat
    BY FS_CardinalityType
  <1> QED
    BY <1>1 DEF Gid

\* A failed command is counted.
LEMMA FaultStep ==
  ASSUME TypeInv, Fault
  PROVE  faults' \in 0 .. config.faults /\ faults' # 0
  BY DEF TypeInv, Fault

\* Messages stay stored, with their numbers, and so what is made of them stays
\* well formed.
LEMMA StaysGood ==
  ASSUME NEW c, NEW A, NEW G, NEW A2, NEW G2,
         \A m \in Msg : StoredIn(m, c, A) => StoredIn(m, c, A2) /\ (m \notin TableDlr => G2[m] = G[m])
  PROVE  /\ \A t : Entries(t, c, A, G) \subseteq Entries(t, c, A2, G2)
         /\ \A t, k : Claims(t, k, c, A, G) \subseteq Claims(t, k, c, A2, G2)
         /\ Flights(c, A, G) \subseteq Flights(c, A2, G2)
         /\ \A a : StoredPdus(a, c, A) \subseteq StoredPdus(a, c, A2)
         /\ \A m \in Msg \cup {NoMsg} : \A g : Recorded(m, g, c, A, G) => Recorded(m, g, c, A2, G2)
         /\ \A t, p : GoodPass(t, p, c, A, G) => GoodPass(t, p, c, A2, G2)
  <1>1. \A t : Entries(t, c, A, G) \subseteq Entries(t, c, A2, G2)
    BY DEF Entries, Entry
  <1>2. \A i : i.msg \in Msg /\ StoredIn(i.msg, c, A) /\ RightKind(i, G) => StoredIn(i.msg, c, A2) /\ RightKind(i, G2)
    BY DEF RightKind
  <1>3. Items(c, A, G) \subseteq Items(c, A2, G2)
    BY <1>2 DEF Items, Item
  <1>4. \A t, k : Claims(t, k, c, A, G) \subseteq Claims(t, k, c, A2, G2)
    BY <1>3 DEF Claims
  <1>5. Flights(c, A, G) \subseteq Flights(c, A2, G2)
    BY <1>2 DEF Flights, Flight
  <1>6. \A a : StoredPdus(a, c, A) \subseteq StoredPdus(a, c, A2)
    BY DEF StoredPdus, Msg
  <1>7. \A m \in Msg \cup {NoMsg} : \A g : Recorded(m, g, c, A, G) => Recorded(m, g, c, A2, G2)
    BY DEF Recorded
  <1>8. ASSUME NEW t, NEW p, GoodPass(t, p, c, A, G)
        PROVE  GoodPass(t, p, c, A2, G2)
    <2>1. p.items \in Seq(Entries(PassTable(p), c, A2, G2))
      BY <1>1, <1>8, SeqMonotonic DEF GoodPass
    <2>2. p.claimed \in Seq(Claims(t, p.kind, c, A2, G2))
      BY <1>4, <1>8, SeqMonotonic DEF GoodPass
    <2> QED
      BY <1>8, <2>1, <2>2 DEF GoodPass
  <1> QED
    BY <1>1, <1>4, <1>5, <1>6, <1>7, <1>8

\* A step of the threads that add messages keeps what was in place.
LEMMA AddKeeps ==
  ASSUME BaseInv, UNCHANGED <<config, pduVars, dlrList, pending, pass, flight>>,
         \A m \in Msg : StoredIn(m, config, add) => StoredIn(m, config, add') /\ (m \notin TableDlr => gid'[m] = gid[m])
  PROVE  /\ \A t \in Table : list[t] \in Seq(Entries(t, config, add', gid'))
         /\ \A a \in Account : pduList[a] \in Seq(StoredPdus(a, config, add'))
         /\ FlightInv' /\ PendingInv' /\ PassInv'
  <1>1. /\ \A t : Entries(t, config, add, gid) \subseteq Entries(t, config, add', gid')
        /\ Flights(config, add, gid) \subseteq Flights(config, add', gid')
        /\ \A a : StoredPdus(a, config, add) \subseteq StoredPdus(a, config, add')
        /\ \A m \in Msg \cup {NoMsg} : \A g : Recorded(m, g, config, add, gid) => Recorded(m, g, config, add', gid')
        /\ \A t, p : GoodPass(t, p, config, add, gid) => GoodPass(t, p, config, add', gid')
    BY StaysGood
  <1>2. \A t \in Table : list[t] \in Seq(Entries(t, config, add', gid'))
    BY <1>1, SeqMonotonic DEF BaseInv, ListInv
  <1>3. \A a \in Account : pduList[a] \in Seq(StoredPdus(a, config, add'))
    BY <1>1, SeqMonotonic DEF BaseInv, ListInv
  <1>4. FlightInv'
    BY <1>1 DEF BaseInv, FlightInv
  <1>5. PendingInv'
    BY <1>1 DEF BaseInv, PendingInv, TypeInv
  <1>6. PassInv'
    BY <1>1 DEF BaseInv, PassInv
  <1> QED
    BY <1>2, <1>3, <1>4, <1>5, <1>6

\* INCR.
LEMMA BaseAddIncr ==
  ASSUME BaseInv, NEW m \in Msg, AddIncr(m)
  PROVE  BaseInv'
  <1>0. /\ m \in config.offered \ TableDlr /\ add[m] = "new" /\ add' = [add EXCEPT ![m] = "push"]
        /\ UNCHANGED <<config, list, index, pduVars, dlrList, pending, pass, flight, ended>>
    BY DEF AddIncr
  <1>1. CASE gid' = [gid EXCEPT ![m] = ids[TableOf(m)] + 1] /\ ids' = [ids EXCEPT ![TableOf(m)] = @ + 1] /\ UNCHANGED faults
    <2>0. /\ add \in [Msg -> {"new", "push", "index", "ok", "failed"}] /\ gid \in [Msg -> Gid] /\ ids \in [Table -> Nat]
          /\ TableOf(m) \in Table
      BY Names DEF BaseInv, TypeInv
    <2>1. /\ \A n \in Msg : add'[n] = IF n = m THEN "push" ELSE add[n]
          /\ \A n \in Msg : gid'[n] = IF n = m THEN ids[TableOf(m)] + 1 ELSE gid[n]
          /\ \A t \in Table : ids'[t] = IF t = TableOf(m) THEN ids[t] + 1 ELSE ids[t]
      BY <1>0, <1>1, <2>0
    <2>2. /\ \A t \in Table : ids'[t] <= Cardinality({n \in Msg : add'[n] # "new"})
          /\ \A t \in Table : ids'[t] <= Cardinality(Msg)
      <3> DEFINE S == {n \in Msg : add[n] # "new"}
                 S2 == {n \in Msg : add'[n] # "new"}
      <3>1. S2 = S \cup {m} /\ m \notin S
        BY <1>0, <2>1
      <3>2. IsFiniteSet(S) /\ S2 \subseteq Msg
        BY NumbersFinite, FS_Subset
      <3>3. \A t \in Table : ids[t] <= Cardinality(S) /\ ids[t] \in Nat
        BY <2>0 DEF BaseInv, NumberInv
      <3> HIDE DEF S, S2
      <3>4. Cardinality(S \cup {m}) = Cardinality(S) + 1 /\ Cardinality(S) \in Nat
        BY <3>1, <3>2, FS_AddElement, FS_CardinalityType
      <3>5. Cardinality(S2) <= Cardinality(Msg) /\ Cardinality(S2) = Cardinality(S) + 1
        BY <3>1, <3>2, <3>4, NumbersFinite, FS_Subset
      <3>6. \A t \in Table : ids'[t] <= Cardinality(S2) /\ ids'[t] \in Nat
        BY <2>1, <3>3, <3>4, <3>5
      <3> QED
        BY <3>4, <3>5, <3>6, NumbersFinite DEF S2
    <2>3. gid' \in [Msg -> Gid]
      <3>1. ids[TableOf(m)] + 1 \in Gid
        BY <2>0, <2>1, <2>2, NumbersFinite DEF Gid
      <3> QED
        BY <1>1, <2>0, <3>1
    <2>4. TypeInv'
      BY <1>0, <1>1, <2>0, <2>3 DEF BaseInv, TypeInv, pduVars
    <2>5. \A n \in Msg : StoredIn(n, config, add) <=> StoredIn(n, config, add')
      BY <1>0, <2>1 DEF StoredIn
    <2>6. \A n \in Msg : StoredIn(n, config, add) => StoredIn(n, config, add') /\ (n \notin TableDlr => gid'[n] = gid[n])
      BY <1>0, <2>1, <2>5 DEF StoredIn
    <2>7. NumberInv'
      <3>1. \A n \in Msg : /\ gid'[n] <= ids'[TableOf(n)]
                           /\ add'[n] = "new" => gid'[n] = 0
                           /\ n \in TableDlr => add'[n] = "new"
        <4> SUFFICES ASSUME NEW n \in Msg
                     PROVE  /\ gid'[n] <= ids'[TableOf(n)]
                            /\ add'[n] = "new" => gid'[n] = 0
                            /\ n \in TableDlr => add'[n] = "new"
          OBVIOUS
        <4>1. TableOf(n) \in Table /\ gid[n] \in Nat /\ ids[TableOf(n)] \in Nat
          BY <2>0, Names, NumbersFinite
        <4>2. gid[n] <= ids[TableOf(n)] /\ (add[n] = "new" => gid[n] = 0) /\ (n \in TableDlr => add[n] = "new")
          BY DEF BaseInv, NumberInv
        <4> QED
          BY <1>0, <2>1, <4>1, <4>2
      <3>2. \A n \in Msg : ended'[n] # "no" => StoredIn(n, config', add')
        BY <1>0, <2>5 DEF BaseInv, NumberInv
      <3>3. \A x, y \in Msg : TableOf(x) = TableOf(y) /\ gid'[x] = gid'[y] /\ gid'[x] # 0 => x = y
        <4> SUFFICES ASSUME NEW x \in Msg, NEW y \in Msg, TableOf(x) = TableOf(y), gid'[x] = gid'[y], gid'[x] # 0
                     PROVE  x = y
          OBVIOUS
        <4>1. /\ gid[x] <= ids[TableOf(x)] /\ gid[y] <= ids[TableOf(y)] /\ gid[x] \in Nat /\ gid[y] \in Nat
              /\ TableOf(x) \in Table /\ ids[TableOf(x)] \in Nat
              /\ (gid[x] = gid[y] /\ gid[x] # 0 => x = y)
          BY <2>0, Names, NumbersFinite DEF BaseInv, NumberInv
        <4> QED
          BY <2>1, <4>1
      <3> QED
        BY <2>2, <3>1, <3>2, <3>3 DEF NumberInv
    <2>8. FlightInv' /\ PendingInv' /\ PassInv' /\ ListInv'
      BY <1>0, <2>6, AddKeeps DEF BaseInv, ListInv, pduVars
    <2> QED
      BY <2>4, <2>7, <2>8 DEF BaseInv
  <1>2. CASE Fault /\ UNCHANGED <<ids, gid>>
    <2>0. add \in [Msg -> {"new", "push", "index", "ok", "failed"}]
      BY DEF BaseInv, TypeInv
    <2>1. \A n \in Msg : add'[n] = IF n = m THEN "push" ELSE add[n]
      BY <1>0, <2>0
    <2>2. TypeInv'
      BY <1>0, <1>2, <2>0, FaultStep DEF BaseInv, TypeInv, pduVars
    <2>3. \A n \in Msg : StoredIn(n, config, add) <=> StoredIn(n, config, add')
      BY <1>0, <2>1 DEF StoredIn
    <2>4. NumberInv'
      <3> DEFINE S == {n \in Msg : add[n] # "new"}
                 S2 == {n \in Msg : add'[n] # "new"}
      <3>1. S \subseteq S2 /\ S2 \subseteq Msg
        BY <2>1
      <3>2. IsFiniteSet(S2) /\ IsFiniteSet(S)
        BY NumbersFinite, FS_Subset
      <3>3. \A t \in Table : ids[t] <= Cardinality(S) /\ ids[t] \in Nat
        BY DEF BaseInv, NumberInv, TypeInv
      <3>4. \A t \in Table : ids[t] <= Cardinality(S2)
        <4> HIDE DEF S, S2
        <4>1. Cardinality(S) <= Cardinality(S2) /\ Cardinality(S) \in Nat /\ Cardinality(S2) \in Nat
          BY <3>1, <3>2, FS_Subset, FS_CardinalityType
        <4> QED
          BY <3>3, <4>1
      <3>5. \A n \in Msg : /\ gid'[n] <= ids'[TableOf(n)]
                           /\ add'[n] = "new" => gid'[n] = 0
                           /\ n \in TableDlr => add'[n] = "new"
                           /\ ended'[n] # "no" => StoredIn(n, config', add')
        BY <1>0, <1>2, <2>1, <2>3 DEF BaseInv, NumberInv
      <3> QED
        BY <1>2, <3>4, <3>5 DEF BaseInv, NumberInv
    <2>5. FlightInv' /\ PendingInv' /\ PassInv' /\ ListInv'
      BY <1>0, <1>2, <2>3, AddKeeps DEF BaseInv, ListInv, pduVars
    <2> QED
      BY <2>2, <2>4, <2>5 DEF BaseInv
  <1> QED
    BY <1>1, <1>2 DEF AddIncr

\* Steps other than INCR change no number.
LEMMA NumbersKept ==
  ASSUME BaseInv, UNCHANGED <<config, ids, gid>>,
         \A n \in Msg : add'[n] = "new" <=> add[n] = "new",
         \A n \in Msg : ended'[n] # "no" => StoredIn(n, config, add')
  PROVE  NumberInv'
  <1>1. {m \in Msg : add'[m] # "new"} = {m \in Msg : add[m] # "new"}
    OBVIOUS
  <1> QED
    BY <1>1 DEF BaseInv, NumberInv

\* LPUSH puts an entry of the store in front of its list.
LEMMA PushStep ==
  ASSUME ListInv, NEW t \in Table, NEW A, NEW G, NEW e \in Entries(t, config, A, G), LPush(t, e),
         \A u \in Table : list[u] \in Seq(Entries(u, config, A, G))
  PROVE  /\ list' \in [Table -> Seq(Entry)]
         /\ \A u \in Table : list'[u] \in Seq(Entries(u, config, A, G))
         /\ \A u \in Table : list'[u] = IF u = t THEN <<e>> \o list[u] ELSE list[u]
  <1>1. \A u \in Table : list'[u] = IF u = t THEN <<e>> \o list[u] ELSE list[u]
    BY DEF LPush, ListInv
  <1>2. e \in Entry /\ list[t] \in Seq(Entry)
    BY DEF Entries, ListInv
  <1>3. <<e>> \o list[t] \in Seq(Entry) /\ <<e>> \o list[t] \in Seq(Entries(t, config, A, G))
    BY <1>2
  <1>4. list' \in [Table -> Seq(Entry)]
    BY <1>3 DEF LPush, ListInv
  <1> QED
    BY <1>1, <1>3, <1>4

\* LPUSH of a new message, and SADD.
LEMMA BaseAddPush ==
  ASSUME BaseInv, NEW m \in Msg, AddPush(m) \/ AddIndex(m)
  PROVE  BaseInv'
  <1>0. UNCHANGED <<config, ids, pduVars, dlrList, gid, pending, pass, flight, ended>>
    BY DEF AddPush, AddIndex
  <1>1. PICK a \in {"index", "ok", "failed"} :
          /\ add' = [add EXCEPT ![m] = a] /\ add[m] = (IF a = "ok" THEN "index" ELSE "push")
          /\ IF a = "index" THEN LPush(TableOf(m), [msg |-> m, gid |-> gid[m]]) ELSE list' = list
    BY DEF AddPush, AddIndex
  <1>2. \A n \in Msg : add'[n] = IF n = m THEN a ELSE add[n]
    BY <1>1 DEF BaseInv, TypeInv
  <1>3. \A n \in Msg : StoredIn(n, config, add) => StoredIn(n, config, add')
    BY <1>1, <1>2 DEF StoredIn
  <1>4. TypeInv'
    <2>1. faults' \in 0 .. config.faults /\ index' \in [Table -> SUBSET Account]
      <3>1. CASE AddPush(m)
        BY <3>1, FaultStep DEF AddPush, BaseInv, TypeInv
      <3>2. CASE AddIndex(m)
        <4>1. AccountOf[m] \in Account /\ TableOf(m) \in Table
          BY Names
        <4> QED
          BY <3>2, <4>1, FaultStep DEF AddIndex, BaseInv, TypeInv
      <3> QED
        BY <3>1, <3>2
    <2> QED
      BY <1>0, <1>1, <2>1 DEF BaseInv, TypeInv, pduVars
  <1>5. NumberInv'
    <2>1. \A n \in Msg : add'[n] = "new" <=> add[n] = "new"
      BY <1>1, <1>2
    <2>2. \A n \in Msg : ended'[n] # "no" => StoredIn(n, config, add')
      BY <1>0, <1>3 DEF BaseInv, NumberInv
    <2> QED
      BY <1>0, <2>1, <2>2, NumbersKept
  <1>6. /\ \A t \in Table : list[t] \in Seq(Entries(t, config, add', gid'))
        /\ \A b \in Account : pduList[b] \in Seq(StoredPdus(b, config, add'))
        /\ FlightInv' /\ PendingInv' /\ PassInv'
    BY <1>0, <1>3, AddKeeps
  <1>7. list' \in [Table -> Seq(Entry)] /\ \A t \in Table : list'[t] \in Seq(Entries(t, config, add', gid'))
    <2>1. CASE a = "index"
      <3>1. [msg |-> m, gid |-> gid[m]] \in Entries(TableOf(m), config, add', gid')
        <4>1. m \notin TableDlr /\ gid[m] \in Gid
          BY <1>1, <2>1 DEF BaseInv, NumberInv, TypeInv
        <4>2. StoredIn(m, config, add')
          BY <1>2, <2>1 DEF StoredIn
        <4> QED
          BY <1>0, <4>1, <4>2 DEF Entries, Entry
      <3>2. PICK e \in Entries(TableOf(m), config, add', gid') : LPush(TableOf(m), e)
        BY <1>1, <2>1, <3>1
      <3>3. ListInv /\ TableOf(m) \in Table
        BY Names DEF BaseInv
      <3> QED
        BY <1>6, <3>2, <3>3, PushStep
    <2>2. CASE a # "index"
      BY <1>1, <1>6, <2>2 DEF BaseInv, ListInv
    <2> QED
      BY <2>1, <2>2
  <1>8. ListInv'
    BY <1>0, <1>6, <1>7 DEF BaseInv, ListInv, pduVars
  <1> QED
    BY <1>4, <1>5, <1>6, <1>8 DEF BaseInv

-----------------------------------------------------------------------------
(* Steps of a pass *)

\* Other threads' passes stay as they are.
LEMMA PassStays ==
  ASSUME PassInv, UNCHANGED <<config, add, gid>>, NEW t \in Thread, NEW q,
         pass' = [pass EXCEPT ![t] = q], GoodPass(t, q, config, add, gid)
  PROVE  PassInv' /\ \A u \in Thread : pass'[u] = IF u = t THEN q ELSE pass[u]
  <1>1. q \in Pass
    BY DEF GoodPass
  <1> QED
    BY <1>1 DEF PassInv

\* The fields of a pass that begins with get_stored, or leaves it.
LEMMA PassFields ==
  ASSUME NEW p \in Pass, NEW kind \in Kind, NEW n \in Nat
  PROVE  /\ GetStored(p, kind, n) \in Pass /\ GetStored(p, kind, n).pc = "pop"
         /\ GetStored(p, kind, n).kind = kind /\ GetStored(p, kind, n).limit = n
         /\ GetStored(p, kind, n).picked = 0 /\ GetStored(p, kind, n).empty = 0
         /\ GetStored(p, kind, n).items = p.items /\ GetStored(p, kind, n).claimed = p.claimed
         /\ Handing(p) \in Pass /\ Handing(p).pc = "deliver" /\ Handing(p).kind = p.kind
         /\ Handing(p).picked = 0 /\ Handing(p).limit = 0 /\ Handing(p).empty = 0
         /\ Handing(p).items = p.items /\ Handing(p).claimed = p.claimed
  <1>1. {"pop", "deliver"} \subseteq PassPc
    BY DEF PassPc
  <1> QED
    BY <1>1 DEF GetStored, Handing, Pass

\* A pass with nothing in it.
LEMMA IdleIsGood ==
  ASSUME NEW c, NEW A, NEW G
  PROVE  /\ \A t : GoodPass(t, Idle, c, A, G)
         /\ \A kind \in {"mo", "mt"} : GoodPass("mover", GetStored(Idle, kind, Batch), c, A, G)
         /\ \A a \in Account, n \in Nat \ {0} :
              GoodPass("requeue", [Idle EXCEPT !.pc = "pdu", !.acct = a, !.limit = n], c, A, G)
  <1>1. \A S : <<>> \in Seq(S)
    BY EmptySeq
  <1>2. Len(<<>>) = 0 /\ Batch \in Nat /\ MaxEmpty \in Nat
    OBVIOUS
  <1>3. PICK p \in Pass : p = Idle
    BY <1>1 DEF Idle, Pass, PassPc, Kind
  <1>4. p.items = <<>> /\ p.claimed = <<>> /\ p.pc = "idle" /\ p.picked = 0 /\ p.limit = 0 /\ p.empty = 0 /\ p.kind = "mo"
    BY <1>3 DEF Idle
  <1>5. \A t : GoodPass(t, p, c, A, G)
    BY <1>1, <1>2, <1>4 DEF GoodPass
  <1>6. ASSUME NEW kind \in {"mo", "mt"}
        PROVE  GoodPass("mover", GetStored(p, kind, Batch), c, A, G)
    <2>1. PICK q \in Pass : /\ q = GetStored(p, kind, Batch) /\ q.items = <<>> /\ q.claimed = <<>> /\ q.pc = "pop"
                            /\ q.picked = 0 /\ q.limit = Batch /\ q.empty = 0 /\ q.kind = kind
      <3>1. kind \in Kind
        BY DEF Kind
      <3> QED
        BY <1>2, <1>4, <3>1, PassFields
    <2>2. GoodPass("mover", q, c, A, G)
      BY <1>1, <1>2, <2>1 DEF GoodPass
    <2> QED
      BY <2>1, <2>2
  <1>7. ASSUME NEW a \in Account, NEW n \in Nat \ {0}
        PROVE  GoodPass("requeue", [p EXCEPT !.pc = "pdu", !.acct = a, !.limit = n], c, A, G)
    <2>1. "pdu" \in PassPc
      BY DEF PassPc
    <2>2. PICK q : q = [p EXCEPT !.pc = "pdu", !.acct = a, !.limit = n]
      OBVIOUS
    <2>3. q \in Pass
      BY <2>1, <2>2 DEF Pass
    <2>4. /\ q.items = p.items /\ q.claimed = p.claimed /\ q.pc = "pdu" /\ q.acct = a
          /\ q.picked = p.picked /\ q.limit = n /\ q.empty = p.empty /\ q.kind = p.kind
      BY <2>2 DEF Pass
    <2>5. n \in Nat /\ n > 0 /\ 0 <= n /\ 0 <= MaxEmpty
      OBVIOUS
    <2>6. q.items = <<>> /\ q.claimed = <<>> /\ q.picked = 0 /\ q.empty = 0 /\ q.kind = "mo"
      BY <1>4, <2>4
    <2>7. GoodPass("requeue", q, c, A, G)
      BY <1>1, <2>3, <2>4, <2>5, <2>6 DEF GoodPass
    <2> QED
      BY <2>2, <2>7
  <1> QED
    BY <1>3, <1>5, <1>6, <1>7

\* A step that changes a pass and, at most, the set of accounts with PDUs.
LEMMA BaseQuiet ==
  ASSUME BaseInv, UNCHANGED <<config, storeVars, pduList, dlrList, addVars, pending, flight, ended, faults>>,
         pduIndex' \subseteq Account, PassInv'
  PROVE  BaseInv'
  <1>1. TypeInv' /\ ListInv'
    BY DEF BaseInv, TypeInv, ListInv, storeVars, addVars
  <1>2. FlightInv' /\ PendingInv'
    BY DEF BaseInv, FlightInv, PendingInv, addVars
  <1>3. NumberInv'
    BY DEF BaseInv, NumberInv, storeVars, addVars
  <1> QED
    BY <1>1, <1>2, <1>3 DEF BaseInv

\* Passes begin and end.
LEMMA BasePasses ==
  ASSUME BaseInv,
         \/ MoverStart \/ (\E a \in Account, room \in config.rooms : RequeueStart(a, room))
         \/ (\E t \in Thread : BatchEnd(t) \/ PassEnd(t)) \/ CheckEmpty \/ Unindex
  PROVE  BaseInv'
  <1>0. /\ UNCHANGED <<config, storeVars, pduList, dlrList, addVars, pending, flight, ended, faults>>
        /\ pduIndex' \subseteq Account
    BY DEF MoverStart, RequeueStart, BatchEnd, PassEnd, CheckEmpty, Unindex, pduVars, BaseInv, TypeInv
  <1>1. UNCHANGED <<config, add, gid>> /\ PassInv
    BY <1>0 DEF addVars, BaseInv
  <1>2. CASE MoverStart
    <2>1. pass' = [pass EXCEPT !["mover"] = GetStored(Idle, "mt", Batch)]
      BY <1>2 DEF MoverStart
    <2> QED
      BY <1>0, <1>1, <2>1, Names, IdleIsGood, PassStays, BaseQuiet
  <1>3. CASE \E a \in Account, room \in config.rooms : RequeueStart(a, room)
    <2>1. PICK a \in Account, room \in config.rooms :
             pass' = [pass EXCEPT !["requeue"] = [Idle EXCEPT !.pc = "pdu", !.acct = a, !.limit = room]]
      BY <1>3 DEF RequeueStart
    <2>2. room \in Nat \ {0}
      BY DEF BaseInv, TypeInv
    <2>3. GoodPass("requeue", [Idle EXCEPT !.pc = "pdu", !.acct = a, !.limit = room], config, add, gid)
      BY <2>2, IdleIsGood
    <2> QED
      BY <1>0, <1>1, <2>1, <2>3, Names, PassStays, BaseQuiet
  <1>4. CASE \E t \in Thread : PassEnd(t)
    <2>1. PICK t \in Thread : PassEnd(t)
      BY <1>4
    <2>2. pass' = [pass EXCEPT ![t] = IF pass[t].kind = "mt" THEN GetStored(Idle, "mo", Batch) ELSE Idle]
      BY <2>1 DEF PassEnd
    <2>3. pass[t].kind = "mt" => t = "mover"
      BY DEF BaseInv, PassInv, GoodPass, Thread
    <2>4. GoodPass(t, IF pass[t].kind = "mt" THEN GetStored(Idle, "mo", Batch) ELSE Idle, config, add, gid)
      <3>1. CASE pass[t].kind = "mt"
        <4>1. GoodPass("mover", GetStored(Idle, "mo", Batch), config, add, gid)
          BY IdleIsGood
        <4> QED
          BY <2>3, <3>1, <4>1
      <3>2. CASE pass[t].kind # "mt"
        BY <3>2, IdleIsGood
      <3> QED
        BY <3>1, <3>2
    <2> QED
      BY <1>0, <1>1, <2>2, <2>4, PassStays, BaseQuiet
  <1>5. CASE \E t \in Thread : BatchEnd(t)
    <2>1. PICK t \in Thread : BatchEnd(t)
      BY <1>5
    <2>2. pass[t] \in Pass /\ GoodPass(t, pass[t], config, add, gid)
      BY DEF BaseInv, PassInv
    <2>n. PICK n \in Nat : n = IF pass[t].some THEN 0 ELSE pass[t].empty + 1
      BY <2>2 DEF Pass
    <2>3. PICK q : q = [pass[t] EXCEPT !.pc = "pop", !.empty = n]
      OBVIOUS
    <2>4. pass' = [pass EXCEPT ![t] = q] /\ pass[t].pc = "item" /\ pass[t].items = <<>>
      BY <2>1, <2>n, <2>3 DEF BatchEnd, BaseInv, PassInv
    <2>5. /\ q.pc = "pop" /\ q.empty = n /\ q.items = pass[t].items
          /\ q.claimed = pass[t].claimed /\ q.kind = pass[t].kind /\ q.limit = pass[t].limit
          /\ q.picked = pass[t].picked
      BY <2>2, <2>3 DEF Pass
    <2>6. q \in Pass
      BY <2>2, <2>3 DEF Pass, PassPc
    <2>7. q.empty <= MaxEmpty
      BY <2>2, <2>n, <2>4, <2>5 DEF GoodPass, Pass
    <2>8. PassTable(q) = PassTable(pass[t])
      BY <2>5 DEF PassTable
    <2>9. GoodPass(t, q, config, add, gid)
      BY <2>2, <2>4, <2>5, <2>6, <2>7, <2>8 DEF GoodPass
    <2> QED
      BY <1>0, <1>1, <2>4, <2>9, PassStays, BaseQuiet
  <1>6. CASE CheckEmpty \/ Unindex
    <2>1. PICK pc \in {"srem", "dlr"} : pass' = [pass EXCEPT !["requeue"].pc = pc]
      BY <1>6 DEF CheckEmpty, Unindex
    <2>2. pass["requeue"] \in Pass /\ GoodPass("requeue", pass["requeue"], config, add, gid) /\ pass["requeue"].pc \in {"llen", "srem"}
      BY <1>6, Names DEF BaseInv, PassInv, CheckEmpty, Unindex
    <2>3. PICK q : q = [pass["requeue"] EXCEPT !.pc = pc]
      OBVIOUS
    <2>4. pass' = [pass EXCEPT !["requeue"] = q]
      BY <2>1, <2>3, Names DEF BaseInv, PassInv
    <2>5. /\ q.pc = pc /\ q.empty = pass["requeue"].empty /\ q.items = pass["requeue"].items
          /\ q.claimed = pass["requeue"].claimed /\ q.kind = pass["requeue"].kind /\ q.limit = pass["requeue"].limit
          /\ q.picked = pass["requeue"].picked /\ q.acct = pass["requeue"].acct
      BY <2>2, <2>3 DEF Pass
    <2>6. q \in Pass
      BY <2>2, <2>3 DEF Pass, PassPc
    <2>7. PassTable(q) = PassTable(pass["requeue"])
      BY <2>5 DEF PassTable
    <2>8. GoodPass("requeue", q, config, add, gid)
      BY <2>2, <2>5, <2>6, <2>7 DEF GoodPass
    <2> QED
      BY <1>0, <1>1, <2>4, <2>8, Names, PassStays, BaseQuiet
  <1> QED
    BY <1>2, <1>3, <1>4, <1>5, <1>6

-----------------------------------------------------------------------------
(* Counting copies *)

\* Entries and items by their message.
LEMMA WithIs ==
  ASSUME NEW x \in Entry \cup Item, NEW m
  PROVE  x \in With(m) <=> x.msg = m
  BY DEF With

\* The counts are natural numbers.
LEMMA CountsTyped ==
  ASSUME NEW L \in [Table -> Seq(Entry)], NEW D \in [Account -> Seq(Msg)],
         NEW T \in [Account -> Seq(TableDlr)], NEW P \in [Thread -> Pass], NEW F, IsFiniteSet(F), NEW m \in Msg
  PROVE  /\ \A t \in Table : HowMany(L[t], With(m)) \in Nat
         /\ InStores(m, L) \in Nat /\ InList(m, D) \in Nat /\ InList(m, T) \in Nat /\ InFlightOf(m, F) \in Nat
         /\ \A t \in Thread : InPass(m, P[t]) \in Nat /\ HowMany(P[t].items, With(m)) \in Nat /\ HowMany(P[t].claimed, With(m)) \in Nat
         /\ Total(m, L, D, T, P, F) \in Nat
  <1>1. \A t \in Table : HowMany(L[t], With(m)) \in Nat
    <2> SUFFICES ASSUME NEW t \in Table
                 PROVE  HowMany(L[t], With(m)) \in Nat
      OBVIOUS
    <2>1. L[t] \in Seq(Entry)
      OBVIOUS
    <2> QED
      BY <2>1, CountType
  <1>2. InStores(m, L) \in Nat
    BY <1>1, Names DEF InStores
  <1>3. InList(m, D) \in Nat /\ InList(m, T) \in Nat
    <2>1. D[AccountOf[m]] \in Seq(Msg) /\ T[AccountOf[m]] \in Seq(TableDlr)
      OBVIOUS
    <2> QED
      BY <2>1, CountType, ZenonT(40) DEF InList
  <1>4. \A t \in Thread : InPass(m, P[t]) \in Nat /\ HowMany(P[t].items, With(m)) \in Nat /\ HowMany(P[t].claimed, With(m)) \in Nat
    <2> SUFFICES ASSUME NEW t \in Thread
                 PROVE  InPass(m, P[t]) \in Nat /\ HowMany(P[t].items, With(m)) \in Nat /\ HowMany(P[t].claimed, With(m)) \in Nat
      OBVIOUS
    <2>1. P[t].items \in Seq(Entry) /\ P[t].claimed \in Seq(Item)
      BY DEF Pass
    <2>2. PICK x \in Seq(Entry), y \in Seq(Item) : x = P[t].items /\ y = P[t].claimed
      BY <2>1
    <2>3. HowMany(x, With(m)) \in Nat /\ HowMany(y, With(m)) \in Nat
      BY CountType
    <2> QED
      BY <2>2, <2>3 DEF InPass
  <1>5. InFlightOf(m, F) \in Nat
    <2>1. IsFiniteSet({f \in F : f.msg = m /\ f.st # "moved"})
      BY FS_Subset
    <2> QED
      BY <2>1, FS_CardinalityType DEF InFlightOf
  <1>6. InPass(m, P["mover"]) \in Nat /\ InPass(m, P["requeue"]) \in Nat
    BY <1>4, Names
  <1>7. Total(m, L, D, T, P, F) \in Nat
    BY <1>2, <1>3, <1>5, <1>6, SMTT(30) DEF Total
  <1> QED
    BY <1>1, <1>2, <1>3, <1>4, <1>5, <1>7

\* The same of a state.
LEMMA BaseCounts ==
  ASSUME BaseInv, NEW m \in Msg
  PROVE  /\ \A t \in Table : HowMany(list[t], With(m)) \in Nat
         /\ InStores(m, list) \in Nat /\ InList(m, pduList) \in Nat /\ InList(m, dlrList) \in Nat /\ InFlightOf(m, flight) \in Nat
         /\ \A t \in Thread : InPass(m, pass[t]) \in Nat /\ HowMany(pass[t].items, With(m)) \in Nat /\ HowMany(pass[t].claimed, With(m)) \in Nat
         /\ Total(m, list, pduList, dlrList, pass, flight) \in Nat
  BY CountsTyped DEF BaseInv, ListInv, PassInv, FlightInv

\* And of the next.
LEMMA NextCounts ==
  ASSUME BaseInv', NEW m \in Msg
  PROVE  /\ \A t \in Table : HowMany(list'[t], With(m)) \in Nat
         /\ InStores(m, list') \in Nat /\ InList(m, pduList') \in Nat /\ InList(m, dlrList') \in Nat /\ InFlightOf(m, flight') \in Nat
         /\ \A t \in Thread : InPass(m, pass'[t]) \in Nat /\ HowMany(pass'[t].items, With(m)) \in Nat /\ HowMany(pass'[t].claimed, With(m)) \in Nat
         /\ Total(m, list', pduList', dlrList', pass', flight') \in Nat
  BY CountsTyped DEF BaseInv, ListInv, PassInv, FlightInv

\* One store changes.
LEMMA StoreChange ==
  ASSUME BaseInv, BaseInv', NEW m \in Msg, NEW k \in Table, \A t \in Table : t # k => list'[t] = list[t]
  PROVE  InStores(m, list') - InStores(m, list) = HowMany(list'[k], With(m)) - HowMany(list[k], With(m))
  <1>1. k = "store" \/ k = "queue"
    BY DEF Table
  <1>2. /\ HowMany(list["store"], With(m)) \in Nat /\ HowMany(list["queue"], With(m)) \in Nat
        /\ HowMany(list'["store"], With(m)) \in Nat /\ HowMany(list'["queue"], With(m)) \in Nat
    BY BaseCounts, NextCounts, Names
  <1> QED
    BY <1>1, <1>2, Names DEF InStores

\* One pass changes, among other things.
Here(m, L, D, T, p, F) ==
  InStores(m, L) + InList(m, D) + InList(m, T) + HowMany(p.items, With(m)) + HowMany(p.claimed, With(m))
  + InFlightOf(m, F)

\* The copies of a message change by what one thread's step changes.
LEMMA TotalChange ==
  ASSUME BaseInv, BaseInv', NEW m \in Msg, NEW t \in Thread, \A u \in Thread : u # t => pass'[u] = pass[u]
  PROVE  /\ Total(m, list', pduList', dlrList', pass', flight') - Total(m, list, pduList, dlrList, pass, flight)
              = Here(m, list', pduList', dlrList', pass'[t], flight') - Here(m, list, pduList, dlrList, pass[t], flight)
         /\ Here(m, list', pduList', dlrList', pass'[t], flight') \in Nat /\ Here(m, list, pduList, dlrList, pass[t], flight) \in Nat
         /\ Total(m, list', pduList', dlrList', pass', flight') \in Nat /\ Total(m, list, pduList, dlrList, pass, flight) \in Nat
  <1>1. t = "mover" \/ t = "requeue"
    BY DEF Thread
  <1>2. /\ InStores(m, list) \in Nat /\ InList(m, pduList) \in Nat /\ InList(m, dlrList) \in Nat /\ InFlightOf(m, flight) \in Nat
        /\ InStores(m, list') \in Nat /\ InList(m, pduList') \in Nat /\ InList(m, dlrList') \in Nat /\ InFlightOf(m, flight') \in Nat
    BY BaseCounts, NextCounts
  <1>3. /\ InPass(m, pass["mover"]) \in Nat /\ InPass(m, pass["requeue"]) \in Nat
        /\ InPass(m, pass'["mover"]) \in Nat /\ InPass(m, pass'["requeue"]) \in Nat
        /\ HowMany(pass[t].items, With(m)) \in Nat /\ HowMany(pass[t].claimed, With(m)) \in Nat
        /\ HowMany(pass'[t].items, With(m)) \in Nat /\ HowMany(pass'[t].claimed, With(m)) \in Nat
    BY BaseCounts, NextCounts, Names
  <1>4. InPass(m, pass'["mover"]) + InPass(m, pass'["requeue"]) - InPass(m, pass["mover"]) - InPass(m, pass["requeue"])
          = InPass(m, pass'[t]) - InPass(m, pass[t])
    BY <1>1, <1>3, Names
  <1>5. InPass(m, pass'[t]) - InPass(m, pass[t])
          = HowMany(pass'[t].items, With(m)) - HowMany(pass[t].items, With(m))
             + HowMany(pass'[t].claimed, With(m)) - HowMany(pass[t].claimed, With(m))
    BY <1>3 DEF InPass
  <1>6. Total(m, list', pduList', dlrList', pass', flight')
          = InStores(m, list') + InList(m, pduList') + InList(m, dlrList') + InPass(m, pass'["mover"])
            + InPass(m, pass'["requeue"]) + InFlightOf(m, flight')
    BY DEF Total
  <1>7. Total(m, list, pduList, dlrList, pass, flight)
          = InStores(m, list) + InList(m, pduList) + InList(m, dlrList) + InPass(m, pass["mover"])
            + InPass(m, pass["requeue"]) + InFlightOf(m, flight)
    BY DEF Total
  <1>8. /\ Here(m, list', pduList', dlrList', pass'[t], flight') \in Nat /\ Here(m, list, pduList, dlrList, pass[t], flight) \in Nat
        /\ Total(m, list', pduList', dlrList', pass', flight') \in Nat /\ Total(m, list, pduList, dlrList, pass, flight) \in Nat
    BY <1>2, <1>3, <1>6, <1>7 DEF Here
  <1> QED
    BY <1>2, <1>3, <1>4, <1>5, <1>6, <1>7, <1>8 DEF Here

\* LPOP moves entries from the list to the pass.
LEMMA PopStep ==
  ASSUME BaseInv, NEW t \in Thread, LPop(t)
  PROVE  /\ BaseInv'
         /\ \A m \in Msg : Total(m, list', pduList', dlrList', pass', flight') = Total(m, list, pduList, dlrList, pass, flight)
         /\ \A u \in Thread : pass'[u].claimed = pass[u].claimed /\ pass'[u].kind = pass[u].kind
  <1> DEFINE p == pass[t]
             key == PassTable(p)
             n == p.limit - p.picked
  <1>0. UNCHANGED <<config, ids, index, pduVars, dlrList, addVars, pending, flight, ended, faults>> /\ p.pc = "pop"
    BY DEF LPop
  <1>1. p \in Pass /\ GoodPass(t, p, config, add, gid) /\ p.items = <<>> /\ key \in Table
    BY <1>0, Names DEF BaseInv, PassInv, GoodPass
  <1>2. n \in Nat
    BY <1>1 DEF GoodPass, Pass
  <1>3. TypeInv' /\ NumberInv' /\ FlightInv' /\ PendingInv'
    BY <1>0 DEF BaseInv, TypeInv, NumberInv, FlightInv, PendingInv, pduVars, addVars
  <1>4. CASE /\ p.picked < p.limit /\ p.empty < MaxEmpty
             /\ list' = [list EXCEPT ![key] = Rest(@, n)]
             /\ pass' = [pass EXCEPT ![t].items = Popped(list[key], n), ![t].pc = "item", ![t].some = FALSE]
    <2>1. /\ list[key] \in Seq(Entry) /\ list[key] \in Seq(Entries(key, config, add, gid))
          /\ list \in [Table -> Seq(Entry)]
      BY <1>1 DEF BaseInv, ListInv
    <2>2. /\ Popped(list[key], n) \in Seq(Entry) /\ Rest(list[key], n) \in Seq(Entry) /\ Len(Popped(list[key], n)) <= n
          /\ Popped(list[key], n) \in Seq(Entries(key, config, add, gid))
          /\ Rest(list[key], n) \in Seq(Entries(key, config, add, gid))
          /\ \A S : HowMany(list[key], S) = HowMany(Popped(list[key], n), S) + HowMany(Rest(list[key], n), S)
      BY <1>2, <2>1, PopSplits
    <2>3. \A u \in Table : list'[u] = IF u = key THEN Rest(list[key], n) ELSE list[u]
      BY <1>1, <1>4, <2>1
    <2>4. ListInv'
      <3>1. list' \in [Table -> Seq(Entry)]
        BY <1>4, <2>1, <2>2
      <3>2. \A u \in Table : list'[u] \in Seq(Entries(u, config, add, gid))
        BY <2>2, <2>3 DEF BaseInv, ListInv
      <3> QED
        BY <1>0, <3>1, <3>2 DEF BaseInv, ListInv, pduVars, addVars
    <2>5. PICK q : q = [p EXCEPT !.items = Popped(list[key], n), !.pc = "item", !.some = FALSE]
      OBVIOUS
    <2>6. pass' = [pass EXCEPT ![t] = q]
      BY <1>4, <2>5 DEF BaseInv, PassInv
    <2>7. /\ q.pc = "item" /\ q.empty = p.empty /\ q.items = Popped(list[key], n)
          /\ q.claimed = p.claimed /\ q.kind = p.kind /\ q.limit = p.limit
          /\ q.picked = p.picked /\ PassTable(q) = key
      BY <1>1, <2>5 DEF Pass, PassTable
    <2>8. q \in Pass
      BY <1>1, <2>2, <2>5 DEF Pass, PassPc
    <2>9. q.picked + Len(q.items) <= q.limit
      <3>1. Len(Popped(list[key], n)) \in Nat /\ p.limit \in Nat /\ p.picked \in Nat
        BY <1>1, <2>2 DEF Pass
      <3> QED
        BY <2>2, <2>7, <3>1
    <2>10. GoodPass(t, q, config, add, gid)
      BY <1>1, <1>4, <1>0, <2>2, <2>7, <2>8, <2>9 DEF GoodPass
    <2>11. PassInv' /\ \A u \in Thread : pass'[u] = IF u = t THEN q ELSE pass[u]
      BY <1>0, <2>6, <2>10, PassStays DEF BaseInv, addVars
    <2>12. BaseInv'
      BY <1>3, <2>4, <2>11 DEF BaseInv
    <2>13. ASSUME NEW m \in Msg
           PROVE  Total(m, list', pduList', dlrList', pass', flight') = Total(m, list, pduList, dlrList, pass, flight)
      <3>1. list'[key] = Rest(list[key], n) /\ pass'[t].items = Popped(list[key], n) /\ pass'[t].claimed = pass[t].claimed
        BY <1>1, <2>3, <2>7, <2>11
      <3>2. HowMany(list[key], With(m)) = HowMany(pass'[t].items, With(m)) + HowMany(list'[key], With(m))
        BY <2>2, <3>1
      <3>3. HowMany(pass[t].items, With(m)) = 0
        BY <1>1, CountShort
      <3>4. InStores(m, list') - InStores(m, list) = HowMany(list'[key], With(m)) - HowMany(list[key], With(m))
        BY <1>1, <2>3, <2>12, StoreChange
      <3>5. /\ HowMany(list[key], With(m)) \in Nat /\ HowMany(list'[key], With(m)) \in Nat
            /\ HowMany(pass'[t].items, With(m)) \in Nat
        BY <1>1, <2>12, BaseCounts, NextCounts
      <3>6. /\ Total(m, list', pduList', dlrList', pass', flight') - Total(m, list, pduList, dlrList, pass, flight)
                 = Here(m, list', pduList', dlrList', pass'[t], flight') - Here(m, list, pduList, dlrList, pass[t], flight)
            /\ Here(m, list', pduList', dlrList', pass'[t], flight') \in Nat /\ Here(m, list, pduList, dlrList, pass[t], flight) \in Nat
            /\ Total(m, list', pduList', dlrList', pass', flight') \in Nat /\ Total(m, list, pduList, dlrList, pass, flight) \in Nat
        BY <2>11, <2>12, TotalChange
      <3>7. InList(m, pduList') = InList(m, pduList) /\ InList(m, dlrList') = InList(m, dlrList) /\ InFlightOf(m, flight') = InFlightOf(m, flight)
        BY <1>0 DEF pduVars
      <3>8. /\ InStores(m, list') \in Nat /\ InStores(m, list) \in Nat /\ InList(m, pduList) \in Nat
            /\ InList(m, dlrList) \in Nat /\ InFlightOf(m, flight) \in Nat /\ HowMany(pass[t].claimed, With(m)) \in Nat
        BY <2>12, BaseCounts, NextCounts
      <3>9. HowMany(pass'[t].claimed, With(m)) = HowMany(pass[t].claimed, With(m))
        BY <3>1
      <3>10. InStores(m, list') + HowMany(pass'[t].items, With(m)) = InStores(m, list)
        BY <3>2, <3>4, <3>5, <3>8
      <3>11. Here(m, list', pduList', dlrList', pass'[t], flight')
               = InStores(m, list') + InList(m, pduList) + InList(m, dlrList) + HowMany(pass'[t].items, With(m))
                 + HowMany(pass[t].claimed, With(m)) + InFlightOf(m, flight)
        BY <3>7, <3>9 DEF Here
      <3>12. Here(m, list, pduList, dlrList, pass[t], flight)
               = InStores(m, list) + InList(m, pduList) + InList(m, dlrList) + 0
                 + HowMany(pass[t].claimed, With(m)) + InFlightOf(m, flight)
        BY <3>3 DEF Here
      <3>13. Here(m, list', pduList', dlrList', pass'[t], flight') = Here(m, list, pduList, dlrList, pass[t], flight)
        BY <3>5, <3>8, <3>10, <3>11, <3>12
      <3> QED
        BY <3>6, <3>13
    <2> QED
      BY <2>7, <2>11, <2>12, <2>13
  <1>5. CASE pass' = [pass EXCEPT ![t] = Handing(p)] /\ UNCHANGED list
    <2>1. /\ Handing(p) \in Pass /\ Handing(p).pc = "deliver" /\ Handing(p).kind = p.kind
          /\ Handing(p).picked = 0 /\ Handing(p).limit = 0 /\ Handing(p).empty = 0
          /\ Handing(p).items = p.items /\ Handing(p).claimed = p.claimed
      <3>1. p.kind \in Kind /\ 0 \in Nat
        BY <1>1 DEF Pass
      <3> QED
        BY <1>1, <3>1, PassFields
    <2>2. PassTable(Handing(p)) = key
      BY <2>1 DEF PassTable
    <2>3. GoodPass(t, Handing(p), config, add, gid)
      BY <1>1, <2>1, <2>2 DEF GoodPass
    <2>4. PassInv' /\ \A u \in Thread : pass'[u] = IF u = t THEN Handing(p) ELSE pass[u]
      BY <1>0, <1>5, <2>3, PassStays DEF BaseInv, addVars
    <2>5. ListInv'
      BY <1>0, <1>5 DEF BaseInv, ListInv, pduVars, addVars
    <2>6. \A m : \A u \in Thread : InPass(m, pass'[u]) = InPass(m, pass[u])
      BY <2>1, <2>4 DEF InPass
    <2>7. \A m \in Msg : Total(m, list', pduList', dlrList', pass', flight') = Total(m, list, pduList, dlrList, pass, flight)
      BY <1>0, <1>5, <2>6, Names DEF Total, pduVars
    <2> QED
      BY <1>3, <2>1, <2>4, <2>5, <2>7 DEF BaseInv
  <1> QED
    BY <1>4, <1>5 DEF LPop

\* One flight more, or one less.
LEMMA FlightCount ==
  ASSUME NEW F, IsFiniteSet(F), NEW f, NEW m
  PROVE  /\ InFlightOf(m, F \cup {f}) = InFlightOf(m, F) + IF f.msg = m /\ f.st # "moved" /\ f \notin F THEN 1 ELSE 0
         /\ f \in F => InFlightOf(m, F \ {f}) = InFlightOf(m, F) - IF f.msg = m /\ f.st # "moved" THEN 1 ELSE 0
         /\ IsFiniteSet(F \cup {f}) /\ IsFiniteSet(F \ {f}) /\ InFlightOf(m, F) \in Nat
         /\ f \in F /\ f.msg = m /\ f.st # "moved" => InFlightOf(m, F) > 0
  <1> DEFINE S == {g \in F : g.msg = m /\ g.st # "moved"}
             S1 == {g \in F \cup {f} : g.msg = m /\ g.st # "moved"}
             S2 == {g \in F \ {f} : g.msg = m /\ g.st # "moved"}
  <1>1. S1 = (IF f.msg = m /\ f.st # "moved" THEN S \cup {f} ELSE S) /\ S2 = S \ {f} /\ S \subseteq F
    OBVIOUS
  <1>2. f \in S <=> f \in F /\ f.msg = m /\ f.st # "moved"
    OBVIOUS
  <1>3. IsFiniteSet(S)
    BY FS_Subset
  <1>4. /\ InFlightOf(m, F) = Cardinality(S) /\ InFlightOf(m, F \cup {f}) = Cardinality(S1)
        /\ InFlightOf(m, F \ {f}) = Cardinality(S2)
    BY DEF InFlightOf
  <1> HIDE DEF S, S1, S2
  <1>5. Cardinality(S) \in Nat /\ (f \in S => Cardinality(S) # 0)
    BY <1>3, FS_CardinalityType, FS_EmptySet
  <1>6. Cardinality(S \cup {f}) = (IF f \in S THEN Cardinality(S) ELSE Cardinality(S) + 1)
    BY <1>3, FS_AddElement
  <1>7. Cardinality(S \ {f}) = (IF f \in S THEN Cardinality(S) - 1 ELSE Cardinality(S))
    BY <1>3, FS_RemoveElement
  <1>8. IsFiniteSet(F \cup {f}) /\ IsFiniteSet(F \ {f})
    BY FS_AddElement, FS_RemoveElement
  <1> QED
    BY <1>1, <1>2, <1>4, <1>5, <1>6, <1>7, <1>8

\* One flight is replaced by another of the same message.
LEMMA FlightMove ==
  ASSUME NEW F, IsFiniteSet(F), NEW f \in F, NEW g, g.msg = f.msg, g.st # "moved", f.st # "moved",
         NEW m, InFlightOf(m, F) <= 1
  PROVE  InFlightOf(m, (F \ {f}) \cup {g}) = InFlightOf(m, F)
  <1>1. PICK H : H = F \ {f}
    OBVIOUS
  <1>2. /\ InFlightOf(m, H) = InFlightOf(m, F) - (IF f.msg = m /\ f.st # "moved" THEN 1 ELSE 0)
        /\ IsFiniteSet(H) /\ InFlightOf(m, F) \in Nat
    BY <1>1, FlightCount
  <1>3. InFlightOf(m, H \cup {g}) = InFlightOf(m, H) + IF g.msg = m /\ g.st # "moved" /\ g \notin H THEN 1 ELSE 0
    BY <1>2, FlightCount
  <1>4. InFlightOf(m, H) \in Nat /\ (g \in H /\ g.msg = m /\ g.st # "moved" => InFlightOf(m, H) > 0)
    BY <1>2, FlightCount
  <1>5. CASE f.msg = m
    <2>1. InFlightOf(m, H) = InFlightOf(m, F) - 1
      BY <1>2, <1>5
    <2>2. InFlightOf(m, H) = 0 /\ InFlightOf(m, F) = 1
      BY <1>2, <1>4, <2>1
    <2>3. g \notin H
      BY <1>4, <1>5, <2>2
    <2> QED
      BY <1>1, <1>3, <1>5, <2>2, <2>3
  <1>6. CASE f.msg # m
    <2>1. InFlightOf(m, H) = InFlightOf(m, F)
      BY <1>2, <1>6
    <2>2. InFlightOf(m, H \cup {g}) = InFlightOf(m, H)
      BY <1>3, <1>4, <1>6
    <2> QED
      BY <1>1, <2>1, <2>2
  <1> QED
    BY <1>5, <1>6

\* One flight is over but for its last command.
LEMMA FlightGone ==
  ASSUME NEW F, IsFiniteSet(F), NEW f \in F, NEW g, g.st = "moved", f.st # "moved", NEW m
  PROVE  InFlightOf(m, (F \ {f}) \cup {g}) = InFlightOf(m, F) - IF f.msg = m THEN 1 ELSE 0
  <1>1. PICK H : H = F \ {f}
    OBVIOUS
  <1>2. /\ InFlightOf(m, H) = InFlightOf(m, F) - (IF f.msg = m /\ f.st # "moved" THEN 1 ELSE 0)
        /\ IsFiniteSet(H) /\ InFlightOf(m, F) \in Nat
    BY <1>1, FlightCount
  <1>3. InFlightOf(m, H \cup {g}) = InFlightOf(m, H) + IF g.msg = m /\ g.st # "moved" /\ g \notin H THEN 1 ELSE 0
    BY <1>2, FlightCount, ZenonT(40)
  <1>4. InFlightOf(m, H) \in Nat
    BY <1>2, FlightCount
  <1>5. InFlightOf(m, H \cup {g}) = InFlightOf(m, H)
    BY <1>3, <1>4
  <1> QED
    BY <1>1, <1>2, <1>5

\* The next claimed item leaves the pass.
LEMMA TakeClaimed ==
  ASSUME BaseInv, NEW t \in Thread, pass[t].pc = "deliver", pass[t].claimed # <<>>,
         pass' = [pass EXCEPT ![t].claimed = Tail(@)], UNCHANGED <<config, add, gid>>
  PROVE  /\ PassInv' /\ pass'[t].items = pass[t].items /\ pass'[t].claimed = Tail(pass[t].claimed)
         /\ \A u \in Thread : u # t => pass'[u] = pass[u]
         /\ Head(pass[t].claimed) \in Claims(t, pass[t].kind, config, add, gid)
         /\ Head(pass[t].claimed) \in Item
         /\ \A m : HowMany(pass[t].claimed, With(m))
                     = HowMany(pass'[t].claimed, With(m)) + IF Head(pass[t].claimed).msg = m THEN 1 ELSE 0
  <1>1. pass[t] \in Pass /\ GoodPass(t, pass[t], config, add, gid)
    BY DEF BaseInv, PassInv
  <1>2. PICK s \in Seq(Claims(t, pass[t].kind, config, add, gid)) : s = pass[t].claimed
    BY <1>1 DEF GoodPass
  <1>3. s \in Seq(Item) /\ s # <<>>
    <2>1. Claims(t, pass[t].kind, config, add, gid) \subseteq Item
      BY DEF Claims, Items
    <2> QED
      BY <1>2, <2>1, SeqMonotonic
  <1>4. Tail(s) \in Seq(Item) /\ Head(s) \in Item /\ \A S : HowMany(s, S) = HowMany(Tail(s), S) + IF Head(s) \in S THEN 1 ELSE 0
    BY <1>3, CountHead
  <1>5. Tail(s) \in Seq(Claims(t, pass[t].kind, config, add, gid)) /\ Head(s) \in Claims(t, pass[t].kind, config, add, gid)
    BY <1>2, <1>3, HeadTailProperties
  <1>6. PICK q : q = [pass[t] EXCEPT !.claimed = Tail(s)]
    OBVIOUS
  <1>7. pass' = [pass EXCEPT ![t] = q]
    BY <1>2, <1>6 DEF BaseInv, PassInv
  <1>8. /\ q.pc = "deliver" /\ q.empty = pass[t].empty /\ q.items = pass[t].items
        /\ q.claimed = Tail(s) /\ q.kind = pass[t].kind /\ q.limit = pass[t].limit
        /\ q.picked = pass[t].picked
    BY <1>1, <1>6 DEF Pass
  <1>9. q \in Pass
    BY <1>1, <1>4, <1>6 DEF Pass
  <1>10. PassTable(q) = PassTable(pass[t])
    BY <1>8 DEF PassTable
  <1>11. GoodPass(t, q, config, add, gid)
    BY <1>1, <1>5, <1>8, <1>9, <1>10 DEF GoodPass
  <1>12. PassInv' /\ \A u \in Thread : pass'[u] = IF u = t THEN q ELSE pass[u]
    BY <1>7, <1>11, PassStays DEF BaseInv
  <1>13. \A m : HowMany(s, With(m)) = HowMany(Tail(s), With(m)) + IF Head(s).msg = m THEN 1 ELSE 0
    BY <1>4, WithIs
  <1> QED
    BY <1>2, <1>4, <1>5, <1>8, <1>12, <1>13

\* What the item that leaves the pass changes in the count.
LEMMA GiveCount ==
  ASSUME BaseInv, BaseInv', NEW t \in Thread, NEW i, NEW m \in Msg, UNCHANGED <<pduVars, dlrList>>,
         pass'[t].items = pass[t].items, \A u \in Thread : u # t => pass'[u] = pass[u],
         HowMany(pass[t].claimed, With(m)) = HowMany(pass'[t].claimed, With(m)) + IF i.msg = m THEN 1 ELSE 0
  PROVE  /\ Total(m, list', pduList', dlrList', pass', flight')
              = Total(m, list, pduList, dlrList, pass, flight) - (IF i.msg = m THEN 1 ELSE 0)
                + (InStores(m, list') - InStores(m, list)) + (InFlightOf(m, flight') - InFlightOf(m, flight))
         /\ Total(m, list, pduList, dlrList, pass, flight) \in Nat /\ Total(m, list', pduList', dlrList', pass', flight') \in Nat
         /\ InFlightOf(m, flight) + (IF i.msg = m THEN 1 ELSE 0) <= Total(m, list, pduList, dlrList, pass, flight)
  <1>1. /\ Total(m, list', pduList', dlrList', pass', flight') - Total(m, list, pduList, dlrList, pass, flight)
             = Here(m, list', pduList', dlrList', pass'[t], flight') - Here(m, list, pduList, dlrList, pass[t], flight)
        /\ Here(m, list', pduList', dlrList', pass'[t], flight') \in Nat /\ Here(m, list, pduList, dlrList, pass[t], flight) \in Nat
        /\ Total(m, list', pduList', dlrList', pass', flight') \in Nat /\ Total(m, list, pduList, dlrList, pass, flight) \in Nat
    BY TotalChange
  <1>2. PICK k \in Nat : k = IF i.msg = m THEN 1 ELSE 0
    OBVIOUS
  <1>3. /\ InStores(m, list') \in Nat /\ InStores(m, list) \in Nat /\ InFlightOf(m, flight) \in Nat /\ InFlightOf(m, flight') \in Nat
        /\ InList(m, pduList) \in Nat /\ InList(m, dlrList) \in Nat
        /\ HowMany(pass[t].claimed, With(m)) \in Nat /\ HowMany(pass'[t].claimed, With(m)) \in Nat /\ HowMany(pass[t].items, With(m)) \in Nat
        /\ InPass(m, pass["mover"]) \in Nat /\ InPass(m, pass["requeue"]) \in Nat
    BY BaseCounts, NextCounts, Names
  <1>4. Here(m, list', pduList', dlrList', pass'[t], flight')
          = InStores(m, list') + InList(m, pduList) + InList(m, dlrList) + HowMany(pass[t].items, With(m))
            + HowMany(pass'[t].claimed, With(m)) + InFlightOf(m, flight')
    BY DEF Here, pduVars
  <1>5. Here(m, list, pduList, dlrList, pass[t], flight)
          = InStores(m, list) + InList(m, pduList) + InList(m, dlrList) + HowMany(pass[t].items, With(m))
            + HowMany(pass[t].claimed, With(m)) + InFlightOf(m, flight)
    BY DEF Here
  <1>6. HowMany(pass[t].claimed, With(m)) = HowMany(pass'[t].claimed, With(m)) + k
    BY <1>2
  <1>7. Here(m, list', pduList', dlrList', pass'[t], flight') - Here(m, list, pduList, dlrList, pass[t], flight)
          = (InStores(m, list') - InStores(m, list)) + (InFlightOf(m, flight') - InFlightOf(m, flight)) - k
    BY <1>3, <1>4, <1>5, <1>6
  <1>8. Total(m, list', pduList', dlrList', pass', flight')
          = Total(m, list, pduList, dlrList, pass, flight) - k
            + (InStores(m, list') - InStores(m, list)) + (InFlightOf(m, flight') - InFlightOf(m, flight))
    BY <1>1, <1>3, <1>7
  <1>9. InFlightOf(m, flight) + k <= Total(m, list, pduList, dlrList, pass, flight)
    <2>1. InPass(m, pass[t]) >= k
      BY <1>3, <1>6 DEF InPass
    <2>2. InPass(m, pass["mover"]) + InPass(m, pass["requeue"]) >= k
      BY <1>2, <1>3, <2>1 DEF Thread
    <2> QED
      BY <1>2, <1>3, <2>2 DEF Total
  <1> QED
    BY <1>1, <1>2, <1>8, <1>9

-----------------------------------------------------------------------------
(* Steps that hand over, give back or end a message *)

\* Such a step changes no number.
LEMMA BaseCalm ==
  ASSUME BaseInv, UNCHANGED <<config, ids, addVars>>, TypeInv', ListInv', FlightInv', PendingInv', PassInv',
         \A n \in Msg : ended'[n] = ended[n] \/ StoredIn(n, config, add)
  PROVE  BaseInv'
  <1>1. \A n \in Msg : ended'[n] # "no" => StoredIn(n, config, add')
    BY DEF BaseInv, NumberInv, addVars
  <1>2. NumberInv'
    BY <1>1, NumbersKept DEF addVars
  <1> QED
    BY <1>2 DEF BaseInv

\* A message that is stored ends.
LEMMA EndStep ==
  ASSUME BaseInv, NEW x \in Msg, StoredIn(x, config, add), NEW v \in {"done", "dropped", "fault"},
         ended' = [ended EXCEPT ![x] = v]
  PROVE  /\ ended' \in [Msg -> {"no", "done", "dropped", "fault"}]
         /\ \A n \in Msg : ended'[n] = ended[n] \/ StoredIn(n, config, add)
         /\ \A n \in Msg : ended'[n] = IF n = x THEN v ELSE ended[n]
  BY DEF BaseInv, TypeInv

\* A claim is dropped.
LEMMA PendingDrop ==
  ASSUME BaseInv, UNCHANGED <<config, add, gid>>, NEW g \in Gid, RemovePending(g)
  PROVE  /\ pending' \in [Gid -> Msg \cup {NoMsg}] /\ PendingInv'
         /\ \A h \in Gid : pending'[h] = IF h = g THEN NoMsg ELSE pending[h]
  <1>1. \A h \in Gid : pending'[h] = IF h = g THEN NoMsg ELSE pending[h]
    BY DEF RemovePending, BaseInv, TypeInv
  <1>2. pending' \in [Gid -> Msg \cup {NoMsg}]
    BY DEF RemovePending, BaseInv, TypeInv
  <1> QED
    BY <1>1, <1>2 DEF BaseInv, PendingInv, Recorded

\* The count of a message stays, or there is none left and it has ended, or
\* its claim was dropped in the name of another.
LEMMA CopyStep ==
  ASSUME StoreInv, UNCHANGED <<config, add, gid>>,
         \A m \in Msg : CountedIn(m, config, add, gid) =>
           \/ /\ Total(m, list', pduList', dlrList', pass', flight') = Total(m, list, pduList, dlrList, pass, flight)
              /\ ended'[m] = ended[m]
           \/ /\ Total(m, list', pduList', dlrList', pass', flight') = 0
              /\ ended'[m] # "no" \/ (m \in Mo /\ SharedIn(m, config, add, gid))
  PROVE  CopyInv'
  <1> SUFFICES ASSUME NEW m \in Msg
               PROVE  Fine(m, Total(m, list', pduList', dlrList', pass', flight'), config, add, gid, ended')
    BY DEF CopyInv
  <1>1. Fine(m, Total(m, list, pduList, dlrList, pass, flight), config, add, gid, ended)
    BY DEF StoreInv, CopyInv
  <1> QED
    BY <1>1 DEF Fine

\* What the mover has claimed stays claimed while nothing is recorded anew.
LEMMA ClaimSame ==
  ASSUME StoreInv, UNCHANGED <<config, add, gid, pending>>,
         \A k \in DOMAIN pass'["mover"].claimed : \E l \in DOMAIN pass["mover"].claimed :
            pass'["mover"].claimed[k] = pass["mover"].claimed[l]
  PROVE  ClaimInv'
  <1>1. \A l \in DOMAIN pass["mover"].claimed : ClaimedIn(pass["mover"].claimed[l], pending, config, add, gid)
    BY DEF StoreInv, ClaimInv
  <1>2. \A k \in DOMAIN pass'["mover"].claimed : ClaimedIn(pass'["mover"].claimed[k], pending, config, add, gid)
    BY <1>1
  <1> QED
    BY <1>2 DEF ClaimInv

\* The claim on x is dropped.  Another message under its number shares it.
LEMMA ClaimDrop ==
  ASSUME StoreInv, BaseInv', UNCHANGED <<config, add, gid>>,
         \A k \in DOMAIN pass'["mover"].claimed : \E l \in DOMAIN pass["mover"].claimed :
            pass'["mover"].claimed[k] = pass["mover"].claimed[l],
         NEW x \in Msg, x \notin TableDlr, StoredIn(x, config, add), RemovePending(gid[x]),
         x \in Mo /\ CountedIn(x, config, add, gid) => HowMany(pass'["mover"].claimed, With(x)) = 0
  PROVE  ClaimInv'
  <1>0. gid[x] \in Gid /\ gid \in [Msg -> Gid]
    BY DEF StoreInv, BaseInv, TypeInv
  <1>1. \A h \in Gid : pending'[h] = IF h = gid[x] THEN NoMsg ELSE pending[h]
    BY <1>0, PendingDrop DEF StoreInv
  <1> SUFFICES ASSUME NEW k \in DOMAIN pass'["mover"].claimed
               PROVE  ClaimedIn(pass'["mover"].claimed[k], pending', config, add, gid)
    BY DEF ClaimInv
  <1>2. PICK l \in DOMAIN pass["mover"].claimed : pass'["mover"].claimed[k] = pass["mover"].claimed[l]
    OBVIOUS
  <1>3. PICK i : i = pass'["mover"].claimed[k]
    OBVIOUS
  <1>4. ClaimedIn(i, pending, config, add, gid)
    BY <1>2, <1>3 DEF StoreInv, ClaimInv
  <1>5. i \in Items(config, add, gid) /\ i \in Item
    <2>1. GoodPass("mover", pass'["mover"], config, add, gid)
      BY Names DEF BaseInv, PassInv
    <2>2. pass'["mover"].claimed \in Seq(Claims("mover", pass'["mover"].kind, config, add, gid))
      BY <2>1 DEF GoodPass
    <2>3. pass'["mover"].claimed[k] \in Claims("mover", pass'["mover"].kind, config, add, gid)
      BY <2>2
    <2> QED
      BY <1>3, <2>3 DEF Claims, Items
  <1>6. SUFFICES ASSUME i.kind = "mo", CountedIn(i.msg, config, add, gid), i.gid = gid[x]
                 PROVE  SharedIn(i.msg, config, add, gid)
    <2>1. i.gid \in Gid
      BY <1>5 DEF Item
    <2> QED
      BY <1>0, <1>1, <1>3, <1>4, <1>6, <2>1 DEF ClaimedIn
  <1>7. i.msg \in Mo /\ i.msg \in Msg /\ i.gid = gid[i.msg]
    BY <1>5, <1>6 DEF Items, Item, RightKind
  <1>8. i.msg # x
    <2> SUFFICES ASSUME i.msg = x
                 PROVE  FALSE
      OBVIOUS
    <2>1. HowMany(pass'["mover"].claimed, With(x)) = 0
      BY <1>6, <1>7
    <2>2. pass'["mover"].claimed \in Seq(Item)
      BY Names DEF BaseInv, PassInv, Pass
    <2>3. PICK s \in Seq(Item) : s = pass'["mover"].claimed
      BY <2>2
    <2>4. HowMany(s, With(x)) = 0 /\ k \in DOMAIN s /\ s[k] = i
      BY <1>3, <2>1, <2>3, Zenon
    <2>5. \A n \in DOMAIN s : s[n] \notin With(x)
      BY <2>4, CountType, Zenon
    <2>6. i \notin With(x)
      BY <2>4, <2>5, Zenon
    <2> QED
      BY <1>5, <2>6, WithIs
  <1>9. TableDlr \cap {i.msg, x} = {} /\ gid[x] = gid[i.msg] /\ x \in Msg \ {i.msg}
    BY <1>6, <1>7, <1>8
  <1> QED
    BY <1>9 DEF SharedIn

\* The mover's claims but the first are claims.
LEMMA TailClaims ==
  ASSUME BaseInv, NEW t \in Thread, pass[t].claimed # <<>>, pass'[t].claimed = Tail(pass[t].claimed),
         \A u \in Thread : u # t => pass'[u] = pass[u]
  PROVE  \A k \in DOMAIN pass'["mover"].claimed : \E l \in DOMAIN pass["mover"].claimed :
            pass'["mover"].claimed[k] = pass["mover"].claimed[l]
  <1>1. CASE t = "mover"
    <2>1. PICK s \in Seq(Item) : s = pass["mover"].claimed
      BY <1>1, Names DEF BaseInv, PassInv, Pass
    <2>2. \A k \in DOMAIN Tail(s) : k + 1 \in DOMAIN s /\ Tail(s)[k] = s[k + 1]
      BY <1>1, <2>1
    <2>3. pass'["mover"].claimed = Tail(s)
      BY <1>1, <2>1
    <2>4. \A k \in DOMAIN Tail(s) : \E l \in DOMAIN s : Tail(s)[k] = s[l]
      BY <2>2
    <2> QED
      BY <2>1, <2>3, <2>4
  <1>2. CASE t # "mover"
    BY <1>2, Names
  <1> QED
    BY <1>1, <1>2

\* The count covers what a thread has claimed and what is in flight.
LEMMA CountCovers ==
  ASSUME BaseInv, NEW m \in Msg, NEW t \in Thread
  PROVE  /\ HowMany(pass[t].claimed, With(m)) + HowMany(pass[t].items, With(m)) + InFlightOf(m, flight)
              <= Total(m, list, pduList, dlrList, pass, flight)
         /\ HowMany(pass[t].claimed, With(m)) \in Nat /\ HowMany(pass[t].items, With(m)) \in Nat
         /\ InFlightOf(m, flight) \in Nat /\ Total(m, list, pduList, dlrList, pass, flight) \in Nat
  <1>1. /\ InStores(m, list) \in Nat /\ InList(m, pduList) \in Nat /\ InList(m, dlrList) \in Nat /\ InFlightOf(m, flight) \in Nat
        /\ HowMany(pass[t].claimed, With(m)) \in Nat /\ HowMany(pass[t].items, With(m)) \in Nat
        /\ InPass(m, pass["mover"]) \in Nat /\ InPass(m, pass["requeue"]) \in Nat
        /\ Total(m, list, pduList, dlrList, pass, flight) \in Nat
    BY BaseCounts, Names
  <1>2. InPass(m, pass[t]) = HowMany(pass[t].items, With(m)) + HowMany(pass[t].claimed, With(m))
    BY DEF InPass
  <1>3. InPass(m, pass[t]) <= InPass(m, pass["mover"]) + InPass(m, pass["requeue"])
    BY <1>1 DEF Thread
  <1>4. Total(m, list, pduList, dlrList, pass, flight)
          = InStores(m, list) + InList(m, pduList) + InList(m, dlrList) + InPass(m, pass["mover"])
            + InPass(m, pass["requeue"]) + InFlightOf(m, flight)
    BY DEF Total
  <1> QED
    BY <1>1, <1>2, <1>3, <1>4

\* A counted message in a thread's hands is not there twice.
LEMMA OnlyHere ==
  ASSUME StoreInv, NEW t \in Thread, NEW i, i.msg \in Msg, CountedIn(i.msg, config, add, gid),
         HowMany(pass[t].claimed, With(i.msg)) = HowMany(pass'[t].claimed, With(i.msg)) + 1,
         HowMany(pass'[t].claimed, With(i.msg)) \in Nat
  PROVE  HowMany(pass'[t].claimed, With(i.msg)) = 0
  <1>1. Total(i.msg, list, pduList, dlrList, pass, flight) <= 1
    BY DEF StoreInv, CopyInv, Fine
  <1> QED
    BY <1>1, CountCovers DEF StoreInv

\* The next item goes to its receiver.
LEMMA HandOverStep ==
  ASSUME StoreInv, NEW t \in Thread, HandOver(t)
  PROVE  StoreInv'
  <1> DEFINE i == Head(pass[t].claimed)
             f == InFlight(i, "sent")
  <1>0. /\ pass[t].pc = "deliver" /\ pass[t].claimed # <<>> /\ flight' = flight \cup {f}
        /\ pass' = [pass EXCEPT ![t].claimed = Tail(@)]
        /\ UNCHANGED <<config, storeVars, pduVars, dlrList, addVars, pending, ended, faults>>
        /\ UNCHANGED <<config, add, gid>> /\ BaseInv
    BY DEF HandOver, addVars, StoreInv
  <1>1. /\ PassInv' /\ pass'[t].items = pass[t].items /\ pass'[t].claimed = Tail(pass[t].claimed)
        /\ \A u \in Thread : u # t => pass'[u] = pass[u]
        /\ i \in Claims(t, pass[t].kind, config, add, gid) /\ i \in Item
        /\ \A m : HowMany(pass[t].claimed, With(m)) = HowMany(pass'[t].claimed, With(m)) + IF i.msg = m THEN 1 ELSE 0
    BY <1>0, TakeClaimed
  <1> HIDE DEF i
  <1>2. f.msg = i.msg /\ f.gid = i.gid /\ f.kind = i.kind /\ f.st = "sent" /\ f \in Flights(config, add, gid)
    BY <1>1 DEF InFlight, Claims, Items, Item, Flights, Flight, RightKind
  <1> HIDE DEF f
  <1>3. FlightInv'
    <2>1. IsFiniteSet(flight \cup {f})
      BY <1>0, FS_AddElement DEF BaseInv, FlightInv
    <2> QED
      BY <1>0, <1>2, <2>1 DEF BaseInv, FlightInv
  <1>4. TypeInv' /\ ListInv' /\ PendingInv'
    BY <1>0 DEF BaseInv, TypeInv, ListInv, PendingInv, storeVars, pduVars, addVars
  <1>5. BaseInv'
    BY <1>0, <1>1, <1>3, <1>4, BaseCalm DEF storeVars
  <1>6. ASSUME NEW m \in Msg, CountedIn(m, config, add, gid)
        PROVE  Total(m, list', pduList', dlrList', pass', flight') = Total(m, list, pduList, dlrList, pass, flight)
    <2>1. Total(m, list, pduList, dlrList, pass, flight) <= 1
      BY <1>6 DEF StoreInv, CopyInv, Fine
    <2>2. /\ Total(m, list', pduList', dlrList', pass', flight')
              = Total(m, list, pduList, dlrList, pass, flight) - (IF i.msg = m THEN 1 ELSE 0)
                + (InStores(m, list') - InStores(m, list)) + (InFlightOf(m, flight') - InFlightOf(m, flight))
          /\ Total(m, list, pduList, dlrList, pass, flight) \in Nat /\ Total(m, list', pduList', dlrList', pass', flight') \in Nat
          /\ InFlightOf(m, flight) + (IF i.msg = m THEN 1 ELSE 0) <= Total(m, list, pduList, dlrList, pass, flight)
      BY <1>0, <1>1, <1>5, GiveCount, ZenonT(40)
    <2>3. /\ InFlightOf(m, flight') = InFlightOf(m, flight) + IF f.msg = m /\ f.st # "moved" /\ f \notin flight THEN 1 ELSE 0
          /\ InFlightOf(m, flight) \in Nat
          /\ f \in flight /\ f.msg = m /\ f.st # "moved" => InFlightOf(m, flight) > 0
      BY <1>0, FlightCount DEF BaseInv, FlightInv
    <2>4. InStores(m, list') = InStores(m, list) /\ InStores(m, list) \in Nat
      BY <1>0, BaseCounts DEF storeVars
    <2>5. CASE i.msg = m
      <3>1. InFlightOf(m, flight) = 0
        BY <2>1, <2>2, <2>3, <2>5
      <3>2. f \notin flight
        BY <1>2, <2>3, <2>5, <3>1
      <3> QED
        BY <1>2, <2>2, <2>3, <2>4, <2>5, <3>1, <3>2
    <2>6. CASE i.msg # m
      BY <1>2, <2>2, <2>3, <2>4, <2>6
    <2> QED
      BY <2>5, <2>6
  <1>7. CopyInv'
    BY <1>0, <1>6, CopyStep
  <1>8. ClaimInv'
    BY <1>0, <1>1, TailClaims, ClaimSame
  <1> QED
    BY <1>5, <1>7, <1>8 DEF StoreInv

\* The router has no account.
LEMMA UnroutedStep ==
  ASSUME StoreInv, NEW t \in Thread, t = "mover", Unrouted
  PROVE  StoreInv'
  <1> DEFINE i == Head(pass[t].claimed)
  <1>0. /\ pass[t].pc = "deliver" /\ pass[t].claimed # <<>> /\ i.kind = "mo"
        /\ RemovePending(i.gid) /\ ended' = [ended EXCEPT ![i.msg] = "done"]
        /\ pass' = [pass EXCEPT ![t].claimed = Tail(@)]
        /\ UNCHANGED <<config, storeVars, pduVars, dlrList, addVars, flight, faults>>
        /\ UNCHANGED <<config, add, gid>> /\ BaseInv
    BY DEF Unrouted, addVars, StoreInv
  <1>1. /\ PassInv' /\ pass'[t].items = pass[t].items /\ pass'[t].claimed = Tail(pass[t].claimed)
        /\ \A u \in Thread : u # t => pass'[u] = pass[u]
        /\ i \in Claims(t, pass[t].kind, config, add, gid) /\ i \in Item
        /\ \A m : HowMany(pass[t].claimed, With(m)) = HowMany(pass'[t].claimed, With(m)) + IF i.msg = m THEN 1 ELSE 0
    BY <1>0, Names, TakeClaimed
  <1> HIDE DEF i
  <1>2. i.msg \in Mo /\ i.msg \in Msg /\ i.gid = gid[i.msg] /\ i.gid \in Gid /\ StoredIn(i.msg, config, add)
    BY <1>0, <1>1 DEF Claims, Items, Item, RightKind
  <1>3. /\ ended' \in [Msg -> {"no", "done", "dropped", "fault"}]
        /\ \A n \in Msg : ended'[n] = ended[n] \/ StoredIn(n, config, add)
        /\ \A n \in Msg : ended'[n] = IF n = i.msg THEN "done" ELSE ended[n]
    BY <1>0, <1>2, EndStep
  <1>4. pending' \in [Gid -> Msg \cup {NoMsg}] /\ PendingInv'
    BY <1>0, <1>2, PendingDrop
  <1>5. TypeInv' /\ ListInv' /\ FlightInv'
    BY <1>0, <1>3, <1>4 DEF BaseInv, TypeInv, ListInv, FlightInv, storeVars, pduVars, addVars
  <1>6. BaseInv'
    BY <1>0, <1>1, <1>3, <1>4, <1>5, BaseCalm DEF storeVars
  <1>7. ASSUME NEW m \in Msg
        PROVE  /\ Total(m, list', pduList', dlrList', pass', flight')
                   = Total(m, list, pduList, dlrList, pass, flight) - (IF i.msg = m THEN 1 ELSE 0)
               /\ Total(m, list, pduList, dlrList, pass, flight) \in Nat /\ Total(m, list', pduList', dlrList', pass', flight') \in Nat
    <2>1. /\ Total(m, list', pduList', dlrList', pass', flight')
              = Total(m, list, pduList, dlrList, pass, flight) - (IF i.msg = m THEN 1 ELSE 0)
                + (InStores(m, list') - InStores(m, list)) + (InFlightOf(m, flight') - InFlightOf(m, flight))
          /\ Total(m, list, pduList, dlrList, pass, flight) \in Nat /\ Total(m, list', pduList', dlrList', pass', flight') \in Nat
      <3>1. HowMany(pass[t].claimed, With(m)) = HowMany(pass'[t].claimed, With(m)) + IF i.msg = m THEN 1 ELSE 0
        BY <1>1
      <3>2. UNCHANGED <<pduVars, dlrList>> /\ pass'[t].items = pass[t].items /\ \A u \in Thread : u # t => pass'[u] = pass[u]
        BY <1>0, <1>1
      <3>3. BaseInv /\ BaseInv'
        BY <1>0, <1>6
      <3> QED
        BY <3>1, <3>2, <3>3, GiveCount
    <2>2. /\ InFlightOf(m, flight') = InFlightOf(m, flight) /\ InFlightOf(m, flight) \in Nat
          /\ InStores(m, list') = InStores(m, list) /\ InStores(m, list) \in Nat
      BY <1>0, BaseCounts DEF storeVars
    <2> QED
      BY <2>1, <2>2
  <1>8. CopyInv'
    <2>1. \A m \in Msg : CountedIn(m, config, add, gid) => Total(m, list, pduList, dlrList, pass, flight) <= 1
      BY DEF StoreInv, CopyInv, Fine
    <2>2. \A m \in Msg : CountedIn(m, config, add, gid) =>
           \/ /\ Total(m, list', pduList', dlrList', pass', flight') = Total(m, list, pduList, dlrList, pass, flight)
              /\ ended'[m] = ended[m]
           \/ /\ Total(m, list', pduList', dlrList', pass', flight') = 0
              /\ ended'[m] # "no"
      BY <1>3, <1>7, <2>1
    <2> QED
      BY <1>0, <2>2, CopyStep
  <1>9. ClaimInv'
    <2>1. CountedIn(i.msg, config, add, gid) => HowMany(pass'[t].claimed, With(i.msg)) = 0
      <3>1. HowMany(pass[t].claimed, With(i.msg)) = HowMany(pass'[t].claimed, With(i.msg)) + 1
        BY <1>1
      <3>2. HowMany(pass'[t].claimed, With(i.msg)) \in Nat
        BY <1>2, <1>6, NextCounts, Names
      <3> QED
        BY <1>2, <3>1, <3>2, OnlyHere, Names
    <2>2. i.msg \notin TableDlr
      BY <1>2
    <2>3. \A k \in DOMAIN pass'["mover"].claimed : \E l \in DOMAIN pass["mover"].claimed :
            pass'["mover"].claimed[k] = pass["mover"].claimed[l]
      BY <1>0, <1>1, TailClaims
    <2> QED
      BY <1>0, <1>2, <1>6, <2>1, <2>2, <2>3, ClaimDrop
  <1> QED
    BY <1>6, <1>8, <1>9 DEF StoreInv

\* A report or DLR without a receiver is called back, a PDU is gone.
LEMMA NoReceiverStep ==
  ASSUME StoreInv, NEW t \in Thread, NoReceiver(t), Head(pass[t].claimed).kind # "mo"
  PROVE  StoreInv'
  <1> DEFINE i == Head(pass[t].claimed)
             f == InFlight(i, "move")
  <1>0. /\ pass[t].pc = "deliver" /\ pass[t].claimed # <<>>
        /\ pass' = [pass EXCEPT ![t].claimed = Tail(@)]
        /\ UNCHANGED <<config, storeVars, pduVars, dlrList, addVars, pending, faults>>
        /\ UNCHANGED <<config, add, gid>> /\ BaseInv
        /\ \/ i.kind \in {"report", "dlr"} /\ flight' = flight \cup {f} /\ UNCHANGED ended
           \/ i.kind = "pdu" /\ ended' = [ended EXCEPT ![i.msg] = "dropped"] /\ UNCHANGED flight
    BY DEF NoReceiver, addVars, storeVars, StoreInv
  <1>1. /\ PassInv' /\ pass'[t].items = pass[t].items /\ pass'[t].claimed = Tail(pass[t].claimed)
        /\ \A u \in Thread : u # t => pass'[u] = pass[u]
        /\ i \in Claims(t, pass[t].kind, config, add, gid) /\ i \in Item
        /\ \A m : HowMany(pass[t].claimed, With(m)) = HowMany(pass'[t].claimed, With(m)) + IF i.msg = m THEN 1 ELSE 0
    BY <1>0, TakeClaimed
  <1> HIDE DEF i
  <1>2. /\ f.msg = i.msg /\ f.gid = i.gid /\ f.kind = i.kind /\ f.st = "move" /\ f \in Flight
        /\ StoredIn(i.msg, config, add) /\ i.msg \in Msg /\ RightKind(i, gid)
    BY <1>1 DEF InFlight, Claims, Items, Item, Flight
  <1> HIDE DEF f
  <1>3. FlightInv' /\ ended' \in [Msg -> {"no", "done", "dropped", "fault"}]
        /\ \A n \in Msg : ended'[n] = ended[n] \/ StoredIn(n, config, add)
    <2>1. CASE i.kind \in {"report", "dlr"} /\ flight' = flight \cup {f} /\ UNCHANGED ended
      <3>1. IsFiniteSet(flight \cup {f})
        BY <1>0, FS_AddElement DEF BaseInv, FlightInv
      <3>2. f \in Flights(config, add, gid)
        BY <1>2, <2>1 DEF Flights, RightKind
      <3> QED
        BY <1>0, <2>1, <3>1, <3>2 DEF BaseInv, FlightInv, TypeInv
    <2>2. CASE i.kind = "pdu" /\ ended' = [ended EXCEPT ![i.msg] = "dropped"] /\ UNCHANGED flight
      BY <1>0, <1>2, <2>2, EndStep DEF BaseInv, FlightInv
    <2> QED
      BY <1>0, <2>1, <2>2
  <1>4. TypeInv' /\ ListInv' /\ PendingInv'
    BY <1>0, <1>3 DEF BaseInv, TypeInv, ListInv, PendingInv, storeVars, pduVars, addVars
  <1>5. BaseInv'
    BY <1>0, <1>1, <1>3, <1>4, BaseCalm DEF storeVars
  <1>6. ASSUME NEW m \in Msg, CountedIn(m, config, add, gid)
        PROVE  \/ /\ Total(m, list', pduList', dlrList', pass', flight') = Total(m, list, pduList, dlrList, pass, flight)
                  /\ ended'[m] = ended[m]
               \/ /\ Total(m, list', pduList', dlrList', pass', flight') = 0
                  /\ ended'[m] # "no"
    <2>1. Total(m, list, pduList, dlrList, pass, flight) <= 1
      BY <1>6 DEF StoreInv, CopyInv, Fine
    <2>2. /\ Total(m, list', pduList', dlrList', pass', flight')
              = Total(m, list, pduList, dlrList, pass, flight) - (IF i.msg = m THEN 1 ELSE 0)
                + (InStores(m, list') - InStores(m, list)) + (InFlightOf(m, flight') - InFlightOf(m, flight))
          /\ Total(m, list, pduList, dlrList, pass, flight) \in Nat /\ Total(m, list', pduList', dlrList', pass', flight') \in Nat
          /\ InFlightOf(m, flight) + (IF i.msg = m THEN 1 ELSE 0) <= Total(m, list, pduList, dlrList, pass, flight)
      BY <1>0, <1>1, <1>5, GiveCount
    <2>3. InStores(m, list') = InStores(m, list) /\ InStores(m, list) \in Nat /\ InFlightOf(m, flight) \in Nat
      BY <1>0, BaseCounts DEF storeVars
    <2>4. CASE i.kind \in {"report", "dlr"} /\ flight' = flight \cup {f} /\ UNCHANGED ended
      <3>1. /\ InFlightOf(m, flight') = InFlightOf(m, flight) + IF f.msg = m /\ f.st # "moved" /\ f \notin flight THEN 1 ELSE 0
            /\ f \in flight /\ f.msg = m /\ f.st # "moved" => InFlightOf(m, flight) > 0
        BY <1>0, <2>4, FlightCount DEF BaseInv, FlightInv
      <3>2. CASE i.msg = m
        <4>1. InFlightOf(m, flight) = 0
          BY <2>1, <2>2, <2>3, <3>2
        <4>2. f \notin flight
          BY <1>2, <3>1, <3>2, <4>1
        <4> QED
          BY <1>2, <2>2, <2>3, <2>4, <3>1, <3>2, <4>1, <4>2
      <3>3. CASE i.msg # m
        BY <1>2, <2>2, <2>3, <2>4, <3>1, <3>3
      <3> QED
        BY <3>2, <3>3
    <2>5. CASE i.kind = "pdu" /\ ended' = [ended EXCEPT ![i.msg] = "dropped"] /\ UNCHANGED flight
      <3>1. \A n \in Msg : ended'[n] = IF n = i.msg THEN "dropped" ELSE ended[n]
        BY <1>0, <1>2, <2>5, EndStep
      <3>2. InFlightOf(m, flight') = InFlightOf(m, flight)
        BY <2>5
      <3> QED
        BY <2>1, <2>2, <2>3, <3>1, <3>2
    <2> QED
      BY <1>0, <2>4, <2>5
  <1>7. CopyInv'
    BY <1>0, <1>6, CopyStep
  <1>8. ClaimInv'
    BY <1>0, <1>1, TailClaims, ClaimSame
  <1> QED
    BY <1>5, <1>7, <1>8 DEF StoreInv

\* An entry is pushed, and counted.
LEMMA PushCount ==
  ASSUME BaseInv, BaseInv', NEW k \in Table, NEW e \in Entry, LPush(k, e), NEW m \in Msg
  PROVE  /\ InStores(m, list') - InStores(m, list) = (IF e.msg = m THEN 1 ELSE 0)
         /\ InStores(m, list') \in Nat /\ InStores(m, list) \in Nat
  <1>1. \A u \in Table : list'[u] = IF u = k THEN <<e>> \o list[u] ELSE list[u]
    BY DEF LPush, BaseInv, ListInv
  <1>2. InStores(m, list') - InStores(m, list) = HowMany(list'[k], With(m)) - HowMany(list[k], With(m))
    BY <1>1, StoreChange
  <1>3. PICK s \in Seq(Entry) : s = list[k]
    BY DEF BaseInv, ListInv
  <1>4. HowMany(<<e>> \o s, With(m)) = HowMany(s, With(m)) + IF e \in With(m) THEN 1 ELSE 0
    BY CountEnds
  <1>5. e \in With(m) <=> e.msg = m
    BY WithIs
  <1>6. HowMany(s, With(m)) \in Nat
    BY CountType
  <1>7. HowMany(list'[k], With(m)) - HowMany(list[k], With(m)) = IF e.msg = m THEN 1 ELSE 0
    BY <1>1, <1>3, <1>4, <1>5, <1>6
  <1> QED
    BY <1>2, <1>7, BaseCounts, NextCounts

\* LPUSH of what is recorded under a number.
LEMMA BaseTemporary ==
  ASSUME BaseInv, UNCHANGED <<config, add, gid>>, NEW g \in Gid, RemoveTemporary(g)
  PROVE  /\ pending' \in [Gid -> Msg \cup {NoMsg}] /\ PendingInv'
         /\ ended' \in [Msg -> {"no", "done", "dropped", "fault"}]
         /\ \A n \in Msg : ended'[n] = ended[n] \/ StoredIn(n, config, add)
         /\ list' \in [Table -> Seq(Entry)] /\ \A u \in Table : list'[u] \in Seq(Entries(u, config, add, gid))
         /\ index' \in [Table -> SUBSET Account] /\ faults' \in 0 .. config.faults
         /\ \/ pending[g] = NoMsg /\ UNCHANGED <<list, ended>>
            \/ /\ pending[g] \in Msg /\ UNCHANGED ended /\ [msg |-> pending[g], gid |-> g] \in Entry
               /\ LPush(TableOf(pending[g]), [msg |-> pending[g], gid |-> g])
            \/ /\ pending[g] \in Msg /\ UNCHANGED list
               /\ \A n \in Msg : ended'[n] = IF n = pending[g] THEN "fault" ELSE ended[n]
  <1>1. RemovePending(g)
    BY DEF RemoveTemporary
  <1>2. pending' \in [Gid -> Msg \cup {NoMsg}] /\ PendingInv'
    BY <1>1, PendingDrop
  <1>3. pending[g] = NoMsg \/ (pending[g] \in Msg /\ pending[g] \notin TableDlr /\ StoredIn(pending[g], config, add) /\ gid[pending[g]] = g)
    BY DEF BaseInv, TypeInv, PendingInv, Recorded
  <1>4. CASE pending[g] = NoMsg
    <2>1. UNCHANGED <<list, index, ended, faults>>
      BY <1>4 DEF RemoveTemporary
    <2> QED
      BY <1>2, <1>4, <2>1 DEF BaseInv, TypeInv, ListInv
  <1>5. CASE pending[g] # NoMsg
    <2>0. PICK x \in Msg : x = pending[g] /\ x \notin TableDlr /\ StoredIn(x, config, add) /\ gid[x] = g
      BY <1>3, <1>5
    <2>1. PICK e : e = [msg |-> x, gid |-> g]
      OBVIOUS
    <2>2. e \in Entries(TableOf(x), config, add, gid) /\ e \in Entry
      BY <2>0, <2>1 DEF Entries, Entry
    <2>3. CASE /\ LPush(TableOf(x), e) /\ index' = [index EXCEPT ![TableOf(x)] = @ \cup {AccountOf[x]}] /\ UNCHANGED <<ended, faults>>
      <3>1. list' \in [Table -> Seq(Entry)] /\ \A u \in Table : list'[u] \in Seq(Entries(u, config, add, gid))
        BY <2>2, <2>3, Names, PushStep DEF BaseInv, ListInv
      <3>2. index' \in [Table -> SUBSET Account]
        BY <2>3, Names DEF BaseInv, TypeInv
      <3> QED
        BY <1>2, <2>0, <2>1, <2>2, <2>3, <3>1, <3>2 DEF BaseInv, TypeInv
    <2>4. CASE Fault /\ ended' = [ended EXCEPT ![x] = "fault"] /\ UNCHANGED <<list, index>>
      <3>1. /\ ended' \in [Msg -> {"no", "done", "dropped", "fault"}]
            /\ \A n \in Msg : ended'[n] = ended[n] \/ StoredIn(n, config, add)
            /\ \A n \in Msg : ended'[n] = IF n = x THEN "fault" ELSE ended[n]
        BY <2>0, <2>4, EndStep
      <3>2. faults' \in 0 .. config.faults
        BY <2>4, FaultStep DEF BaseInv
      <3>3. list \in [Table -> Seq(Entry)] /\ index \in [Table -> SUBSET Account] /\ \A u \in Table : list[u] \in Seq(Entries(u, config, add, gid))
        BY DEF BaseInv, ListInv, TypeInv
      <3> QED
        BY <1>2, <2>0, <2>4, <3>1, <3>2, <3>3
    <2> QED
      BY <1>5, <2>0, <2>1, <2>3, <2>4 DEF RemoveTemporary
  <1> QED
    BY <1>4, <1>5

\* Two messages of one store under one number share the number 0, or are one.
LEMMA SameNumber ==
  ASSUME BaseInv, NEW x \in Msg \ TableDlr, NEW y \in Msg \ TableDlr, gid[x] = gid[y],
         StoredIn(x, config, add), StoredIn(y, config, add)
  PROVE  /\ TableOf(x) = TableOf(y) /\ CountedIn(x, config, add, gid) => x = y
         /\ x # y => SharedIn(x, config, add, gid) /\ SharedIn(y, config, add, gid)
  <1>1. x # y => SharedIn(x, config, add, gid) /\ SharedIn(y, config, add, gid)
    BY DEF SharedIn
  <1>2. TableOf(x) = TableOf(y) /\ gid[x] # 0 => x = y
    BY DEF BaseInv, NumberInv
  <1> QED
    BY <1>1, <1>2 DEF CountedIn

\* An MO message without a receiver goes back to the head of the list.
LEMMA GiveBackStep ==
  ASSUME StoreInv, NEW t \in Thread, NoReceiver(t), Head(pass[t].claimed).kind = "mo"
  PROVE  StoreInv'
  <1> DEFINE i == Head(pass[t].claimed)
  <1>0. /\ pass[t].pc = "deliver" /\ pass[t].claimed # <<>> /\ i.kind = "mo"
        /\ RemoveTemporary(i.gid)
        /\ pass' = [pass EXCEPT ![t].claimed = Tail(@)]
        /\ UNCHANGED <<config, ids, pduVars, dlrList, addVars, flight>>
        /\ UNCHANGED <<config, add, gid>> /\ BaseInv
    BY DEF NoReceiver, addVars, StoreInv
  <1>1. /\ PassInv' /\ pass'[t].items = pass[t].items /\ pass'[t].claimed = Tail(pass[t].claimed)
        /\ \A u \in Thread : u # t => pass'[u] = pass[u]
        /\ i \in Claims(t, pass[t].kind, config, add, gid) /\ i \in Item
        /\ \A m : HowMany(pass[t].claimed, With(m)) = HowMany(pass'[t].claimed, With(m)) + IF i.msg = m THEN 1 ELSE 0
    BY <1>0, TakeClaimed
  <1>c. t = "mover" /\ ClaimedIn(i, pending, config, add, gid)
    <2>1. t = "mover"
      BY <1>0, <1>1 DEF Claims, Thread
    <2>2. PICK s \in Seq(Item) : s = pass["mover"].claimed /\ s # <<>>
      BY <1>0, <2>1 DEF BaseInv, PassInv, Pass
    <2>3. 1 \in DOMAIN s /\ Head(s) = s[1]
      BY <2>2
    <2> QED
      BY <2>1, <2>2, <2>3 DEF StoreInv, ClaimInv
  <1> HIDE DEF i
  <1>2. /\ i.msg \in Mo /\ i.msg \in Msg /\ i.gid = gid[i.msg] /\ i.gid \in Gid /\ StoredIn(i.msg, config, add)
        /\ i.msg \notin TableDlr
    BY <1>0, <1>1 DEF Claims, Items, Item, RightKind
  <1>3. /\ pending' \in [Gid -> Msg \cup {NoMsg}] /\ PendingInv'
        /\ ended' \in [Msg -> {"no", "done", "dropped", "fault"}]
        /\ \A n \in Msg : ended'[n] = ended[n] \/ StoredIn(n, config, add)
        /\ list' \in [Table -> Seq(Entry)] /\ \A u \in Table : list'[u] \in Seq(Entries(u, config, add, gid))
        /\ index' \in [Table -> SUBSET Account] /\ faults' \in 0 .. config.faults
        /\ \/ pending[i.gid] = NoMsg /\ UNCHANGED <<list, ended>>
           \/ /\ pending[i.gid] \in Msg /\ UNCHANGED ended /\ [msg |-> pending[i.gid], gid |-> i.gid] \in Entry
              /\ LPush(TableOf(pending[i.gid]), [msg |-> pending[i.gid], gid |-> i.gid])
           \/ /\ pending[i.gid] \in Msg /\ UNCHANGED list
              /\ \A n \in Msg : ended'[n] = IF n = pending[i.gid] THEN "fault" ELSE ended[n]
    BY <1>0, <1>2, BaseTemporary
  <1>4. TypeInv' /\ FlightInv'
    BY <1>0, <1>3 DEF BaseInv, TypeInv, FlightInv, pduVars, addVars
  <1>5. ListInv'
    BY <1>0, <1>3 DEF BaseInv, ListInv, pduVars
  <1>6. BaseInv'
    BY <1>0, <1>1, <1>3, <1>4, <1>5, BaseCalm
  <1>7. ASSUME NEW m \in Msg
        PROVE  /\ Total(m, list', pduList', dlrList', pass', flight')
                   = Total(m, list, pduList, dlrList, pass, flight) - (IF i.msg = m THEN 1 ELSE 0)
                     + (InStores(m, list') - InStores(m, list))
               /\ Total(m, list, pduList, dlrList, pass, flight) \in Nat /\ Total(m, list', pduList', dlrList', pass', flight') \in Nat
               /\ InStores(m, list) \in Nat /\ InStores(m, list') \in Nat
    <2>1. HowMany(pass[t].claimed, With(m)) = HowMany(pass'[t].claimed, With(m)) + IF i.msg = m THEN 1 ELSE 0
      BY <1>1
    <2>2. UNCHANGED <<pduVars, dlrList>> /\ pass'[t].items = pass[t].items /\ \A u \in Thread : u # t => pass'[u] = pass[u]
      BY <1>0, <1>1
    <2>3. BaseInv /\ BaseInv'
      BY <1>0, <1>6
    <2>4. /\ Total(m, list', pduList', dlrList', pass', flight')
              = Total(m, list, pduList, dlrList, pass, flight) - (IF i.msg = m THEN 1 ELSE 0)
                + (InStores(m, list') - InStores(m, list)) + (InFlightOf(m, flight') - InFlightOf(m, flight))
          /\ Total(m, list, pduList, dlrList, pass, flight) \in Nat /\ Total(m, list', pduList', dlrList', pass', flight') \in Nat
      BY <2>1, <2>2, <2>3, GiveCount
    <2>5. InFlightOf(m, flight') = InFlightOf(m, flight) /\ InFlightOf(m, flight) \in Nat
      BY <1>0, BaseCounts
    <2>6. InStores(m, list) \in Nat /\ InStores(m, list') \in Nat
      BY <2>3, BaseCounts, NextCounts
    <2> QED
      BY <2>4, <2>5, <2>6
  \* Whatever is recorded there is this message, unless nobody counts them.
  <1>8. pending[i.gid] \in Msg /\ pending[i.gid] # i.msg
           => ~CountedIn(pending[i.gid], config, add, gid) /\ ~CountedIn(i.msg, config, add, gid)
    <2> SUFFICES ASSUME pending[i.gid] \in Msg, pending[i.gid] # i.msg
                 PROVE  ~CountedIn(pending[i.gid], config, add, gid) /\ ~CountedIn(i.msg, config, add, gid)
      OBVIOUS
    <2>1. PICK x \in Msg : x = pending[i.gid] /\ x \notin TableDlr /\ StoredIn(x, config, add) /\ gid[x] = i.gid
      BY <1>0, <1>2 DEF BaseInv, PendingInv, Recorded
    <2>2. ~CountedIn(i.msg, config, add, gid)
      <3>1. pending[i.gid] # NoMsg
        BY <2>1
      <3> QED
        BY <1>0, <1>c, <3>1 DEF ClaimedIn
    <2>3. gid[i.msg] = 0
      BY <2>2 DEF CountedIn
    <2>4. SharedIn(x, config, add, gid)
      BY <1>0, <1>2, <2>1, SameNumber
    <2>5. gid[x] = 0
      BY <1>2, <2>1, <2>3
    <2> QED
      BY <2>1, <2>2, <2>4, <2>5 DEF CountedIn
  <1>9. ASSUME NEW m \in Msg, CountedIn(m, config, add, gid)
        PROVE  \/ /\ Total(m, list', pduList', dlrList', pass', flight') = Total(m, list, pduList, dlrList, pass, flight)
                  /\ ended'[m] = ended[m]
               \/ /\ Total(m, list', pduList', dlrList', pass', flight') = 0
                  /\ ended'[m] # "no" \/ (m \in Mo /\ SharedIn(m, config, add, gid))
    <2>1. Total(m, list, pduList, dlrList, pass, flight) <= 1
      BY <1>9 DEF StoreInv, CopyInv, Fine
    <2>2. CASE pending[i.gid] = NoMsg /\ UNCHANGED <<list, ended>>
      <3>1. InStores(m, list') = InStores(m, list)
        BY <2>2
      <3>2. CASE m = i.msg
        <4>1. SharedIn(m, config, add, gid)
          BY <1>0, <1>2, <1>c, <1>9, <2>2, <3>2 DEF ClaimedIn
        <4> QED
          BY <1>2, <1>7, <2>1, <3>1, <3>2, <4>1
      <3>3. CASE m # i.msg
        BY <1>7, <2>2, <3>1, <3>3
      <3> QED
        BY <3>2, <3>3
    <2>3. CASE /\ pending[i.gid] \in Msg /\ UNCHANGED ended /\ [msg |-> pending[i.gid], gid |-> i.gid] \in Entry
               /\ LPush(TableOf(pending[i.gid]), [msg |-> pending[i.gid], gid |-> i.gid])
      <3>1. PICK e \in Entry : e = [msg |-> pending[i.gid], gid |-> i.gid] /\ LPush(TableOf(pending[i.gid]), e)
        BY <2>3
      <3>2. PICK k \in Table : k = TableOf(pending[i.gid])
        BY Names
      <3>3. InStores(m, list') - InStores(m, list) = IF e.msg = m THEN 1 ELSE 0
        BY <1>0, <1>6, <3>1, <3>2, PushCount
      <3>4. e.msg = pending[i.gid]
        BY <3>1
      <3>5. e.msg = m <=> i.msg = m
        BY <1>8, <1>9, <2>3, <3>4
      <3> QED
        BY <1>7, <2>3, <3>3, <3>5
    <2>4. CASE /\ pending[i.gid] \in Msg /\ UNCHANGED list
               /\ \A n \in Msg : ended'[n] = IF n = pending[i.gid] THEN "fault" ELSE ended[n]
      <3>1. InStores(m, list') = InStores(m, list)
        BY <2>4
      <3>2. pending[i.gid] = m <=> i.msg = m
        BY <1>8, <1>9, <2>4
      <3> QED
        BY <1>7, <2>1, <2>4, <3>1, <3>2
    <2> QED
      BY <1>3, <2>2, <2>3, <2>4
  <1>10. CopyInv'
    BY <1>0, <1>9, CopyStep
  <1>11. ClaimInv'
    <2>1. CountedIn(i.msg, config, add, gid) => HowMany(pass'["mover"].claimed, With(i.msg)) = 0
      <3>1. HowMany(pass[t].claimed, With(i.msg)) = HowMany(pass'[t].claimed, With(i.msg)) + 1
        BY <1>1
      <3>2. HowMany(pass'[t].claimed, With(i.msg)) \in Nat
        BY <1>2, <1>6, NextCounts
      <3> QED
        BY <1>2, <1>c, <3>1, <3>2, OnlyHere
    <2>2. \A k \in DOMAIN pass'["mover"].claimed : \E l \in DOMAIN pass["mover"].claimed :
            pass'["mover"].claimed[k] = pass["mover"].claimed[l]
      BY <1>0, <1>1, TailClaims
    <2>3. RemovePending(gid[i.msg])
      BY <1>0, <1>2 DEF RemoveTemporary
    <2> QED
      BY <1>0, <1>2, <1>6, <2>1, <2>2, <2>3, ClaimDrop
  <1> QED
    BY <1>6, <1>10, <1>11 DEF StoreInv

-----------------------------------------------------------------------------
(* Callbacks *)

\* What a callback changes in the count.
LEMMA CallbackCount ==
  ASSUME BaseInv, BaseInv', UNCHANGED <<list, dlrList, pass>>, NEW m \in Msg
  PROVE  /\ Total(m, list', pduList', dlrList', pass', flight')
              = Total(m, list, pduList, dlrList, pass, flight)
                + (InList(m, pduList') - InList(m, pduList)) + (InFlightOf(m, flight') - InFlightOf(m, flight))
         /\ Total(m, list, pduList, dlrList, pass, flight) \in Nat /\ Total(m, list', pduList', dlrList', pass', flight') \in Nat
         /\ InList(m, pduList) \in Nat /\ InList(m, pduList') \in Nat
         /\ InFlightOf(m, flight) \in Nat /\ InFlightOf(m, flight') \in Nat
         /\ HowMany(pass["mover"].claimed, With(m)) + InFlightOf(m, flight) <= Total(m, list, pduList, dlrList, pass, flight)
         /\ HowMany(pass["mover"].claimed, With(m)) \in Nat
  <1>1. /\ InStores(m, list) \in Nat /\ InList(m, pduList) \in Nat /\ InList(m, dlrList) \in Nat /\ InFlightOf(m, flight) \in Nat
        /\ InPass(m, pass["mover"]) \in Nat /\ InPass(m, pass["requeue"]) \in Nat
        /\ InList(m, pduList') \in Nat /\ InFlightOf(m, flight') \in Nat
        /\ Total(m, list, pduList, dlrList, pass, flight) \in Nat /\ Total(m, list', pduList', dlrList', pass', flight') \in Nat
    BY BaseCounts, NextCounts, Names
  <1>2. Total(m, list', pduList', dlrList', pass', flight')
          = InStores(m, list) + InList(m, pduList') + InList(m, dlrList) + InPass(m, pass["mover"])
            + InPass(m, pass["requeue"]) + InFlightOf(m, flight')
    BY DEF Total
  <1>3. Total(m, list, pduList, dlrList, pass, flight)
          = InStores(m, list) + InList(m, pduList) + InList(m, dlrList) + InPass(m, pass["mover"])
            + InPass(m, pass["requeue"]) + InFlightOf(m, flight)
    BY DEF Total
  <1>4. Total(m, list', pduList', dlrList', pass', flight')
          = Total(m, list, pduList, dlrList, pass, flight)
            + (InList(m, pduList') - InList(m, pduList)) + (InFlightOf(m, flight') - InFlightOf(m, flight))
    BY <1>1, <1>2, <1>3
  <1>5. PICK t \in Thread : t = "mover"
    BY Names
  <1>6. /\ HowMany(pass[t].claimed, With(m)) + HowMany(pass[t].items, With(m)) + InFlightOf(m, flight)
             <= Total(m, list, pduList, dlrList, pass, flight)
        /\ HowMany(pass[t].claimed, With(m)) \in Nat /\ HowMany(pass[t].items, With(m)) \in Nat
    BY CountCovers
  <1>7. HowMany(pass[t].claimed, With(m)) + InFlightOf(m, flight) <= Total(m, list, pduList, dlrList, pass, flight)
    BY <1>1, <1>6
  <1> QED
    BY <1>1, <1>4, <1>5, <1>6, <1>7

\* The claim of an item in flight is dropped, or stays.
LEMMA CallbackClaim ==
  ASSUME StoreInv, BaseInv', UNCHANGED <<config, add, gid, list, dlrList, pass>>,
         NEW f \in flight, f.st = "sent" \/ f.kind = "report",
         (RemovePending(f.gid) /\ f.kind \in {"mo", "mt", "report"}) \/ UNCHANGED pending
  PROVE  ClaimInv'
  <1>1. \A k \in DOMAIN pass'["mover"].claimed : \E l \in DOMAIN pass["mover"].claimed :
          pass'["mover"].claimed[k] = pass["mover"].claimed[l]
    OBVIOUS
  <1>2. CASE RemovePending(f.gid) /\ f.kind \in {"mo", "mt", "report"}
    <2>1. PICK x \in Msg : x = f.msg /\ x \notin TableDlr /\ StoredIn(x, config, add) /\ f.gid = gid[x] /\ (x \in Mo => f.kind = "mo")
      BY <1>2 DEF StoreInv, BaseInv, FlightInv, Flights, Flight, RightKind
    <2>2. x \in Mo /\ CountedIn(x, config, add, gid) => HowMany(pass'["mover"].claimed, With(x)) = 0
      <3> SUFFICES ASSUME x \in Mo, CountedIn(x, config, add, gid)
                   PROVE  HowMany(pass["mover"].claimed, With(x)) = 0
        OBVIOUS
      <3>1. Total(x, list, pduList, dlrList, pass, flight) <= 1
        BY DEF StoreInv, CopyInv, Fine
      <3>2. f.st = "sent"
        BY <2>1
      <3>3. InFlightOf(x, flight) > 0
        BY <2>1, <3>2, FlightCount DEF StoreInv, BaseInv, FlightInv
      <3>4. /\ HowMany(pass["mover"].claimed, With(x)) + InFlightOf(x, flight) <= Total(x, list, pduList, dlrList, pass, flight)
            /\ HowMany(pass["mover"].claimed, With(x)) \in Nat /\ InFlightOf(x, flight) \in Nat
            /\ Total(x, list, pduList, dlrList, pass, flight) \in Nat
        BY CallbackCount DEF StoreInv
      <3> QED
        BY <3>1, <3>3, <3>4
    <2>3. RemovePending(gid[x])
      BY <1>2, <2>1
    <2> QED
      BY <1>1, <2>1, <2>2, <2>3, ClaimDrop
  <1>3. CASE UNCHANGED pending
    BY <1>1, <1>3, ClaimSame
  <1> QED
    BY <1>2, <1>3

\* An item in flight: its message, its number and its record.
LEMMA FlightIs ==
  ASSUME BaseInv, NEW f \in flight
  PROVE  /\ f \in Flight /\ f.msg \in Msg /\ f.gid \in Gid /\ f.kind \in Kind /\ StoredIn(f.msg, config, add) /\ RightKind(f, gid)
         /\ f.st # "sent" => f.kind \in {"report", "dlr"}
         /\ IsFiniteSet(flight) /\ IsFiniteSet(flight \ {f})
  BY FS_RemoveElement DEF BaseInv, FlightInv, Flights, Flight

\* Delivered, refused for good, or refused and gone.
LEMMA EndsInFlight ==
  ASSUME StoreInv, NEW f \in flight, f.st = "sent", NEW v \in {"done", "dropped"},
         ended' = [ended EXCEPT ![f.msg] = v], flight' = flight \ {f},
         UNCHANGED <<config, storeVars, pduVars, dlrList, addVars, pass, faults>>,
         (RemovePending(f.gid) /\ f.kind \in {"mo", "mt", "report"}) \/ UNCHANGED pending
  PROVE  StoreInv'
  <1>0. BaseInv /\ UNCHANGED <<config, add, gid>> /\ UNCHANGED <<list, dlrList, pass>>
    BY DEF StoreInv, addVars, storeVars
  <1>1. f.msg \in Msg /\ f.gid \in Gid /\ StoredIn(f.msg, config, add) /\ IsFiniteSet(flight) /\ IsFiniteSet(flight')
    BY <1>0, FlightIs
  <1>2. /\ ended' \in [Msg -> {"no", "done", "dropped", "fault"}]
        /\ \A n \in Msg : ended'[n] = ended[n] \/ StoredIn(n, config, add)
        /\ \A n \in Msg : ended'[n] = IF n = f.msg THEN v ELSE ended[n]
    BY <1>0, <1>1, EndStep
  <1>3. pending' \in [Gid -> Msg \cup {NoMsg}] /\ PendingInv'
    <2>1. CASE RemovePending(f.gid)
      BY <1>0, <1>1, <2>1, PendingDrop
    <2>2. CASE UNCHANGED pending
      BY <1>0, <2>2 DEF BaseInv, PendingInv, TypeInv
    <2> QED
      BY <2>1, <2>2
  <1>4. TypeInv' /\ ListInv' /\ FlightInv' /\ PassInv'
    BY <1>0, <1>1, <1>2, <1>3 DEF BaseInv, TypeInv, ListInv, FlightInv, PassInv, storeVars, pduVars, addVars
  <1>5. BaseInv'
    BY <1>0, <1>2, <1>3, <1>4, BaseCalm DEF storeVars
  <1>6. ASSUME NEW m \in Msg, CountedIn(m, config, add, gid)
        PROVE  \/ /\ Total(m, list', pduList', dlrList', pass', flight') = Total(m, list, pduList, dlrList, pass, flight)
                  /\ ended'[m] = ended[m]
               \/ Total(m, list', pduList', dlrList', pass', flight') = 0 /\ ended'[m] # "no"
    <2>1. Total(m, list, pduList, dlrList, pass, flight) <= 1
      BY <1>6 DEF StoreInv, CopyInv, Fine
    <2>2. /\ Total(m, list', pduList', dlrList', pass', flight')
              = Total(m, list, pduList, dlrList, pass, flight)
                + (InList(m, pduList') - InList(m, pduList)) + (InFlightOf(m, flight') - InFlightOf(m, flight))
          /\ Total(m, list, pduList, dlrList, pass, flight) \in Nat /\ Total(m, list', pduList', dlrList', pass', flight') \in Nat
          /\ InList(m, pduList) \in Nat /\ InFlightOf(m, flight) \in Nat /\ InFlightOf(m, flight') \in Nat
      BY <1>0, <1>5, CallbackCount
    <2>3. InList(m, pduList') = InList(m, pduList)
      BY DEF pduVars
    <2>4. InFlightOf(m, flight \ {f}) = InFlightOf(m, flight) - IF f.msg = m /\ f.st # "moved" THEN 1 ELSE 0
      BY <1>1, FlightCount
    <2>5. Total(m, list', pduList', dlrList', pass', flight')
            = Total(m, list, pduList, dlrList, pass, flight) - IF f.msg = m THEN 1 ELSE 0
      BY <2>2, <2>3, <2>4
    <2> QED
      BY <1>2, <2>1, <2>2, <2>5
  <1>7. CopyInv'
    BY <1>0, <1>6, CopyStep
  <1>8. ClaimInv'
    BY <1>0, <1>5, CallbackClaim
  <1> QED
    BY <1>5, <1>7, <1>8 DEF StoreInv

\* Refused, to be moved to the PDU list.
LEMMA MoveStart ==
  ASSUME StoreInv, NEW f \in flight, f.st = "sent", f.kind \in {"report", "dlr"},
         flight' = (flight \ {f}) \cup {[f EXCEPT !.st = "move"]},
         UNCHANGED <<config, storeVars, pduVars, dlrList, addVars, pending, pass, ended, faults>>
  PROVE  StoreInv'
  <1>0. BaseInv /\ UNCHANGED <<config, add, gid>> /\ UNCHANGED <<list, dlrList, pass>>
    BY DEF StoreInv, addVars, storeVars
  <1>1. f \in Flight /\ f.msg \in Msg /\ StoredIn(f.msg, config, add) /\ RightKind(f, gid) /\ IsFiniteSet(flight) /\ IsFiniteSet(flight \ {f})
    BY <1>0, FlightIs
  <1>2. PICK g : g = [f EXCEPT !.st = "move"]
    OBVIOUS
  <1>3. g.msg = f.msg /\ g.gid = f.gid /\ g.kind = f.kind /\ g.st = "move" /\ g \in Flight
    BY <1>1, <1>2 DEF Flight
  <1>4. g \in Flights(config, add, gid)
    BY <1>1, <1>3 DEF Flights, RightKind
  <1>5. FlightInv'
    <2>1. IsFiniteSet((flight \ {f}) \cup {g})
      BY <1>1, FS_AddElement
    <2> QED
      BY <1>0, <1>2, <1>4, <2>1 DEF BaseInv, FlightInv
  <1>6. TypeInv' /\ ListInv' /\ PassInv' /\ PendingInv'
    BY <1>0 DEF BaseInv, TypeInv, ListInv, PassInv, PendingInv, storeVars, pduVars, addVars
  <1>7. BaseInv'
    BY <1>0, <1>5, <1>6, BaseCalm DEF storeVars
  <1>8. ASSUME NEW m \in Msg, CountedIn(m, config, add, gid)
        PROVE  Total(m, list', pduList', dlrList', pass', flight') = Total(m, list, pduList, dlrList, pass, flight)
    <2>1. Total(m, list, pduList, dlrList, pass, flight) <= 1
      BY <1>8 DEF StoreInv, CopyInv, Fine
    <2>2. /\ Total(m, list', pduList', dlrList', pass', flight')
              = Total(m, list, pduList, dlrList, pass, flight)
                + (InList(m, pduList') - InList(m, pduList)) + (InFlightOf(m, flight') - InFlightOf(m, flight))
          /\ Total(m, list, pduList, dlrList, pass, flight) \in Nat /\ Total(m, list', pduList', dlrList', pass', flight') \in Nat
          /\ InList(m, pduList) \in Nat /\ InFlightOf(m, flight) \in Nat /\ InFlightOf(m, flight') \in Nat
          /\ HowMany(pass["mover"].claimed, With(m)) + InFlightOf(m, flight) <= Total(m, list, pduList, dlrList, pass, flight)
          /\ HowMany(pass["mover"].claimed, With(m)) \in Nat
      BY <1>0, <1>7, CallbackCount
    <2>3. InList(m, pduList') = InList(m, pduList)
      BY DEF pduVars
    <2>4. InFlightOf(m, flight) <= 1
      BY <2>1, <2>2
    <2>5. InFlightOf(m, (flight \ {f}) \cup {g}) = InFlightOf(m, flight)
      BY <1>1, <1>3, <2>4, FlightMove
    <2>6. InFlightOf(m, flight') = InFlightOf(m, flight)
      BY <1>2, <2>5
    <2> QED
      BY <2>2, <2>3, <2>6
  <1>9. CopyInv'
    BY <1>0, <1>8, CopyStep
  <1>10. ClaimInv'
    BY <1>0, <1>7, CallbackClaim
  <1> QED
    BY <1>7, <1>9, <1>10 DEF StoreInv

\* The claim of a report is dropped, a DLR has none.
LEMMA MoveDrops ==
  ASSUME BaseInv, UNCHANGED <<config, add, gid>>, NEW f \in flight,
         IF f.kind = "report" THEN RemovePending(f.gid) ELSE UNCHANGED pending
  PROVE  pending' \in [Gid -> Msg \cup {NoMsg}] /\ PendingInv'
  <1>1. f.gid \in Gid
    BY FlightIs
  <1>2. CASE f.kind = "report"
    BY <1>1, <1>2, PendingDrop
  <1>3. CASE f.kind # "report"
    BY <1>3 DEF BaseInv, PendingInv, TypeInv
  <1> QED
    BY <1>2, <1>3

\* LPUSH to the PDU list.
LEMMA PduCount ==
  ASSUME BaseInv, NEW x \in Msg, x \in Report \cup TableDlr, StoredIn(x, config, add), NEW m \in Msg,
         UNCHANGED <<config, add>>, pduList' = [pduList EXCEPT ![AccountOf[x]] = <<x>> \o @]
  PROVE  /\ pduList' \in [Account -> Seq(Msg)] /\ \A a \in Account : pduList'[a] \in Seq(StoredPdus(a, config, add))
         /\ InList(m, pduList') = InList(m, pduList) + IF x = m THEN 1 ELSE 0
  <1>0. AccountOf[x] \in Account /\ AccountOf[m] \in Account
    OBVIOUS
  <1>1. PICK s \in Seq(Msg) : s = pduList[AccountOf[x]]
    BY <1>0 DEF BaseInv, ListInv
  <1>2. s \in Seq(StoredPdus(AccountOf[x], config, add)) /\ x \in StoredPdus(AccountOf[x], config, add)
    BY <1>0, <1>1 DEF BaseInv, ListInv, StoredPdus
  <1>3. \A a \in Account : pduList'[a] = IF a = AccountOf[x] THEN <<x>> \o s ELSE pduList[a]
    BY <1>1 DEF BaseInv, ListInv
  <1>4. <<x>> \o s \in Seq(Msg) /\ <<x>> \o s \in Seq(StoredPdus(AccountOf[x], config, add))
    BY <1>2
  <1>5. pduList' \in [Account -> Seq(Msg)]
    BY <1>1, <1>4 DEF BaseInv, ListInv
  <1>6. \A a \in Account : pduList'[a] \in Seq(StoredPdus(a, config, add))
    BY <1>3, <1>4 DEF BaseInv, ListInv
  <1>7. HowMany(<<x>> \o s, {m}) = HowMany(s, {m}) + IF x \in {m} THEN 1 ELSE 0
    BY CountEnds
  <1>8. HowMany(pduList[AccountOf[m]], {m}) \in Nat
    BY BaseCounts DEF InList
  <1>9. InList(m, pduList') = InList(m, pduList) + IF x = m THEN 1 ELSE 0
    <2>1. CASE AccountOf[m] = AccountOf[x]
      BY <1>0, <1>1, <1>3, <1>7, <2>1 DEF InList
    <2>2. CASE AccountOf[m] # AccountOf[x]
      BY <1>0, <1>3, <1>8, <2>2 DEF InList
    <2> QED
      BY <2>1, <2>2
  <1> QED
    BY <1>5, <1>6, <1>9

\* A refused report or DLR becomes a stored PDU.
LEMMA MovePushStep ==
  ASSUME StoreInv, NEW f \in flight, f.st = "move", UNCHANGED <<config, storeVars, pduIndex, dlrList, addVars, pass>>,
         pduList' = [pduList EXCEPT ![AccountOf[f.msg]] = <<f.msg>> \o @],
         flight' = (flight \ {f}) \cup {[f EXCEPT !.st = "moved"]}, UNCHANGED <<pending, ended, faults>>
  PROVE  StoreInv'
  <1>0. BaseInv /\ UNCHANGED <<config, add, gid>> /\ UNCHANGED <<list, dlrList, pass>>
    BY DEF StoreInv, addVars, storeVars
  <1>1. /\ f \in Flight /\ f.msg \in Msg /\ StoredIn(f.msg, config, add) /\ RightKind(f, gid) /\ f.kind \in {"report", "dlr"}
        /\ IsFiniteSet(flight) /\ IsFiniteSet(flight \ {f})
    BY <1>0, FlightIs
  <1>2. PICK g : g = [f EXCEPT !.st = "moved"]
    OBVIOUS
  <1>3. g.msg = f.msg /\ g.gid = f.gid /\ g.kind = f.kind /\ g.st = "moved" /\ g \in Flight
    BY <1>1, <1>2 DEF Flight
  <1>4. g \in Flights(config, add, gid)
    BY <1>1, <1>3 DEF Flights, RightKind
  <1>5. FlightInv'
    <2>1. IsFiniteSet((flight \ {f}) \cup {g})
      BY <1>1, FS_AddElement
    <2> QED
      BY <1>0, <1>2, <1>4, <2>1 DEF BaseInv, FlightInv
  <1>6. f.msg \in Report \cup TableDlr
    BY <1>1 DEF RightKind
  <1>7. /\ pduList' \in [Account -> Seq(Msg)] /\ \A a \in Account : pduList'[a] \in Seq(StoredPdus(a, config, add))
        /\ \A m \in Msg : InList(m, pduList') = InList(m, pduList) + IF f.msg = m THEN 1 ELSE 0
    BY <1>0, <1>1, <1>6, PduCount
  <1>8. TypeInv' /\ PassInv' /\ PendingInv' /\ ListInv'
    BY <1>0, <1>7 DEF BaseInv, TypeInv, ListInv, PassInv, PendingInv, storeVars, addVars
  <1>9. BaseInv'
    BY <1>0, <1>5, <1>8, BaseCalm DEF storeVars
  <1>10. ASSUME NEW m \in Msg
         PROVE  Total(m, list', pduList', dlrList', pass', flight') = Total(m, list, pduList, dlrList, pass, flight)
    <2>2. /\ Total(m, list', pduList', dlrList', pass', flight')
              = Total(m, list, pduList, dlrList, pass, flight)
                + (InList(m, pduList') - InList(m, pduList)) + (InFlightOf(m, flight') - InFlightOf(m, flight))
          /\ Total(m, list, pduList, dlrList, pass, flight) \in Nat /\ Total(m, list', pduList', dlrList', pass', flight') \in Nat
          /\ InList(m, pduList) \in Nat /\ InList(m, pduList') \in Nat /\ InFlightOf(m, flight) \in Nat /\ InFlightOf(m, flight') \in Nat
      BY <1>0, <1>9, CallbackCount
    <2>3. InFlightOf(m, (flight \ {f}) \cup {g}) = InFlightOf(m, flight) - IF f.msg = m THEN 1 ELSE 0
      BY <1>1, <1>3, FlightGone
    <2>4. InFlightOf(m, flight') = InFlightOf(m, flight) - IF f.msg = m THEN 1 ELSE 0
      BY <1>2, <2>3
    <2>5. InList(m, pduList') = InList(m, pduList) + IF f.msg = m THEN 1 ELSE 0
      BY <1>7
    <2>6. CASE f.msg = m
      BY <2>2, <2>4, <2>5, <2>6
    <2>7. CASE f.msg # m
      BY <2>2, <2>4, <2>5, <2>7
    <2> QED
      BY <2>6, <2>7
  <1>11. CopyInv'
    BY <1>0, <1>10, CopyStep
  <1>12. ClaimInv'
    BY <1>0, ClaimSame
  <1> QED
    BY <1>9, <1>11, <1>12 DEF StoreInv

\* The insertion fails, and the report or DLR is lost.
LEMMA MoveFails ==
  ASSUME StoreInv, NEW f \in flight, f.st = "move", UNCHANGED <<config, storeVars, pduVars, dlrList, addVars, pass>>,
         Fault, ended' = [ended EXCEPT ![f.msg] = "fault"], flight' = flight \ {f},
         IF f.kind = "report" THEN RemovePending(f.gid) ELSE UNCHANGED pending
  PROVE  StoreInv'
  <1>0. BaseInv /\ UNCHANGED <<config, add, gid>> /\ UNCHANGED <<list, dlrList, pass>>
    BY DEF StoreInv, addVars, storeVars
  <1>1. /\ f.msg \in Msg /\ StoredIn(f.msg, config, add) /\ RightKind(f, gid) /\ f.kind \in {"report", "dlr"}
        /\ IsFiniteSet(flight) /\ IsFiniteSet(flight')
    BY <1>0, FlightIs
  <1>2. /\ ended' \in [Msg -> {"no", "done", "dropped", "fault"}]
        /\ \A n \in Msg : ended'[n] = ended[n] \/ StoredIn(n, config, add)
        /\ \A n \in Msg : ended'[n] = IF n = f.msg THEN "fault" ELSE ended[n]
    BY <1>0, <1>1, EndStep
  <1>3. pending' \in [Gid -> Msg \cup {NoMsg}] /\ PendingInv'
    BY <1>0, MoveDrops
  <1>4. faults' \in 0 .. config.faults
    BY <1>0, FaultStep DEF BaseInv
  <1>5. TypeInv' /\ ListInv' /\ FlightInv' /\ PassInv'
    BY <1>0, <1>1, <1>2, <1>3, <1>4 DEF BaseInv, TypeInv, ListInv, FlightInv, PassInv, storeVars, pduVars, addVars
  <1>6. BaseInv'
    BY <1>0, <1>2, <1>3, <1>5, BaseCalm DEF storeVars
  <1>7. ASSUME NEW m \in Msg, CountedIn(m, config, add, gid)
        PROVE  \/ /\ Total(m, list', pduList', dlrList', pass', flight') = Total(m, list, pduList, dlrList, pass, flight)
                  /\ ended'[m] = ended[m]
               \/ Total(m, list', pduList', dlrList', pass', flight') = 0 /\ ended'[m] # "no"
    <2>1. Total(m, list, pduList, dlrList, pass, flight) <= 1
      BY <1>7 DEF StoreInv, CopyInv, Fine
    <2>2. /\ Total(m, list', pduList', dlrList', pass', flight')
              = Total(m, list, pduList, dlrList, pass, flight)
                + (InList(m, pduList') - InList(m, pduList)) + (InFlightOf(m, flight') - InFlightOf(m, flight))
          /\ Total(m, list, pduList, dlrList, pass, flight) \in Nat /\ Total(m, list', pduList', dlrList', pass', flight') \in Nat
          /\ InList(m, pduList) \in Nat /\ InFlightOf(m, flight) \in Nat /\ InFlightOf(m, flight') \in Nat
      BY <1>0, <1>6, CallbackCount
    <2>3. InList(m, pduList') = InList(m, pduList)
      BY DEF pduVars
    <2>4. InFlightOf(m, flight \ {f}) = InFlightOf(m, flight) - IF f.msg = m /\ f.st # "moved" THEN 1 ELSE 0
      BY <1>1, FlightCount
    <2>5. Total(m, list', pduList', dlrList', pass', flight')
            = Total(m, list, pduList, dlrList, pass, flight) - IF f.msg = m THEN 1 ELSE 0
      BY <2>2, <2>3, <2>4
    <2> QED
      BY <1>2, <2>1, <2>2, <2>5
  <1>8. CopyInv'
    BY <1>0, <1>7, CopyStep
  <1>9. ClaimInv'
    <2>1. CASE f.kind = "report"
      BY <1>0, <1>6, <2>1, CallbackClaim
    <2>2. CASE f.kind # "report"
      BY <1>0, <2>2, ClaimSame
    <2> QED
      BY <2>1, <2>2
  <1> QED
    BY <1>6, <1>8, <1>9 DEF StoreInv

\* SADD, and the claim is dropped.
LEMMA MoveIndexStep ==
  ASSUME StoreInv, NEW f \in flight, MoveIndex(f)
  PROVE  StoreInv'
  <1>0. /\ BaseInv /\ UNCHANGED <<config, add, gid>> /\ UNCHANGED <<list, dlrList, pass>>
        /\ UNCHANGED <<config, storeVars, pduList, dlrList, addVars, pass, ended>>
        /\ f.st = "moved" /\ flight' = flight \ {f}
        /\ IF f.kind = "report" THEN RemovePending(f.gid) ELSE UNCHANGED pending
    BY DEF StoreInv, MoveIndex, addVars, storeVars
  <1>1. f.msg \in Msg /\ IsFiniteSet(flight) /\ IsFiniteSet(flight')
    BY <1>0, FlightIs
  <1>2. pending' \in [Gid -> Msg \cup {NoMsg}] /\ PendingInv'
    BY <1>0, MoveDrops
  <1>3. faults' \in 0 .. config.faults /\ pduIndex' \subseteq Account
    <2>1. AccountOf[f.msg] \in Account
      BY <1>1
    <2> QED
      BY <1>0, <2>1, FaultStep DEF BaseInv, TypeInv, MoveIndex
  <1>4. TypeInv' /\ ListInv' /\ FlightInv' /\ PassInv'
    BY <1>0, <1>1, <1>2, <1>3 DEF BaseInv, TypeInv, ListInv, FlightInv, PassInv, storeVars, addVars
  <1>5. BaseInv'
    BY <1>0, <1>2, <1>4, BaseCalm DEF storeVars
  <1>6. ASSUME NEW m \in Msg
        PROVE  Total(m, list', pduList', dlrList', pass', flight') = Total(m, list, pduList, dlrList, pass, flight)
    <2>1. /\ Total(m, list', pduList', dlrList', pass', flight')
              = Total(m, list, pduList, dlrList, pass, flight)
                + (InList(m, pduList') - InList(m, pduList)) + (InFlightOf(m, flight') - InFlightOf(m, flight))
          /\ Total(m, list, pduList, dlrList, pass, flight) \in Nat
          /\ InList(m, pduList) \in Nat /\ InFlightOf(m, flight) \in Nat
      BY <1>0, <1>5, CallbackCount
    <2>2. InFlightOf(m, flight \ {f}) = InFlightOf(m, flight) - IF f.msg = m /\ f.st # "moved" THEN 1 ELSE 0
      BY <1>1, FlightCount
    <2>3. InFlightOf(m, flight') = InFlightOf(m, flight) /\ InList(m, pduList') = InList(m, pduList)
      BY <1>0, <2>1, <2>2
    <2> QED
      BY <2>1, <2>3
  <1>7. CopyInv'
    BY <1>0, <1>6, CopyStep
  <1>8. ClaimInv'
    <2>1. CASE f.kind = "report"
      BY <1>0, <1>5, <2>1, CallbackClaim
    <2>2. CASE f.kind # "report"
      BY <1>0, <2>2, ClaimSame
    <2> QED
      BY <2>1, <2>2
  <1> QED
    BY <1>5, <1>7, <1>8 DEF StoreInv

\* Every callback.
LEMMA CallbackStep ==
  ASSUME StoreInv, NEW f \in flight, Delivered(f) \/ NotDelivered(f) \/ MovePush(f) \/ MoveIndex(f)
  PROVE  StoreInv'
  <1>1. CASE Delivered(f)
    BY <1>1, EndsInFlight DEF Delivered
  <1>2. CASE NotDelivered(f)
    BY <1>2, EndsInFlight, MoveStart DEF NotDelivered
  <1>3. CASE MovePush(f)
    BY <1>3, MovePushStep, MoveFails DEF MovePush, pduVars
  <1>4. CASE MoveIndex(f)
    BY <1>4, MoveIndexStep
  <1> QED
    BY <1>1, <1>2, <1>3, <1>4

-----------------------------------------------------------------------------
(* Claiming and returning *)

\* The next popped entry.
LEMMA NextEntry ==
  ASSUME BaseInv, NEW t \in Thread, pass[t].pc = "item", pass[t].items # <<>>
  PROVE  /\ Head(pass[t].items) \in Entries(PassTable(pass[t]), config, add, gid) /\ Head(pass[t].items) \in Entry
         /\ Tail(pass[t].items) \in Seq(Entries(PassTable(pass[t]), config, add, gid)) /\ Tail(pass[t].items) \in Seq(Entry)
         /\ Len(pass[t].items) = Len(Tail(pass[t].items)) + 1 /\ Len(Tail(pass[t].items)) \in Nat
         /\ \A m : HowMany(pass[t].items, With(m))
                     = HowMany(Tail(pass[t].items), With(m)) + IF Head(pass[t].items).msg = m THEN 1 ELSE 0
  <1>1. GoodPass(t, pass[t], config, add, gid)
    BY DEF BaseInv, PassInv
  <1>2. PICK s \in Seq(Entries(PassTable(pass[t]), config, add, gid)) : s = pass[t].items
    BY <1>1 DEF GoodPass
  <1>3. s \in Seq(Entry) /\ s # <<>>
    <2>1. Entries(PassTable(pass[t]), config, add, gid) \subseteq Entry
      BY DEF Entries
    <2> QED
      BY <1>2, <2>1, SeqMonotonic
  <1>4. Tail(s) \in Seq(Entry) /\ Head(s) \in Entry /\ \A S : HowMany(s, S) = HowMany(Tail(s), S) + IF Head(s) \in S THEN 1 ELSE 0
    BY <1>3, CountHead
  <1>5. /\ Tail(s) \in Seq(Entries(PassTable(pass[t]), config, add, gid)) /\ Head(s) \in Entries(PassTable(pass[t]), config, add, gid)
        /\ Len(s) = Len(Tail(s)) + 1 /\ Len(Tail(s)) \in Nat
    <2>1. Tail(s) \in Seq(Entries(PassTable(pass[t]), config, add, gid)) /\ Head(s) \in Entries(PassTable(pass[t]), config, add, gid)
      BY <1>2, <1>3, HeadTailProperties
    <2>2. Len(Tail(s)) = Len(s) - 1 /\ Len(s) \in Nat /\ Len(Tail(s)) \in Nat
      BY <1>3, <1>4, HeadTailProperties
    <2> QED
      BY <2>1, <2>2
  <1>6. \A m : HowMany(s, With(m)) = HowMany(Tail(s), With(m)) + IF Head(s).msg = m THEN 1 ELSE 0
    BY <1>4, WithIs
  <1> QED
    BY <1>2, <1>4, <1>5, <1>6

\* What a change of one pass and of one store makes of the count.
LEMMA ItemCount ==
  ASSUME BaseInv, BaseInv', NEW t \in Thread, NEW m \in Msg, UNCHANGED <<pduVars, dlrList, flight>>,
         \A u \in Thread : u # t => pass'[u] = pass[u]
  PROVE  /\ Total(m, list', pduList', dlrList', pass', flight')
              = Total(m, list, pduList, dlrList, pass, flight)
                + (InStores(m, list') - InStores(m, list))
                + (HowMany(pass'[t].items, With(m)) - HowMany(pass[t].items, With(m)))
                + (HowMany(pass'[t].claimed, With(m)) - HowMany(pass[t].claimed, With(m)))
         /\ Total(m, list, pduList, dlrList, pass, flight) \in Nat /\ Total(m, list', pduList', dlrList', pass', flight') \in Nat
         /\ InStores(m, list') \in Nat /\ InStores(m, list) \in Nat
         /\ HowMany(pass[t].claimed, With(m)) \in Nat /\ HowMany(pass'[t].claimed, With(m)) \in Nat
         /\ HowMany(pass[t].items, With(m)) \in Nat /\ HowMany(pass'[t].items, With(m)) \in Nat
  <1>1. /\ Total(m, list', pduList', dlrList', pass', flight') - Total(m, list, pduList, dlrList, pass, flight)
             = Here(m, list', pduList', dlrList', pass'[t], flight') - Here(m, list, pduList, dlrList, pass[t], flight)
        /\ Here(m, list', pduList', dlrList', pass'[t], flight') \in Nat /\ Here(m, list, pduList, dlrList, pass[t], flight) \in Nat
        /\ Total(m, list', pduList', dlrList', pass', flight') \in Nat /\ Total(m, list, pduList, dlrList, pass, flight) \in Nat
    BY TotalChange
  <1>2. /\ InStores(m, list') \in Nat /\ InStores(m, list) \in Nat /\ InFlightOf(m, flight) \in Nat
        /\ InList(m, pduList) \in Nat /\ InList(m, dlrList) \in Nat
        /\ HowMany(pass[t].claimed, With(m)) \in Nat /\ HowMany(pass'[t].claimed, With(m)) \in Nat
        /\ HowMany(pass[t].items, With(m)) \in Nat /\ HowMany(pass'[t].items, With(m)) \in Nat
    BY BaseCounts, NextCounts
  <1>3. Here(m, list', pduList', dlrList', pass'[t], flight')
          = InStores(m, list') + InList(m, pduList) + InList(m, dlrList) + HowMany(pass'[t].items, With(m))
            + HowMany(pass'[t].claimed, With(m)) + InFlightOf(m, flight)
    BY DEF Here, pduVars
  <1>4. Here(m, list, pduList, dlrList, pass[t], flight)
          = InStores(m, list) + InList(m, pduList) + InList(m, dlrList) + HowMany(pass[t].items, With(m))
            + HowMany(pass[t].claimed, With(m)) + InFlightOf(m, flight)
    BY DEF Here
  <1>5. Here(m, list', pduList', dlrList', pass'[t], flight') - Here(m, list, pduList, dlrList, pass[t], flight)
          = (InStores(m, list') - InStores(m, list))
            + (HowMany(pass'[t].items, With(m)) - HowMany(pass[t].items, With(m)))
            + (HowMany(pass'[t].claimed, With(m)) - HowMany(pass[t].claimed, With(m)))
    BY <1>2, <1>3, <1>4
  <1>6. Total(m, list', pduList', dlrList', pass', flight')
          = Total(m, list, pduList, dlrList, pass, flight)
            + (InStores(m, list') - InStores(m, list))
            + (HowMany(pass'[t].items, With(m)) - HowMany(pass[t].items, With(m)))
            + (HowMany(pass'[t].claimed, With(m)) - HowMany(pass[t].claimed, With(m)))
    BY <1>1, <1>2, <1>5
  <1> QED
    BY <1>1, <1>2, <1>6

\* The entry matches and is recorded under its number.
LEMMA ClaimStep ==
  ASSUME StoreInv, NEW t \in Thread, ClaimOrReturn(t), Matches(pass[t], Head(pass[t].items).msg)
  PROVE  StoreInv'
  <1> DEFINE p == pass[t]
             e == Head(p.items)
             i == [msg |-> e.msg, gid |-> e.gid, kind |-> p.kind]
  <1>0. /\ p.pc = "item" /\ p.items # <<>> /\ Matches(p, e.msg) /\ pending' = [pending EXCEPT ![e.gid] = e.msg]
        /\ pass' = [pass EXCEPT ![t].items = Tail(@), ![t].some = TRUE,
                         ![t].picked = @ + 1, ![t].claimed = Append(@, i)]
        /\ UNCHANGED <<config, storeVars, pduVars, dlrList, addVars, flight, ended, faults>>
        /\ UNCHANGED <<config, add, gid>> /\ BaseInv
    BY DEF ClaimOrReturn, addVars, storeVars, StoreInv
  <1>1. /\ e \in Entries(PassTable(p), config, add, gid) /\ e \in Entry
        /\ Tail(p.items) \in Seq(Entries(PassTable(p), config, add, gid)) /\ Tail(p.items) \in Seq(Entry)
        /\ Len(p.items) = Len(Tail(p.items)) + 1 /\ Len(Tail(p.items)) \in Nat
        /\ \A m : HowMany(p.items, With(m)) = HowMany(Tail(p.items), With(m)) + IF e.msg = m THEN 1 ELSE 0
    BY <1>0, NextEntry
  <1>2. p \in Pass /\ GoodPass(t, p, config, add, gid)
    BY <1>0 DEF BaseInv, PassInv
  <1>3. /\ e.msg \in Msg /\ e.gid \in Gid /\ e.msg \notin TableDlr /\ StoredIn(e.msg, config, add) /\ e.gid = gid[e.msg]
        /\ TableOf(e.msg) = PassTable(p)
    BY <1>1 DEF Entries, Entry
  <1>4. i \in Item /\ i \in Claims(t, p.kind, config, add, gid) /\ i.msg = e.msg /\ i.gid = e.gid /\ i.kind = p.kind
    <2>1. /\ p.kind \in {"mo", "mt", "report"} /\ (p.kind = "mo" => e.msg \in Mo) /\ (p.kind = "mt" => e.msg \in Mt)
          /\ (p.kind = "report" => e.msg \in Report)
      BY <1>0 DEF Matches
    <2>2. t = "requeue" => p.kind = "report"
      BY <1>0, <1>2 DEF GoodPass
    <2>3. i \in Item /\ i.msg = e.msg /\ i.gid = e.gid /\ i.kind = p.kind
      BY <1>3, <2>1 DEF Item, Kind
    <2>4. RightKind(i, gid)
      BY <1>3, <2>1, <2>3 DEF RightKind
    <2>5. i \in Items(config, add, gid)
      BY <1>3, <2>3, <2>4 DEF Items
    <2>6. IF t = "mover" THEN i.kind = p.kind ELSE i.kind \notin {"mo", "mt"}
      BY <2>2, <2>3 DEF Thread
    <2> QED
      BY <2>3, <2>5, <2>6 DEF Claims
  <1> HIDE DEF i
  <1>5. PICK s \in Seq(Item) : s = Append(p.claimed, i) /\ s \in Seq(Claims(t, p.kind, config, add, gid))
    <2>1. PICK r \in Seq(Item) : r = p.claimed /\ r \in Seq(Claims(t, p.kind, config, add, gid))
      BY <1>2 DEF Pass, GoodPass
    <2>2. Append(r, i) \in Seq(Item)
      BY <1>4, <2>1
    <2>3. Append(r, i) \in Seq(Claims(t, p.kind, config, add, gid))
      BY <1>4, <2>1
    <2> QED
      BY <2>1, <2>2, <2>3
  <1>6. PICK q : q = [p EXCEPT !.items = Tail(p.items), !.some = TRUE, !.picked = p.picked + 1, !.claimed = s]
    OBVIOUS
  <1>7. pass' = [pass EXCEPT ![t] = q]
    BY <1>0, <1>5, <1>6 DEF BaseInv, PassInv
  <1>8. /\ q.pc = "item" /\ q.empty = p.empty /\ q.items = Tail(p.items)
        /\ q.claimed = s /\ q.kind = p.kind /\ q.limit = p.limit
        /\ q.picked = p.picked + 1 /\ PassTable(q) = PassTable(p)
    BY <1>0, <1>2, <1>6 DEF Pass, PassTable
  <1>9. q \in Pass
    <2>1. p.picked \in Nat
      BY <1>2 DEF Pass
    <2>2. PICK n \in Nat : n = p.picked + 1
      BY <2>1
    <2>3. PICK r \in Seq(Entry) : r = Tail(p.items)
      BY <1>1
    <2> QED
      BY <1>2, <1>6, <2>2, <2>3 DEF Pass
  <1>10. q.picked + Len(q.items) <= q.limit /\ q.picked <= q.limit /\ q.empty < MaxEmpty
    <2>1. p.limit \in Nat /\ p.picked \in Nat /\ p.picked + Len(p.items) <= p.limit /\ p.empty < MaxEmpty
      BY <1>0, <1>2 DEF Pass, GoodPass
    <2>2. PICK n \in Nat : n = Len(Tail(p.items))
      BY <1>1
    <2>3. Len(p.items) = n + 1
      BY <1>1, <2>2
    <2>4. PICK k \in Nat : k = p.picked
      BY <2>1
    <2>5. k + (n + 1) <= p.limit
      BY <2>1, <2>3, <2>4
    <2>6. k + 1 + n <= p.limit /\ k + 1 <= p.limit
      BY <2>1, <2>5
    <2> QED
      BY <1>8, <2>1, <2>2, <2>4, <2>6
  <1>11. GoodPass(t, q, config, add, gid)
    BY <1>0, <1>1, <1>2, <1>5, <1>8, <1>9, <1>10 DEF GoodPass
  <1>12. PassInv' /\ \A u \in Thread : pass'[u] = IF u = t THEN q ELSE pass[u]
    BY <1>0, <1>7, <1>11, PassStays DEF BaseInv
  <1>13. /\ pending' \in [Gid -> Msg \cup {NoMsg}] /\ PendingInv'
         /\ \A g \in Gid : pending'[g] = IF g = e.gid THEN e.msg ELSE pending[g]
    <2>1. \A g \in Gid : pending'[g] = IF g = e.gid THEN e.msg ELSE pending[g]
      BY <1>0, <1>3 DEF BaseInv, TypeInv
    <2>2. pending' \in [Gid -> Msg \cup {NoMsg}]
      BY <1>0, <1>3 DEF BaseInv, TypeInv
    <2>3. Recorded(e.msg, e.gid, config, add, gid)
      BY <1>3 DEF Recorded
    <2>4. \A g \in Gid : Recorded(pending'[g], g, config, add, gid)
      BY <1>0, <2>1, <2>3 DEF BaseInv, PendingInv
    <2> QED
      BY <1>0, <2>1, <2>2, <2>4 DEF PendingInv
  <1>14. TypeInv' /\ ListInv' /\ FlightInv'
    BY <1>0, <1>13 DEF BaseInv, TypeInv, ListInv, FlightInv, storeVars, pduVars, addVars
  <1>15. BaseInv'
    BY <1>0, <1>12, <1>13, <1>14, BaseCalm DEF storeVars
  <1>16. ASSUME NEW m \in Msg
         PROVE  Total(m, list', pduList', dlrList', pass', flight') = Total(m, list, pduList, dlrList, pass, flight)
    <2>1. UNCHANGED <<pduVars, dlrList, flight>> /\ \A u \in Thread : u # t => pass'[u] = pass[u]
      BY <1>0, <1>12
    <2>2. /\ Total(m, list', pduList', dlrList', pass', flight')
              = Total(m, list, pduList, dlrList, pass, flight)
                + (InStores(m, list') - InStores(m, list))
                + (HowMany(pass'[t].items, With(m)) - HowMany(pass[t].items, With(m)))
                + (HowMany(pass'[t].claimed, With(m)) - HowMany(pass[t].claimed, With(m)))
          /\ Total(m, list, pduList, dlrList, pass, flight) \in Nat /\ Total(m, list', pduList', dlrList', pass', flight') \in Nat
          /\ InStores(m, list') \in Nat /\ InStores(m, list) \in Nat
          /\ HowMany(pass[t].claimed, With(m)) \in Nat /\ HowMany(pass'[t].claimed, With(m)) \in Nat
          /\ HowMany(pass[t].items, With(m)) \in Nat /\ HowMany(pass'[t].items, With(m)) \in Nat
      BY <1>0, <1>15, <2>1, ItemCount
    <2>3. InStores(m, list') = InStores(m, list)
      BY <1>0 DEF storeVars
    <2>4. HowMany(pass[t].items, With(m)) = HowMany(pass'[t].items, With(m)) + IF e.msg = m THEN 1 ELSE 0
      BY <1>1, <1>8, <1>12
    <2>5. HowMany(pass'[t].claimed, With(m)) = HowMany(pass[t].claimed, With(m)) + IF e.msg = m THEN 1 ELSE 0
      <3>1. PICK r \in Seq(Item), x \in Item : r = p.claimed /\ x = i
        BY <1>2, <1>4 DEF Pass
      <3>2. HowMany(Append(r, x), With(m)) = HowMany(r, With(m)) + IF x \in With(m) THEN 1 ELSE 0
        BY CountEnds, ZenonT(40)
      <3>3. x \in With(m) <=> e.msg = m
        BY <1>4, <3>1, WithIs
      <3> QED
        BY <1>5, <1>8, <1>12, <3>1, <3>2, <3>3
    <2>6. CASE e.msg = m
      BY <2>2, <2>3, <2>4, <2>5, <2>6, SMTT(30)
    <2>7. CASE e.msg # m
      BY <2>2, <2>3, <2>4, <2>5, <2>7
    <2> QED
      BY <2>6, <2>7
  <1>17. CopyInv'
    BY <1>0, <1>16, CopyStep
  <1>18. ClaimInv'
    <2> SUFFICES ASSUME NEW k \in DOMAIN pass'["mover"].claimed
                 PROVE  ClaimedIn(pass'["mover"].claimed[k], pending', config, add, gid)
      BY <1>0 DEF ClaimInv
    <2>1. PICK j : j = pass'["mover"].claimed[k]
      OBVIOUS
    <2>2. j \in Claims("mover", pass'["mover"].kind, config, add, gid)
      <3>1. GoodPass("mover", pass'["mover"], config, add, gid)
        BY <1>0, <1>12, Names DEF PassInv
      <3>2. pass'["mover"].claimed \in Seq(Claims("mover", pass'["mover"].kind, config, add, gid))
        BY <3>1 DEF GoodPass
      <3> QED
        BY <2>1, <3>2
    <2>3. SUFFICES ASSUME j.kind = "mo", CountedIn(j.msg, config, add, gid)
                   PROVE  pending'[j.gid] = j.msg \/ (pending'[j.gid] = NoMsg /\ SharedIn(j.msg, config, add, gid))
      BY <2>1 DEF ClaimedIn
    <2>4. /\ j.msg \in Mo /\ j.msg \in Msg /\ j.msg \notin TableDlr /\ j.gid = gid[j.msg] /\ j.gid \in Gid /\ StoredIn(j.msg, config, add)
          /\ j.kind = pass'["mover"].kind
      BY <2>2, <2>3 DEF Claims, Items, Item, RightKind
    <2>5. CASE j.gid = e.gid
      <3>1. PassTable(p) = "store"
        <4>1. CASE t = "mover"
          BY <1>8, <1>12, <2>3, <2>4, <4>1 DEF PassTable
        <4>2. CASE t # "mover"
          BY <1>0, <1>2, <4>2 DEF GoodPass, PassTable, Thread
        <4> QED
          BY <4>1, <4>2
      <3>2. TableOf(j.msg) = TableOf(e.msg)
        BY <1>3, <2>4, <3>1 DEF TableOf
      <3>3. j.msg = e.msg
        BY <1>0, <1>3, <2>3, <2>4, <2>5, <3>2, SameNumber
      <3> QED
        BY <1>13, <2>4, <2>5, <3>3
    <2>6. CASE j.gid # e.gid
      <3>1. pending'[j.gid] = pending[j.gid]
        BY <1>13, <2>4, <2>6
      <3>2. j # i
        BY <1>4, <2>6
      <3>3. \E l \in DOMAIN pass["mover"].claimed : j = pass["mover"].claimed[l]
        <4>1. CASE t = "mover"
          <5>1. PICK r \in Seq(Item) : r = p.claimed
            BY <1>2 DEF Pass
          <5>2. pass'["mover"].claimed = Append(r, i)
            BY <1>5, <1>8, <1>12, <4>1, <5>1
          <5>3. \A l \in DOMAIN Append(r, i) : Append(r, i)[l] = i \/ (l \in DOMAIN r /\ Append(r, i)[l] = r[l])
            BY <1>4
          <5> QED
            BY <2>1, <3>2, <4>1, <5>1, <5>2, <5>3
        <4>2. CASE t # "mover"
          BY <1>12, <2>1, <4>2, Names
        <4> QED
          BY <4>1, <4>2
      <3>4. ClaimedIn(j, pending, config, add, gid)
        BY <3>3 DEF StoreInv, ClaimInv
      <3> QED
        BY <2>3, <3>1, <3>4 DEF ClaimedIn
    <2> QED
      BY <2>5, <2>6
  <1> QED
    BY <1>15, <1>17, <1>18 DEF StoreInv

\* The entry does not match and goes back to the head of the list, or is lost.
LEMMA ReturnStep ==
  ASSUME StoreInv, NEW t \in Thread, ClaimOrReturn(t), ~Matches(pass[t], Head(pass[t].items).msg)
  PROVE  StoreInv'
  <1> DEFINE p == pass[t]
             e == Head(p.items)
  <1>0. /\ p.pc = "item" /\ p.items # <<>>
        /\ \/ LPush(PassTable(p), e) /\ UNCHANGED <<ended, faults>>
           \/ Fault /\ ended' = [ended EXCEPT ![e.msg] = "fault"] /\ UNCHANGED list
        /\ pass' = [pass EXCEPT ![t].items = Tail(@)]
        /\ UNCHANGED <<config, ids, index, pduVars, dlrList, addVars, flight, pending>>
        /\ UNCHANGED <<config, add, gid>> /\ BaseInv
    BY DEF ClaimOrReturn, addVars, StoreInv
  <1>1. /\ e \in Entries(PassTable(p), config, add, gid) /\ e \in Entry
        /\ Tail(p.items) \in Seq(Entries(PassTable(p), config, add, gid)) /\ Tail(p.items) \in Seq(Entry)
        /\ Len(p.items) = Len(Tail(p.items)) + 1 /\ Len(Tail(p.items)) \in Nat
        /\ \A m : HowMany(p.items, With(m)) = HowMany(Tail(p.items), With(m)) + IF e.msg = m THEN 1 ELSE 0
    BY <1>0, NextEntry
  <1>2. p \in Pass /\ GoodPass(t, p, config, add, gid)
    BY <1>0 DEF BaseInv, PassInv
  <1>3. e.msg \in Msg /\ StoredIn(e.msg, config, add)
    BY <1>1 DEF Entries, Entry
  <1>4. PICK q : q = [p EXCEPT !.items = Tail(p.items)]
    OBVIOUS
  <1>5. pass' = [pass EXCEPT ![t] = q]
    BY <1>0, <1>4 DEF BaseInv, PassInv
  <1>6. /\ q.pc = "item" /\ q.empty = p.empty /\ q.items = Tail(p.items)
        /\ q.claimed = p.claimed /\ q.kind = p.kind /\ q.limit = p.limit
        /\ q.picked = p.picked /\ PassTable(q) = PassTable(p)
    BY <1>0, <1>2, <1>4 DEF Pass, PassTable
  <1>7. q \in Pass
    <2>1. PICK r \in Seq(Entry) : r = Tail(p.items)
      BY <1>1
    <2> QED
      BY <1>2, <1>4, <2>1 DEF Pass
  <1>8. q.picked + Len(q.items) <= q.limit
    <2>1. p.limit \in Nat /\ p.picked \in Nat /\ p.picked + Len(p.items) <= p.limit
      BY <1>0, <1>2 DEF Pass, GoodPass
    <2>2. PICK n \in Nat : n = Len(Tail(p.items))
      BY <1>1
    <2>3. Len(p.items) = n + 1
      BY <1>1, <2>2
    <2>4. PICK k \in Nat : k = p.picked
      BY <2>1
    <2>5. k + (n + 1) <= p.limit
      BY <2>1, <2>3, <2>4
    <2>6. k + n <= p.limit
      BY <2>1, <2>5
    <2> QED
      BY <1>6, <2>2, <2>4, <2>6
  <1>9. GoodPass(t, q, config, add, gid)
    BY <1>0, <1>1, <1>2, <1>6, <1>7, <1>8 DEF GoodPass
  <1>10. PassInv' /\ \A u \in Thread : pass'[u] = IF u = t THEN q ELSE pass[u]
    BY <1>0, <1>5, <1>9, PassStays DEF BaseInv
  <1>11. /\ ended' \in [Msg -> {"no", "done", "dropped", "fault"}]
         /\ \A n \in Msg : ended'[n] = ended[n] \/ StoredIn(n, config, add)
         /\ list' \in [Table -> Seq(Entry)] /\ \A u \in Table : list'[u] \in Seq(Entries(u, config, add, gid))
         /\ faults' \in 0 .. config.faults
    <2>1. CASE LPush(PassTable(p), e) /\ UNCHANGED <<ended, faults>>
      <3>1. PICK k \in Table : k = PassTable(p)
        BY Names
      <3>2. PICK x \in Entries(k, config, add, gid) : x = e
        BY <1>1, <3>1
      <3>3. LPush(k, x) /\ ListInv /\ \A u \in Table : list[u] \in Seq(Entries(u, config, add, gid))
        BY <1>0, <2>1, <3>1, <3>2 DEF BaseInv, ListInv
      <3>4. list' \in [Table -> Seq(Entry)] /\ \A u \in Table : list'[u] \in Seq(Entries(u, config, add, gid))
        BY <3>3, PushStep
      <3> QED
        BY <1>0, <2>1, <3>4 DEF BaseInv, TypeInv
    <2>2. CASE Fault /\ ended' = [ended EXCEPT ![e.msg] = "fault"] /\ UNCHANGED list
      <3>1. /\ ended' \in [Msg -> {"no", "done", "dropped", "fault"}]
            /\ \A n \in Msg : ended'[n] = ended[n] \/ StoredIn(n, config, add)
        BY <1>0, <1>3, <2>2, EndStep
      <3>2. faults' \in 0 .. config.faults
        BY <1>0, <2>2, FaultStep DEF BaseInv
      <3> QED
        BY <1>0, <2>2, <3>1, <3>2 DEF BaseInv, ListInv
    <2> QED
      BY <1>0, <2>1, <2>2
  <1>12. TypeInv' /\ ListInv' /\ FlightInv' /\ PendingInv'
    BY <1>0, <1>11 DEF BaseInv, TypeInv, ListInv, FlightInv, PendingInv, pduVars, addVars
  <1>13. BaseInv'
    BY <1>0, <1>10, <1>11, <1>12, BaseCalm
  <1>14. ASSUME NEW m \in Msg, CountedIn(m, config, add, gid)
         PROVE  \/ /\ Total(m, list', pduList', dlrList', pass', flight') = Total(m, list, pduList, dlrList, pass, flight)
                   /\ ended'[m] = ended[m]
                \/ Total(m, list', pduList', dlrList', pass', flight') = 0 /\ ended'[m] # "no"
    <2>1. UNCHANGED <<pduVars, dlrList, flight>> /\ \A u \in Thread : u # t => pass'[u] = pass[u]
      BY <1>0, <1>10
    <2>2. /\ Total(m, list', pduList', dlrList', pass', flight')
              = Total(m, list, pduList, dlrList, pass, flight)
                + (InStores(m, list') - InStores(m, list))
                + (HowMany(pass'[t].items, With(m)) - HowMany(pass[t].items, With(m)))
                + (HowMany(pass'[t].claimed, With(m)) - HowMany(pass[t].claimed, With(m)))
          /\ Total(m, list, pduList, dlrList, pass, flight) \in Nat /\ Total(m, list', pduList', dlrList', pass', flight') \in Nat
          /\ InStores(m, list') \in Nat /\ InStores(m, list) \in Nat
          /\ HowMany(pass[t].claimed, With(m)) \in Nat
          /\ HowMany(pass[t].items, With(m)) \in Nat /\ HowMany(pass'[t].items, With(m)) \in Nat
      BY <1>0, <1>13, <2>1, ItemCount
    <2>3. HowMany(pass'[t].claimed, With(m)) = HowMany(pass[t].claimed, With(m))
      BY <1>6, <1>10
    <2>4. HowMany(pass[t].items, With(m)) = HowMany(pass'[t].items, With(m)) + IF e.msg = m THEN 1 ELSE 0
      BY <1>1, <1>6, <1>10
    <2>5. Total(m, list', pduList', dlrList', pass', flight')
            = Total(m, list, pduList, dlrList, pass, flight) + (InStores(m, list') - InStores(m, list)) - IF e.msg = m THEN 1 ELSE 0
      BY <2>2, <2>3, <2>4
    <2>6. CASE LPush(PassTable(p), e) /\ UNCHANGED <<ended, faults>>
      <3>1. PICK k \in Table : k = PassTable(p)
        BY Names
      <3>2. PICK x \in Entry : x = e
        BY <1>1
      <3>3. LPush(k, x)
        BY <2>6, <3>1, <3>2
      <3>4. InStores(m, list') - InStores(m, list) = IF x.msg = m THEN 1 ELSE 0
        BY <1>0, <1>13, <3>3, PushCount
      <3> QED
        BY <2>2, <2>5, <2>6, <3>2, <3>4
    <2>7. CASE Fault /\ ended' = [ended EXCEPT ![e.msg] = "fault"] /\ UNCHANGED list
      <3>1. Total(m, list, pduList, dlrList, pass, flight) <= 1
        BY <1>14 DEF StoreInv, CopyInv, Fine
      <3>2. \A n \in Msg : ended'[n] = IF n = e.msg THEN "fault" ELSE ended[n]
        BY <1>0, <1>3, <2>7, EndStep
      <3>3. InStores(m, list') = InStores(m, list)
        BY <2>7
      <3> QED
        BY <2>2, <2>5, <3>1, <3>2, <3>3
    <2> QED
      BY <1>0, <2>6, <2>7
  <1>15. CopyInv'
    BY <1>0, <1>14, CopyStep
  <1>16. ClaimInv'
    <2>1. pass'["mover"].claimed = pass["mover"].claimed
      BY <1>6, <1>10, Names
    <2> QED
      BY <1>0, <2>1, ClaimSame
  <1> QED
    BY <1>13, <1>15, <1>16 DEF StoreInv

-----------------------------------------------------------------------------
(* Stored PDUs and DLR entries *)

\* What is popped from an account's list becomes items of one kind, in order.
AsItems(s, kind) == [j \in 1 .. Len(s) |-> [msg |-> s[j], gid |-> 0, kind |-> kind]]

\* What is popped has as many copies of a message as the list had.
LEMMA ItemsCount ==
  ASSUME NEW X, X \subseteq Msg, NEW s \in Seq(X), NEW kind \in {"pdu", "dlr"}
  PROVE  AsItems(s, kind) \in Seq(Item) /\ \A m : HowMany(AsItems(s, kind), With(m)) = HowMany(s, {m})
  <1>1. Len(s) \in Nat /\ \A j \in 1 .. Len(s) : s[j] \in Msg
    OBVIOUS
  <1>2. ASSUME NEW j \in 1 .. Len(s)
        PROVE  [msg |-> s[j], gid |-> 0, kind |-> kind] \in Item
    BY <1>1, NumbersFinite DEF Item, Kind
  <1>3. AsItems(s, kind) \in [1 .. Len(s) -> Item]
    BY <1>2 DEF AsItems
  <1>4. AsItems(s, kind) \in Seq(Item)
    BY <1>1, <1>3, SeqDef
  <1>5. ASSUME NEW m
        PROVE  HowMany(AsItems(s, kind), With(m)) = HowMany(s, {m})
    <2>1. DOMAIN AsItems(s, kind) = 1 .. Len(s) /\ DOMAIN s = 1 .. Len(s)
      BY DEF AsItems
    <2>2. \A j \in 1 .. Len(s) : AsItems(s, kind)[j] \in With(m) <=> s[j] \in {m}
      <3> SUFFICES ASSUME NEW j \in 1 .. Len(s)
                   PROVE  AsItems(s, kind)[j] \in With(m) <=> s[j] \in {m}
        OBVIOUS
      <3>1. PICK i \in Item : i = AsItems(s, kind)[j] /\ i.msg = s[j]
        BY <1>2 DEF AsItems
      <3> QED
        BY <3>1, WithIs
    <2>3. {j \in DOMAIN AsItems(s, kind) : AsItems(s, kind)[j] \in With(m)} = {j \in DOMAIN s : s[j] \in {m}}
      BY <2>1, <2>2
    <2> QED
      BY <2>3 DEF HowMany
  <1> QED
    BY <1>4, <1>5

\* They are claims of the requeue thread.
LEMMA ItemsOf ==
  ASSUME NEW X, X \subseteq Msg, NEW s \in Seq(X), NEW kind \in {"pdu", "dlr"},
         kind = "pdu" => X \subseteq Report \cup TableDlr, kind = "dlr" => X \subseteq TableDlr,
         NEW c, NEW A, NEW G, \A m \in X : StoredIn(m, c, A), NEW k
  PROVE  AsItems(s, kind) \in Seq(Claims("requeue", k, c, A, G))
  <1>1. Len(s) \in Nat /\ \A j \in 1 .. Len(s) : s[j] \in X
    OBVIOUS
  <1>2. 0 \in Gid
    BY NumbersFinite
  <1>3. ASSUME NEW j \in 1 .. Len(s)
        PROVE  [msg |-> s[j], gid |-> 0, kind |-> kind] \in Claims("requeue", k, c, A, G)
    <2>1. PICK i : i = [msg |-> s[j], gid |-> 0, kind |-> kind]
      OBVIOUS
    <2>2. i \in Item /\ i.msg = s[j] /\ i.gid = 0 /\ i.kind = kind
      BY <1>1, <1>2, <2>1 DEF Item, Kind
    <2>3. RightKind(i, G)
      BY <1>1, <2>2 DEF RightKind
    <2>4. i \in Items(c, A, G)
      BY <1>1, <2>2, <2>3 DEF Items
    <2>5. "requeue" # "mover"
      OBVIOUS
    <2> QED
      BY <2>1, <2>2, <2>4, <2>5 DEF Claims
  <1>4. AsItems(s, kind) \in [1 .. Len(s) -> Claims("requeue", k, c, A, G)]
    BY <1>3 DEF AsItems
  <1> QED
    BY <1>1, <1>4, SeqDef

\* Of a list only messages of the account are popped.
LEMMA AccountPop ==
  ASSUME NEW D \in [Account -> Seq(Msg)], NEW E \in [Account -> Seq(Msg)], NEW a \in Account, NEW n \in Nat,
         NEW m \in Msg, InList(m, D) \in Nat, D[a] \in Seq({y \in Msg : AccountOf[y] = a}),
         \A b \in Account : E[b] = IF b = a THEN Rest(D[a], n) ELSE D[b]
  PROVE  InList(m, E) + HowMany(Popped(D[a], n), {m}) = InList(m, D)
         /\ HowMany(Popped(D[a], n), {m}) \in Nat /\ InList(m, E) \in Nat
  <1>y. PICK Y : Y = {y \in Msg : AccountOf[y] = a}
    OBVIOUS
  <1>1. PICK s \in Seq(Y) : s = D[a]
    BY <1>y
  <1>2. Popped(s, n) \in Seq(Y) /\ Rest(s, n) \in Seq(Y) /\ Len(Popped(s, n)) <= n
        /\ \A S : HowMany(s, S) = HowMany(Popped(s, n), S) + HowMany(Rest(s, n), S)
    BY PopSplits
  <1>3. PICK x \in Seq(Y), y \in Seq(Y) : x = Popped(s, n) /\ y = Rest(s, n)
    BY <1>2
  <1>4. HowMany(x, {m}) \in Nat /\ HowMany(y, {m}) \in Nat /\ HowMany(s, {m}) = HowMany(x, {m}) + HowMany(y, {m})
    BY <1>2, <1>3, CountType
  <1>5. AccountOf[m] \in Account
    OBVIOUS
  <1>6. CASE AccountOf[m] = a
    <2>1. E[AccountOf[m]] = y /\ D[AccountOf[m]] = s
      BY <1>1, <1>3, <1>6
    <2> QED
      BY <1>1, <1>3, <1>4, <2>1 DEF InList
  <1>7. CASE AccountOf[m] # a
    <2>1. E[AccountOf[m]] = D[AccountOf[m]]
      BY <1>5, <1>7
    <2>2. \A k \in DOMAIN x : x[k] \in Y
      OBVIOUS
    <2>3. \A k \in DOMAIN x : x[k] \notin {m}
      BY <1>7, <1>y, <2>2
    <2>4. HowMany(x, {m}) = 0
      BY <2>3, CountType
    <2>5. InList(m, E) = InList(m, D)
      BY <2>1 DEF InList
    <2> QED
      BY <1>1, <1>3, <2>4, <2>5
  <1> QED
    BY <1>6, <1>7

\* One pass and an account's lists change.
LEMMA ListCount ==
  ASSUME BaseInv, BaseInv', NEW t \in Thread, NEW m \in Msg, UNCHANGED <<list, flight>>,
         \A u \in Thread : u # t => pass'[u] = pass[u], pass'[t].items = pass[t].items
  PROVE  /\ Total(m, list', pduList', dlrList', pass', flight')
              = Total(m, list, pduList, dlrList, pass, flight)
                + (InList(m, pduList') - InList(m, pduList)) + (InList(m, dlrList') - InList(m, dlrList))
                + (HowMany(pass'[t].claimed, With(m)) - HowMany(pass[t].claimed, With(m)))
         /\ Total(m, list, pduList, dlrList, pass, flight) \in Nat
         /\ InList(m, pduList) \in Nat /\ InList(m, pduList') \in Nat /\ InList(m, dlrList) \in Nat /\ InList(m, dlrList') \in Nat
         /\ HowMany(pass[t].claimed, With(m)) \in Nat /\ HowMany(pass'[t].claimed, With(m)) \in Nat
  <1>1. /\ Total(m, list', pduList', dlrList', pass', flight') - Total(m, list, pduList, dlrList, pass, flight)
             = Here(m, list', pduList', dlrList', pass'[t], flight') - Here(m, list, pduList, dlrList, pass[t], flight)
        /\ Here(m, list', pduList', dlrList', pass'[t], flight') \in Nat /\ Here(m, list, pduList, dlrList, pass[t], flight) \in Nat
        /\ Total(m, list', pduList', dlrList', pass', flight') \in Nat /\ Total(m, list, pduList, dlrList, pass, flight) \in Nat
    BY TotalChange
  <1>2. /\ InStores(m, list) \in Nat /\ InFlightOf(m, flight) \in Nat
        /\ InList(m, pduList) \in Nat /\ InList(m, pduList') \in Nat /\ InList(m, dlrList) \in Nat /\ InList(m, dlrList') \in Nat
        /\ HowMany(pass[t].claimed, With(m)) \in Nat /\ HowMany(pass'[t].claimed, With(m)) \in Nat
        /\ HowMany(pass[t].items, With(m)) \in Nat
    BY BaseCounts, NextCounts
  <1>3. Here(m, list', pduList', dlrList', pass'[t], flight')
          = InStores(m, list) + InList(m, pduList') + InList(m, dlrList') + HowMany(pass[t].items, With(m))
            + HowMany(pass'[t].claimed, With(m)) + InFlightOf(m, flight)
    BY DEF Here
  <1>4. Here(m, list, pduList, dlrList, pass[t], flight)
          = InStores(m, list) + InList(m, pduList) + InList(m, dlrList) + HowMany(pass[t].items, With(m))
            + HowMany(pass[t].claimed, With(m)) + InFlightOf(m, flight)
    BY DEF Here
  <1>5. Here(m, list', pduList', dlrList', pass'[t], flight') - Here(m, list, pduList, dlrList, pass[t], flight)
          = (InList(m, pduList') - InList(m, pduList)) + (InList(m, dlrList') - InList(m, dlrList))
            + (HowMany(pass'[t].claimed, With(m)) - HowMany(pass[t].claimed, With(m)))
    BY <1>2, <1>3, <1>4
  <1>6. Total(m, list', pduList', dlrList', pass', flight')
          = Total(m, list, pduList, dlrList, pass, flight)
            + (InList(m, pduList') - InList(m, pduList)) + (InList(m, dlrList') - InList(m, dlrList))
            + (HowMany(pass'[t].claimed, With(m)) - HowMany(pass[t].claimed, With(m)))
    BY <1>1, <1>2, <1>5
  <1> QED
    BY <1>1, <1>2, <1>6

\* LPOP of the account's stored PDUs.
LEMMA PopPdusStep ==
  ASSUME StoreInv, NEW t \in Thread, t = "requeue", PopPdus
  PROVE  StoreInv'
  <1> DEFINE p == pass[t]
             found == Popped(pduList[p.acct], p.limit)
             left == p.limit - Len(found)
             pc == CASE found = <<>> -> "llen" [] left = 0 -> "deliver" [] OTHER -> "dlr"
  <1>0. /\ p.pc = "pdu" /\ pduList' = [pduList EXCEPT ![p.acct] = Rest(@, p.limit)]
        /\ pass' = [pass EXCEPT ![t].claimed = AsItems(found, "pdu"), ![t].limit = left, ![t].pc = pc]
        /\ UNCHANGED <<config, storeVars, pduIndex, dlrList, addVars, pending, flight, ended, faults>>
        /\ UNCHANGED <<config, add, gid>> /\ BaseInv
    BY DEF PopPdus, addVars, StoreInv, AsItems
  <1>1. /\ p \in Pass /\ GoodPass(t, p, config, add, gid) /\ p.items = <<>> /\ p.claimed = <<>> /\ p.acct \in Account
        /\ p.limit \in Nat /\ p.limit > 0 /\ p.picked = 0
    BY <1>0 DEF BaseInv, PassInv, GoodPass, Pass
  <1>2. PICK X : X = StoredPdus(p.acct, config, add)
    OBVIOUS
  <1>3. X \subseteq Msg /\ X \subseteq Report \cup TableDlr /\ (\A y \in X : AccountOf[y] = p.acct) /\ (\A y \in X : StoredIn(y, config, add))
    BY <1>2 DEF StoredPdus, Msg
  <1>4. pduList \in [Account -> Seq(Msg)] /\ pduList[p.acct] \in Seq(X)
    BY <1>0, <1>1, <1>2 DEF BaseInv, ListInv
  <1>5. /\ found \in Seq(X) /\ Rest(pduList[p.acct], p.limit) \in Seq(X) /\ Len(found) <= p.limit
        /\ pduList' \in [Account -> Seq(Msg)]
        /\ \A b \in Account : pduList'[b] = IF b = p.acct THEN Rest(pduList[p.acct], p.limit) ELSE pduList[b]
    <2>1. pduList[p.acct] \in Seq(Msg)
      BY <1>1, <1>4
    <2>2. /\ found \in Seq(X) /\ Rest(pduList[p.acct], p.limit) \in Seq(X) /\ Len(found) <= p.limit
          /\ Rest(pduList[p.acct], p.limit) \in Seq(Msg)
      BY <1>1, <1>4, <2>1, PopSplits
    <2> QED
      BY <1>0, <1>4, <2>2
  <1>6. ASSUME NEW m \in Msg
        PROVE  /\ InList(m, pduList') + HowMany(found, {m}) = InList(m, pduList)
               /\ HowMany(found, {m}) \in Nat /\ InList(m, pduList') \in Nat /\ InList(m, pduList) \in Nat
    <2>1. InList(m, pduList) \in Nat
      BY <1>0, BaseCounts
    <2>2. PICK a \in Account : a = p.acct
      BY <1>1
    <2>3. PICK n \in Nat : n = p.limit
      BY <1>1
    <2>4. pduList[a] \in Seq(X) /\ (\A y \in X : AccountOf[y] = a)
      BY <1>3, <1>4, <2>2
    <2>5. \A b \in Account : pduList'[b] = IF b = a THEN Rest(pduList[a], n) ELSE pduList[b]
      BY <1>5, <2>2, <2>3
    <2>6. /\ InList(m, pduList') + HowMany(Popped(pduList[a], n), {m}) = InList(m, pduList)
          /\ HowMany(Popped(pduList[a], n), {m}) \in Nat /\ InList(m, pduList') \in Nat
      <3>1. PICK D \in [Account -> Seq(Msg)] : D = pduList
        BY <1>4
      <3>2. PICK E \in [Account -> Seq(Msg)] : E = pduList'
        BY <1>5
      <3>3. InList(m, D) \in Nat /\ D[a] \in Seq({y \in Msg : AccountOf[y] = a})
        <4>1. X \subseteq {y \in Msg : AccountOf[y] = a}
          BY <1>3, <2>4
        <4> QED
          BY <2>1, <2>4, <3>1, <4>1, SeqMonotonic
      <3>4. \A b \in Account : E[b] = IF b = a THEN Rest(D[a], n) ELSE D[b]
        BY <2>5, <3>1, <3>2
      <3> HIDE KindAssumption, ScenarioAssumption, BoundAssumption
      <3>5. /\ InList(m, E) + HowMany(Popped(D[a], n), {m}) = InList(m, D)
            /\ HowMany(Popped(D[a], n), {m}) \in Nat /\ InList(m, E) \in Nat
        BY <3>3, <3>4, AccountPop, ZenonT(40)
      <3> QED
        BY <3>1, <3>2, <3>5
    <2> QED
      BY <2>1, <2>2, <2>3, <2>6
  <1>7. PICK s \in Seq(Item) : s = AsItems(found, "pdu") /\ s \in Seq(Claims("requeue", p.kind, config, add, gid))
    <2>1. AsItems(found, "pdu") \in Seq(Claims("requeue", p.kind, config, add, gid))
      BY <1>3, <1>5, ItemsOf
    <2>2. AsItems(found, "pdu") \in Seq(Item)
      BY <1>3, <1>5, ItemsCount
    <2> QED
      BY <2>1, <2>2
  <1>8. \A m : HowMany(s, With(m)) = HowMany(found, {m})
    <2>1. PICK f \in Seq(X) : f = found
      BY <1>5
    <2>2. \A m : HowMany(AsItems(f, "pdu"), With(m)) = HowMany(f, {m})
      BY <1>3, ItemsCount
    <2> QED
      BY <1>7, <2>1, <2>2
  <1>9. PICK n \in Nat : n = left /\ (found = <<>> => n = p.limit)
    BY <1>1, <1>5
  <1>10. PICK c \in PassPc : c = pc /\ c \in {"llen", "deliver", "dlr"} /\ (c # "deliver" => n > 0)
    <2>1. CASE found = <<>>
      BY <1>1, <1>9, <2>1 DEF PassPc
    <2>2. CASE found # <<>> /\ left = 0
      BY <2>2 DEF PassPc
    <2>3. CASE found # <<>> /\ left # 0
      BY <1>9, <2>3 DEF PassPc
    <2> QED
      BY <2>1, <2>2, <2>3
  <1> HIDE DEF found, left, pc
  <1>11. PICK q : q = [p EXCEPT !.claimed = s, !.limit = n, !.pc = c]
    OBVIOUS
  <1>12. pass' = [pass EXCEPT ![t] = q]
    BY <1>0, <1>7, <1>9, <1>10, <1>11 DEF BaseInv, PassInv
  <1>13. /\ q.pc = c /\ q.empty = p.empty /\ q.items = <<>>
         /\ q.claimed = s /\ q.kind = p.kind /\ q.limit = n /\ q.acct = p.acct
         /\ q.picked = 0 /\ PassTable(q) = PassTable(p)
    BY <1>1, <1>11 DEF Pass, PassTable
  <1>14. q \in Pass
    BY <1>1, <1>11 DEF Pass
  <1>15. GoodPass(t, q, config, add, gid)
    <2>1. q.claimed \in Seq(Claims(t, q.kind, config, add, gid))
      BY <1>7, <1>13
    <2>2. q.picked <= q.limit /\ q.empty <= MaxEmpty /\ q.kind # "mt" /\ q.items \in Seq(Entries(PassTable(q), config, add, gid))
      BY <1>1, <1>13 DEF GoodPass
    <2> QED
      BY <1>1, <1>10, <1>13, <1>14, <2>1, <2>2 DEF GoodPass
  <1>16. PassInv' /\ \A u \in Thread : pass'[u] = IF u = t THEN q ELSE pass[u]
    BY <1>0, <1>12, <1>15, PassStays DEF BaseInv
  <1>17. ListInv'
    <2>1. \A b \in Account : pduList'[b] \in Seq(StoredPdus(b, config, add))
      BY <1>0, <1>2, <1>5 DEF BaseInv, ListInv
    <2> QED
      BY <1>0, <1>5, <2>1 DEF BaseInv, ListInv, storeVars, addVars
  <1>18. TypeInv' /\ FlightInv' /\ PendingInv'
    BY <1>0 DEF BaseInv, TypeInv, FlightInv, PendingInv, storeVars, addVars
  <1>19. BaseInv'
    BY <1>0, <1>16, <1>17, <1>18, BaseCalm DEF storeVars
  <1>20. ASSUME NEW m \in Msg
         PROVE  Total(m, list', pduList', dlrList', pass', flight') = Total(m, list, pduList, dlrList, pass, flight)
    <2>1. UNCHANGED <<list, flight>> /\ (\A u \in Thread : u # t => pass'[u] = pass[u]) /\ pass'[t].items = pass[t].items
      BY <1>0, <1>1, <1>13, <1>16 DEF storeVars
    <2>2. /\ Total(m, list', pduList', dlrList', pass', flight')
              = Total(m, list, pduList, dlrList, pass, flight)
                + (InList(m, pduList') - InList(m, pduList)) + (InList(m, dlrList') - InList(m, dlrList))
                + (HowMany(pass'[t].claimed, With(m)) - HowMany(pass[t].claimed, With(m)))
          /\ Total(m, list, pduList, dlrList, pass, flight) \in Nat /\ InList(m, dlrList) \in Nat
      BY <1>0, <1>19, <2>1, ListCount
    <2>3. HowMany(pass[t].claimed, With(m)) = 0
      BY <1>1, CountShort
    <2>4. HowMany(pass'[t].claimed, With(m)) = HowMany(found, {m})
      BY <1>8, <1>13, <1>16
    <2>5. InList(m, dlrList') = InList(m, dlrList)
      BY <1>0
    <2> QED
      BY <1>6, <2>2, <2>3, <2>4, <2>5
  <1>21. CopyInv'
    BY <1>0, <1>20, CopyStep
  <1>22. ClaimInv'
    <2>1. pass'["mover"] = pass["mover"]
      BY <1>16, Names
    <2> QED
      BY <1>0, <2>1, ClaimSame
  <1> QED
    BY <1>19, <1>21, <1>22 DEF StoreInv

\* LPOP of the account's DLR entries.
LEMMA PopDlrsStep ==
  ASSUME StoreInv, NEW t \in Thread, t = "requeue", PopDlrs
  PROVE  StoreInv'
  <1> DEFINE p == pass[t]
             found == Popped(dlrList[p.acct], p.limit)
             left == p.limit - Len(found)
             limit == IF left = 0 THEN Batch ELSE left
  <1>0. /\ p.pc = "dlr" /\ dlrList' = [dlrList EXCEPT ![p.acct] = Rest(@, p.limit)]
        /\ pass' = [pass EXCEPT ![t] = GetStored([p EXCEPT !.claimed = @ \o AsItems(found, "dlr")], "report", limit)]
        /\ UNCHANGED <<config, storeVars, pduVars, addVars, pending, flight, ended, faults>>
        /\ UNCHANGED <<config, add, gid>> /\ BaseInv
    BY DEF PopDlrs, addVars, StoreInv, AsItems
  <1>1. /\ p \in Pass /\ GoodPass(t, p, config, add, gid) /\ p.items = <<>> /\ p.acct \in Account /\ p.limit \in Nat
    BY <1>0 DEF BaseInv, PassInv, GoodPass, Pass
  <1>2. PICK X : X = TableDlrs(p.acct, config)
    OBVIOUS
  <1>3. X \subseteq Msg /\ X \subseteq TableDlr /\ (\A y \in X : AccountOf[y] = p.acct) /\ (\A y \in X : StoredIn(y, config, add))
    BY <1>2 DEF TableDlrs, StoredIn, Msg
  <1>4. dlrList \in [Account -> Seq(TableDlr)] /\ dlrList[p.acct] \in Seq(X)
    BY <1>0, <1>1, <1>2 DEF BaseInv, ListInv
  <1>5. /\ found \in Seq(X) /\ Rest(dlrList[p.acct], p.limit) \in Seq(X) /\ Len(found) <= p.limit
        /\ dlrList' \in [Account -> Seq(TableDlr)]
        /\ \A b \in Account : dlrList'[b] = IF b = p.acct THEN Rest(dlrList[p.acct], p.limit) ELSE dlrList[b]
    <2>1. dlrList[p.acct] \in Seq(TableDlr)
      BY <1>1, <1>4
    <2>2. /\ found \in Seq(X) /\ Rest(dlrList[p.acct], p.limit) \in Seq(X) /\ Len(found) <= p.limit
          /\ Rest(dlrList[p.acct], p.limit) \in Seq(TableDlr)
      BY <1>1, <1>4, <2>1, PopSplits
    <2> QED
      BY <1>0, <1>4, <2>2
  <1>6. ASSUME NEW m \in Msg
        PROVE  /\ InList(m, dlrList') + HowMany(found, {m}) = InList(m, dlrList)
               /\ HowMany(found, {m}) \in Nat /\ InList(m, dlrList') \in Nat /\ InList(m, dlrList) \in Nat
    <2>1. InList(m, dlrList) \in Nat
      BY <1>0, BaseCounts
    <2>2. PICK a \in Account : a = p.acct
      BY <1>1
    <2>3. PICK n \in Nat : n = p.limit
      BY <1>1
    <2>4. dlrList[a] \in Seq(X) /\ (\A y \in X : AccountOf[y] = a)
      BY <1>3, <1>4, <2>2
    <2>5. \A b \in Account : dlrList'[b] = IF b = a THEN Rest(dlrList[a], n) ELSE dlrList[b]
      BY <1>5, <2>2, <2>3
    <2>6. /\ InList(m, dlrList') + HowMany(Popped(dlrList[a], n), {m}) = InList(m, dlrList)
          /\ HowMany(Popped(dlrList[a], n), {m}) \in Nat /\ InList(m, dlrList') \in Nat
      <3>0. Seq(TableDlr) \subseteq Seq(Msg)
        <4>1. TableDlr \subseteq Msg
          BY DEF Msg
        <4> QED
          BY <4>1, SeqMonotonic
      <3>1. PICK D \in [Account -> Seq(Msg)] : D = dlrList
        BY <1>4, <3>0
      <3>2. PICK E \in [Account -> Seq(Msg)] : E = dlrList'
        BY <1>5, <3>0
      <3>3. InList(m, D) \in Nat /\ D[a] \in Seq({y \in Msg : AccountOf[y] = a})
        <4>1. X \subseteq {y \in Msg : AccountOf[y] = a}
          BY <1>3, <2>4
        <4> QED
          BY <2>1, <2>4, <3>1, <4>1, SeqMonotonic
      <3>4. \A b \in Account : E[b] = IF b = a THEN Rest(D[a], n) ELSE D[b]
        BY <2>5, <3>1, <3>2
      <3> HIDE KindAssumption, ScenarioAssumption, BoundAssumption
      <3>5. /\ InList(m, E) + HowMany(Popped(D[a], n), {m}) = InList(m, D)
            /\ HowMany(Popped(D[a], n), {m}) \in Nat /\ InList(m, E) \in Nat
        BY <3>3, <3>4, AccountPop, ZenonT(40)
      <3> QED
        BY <3>1, <3>2, <3>5
    <2> QED
      BY <2>1, <2>2, <2>3, <2>6
  <1>7. PICK s \in Seq(Item) : s = AsItems(found, "dlr") /\ s \in Seq(Claims("requeue", p.kind, config, add, gid))
    <2>1. AsItems(found, "dlr") \in Seq(Claims("requeue", p.kind, config, add, gid))
      BY <1>3, <1>5, ItemsOf
    <2>2. AsItems(found, "dlr") \in Seq(Item)
      BY <1>3, <1>5, ItemsCount
    <2> QED
      BY <2>1, <2>2
  <1>8. \A m : HowMany(s, With(m)) = HowMany(found, {m})
    <2>1. PICK f \in Seq(X) : f = found
      BY <1>5
    <2>2. \A m : HowMany(AsItems(f, "dlr"), With(m)) = HowMany(f, {m})
      BY <1>3, ItemsCount
    <2> QED
      BY <1>7, <2>1, <2>2
  <1>9. PICK n \in Nat : n = limit
    BY <1>1, <1>5
  <1>10. PICK r \in Seq(Item) : r = p.claimed /\ r \in Seq(Claims("requeue", p.kind, config, add, gid))
    BY <1>1 DEF Pass, GoodPass
  <1>11. PICK v \in Seq(Item) : v = r \o s /\ v \in Seq(Claims("requeue", p.kind, config, add, gid))
    <2>1. PICK Y : Y = Claims("requeue", p.kind, config, add, gid)
      OBVIOUS
    <2>2. r \o s \in Seq(Y)
      BY <1>7, <1>10, <2>1, ConcatProperties
    <2>3. r \o s \in Seq(Item)
      BY ConcatProperties
    <2> QED
      BY <2>1, <2>2, <2>3
  <1>c. \A k : Claims("requeue", p.kind, config, add, gid) = Claims("requeue", k, config, add, gid)
    BY DEF Claims
  <1> HIDE DEF found, left, limit
  <1>12. PICK o \in Pass : /\ o = [p EXCEPT !.claimed = v] /\ o.items = <<>> /\ o.claimed = v
    <2>1. PICK o : o = [p EXCEPT !.claimed = v]
      OBVIOUS
    <2>2. o \in Pass
      BY <1>1, <2>1 DEF Pass
    <2>3. o.items = <<>> /\ o.claimed = v
      BY <1>1, <2>1 DEF Pass
    <2> QED
      BY <2>1, <2>2, <2>3
  <1>13. PICK q \in Pass : /\ q = GetStored(o, "report", n) /\ q.items = <<>> /\ q.claimed = v /\ q.pc = "pop"
                           /\ q.picked = 0 /\ q.limit = n /\ q.empty = 0 /\ q.kind = "report"
    <2>1. PICK k \in Kind : k = "report"
      BY DEF Kind
    <2> HIDE KindAssumption, ScenarioAssumption, BoundAssumption
    <2>2. /\ GetStored(o, k, n) \in Pass /\ GetStored(o, k, n).pc = "pop"
          /\ GetStored(o, k, n).kind = k /\ GetStored(o, k, n).limit = n
          /\ GetStored(o, k, n).picked = 0 /\ GetStored(o, k, n).empty = 0
          /\ GetStored(o, k, n).items = o.items /\ GetStored(o, k, n).claimed = o.claimed
      BY PassFields, ZenonT(40)
    <2>3. PICK q : q = GetStored(o, k, n)
      OBVIOUS
    <2> QED
      BY <1>12, <2>1, <2>2, <2>3
  <1>14. pass' = [pass EXCEPT ![t] = q]
    BY <1>0, <1>7, <1>9, <1>10, <1>11, <1>12, <1>13
  <1>15. GoodPass(t, q, config, add, gid)
    <2>1. q.claimed \in Seq(Claims(t, q.kind, config, add, gid))
      BY <1>11, <1>13, <1>c
    <2>2. q.picked <= q.limit /\ q.empty <= MaxEmpty
      <3>1. n \in Nat /\ MaxEmpty \in Nat
        OBVIOUS
      <3> QED
        BY <1>13, <3>1
    <2>3. q.items \in Seq(Entries(PassTable(q), config, add, gid))
      <3>1. \A S : <<>> \in Seq(S)
        OBVIOUS
      <3> QED
        BY <1>13, <3>1
    <2> QED
      BY <1>0, <1>13, <2>1, <2>2, <2>3 DEF GoodPass
  <1>16. PassInv' /\ \A u \in Thread : pass'[u] = IF u = t THEN q ELSE pass[u]
    BY <1>0, <1>14, <1>15, PassStays DEF BaseInv
  <1>17. ListInv'
    <2>1. \A b \in Account : dlrList'[b] \in Seq(TableDlrs(b, config))
      BY <1>0, <1>2, <1>5 DEF BaseInv, ListInv
    <2> QED
      BY <1>0, <1>5, <2>1 DEF BaseInv, ListInv, storeVars, pduVars, addVars
  <1>18. TypeInv' /\ FlightInv' /\ PendingInv'
    BY <1>0 DEF BaseInv, TypeInv, FlightInv, PendingInv, storeVars, pduVars, addVars
  <1>19. BaseInv'
    BY <1>0, <1>16, <1>17, <1>18, BaseCalm DEF storeVars
  <1>20. ASSUME NEW m \in Msg
         PROVE  Total(m, list', pduList', dlrList', pass', flight') = Total(m, list, pduList, dlrList, pass, flight)
    <2>1. UNCHANGED <<list, flight>> /\ (\A u \in Thread : u # t => pass'[u] = pass[u]) /\ pass'[t].items = pass[t].items
      BY <1>0, <1>1, <1>13, <1>16 DEF storeVars
    <2>2. /\ Total(m, list', pduList', dlrList', pass', flight')
              = Total(m, list, pduList, dlrList, pass, flight)
                + (InList(m, pduList') - InList(m, pduList)) + (InList(m, dlrList') - InList(m, dlrList))
                + (HowMany(pass'[t].claimed, With(m)) - HowMany(pass[t].claimed, With(m)))
          /\ Total(m, list, pduList, dlrList, pass, flight) \in Nat /\ InList(m, pduList) \in Nat
          /\ HowMany(pass[t].claimed, With(m)) \in Nat
      BY <1>0, <1>19, <2>1, ListCount
    <2>3. HowMany(r \o s, With(m)) = HowMany(r, With(m)) + HowMany(s, With(m))
      BY CountConcat
    <2>4. HowMany(pass'[t].claimed, With(m)) = HowMany(pass[t].claimed, With(m)) + HowMany(found, {m})
      BY <1>8, <1>10, <1>11, <1>13, <1>16, <2>3
    <2>5. InList(m, pduList') = InList(m, pduList)
      BY <1>0 DEF pduVars
    <2> QED
      BY <1>6, <2>2, <2>4, <2>5, SMTT(30)
  <1>21. CopyInv'
    BY <1>0, <1>20, CopyStep
  <1>22. ClaimInv'
    <2>1. pass'["mover"] = pass["mover"]
      BY <1>16, Names
    <2> QED
      BY <1>0, <2>1, ClaimSame
  <1> QED
    BY <1>19, <1>21, <1>22 DEF StoreInv

\* LPOP of a pass moves entries from the list to the pass.
LEMMA LPopStep ==
  ASSUME StoreInv, NEW t \in Thread, LPop(t)
  PROVE  StoreInv'
  <1>0. UNCHANGED <<config, add, gid, pending, ended>>
    BY DEF LPop, addVars
  <1>1. /\ BaseInv'
        /\ \A m \in Msg : Total(m, list', pduList', dlrList', pass', flight') = Total(m, list, pduList, dlrList, pass, flight)
        /\ \A u \in Thread : pass'[u].claimed = pass[u].claimed
    BY PopStep DEF StoreInv
  <1>2. CopyInv'
    BY <1>0, <1>1, CopyStep
  <1>3. ClaimInv'
    <2>1. pass'["mover"].claimed = pass["mover"].claimed
      BY <1>1, Names
    <2> QED
      BY <1>0, <2>1, ClaimSame
  <1> QED
    BY <1>1, <1>2, <1>3 DEF StoreInv

\* A step that neither takes nor gives a message keeps all of them.
LEMMA QuietStep ==
  ASSUME StoreInv, BaseInv', UNCHANGED <<config, add, gid, pending, ended, list, pduList, dlrList, flight>>,
         \A t \in Thread : pass'[t].items = pass[t].items /\ pass'[t].claimed = pass[t].claimed
  PROVE  StoreInv'
  <1>1. pass'["mover"].claimed = pass["mover"].claimed
    BY Names
  <1>2. ASSUME NEW m \in Msg
        PROVE  Total(m, list', pduList', dlrList', pass', flight') = Total(m, list, pduList, dlrList, pass, flight)
    <2>1. InPass(m, pass'["mover"]) = InPass(m, pass["mover"]) /\ InPass(m, pass'["requeue"]) = InPass(m, pass["requeue"])
      BY Names DEF InPass
    <2>2. /\ InStores(m, list') = InStores(m, list) /\ InList(m, pduList') = InList(m, pduList)
          /\ InList(m, dlrList') = InList(m, dlrList) /\ InFlightOf(m, flight') = InFlightOf(m, flight)
      OBVIOUS
    <2> QED
      BY <2>1, <2>2 DEF Total
  <1>3. CopyInv'
    BY <1>2, CopyStep
  <1>4. ClaimInv'
    BY <1>1, ClaimSame
  <1> QED
    BY <1>3, <1>4 DEF StoreInv

\* The beginning and the end of a pass, and the commands of a pass that only
\* look.
LEMMA PassesStep ==
  ASSUME StoreInv,
         \/ MoverStart \/ (\E a \in Account, room \in config.rooms : RequeueStart(a, room))
         \/ (\E t \in Thread : BatchEnd(t) \/ PassEnd(t)) \/ CheckEmpty \/ Unindex
  PROVE  StoreInv'
  <1>1. BaseInv'
    BY BasePasses DEF StoreInv
  <1>2. UNCHANGED <<config, add, gid, pending, ended, list, pduList, dlrList, flight>>
    <2>1. CASE MoverStart
      BY <2>1 DEF MoverStart, storeVars, pduVars, addVars
    <2>2. CASE \E a \in Account, room \in config.rooms : RequeueStart(a, room)
      BY <2>2 DEF RequeueStart, storeVars, pduVars, addVars
    <2>3. CASE \E t \in Thread : BatchEnd(t)
      BY <2>3 DEF BatchEnd, storeVars, pduVars, addVars
    <2>4. CASE \E t \in Thread : PassEnd(t)
      BY <2>4 DEF PassEnd, storeVars, pduVars, addVars
    <2>5. CASE CheckEmpty
      BY <2>5 DEF CheckEmpty, storeVars, pduVars, addVars
    <2>6. CASE Unindex
      BY <2>6 DEF Unindex, storeVars, pduVars, addVars
    <2> QED
      BY <2>1, <2>2, <2>3, <2>4, <2>5, <2>6
  <1>p. pass \in [Thread -> Pass] /\ \A t \in Thread : GoodPass(t, pass[t], config, add, gid)
    BY DEF StoreInv, BaseInv, PassInv
  <1>i. Idle.items = <<>> /\ Idle.claimed = <<>> /\ \A k, n : /\ GetStored(Idle, k, n).items = <<>>
                                                              /\ GetStored(Idle, k, n).claimed = <<>>
    BY DEF Idle, GetStored
  <1>3. \A t \in Thread : pass'[t].items = pass[t].items /\ pass'[t].claimed = pass[t].claimed
    <2>1. CASE MoverStart
      <3>1. pass["mover"].items = <<>> /\ pass["mover"].claimed = <<>>
        BY <1>p, <2>1, Names DEF MoverStart, GoodPass
      <3>2. pass' = [pass EXCEPT !["mover"] = GetStored(Idle, "mt", Batch)]
        BY <2>1 DEF MoverStart
      <3> QED
        BY <1>p, <1>i, <3>1, <3>2
    <2>2. CASE \E a \in Account, room \in config.rooms : RequeueStart(a, room)
      <3>1. pass["requeue"].items = <<>> /\ pass["requeue"].claimed = <<>>
        BY <1>p, <2>2, Names DEF RequeueStart, GoodPass
      <3>2. PICK a, n : pass' = [pass EXCEPT !["requeue"] = [Idle EXCEPT !.pc = "pdu", !.acct = a, !.limit = n]]
        BY <2>2 DEF RequeueStart
      <3>3. PICK q : q = [Idle EXCEPT !.pc = "pdu", !.acct = a, !.limit = n]
        OBVIOUS
      <3>4. q.items = <<>> /\ q.claimed = <<>>
        BY <3>3 DEF Idle
      <3> QED
        BY <1>p, <3>1, <3>2, <3>3, <3>4
    <2>3. CASE \E t \in Thread : BatchEnd(t)
      <3>1. PICK t \in Thread : BatchEnd(t)
        BY <2>3
      <3>2. PICK v : pass' = [pass EXCEPT ![t].pc = "pop", ![t].empty = v]
        BY <3>1 DEF BatchEnd
      <3> QED
        BY <1>p, <3>2 DEF Pass
    <2>4. CASE \E t \in Thread : PassEnd(t)
      <3>1. PICK t \in Thread : PassEnd(t)
        BY <2>4
      <3>2. pass[t].items = <<>> /\ pass[t].claimed = <<>>
        BY <1>p, <3>1 DEF PassEnd, GoodPass
      <3>3. PICK q : pass' = [pass EXCEPT ![t] = q] /\ q.items = <<>> /\ q.claimed = <<>>
        BY <1>i, <3>1 DEF PassEnd
      <3> QED
        BY <1>p, <3>2, <3>3
    <2>5. CASE CheckEmpty
      <3>1. PICK v : pass' = [pass EXCEPT !["requeue"].pc = v]
        BY <2>5 DEF CheckEmpty
      <3> QED
        BY <1>p, <3>1 DEF Pass
    <2>6. CASE Unindex
      <3>1. pass' = [pass EXCEPT !["requeue"].pc = "dlr"]
        BY <2>6 DEF Unindex
      <3> QED
        BY <1>p, <3>1 DEF Pass
    <2> QED
      BY <2>1, <2>2, <2>3, <2>4, <2>5, <2>6
  <1> QED
    BY <1>1, <1>2, <1>3, QuietStep

\* What is not stored is nowhere.
LEMMA NotStored ==
  ASSUME BaseInv, NEW m \in Msg, ~StoredIn(m, config, add)
  PROVE  Total(m, list, pduList, dlrList, pass, flight) = 0 /\ ended[m] = "no"
  <1>1. \A t \in Table : HowMany(list[t], With(m)) = 0
    <2> SUFFICES ASSUME NEW t \in Table
                 PROVE  HowMany(list[t], With(m)) = 0
      OBVIOUS
    <2>1. PICK s \in Seq(Entries(t, config, add, gid)) : s = list[t]
      BY DEF BaseInv, ListInv
    <2>2. \A i \in DOMAIN s : s[i] \notin With(m)
      BY <2>1 DEF Entries, With
    <2>3. HowMany(s, With(m)) = 0
      BY <2>2, CountType
    <2> QED
      BY <2>1, <2>3
  <1>2. InList(m, pduList) = 0
    <2>1. PICK s \in Seq(StoredPdus(AccountOf[m], config, add)) : s = pduList[AccountOf[m]]
      BY DEF BaseInv, ListInv
    <2>2. \A i \in DOMAIN s : s[i] \notin {m}
      BY <2>1 DEF StoredPdus
    <2>3. HowMany(s, {m}) = 0
      BY <2>2, CountType
    <2> QED
      BY <2>1, <2>3 DEF InList
  <1>3. InList(m, dlrList) = 0
    <2>1. PICK s \in Seq(TableDlrs(AccountOf[m], config)) : s = dlrList[AccountOf[m]]
      BY DEF BaseInv, ListInv
    <2>2. \A i \in DOMAIN s : s[i] \notin {m}
      BY <2>1 DEF TableDlrs, StoredIn
    <2>3. HowMany(s, {m}) = 0
      BY <2>2, CountType
    <2> QED
      BY <2>1, <2>3 DEF InList
  <1>4. \A t \in Thread : InPass(m, pass[t]) = 0
    <2> SUFFICES ASSUME NEW t \in Thread
                 PROVE  InPass(m, pass[t]) = 0
      OBVIOUS
    <2>0. GoodPass(t, pass[t], config, add, gid)
      BY DEF BaseInv, PassInv
    <2>1. PICK s \in Seq(Entries(PassTable(pass[t]), config, add, gid)) : s = pass[t].items
      BY <2>0 DEF GoodPass
    <2>2. \A i \in DOMAIN s : s[i] \notin With(m)
      BY <2>1 DEF Entries, With
    <2>3. HowMany(s, With(m)) = 0
      BY <2>2, CountType
    <2>4. PICK r \in Seq(Claims(t, pass[t].kind, config, add, gid)) : r = pass[t].claimed
      BY <2>0 DEF GoodPass
    <2>5. \A i \in DOMAIN r : r[i] \notin With(m)
      BY <2>4 DEF Claims, Items, With
    <2>6. HowMany(r, With(m)) = 0
      BY <2>5, CountType
    <2> QED
      BY <2>1, <2>3, <2>4, <2>6 DEF InPass
  <1>5. InFlightOf(m, flight) = 0
    <2>1. {f \in flight : f.msg = m /\ f.st # "moved"} = {}
      BY DEF BaseInv, FlightInv, Flights
    <2> QED
      BY <2>1, FS_EmptySet DEF InFlightOf
  <1>6. InStores(m, list) = 0
    BY <1>1, Names DEF InStores
  <1>7. InPass(m, pass["mover"]) = 0 /\ InPass(m, pass["requeue"]) = 0
    BY <1>4, Names
  <1> QED
    BY <1>2, <1>3, <1>5, <1>6, <1>7 DEF Total, BaseInv, NumberInv

\* A step of add_message makes one message stored at most, and then puts one
\* entry of it into a store.
LEMMA AddStep ==
  ASSUME StoreInv, BaseInv', UNCHANGED <<config, pduList, dlrList, pass, pending, flight, ended>>,
         NEW x \in Msg,
         \A n \in Msg : StoredIn(n, config, add) => StoredIn(n, config, add'),
         \A n \in Msg : n # x => (StoredIn(n, config, add') => StoredIn(n, config, add)) /\ gid'[n] = gid[n],
         StoredIn(x, config, add) \/ StoredIn(x, config, add') => gid'[x] = gid[x],
         \A m \in Msg : InStores(m, list') - InStores(m, list)
                          = IF m = x /\ ~StoredIn(x, config, add) /\ StoredIn(x, config, add') THEN 1 ELSE 0
  PROVE  StoreInv'
  <1>1. ASSUME NEW n \in Msg, n # x \/ StoredIn(x, config, add)
        PROVE  /\ SharedIn(n, config, add, gid) => SharedIn(n, config, add', gid')
               /\ CountedIn(n, config, add', gid') => CountedIn(n, config, add, gid)
               /\ StoredIn(n, config, add') <=> StoredIn(n, config, add)
               /\ gid'[n] = gid[n]
    <2>1. gid'[n] = gid[n] /\ (StoredIn(n, config, add') <=> StoredIn(n, config, add))
      BY <1>1
    <2>2. ASSUME SharedIn(n, config, add, gid)
          PROVE  SharedIn(n, config, add', gid')
      <3>1. PICK k \in Msg \ {n} : StoredIn(k, config, add) /\ gid[k] = gid[n] /\ TableDlr \cap {n, k} = {}
        BY <2>2 DEF SharedIn
      <3>2. StoredIn(k, config, add') /\ gid'[k] = gid[k]
        BY <3>1
      <3> QED
        BY <2>1, <3>1, <3>2 DEF SharedIn
    <2> QED
      BY <2>1, <2>2 DEF CountedIn
  <1>2. ASSUME NEW m \in Msg
        PROVE  /\ Total(m, list', pduList', dlrList', pass', flight')
                    = Total(m, list, pduList, dlrList, pass, flight) + (InStores(m, list') - InStores(m, list))
               /\ Total(m, list, pduList, dlrList, pass, flight) \in Nat
    <2>1. /\ InStores(m, list) \in Nat /\ InList(m, pduList) \in Nat /\ InList(m, dlrList) \in Nat /\ InFlightOf(m, flight) \in Nat
          /\ InPass(m, pass["mover"]) \in Nat /\ InPass(m, pass["requeue"]) \in Nat
          /\ Total(m, list, pduList, dlrList, pass, flight) \in Nat
      BY BaseCounts, Names DEF StoreInv
    <2>2. InStores(m, list') \in Nat
      BY NextCounts
    <2>3. Total(m, list', pduList', dlrList', pass', flight')
            = InStores(m, list') + InList(m, pduList) + InList(m, dlrList) + InPass(m, pass["mover"])
              + InPass(m, pass["requeue"]) + InFlightOf(m, flight)
      BY DEF Total
    <2>4. Total(m, list, pduList, dlrList, pass, flight)
            = InStores(m, list) + InList(m, pduList) + InList(m, dlrList) + InPass(m, pass["mover"])
              + InPass(m, pass["requeue"]) + InFlightOf(m, flight)
      BY DEF Total
    <2> QED
      BY <2>1, <2>2, <2>3, <2>4
  <1>3. ASSUME NEW m \in Msg
        PROVE  Fine(m, Total(m, list', pduList', dlrList', pass', flight'), config, add', gid', ended)
    <2>1. CASE m # x \/ StoredIn(x, config, add)
      <3>1. Total(m, list', pduList', dlrList', pass', flight') = Total(m, list, pduList, dlrList, pass, flight)
        BY <1>2, <2>1
      <3>2. Fine(m, Total(m, list, pduList, dlrList, pass, flight), config, add, gid, ended)
        BY DEF StoreInv, CopyInv
      <3> QED
        BY <1>1, <2>1, <3>1, <3>2 DEF Fine
    <2>2. CASE m = x /\ ~StoredIn(x, config, add)
      <3>1. Total(m, list, pduList, dlrList, pass, flight) = 0 /\ ended[m] = "no"
        BY <2>2, NotStored DEF StoreInv
      <3>2. Total(m, list', pduList', dlrList', pass', flight') = IF StoredIn(x, config, add') THEN 1 ELSE 0
        BY <1>2, <2>2, <3>1
      <3> QED
        BY <2>2, <3>1, <3>2 DEF Fine
    <2> QED
      BY <2>1, <2>2
  <1>4. CopyInv'
    BY <1>3 DEF CopyInv
  <1>5. ClaimInv'
    <2>1. ASSUME NEW k \in DOMAIN pass["mover"].claimed
          PROVE  ClaimedIn(pass["mover"].claimed[k], pending, config, add', gid')
      <3>1. PICK s \in Seq(Claims("mover", pass["mover"].kind, config, add, gid)) : s = pass["mover"].claimed
        BY Names DEF StoreInv, BaseInv, PassInv, GoodPass
      <3>2. s[k] \in Claims("mover", pass["mover"].kind, config, add, gid)
        BY <3>1
      <3>3. s[k].msg \in Msg /\ StoredIn(s[k].msg, config, add)
        BY <3>2 DEF Claims, Items, Item
      <3>4. ClaimedIn(s[k], pending, config, add, gid)
        BY <3>1 DEF StoreInv, ClaimInv
      <3>5. s[k].msg # x \/ StoredIn(x, config, add)
        BY <3>3
      <3>6. /\ SharedIn(s[k].msg, config, add, gid) => SharedIn(s[k].msg, config, add', gid')
            /\ CountedIn(s[k].msg, config, add', gid') => CountedIn(s[k].msg, config, add, gid)
        BY <1>1, <3>3, <3>5
      <3> QED
        BY <3>1, <3>4, <3>6 DEF ClaimedIn
    <2> QED
      BY <2>1 DEF ClaimInv
  <1> QED
    BY <1>4, <1>5 DEF StoreInv

\* INCR, LPUSH and SADD of add_message.
LEMMA AddingStep ==
  ASSUME StoreInv, NEW m \in Msg, AddIncr(m) \/ AddPush(m) \/ AddIndex(m)
  PROVE  StoreInv'
  <1>b. BaseInv
    BY DEF StoreInv
  <1>0. BaseInv'
    BY <1>b, BaseAddIncr, BaseAddPush
  <1>1. /\ add \in [Msg -> {"new", "push", "index", "ok", "failed"}] /\ gid \in [Msg -> Gid]
        /\ m \in TableDlr => add[m] = "new"
        /\ \A n \in Msg : InStores(n, list) \in Nat
    BY <1>b, BaseCounts DEF BaseInv, TypeInv, NumberInv
  <1>2. CASE AddIncr(m)
    <2>1. /\ UNCHANGED <<config, pduList, dlrList, pass, pending, flight, ended, list>>
          /\ m \notin TableDlr /\ add[m] = "new" /\ add' = [add EXCEPT ![m] = "push"]
          /\ (\E v : gid' = [gid EXCEPT ![m] = v]) \/ UNCHANGED gid
      BY <1>2 DEF AddIncr, pduVars
    <2>2. /\ ~StoredIn(m, config, add) /\ ~StoredIn(m, config, add')
          /\ \A n \in Msg : n # m => (StoredIn(n, config, add') <=> StoredIn(n, config, add)) /\ gid'[n] = gid[n]
      BY <1>1, <2>1 DEF StoredIn
    <2>3. \A n \in Msg : InStores(n, list') - InStores(n, list) = 0
      BY <1>1, <2>1
    <2> QED
      BY <1>0, <2>1, <2>2, <2>3, AddStep
  <1>3. CASE AddPush(m)
    <2>1. /\ UNCHANGED <<config, pduList, dlrList, pass, pending, flight, ended, gid>> /\ add[m] = "push"
      BY <1>3 DEF AddPush, pduVars
    <2>2. m \notin TableDlr
      BY <1>1, <2>1
    <2>3. CASE LPush(TableOf(m), [msg |-> m, gid |-> gid[m]]) /\ add' = [add EXCEPT ![m] = "index"]
      <3>1. /\ ~StoredIn(m, config, add) /\ StoredIn(m, config, add')
            /\ \A n \in Msg : n # m => (StoredIn(n, config, add') <=> StoredIn(n, config, add)) /\ gid'[n] = gid[n]
        BY <1>1, <2>1, <2>2, <2>3 DEF StoredIn
      <3>2. PICK e \in Entry : e = [msg |-> m, gid |-> gid[m]]
        BY <1>1 DEF Entry
      <3>3. PICK k \in Table : k = TableOf(m)
        BY Names
      <3>4. \A n \in Msg : InStores(n, list') - InStores(n, list) = IF e.msg = n THEN 1 ELSE 0
        BY <1>b, <1>0, <2>3, <3>2, <3>3, PushCount
      <3>5. e.msg = m
        BY <3>2
      <3> QED
        BY <1>0, <2>1, <3>1, <3>4, <3>5, AddStep
    <2>4. CASE add' = [add EXCEPT ![m] = "failed"] /\ UNCHANGED list
      <3>1. /\ ~StoredIn(m, config, add) /\ ~StoredIn(m, config, add')
            /\ \A n \in Msg : n # m => (StoredIn(n, config, add') <=> StoredIn(n, config, add)) /\ gid'[n] = gid[n]
        BY <1>1, <2>1, <2>2, <2>4 DEF StoredIn
      <3>2. \A n \in Msg : InStores(n, list') - InStores(n, list) = 0
        BY <1>1, <2>4
      <3> QED
        BY <1>0, <2>1, <3>1, <3>2, AddStep
    <2> QED
      BY <1>3, <2>3, <2>4 DEF AddPush
  <1>4. CASE AddIndex(m)
    <2>1. /\ UNCHANGED <<config, pduList, dlrList, pass, pending, flight, ended, gid, list>> /\ add[m] = "index"
          /\ add' = [add EXCEPT ![m] = "ok"]
      BY <1>4 DEF AddIndex, pduVars
    <2>2. /\ StoredIn(m, config, add)
          /\ \A n \in Msg : (StoredIn(n, config, add') <=> StoredIn(n, config, add)) /\ gid'[n] = gid[n]
      BY <1>1, <2>1 DEF StoredIn
    <2>3. \A n \in Msg : InStores(n, list') - InStores(n, list) = 0
      BY <1>1, <2>1
    <2> QED
      BY <1>0, <2>1, <2>2, <2>3, AddStep
  <1> QED
    BY <1>2, <1>3, <1>4

\* The copies only the server's memory holds.
LEMMA MemoryCount ==
  ASSUME BaseInv, NEW m \in Msg
  PROVE  m \notin InMemory <=>
           InPass(m, pass["mover"]) = 0 /\ InPass(m, pass["requeue"]) = 0 /\ InFlightOf(m, flight) = 0
  <1>1. ASSUME NEW t \in Thread
        PROVE  InPass(m, pass[t]) = 0 <=> /\ \A i \in DOMAIN pass[t].items : pass[t].items[i].msg # m
                                          /\ \A i \in DOMAIN pass[t].claimed : pass[t].claimed[i].msg # m
    <2>0. pass[t].items \in Seq(Entry) /\ pass[t].claimed \in Seq(Item)
      BY DEF BaseInv, PassInv, Pass
    <2>1. PICK s \in Seq(Entry) : s = pass[t].items
      BY <2>0
    <2>2. PICK r \in Seq(Item) : r = pass[t].claimed
      BY <2>0
    <2>3. HowMany(s, With(m)) = 0 <=> \A i \in DOMAIN s : s[i].msg # m
      <3>1. \A i \in DOMAIN s : s[i] \in Entry
        OBVIOUS
      <3>2. HowMany(s, With(m)) = 0 <=> \A i \in DOMAIN s : s[i] \notin With(m)
        BY CountType
      <3> QED
        BY <3>1, <3>2 DEF With
    <2>4. HowMany(r, With(m)) = 0 <=> \A i \in DOMAIN r : r[i].msg # m
      <3>1. \A i \in DOMAIN r : r[i] \in Item
        OBVIOUS
      <3>2. HowMany(r, With(m)) = 0 <=> \A i \in DOMAIN r : r[i] \notin With(m)
        BY CountType
      <3> QED
        BY <3>1, <3>2 DEF With
    <2>5. HowMany(s, With(m)) \in Nat /\ HowMany(r, With(m)) \in Nat
      BY CountType
    <2>6. InPass(m, pass[t]) = 0 <=> HowMany(s, With(m)) = 0 /\ HowMany(r, With(m)) = 0
      BY <2>1, <2>2, <2>5 DEF InPass
    <2> QED
      BY <2>1, <2>2, <2>3, <2>4, <2>6
  <1>2. InFlightOf(m, flight) = 0 <=> \A f \in flight : ~(f.msg = m /\ f.st # "moved")
    <2> DEFINE F == {f \in flight : f.msg = m /\ f.st # "moved"}
    <2>1. IsFiniteSet(F)
      <3>1. IsFiniteSet(flight) /\ F \subseteq flight
        BY DEF BaseInv, FlightInv
      <3> HIDE DEF F
      <3> QED
        BY <3>1, FS_Subset
    <2>2. InFlightOf(m, flight) = Cardinality(F)
      BY DEF InFlightOf
    <2>3. F = {} <=> \A f \in flight : ~(f.msg = m /\ f.st # "moved")
      OBVIOUS
    <2> HIDE DEF F
    <2> QED
      BY <2>1, <2>2, <2>3, FS_EmptySet
  <1>3. \A t : t \in Thread <=> t = "mover" \/ t = "requeue"
    BY DEF Thread
  <1> QED
    BY <1>1, <1>2, <1>3 DEF InMemory

\* A crash loses what was in memory, and nothing else.
LEMMA CrashStep ==
  ASSUME StoreInv, Crash
  PROVE  StoreInv'
  <1>0. /\ Fault /\ flight' = {} /\ pending' = [g \in Gid |-> NoMsg] /\ pass' = [t \in Thread |-> Idle]
        /\ UNCHANGED <<config, ids, list, index, pduList, pduIndex, dlrList, gid>>
    BY DEF Crash, storeVars, pduVars
  <1>b. BaseInv /\ TypeInv
    BY DEF StoreInv, BaseInv
  <1>1. /\ add \in [Msg -> {"new", "push", "index", "ok", "failed"}]
        /\ ended \in [Msg -> {"no", "done", "dropped", "fault"}]
    BY <1>b DEF TypeInv
  <1>2. /\ add' \in [Msg -> {"new", "push", "index", "ok", "failed"}]
        /\ \A n \in Msg : add'[n] = "new" <=> add[n] = "new"
        /\ \A n \in Msg : StoredIn(n, config, add') <=> StoredIn(n, config, add)
    <2>1. add' = [m \in Msg |-> CASE add[m] = "push" -> "failed" [] add[m] = "index" -> "ok" [] OTHER -> add[m]]
      BY DEF Crash
    <2>2. \A n \in Msg : add'[n] = IF add[n] = "push" THEN "failed" ELSE IF add[n] = "index" THEN "ok" ELSE add[n]
      BY <1>1, <2>1
    <2> QED
      BY <1>1, <2>1, <2>2 DEF StoredIn
  <1>3. /\ ended' \in [Msg -> {"no", "done", "dropped", "fault"}]
        /\ \A n \in Msg : ended'[n] = IF n \in InMemory THEN "fault" ELSE ended[n]
    BY <1>1 DEF Crash
  <1>4. \A n \in Msg : n \in InMemory => StoredIn(n, config, add)
    <2> SUFFICES ASSUME NEW n \in Msg, ~StoredIn(n, config, add)
                 PROVE  n \notin InMemory
      OBVIOUS
    <2>1. Total(n, list, pduList, dlrList, pass, flight) = 0
      BY <1>b, NotStored
    <2>2. /\ InStores(n, list) \in Nat /\ InList(n, pduList) \in Nat /\ InList(n, dlrList) \in Nat /\ InFlightOf(n, flight) \in Nat
          /\ InPass(n, pass["mover"]) \in Nat /\ InPass(n, pass["requeue"]) \in Nat
      BY <1>b, BaseCounts, Names
    <2>3. InPass(n, pass["mover"]) = 0 /\ InPass(n, pass["requeue"]) = 0 /\ InFlightOf(n, flight) = 0
      BY <2>1, <2>2 DEF Total
    <2> QED
      BY <1>b, <2>3, MemoryCount
  <1>5. TypeInv'
    <2>1. faults' \in 0 .. config.faults
      BY <1>0, <1>b, FaultStep
    <2>2. pending' \in [Gid -> Msg \cup {NoMsg}]
      BY <1>0
    <2> QED
      BY <1>0, <1>b, <1>2, <1>3, <2>1, <2>2 DEF TypeInv
  <1>6. NumberInv'
    <2>1. \A n \in Msg : ended'[n] # "no" => StoredIn(n, config, add')
      BY <1>b, <1>2, <1>3, <1>4 DEF BaseInv, NumberInv
    <2> QED
      BY <1>0, <1>b, <1>2, <2>1, NumbersKept
  <1>7. ListInv'
    <2>1. \A n \in Msg : StoredIn(n, config, add) => StoredIn(n, config, add') /\ (n \notin TableDlr => gid[n] = gid[n])
      BY <1>2
    <2>2. /\ \A t : Entries(t, config, add, gid) \subseteq Entries(t, config, add', gid)
          /\ \A a : StoredPdus(a, config, add) \subseteq StoredPdus(a, config, add')
      BY <2>1, StaysGood
    <2>3. \A t \in Table : list[t] \in Seq(Entries(t, config, add', gid))
      BY <1>b, <2>2, SeqMonotonic DEF BaseInv, ListInv
    <2>4. \A a \in Account : pduList[a] \in Seq(StoredPdus(a, config, add'))
      BY <1>b, <2>2, SeqMonotonic DEF BaseInv, ListInv
    <2> QED
      BY <1>0, <1>b, <2>3, <2>4 DEF BaseInv, ListInv
  <1>8. FlightInv' /\ PendingInv'
    <2>1. IsFiniteSet({})
      BY FS_EmptySet
    <2> QED
      BY <1>0, <2>1 DEF FlightInv, PendingInv, Recorded
  <1>9. PassInv'
    <2>1. \A t : GoodPass(t, Idle, config, add', gid)
      BY IdleIsGood
    <2>2. Idle \in Pass
      BY <2>1 DEF GoodPass
    <2> QED
      BY <1>0, <2>1, <2>2 DEF PassInv
  <1>10. BaseInv'
    BY <1>5, <1>6, <1>7, <1>8, <1>9 DEF BaseInv
  <1>11. ASSUME NEW m \in Msg
         PROVE  Fine(m, Total(m, list', pduList', dlrList', pass', flight'), config, add', gid, ended')
    <2>1. /\ CountedIn(m, config, add', gid) <=> CountedIn(m, config, add, gid)
          /\ SharedIn(m, config, add', gid) <=> SharedIn(m, config, add, gid)
      <3>1. SharedIn(m, config, add', gid) <=> SharedIn(m, config, add, gid)
        BY <1>2 DEF SharedIn
      <3> QED
        BY <3>1 DEF CountedIn
    <2>2. InPass(m, Idle) = 0 /\ InFlightOf(m, {}) = 0
      <3>1. Idle.items = <<>> /\ Idle.claimed = <<>>
        BY DEF Idle
      <3>2. HowMany(<<>>, With(m)) = 0
        BY CountShort
      <3>3. {f \in {} : f.msg = m /\ f.st # "moved"} = {}
        OBVIOUS
      <3> QED
        BY <3>1, <3>2, <3>3, FS_EmptySet DEF InPass, InFlightOf
    <2>3. pass'["mover"] = Idle /\ pass'["requeue"] = Idle
      BY <1>0, Names
    <2>4. /\ InStores(m, list) \in Nat /\ InList(m, pduList) \in Nat /\ InList(m, dlrList) \in Nat /\ InFlightOf(m, flight) \in Nat
          /\ InPass(m, pass["mover"]) \in Nat /\ InPass(m, pass["requeue"]) \in Nat
      BY <1>b, BaseCounts, Names
    <2>5. Total(m, list', pduList', dlrList', pass', flight') = InStores(m, list) + InList(m, pduList) + InList(m, dlrList)
      BY <1>0, <2>2, <2>3, <2>4 DEF Total
    <2>6. Total(m, list, pduList, dlrList, pass, flight)
            = InStores(m, list) + InList(m, pduList) + InList(m, dlrList) + InPass(m, pass["mover"])
              + InPass(m, pass["requeue"]) + InFlightOf(m, flight)
      BY DEF Total
    <2>7. Fine(m, Total(m, list, pduList, dlrList, pass, flight), config, add, gid, ended)
      BY DEF StoreInv, CopyInv
    <2>8. CASE m \in InMemory
      <3>1. ~(InPass(m, pass["mover"]) = 0 /\ InPass(m, pass["requeue"]) = 0 /\ InFlightOf(m, flight) = 0)
        BY <1>b, <2>8, MemoryCount
      <3>2. CountedIn(m, config, add, gid) => Total(m, list, pduList, dlrList, pass, flight) <= 1
        BY <2>7 DEF Fine
      <3>3. CountedIn(m, config, add, gid) => Total(m, list', pduList', dlrList', pass', flight') = 0
        <4> SUFFICES ASSUME CountedIn(m, config, add, gid)
                     PROVE  Total(m, list', pduList', dlrList', pass', flight') = 0
          OBVIOUS
        <4>1. InPass(m, pass["mover"]) + InPass(m, pass["requeue"]) + InFlightOf(m, flight) >= 1
          BY <2>4, <3>1
        <4> QED
          BY <2>4, <2>5, <2>6, <3>2, <4>1
      <3>4. ended'[m] = "fault"
        BY <1>3, <2>8
      <3> QED
        BY <2>1, <3>3, <3>4 DEF Fine
    <2>9. CASE m \notin InMemory
      <3>1. InPass(m, pass["mover"]) = 0 /\ InPass(m, pass["requeue"]) = 0 /\ InFlightOf(m, flight) = 0
        BY <1>b, <2>9, MemoryCount
      <3>2. Total(m, list', pduList', dlrList', pass', flight') = Total(m, list, pduList, dlrList, pass, flight)
        BY <2>4, <2>5, <2>6, <3>1
      <3>3. ended'[m] = ended[m]
        BY <1>3, <2>9
      <3> QED
        BY <1>2, <2>1, <2>7, <3>2, <3>3 DEF Fine
    <2> QED
      BY <2>8, <2>9
  <1>12. CopyInv'
    BY <1>0, <1>11 DEF CopyInv
  <1>13. ClaimInv'
    <2>1. pass'["mover"].claimed = <<>>
      BY <1>0, Names DEF Idle
    <2>2. DOMAIN <<>> = {}
      OBVIOUS
    <2> QED
      BY <2>1, <2>2 DEF ClaimInv
  <1> QED
    BY <1>10, <1>12, <1>13 DEF StoreInv

-----------------------------------------------------------------------------
(* The initial states *)

\* SetToSeq lists a finite set, each element once.
LEMMA SetToSeqLists ==
  ASSUME NEW S, IsFiniteSet(S)
  PROVE  SetToSeq(S) \in Seq(S) /\ \A x : HowMany(SetToSeq(S), {x}) = IF x \in S THEN 1 ELSE 0
  <1>1. PICK n \in Nat : n = Cardinality(S)
    BY FS_CardinalityType
  <1>2. \E f \in [1 .. n -> S] : IsInjective(f)
    <2>1. ExistsBijection(1 .. n, S)
      BY <1>1, FS_CardinalityType
    <2> QED
      BY <2>1 DEF ExistsBijection, Bijection, Injection
  <1>3. PICK s : s = SetToSeq(S)
    OBVIOUS
  <1>4. s \in [1 .. n -> S] /\ IsInjective(s)
    BY <1>1, <1>2, <1>3 DEF SetToSeq
  <1>5. \A x \in S : \E i \in 1 .. n : s[i] = x
    <2>1. PICK D : D = 1 .. n
      OBVIOUS
    <2>2. IsFiniteSet(D) /\ Cardinality(D) = Cardinality(S)
      <3>0. PICK one \in Int : one = 1
        OBVIOUS
      <3> n \in Int
        OBVIOUS
      <3>1. IsFiniteSet(one .. n) /\ Cardinality(one .. n) = IF one > n THEN 0 ELSE n-one+1
        BY FS_Interval
      <3> QED
        BY <1>1, <2>1, <3>0, <3>1
    <2>3. s \in Injection(D, S)
      BY <1>4, <2>1 DEF Injection
    <2>4. s \in Surjection(D, S)
      BY <2>2, <2>3, FS_Injection
    <2> QED
      BY <2>1, <2>4 DEF Surjection
  <1>6. s \in Seq(S) /\ DOMAIN s = 1 .. n
    <2>1. \E k \in Nat : s \in [1 .. k -> S]
      BY <1>4
    <2> QED
      BY <1>4, <2>1, SeqDef
  <1>7. ASSUME NEW x
        PROVE  HowMany(s, {x}) = IF x \in S THEN 1 ELSE 0
    <2>1. CASE x \in S
      <3>1. PICK i \in 1 .. n : s[i] = x
        BY <1>5, <2>1
      <3>2. {j \in DOMAIN s : s[j] \in {x}} = {i}
        BY <1>4, <1>6, <3>1 DEF IsInjective
      <3>3. Cardinality({i}) = 1
        BY FS_Singleton
      <3> QED
        BY <2>1, <3>2, <3>3 DEF HowMany
    <2>2. CASE x \notin S
      <3>1. {j \in DOMAIN s : s[j] \in {x}} = {}
        BY <1>4, <1>6, <2>2
      <3> QED
        BY <2>2, <3>1, FS_EmptySet DEF HowMany
    <2> QED
      BY <2>1, <2>2
  <1> QED
    BY <1>3, <1>6, <1>7

\* The invariant holds at first: only the entries of the DLR lists are there.
LEMMA StoreInit ==
  ASSUME Init
  PROVE  StoreInv
  <1>0. /\ config \in Scenarios /\ faults = 0
        /\ ids = [t \in Table |-> 0] /\ list = [t \in Table |-> <<>>] /\ index = [t \in Table |-> {}]
        /\ pduList = [a \in Account |-> <<>>] /\ pduIndex = {} /\ dlrList = [a \in Account |-> SetToSeq(DlrsOf(a))]
        /\ add = [m \in Msg |-> "new"] /\ gid = [m \in Msg |-> 0] /\ pending = [g \in Gid |-> NoMsg]
        /\ pass = [t \in Thread |-> Idle] /\ flight = {} /\ ended = [m \in Msg |-> "no"]
    BY DEF Init
  <1>1. config.faults \in Nat /\ 0 \in Gid
    BY <1>0, NumbersFinite
  <1>s. \A S : <<>> \in Seq(S)
    OBVIOUS
  <1>2. TypeInv
    BY <1>0, <1>1 DEF TypeInv
  <1>3. NumberInv
    <2>1. {m \in Msg : add[m] # "new"} = {}
      BY <1>0
    <2>2. Cardinality({m \in Msg : add[m] # "new"}) = 0
      BY <2>1, FS_EmptySet
    <2>3. \A t \in Table : ids[t] = 0
      BY <1>0
    <2>4. \A m \in Msg : gid[m] = 0 /\ add[m] = "new" /\ ended[m] = "no" /\ TableOf(m) \in Table
      BY <1>0, Names
    <2>5. \A t \in Table : ids[t] <= Cardinality({m \in Msg : add[m] # "new"})
      BY <2>2, <2>3
    <2>6. \A m \in Msg : gid[m] <= ids[TableOf(m)]
      BY <2>3, <2>4
    <2> QED
      BY <2>4, <2>5, <2>6 DEF NumberInv
  <1>4. ASSUME NEW a \in Account
        PROVE  /\ dlrList[a] \in Seq(TableDlrs(a, config))
               /\ \A x : HowMany(dlrList[a], {x}) = IF x \in TableDlrs(a, config) THEN 1 ELSE 0
    <2>1. DlrsOf(a) = TableDlrs(a, config)
      BY DEF DlrsOf, TableDlrs
    <2>2. IsFiniteSet(TableDlrs(a, config))
      <3>1. TableDlrs(a, config) \subseteq Msg
        BY DEF TableDlrs, Msg
      <3> QED
        BY <3>1, NumbersFinite, FS_Subset
    <2>3. dlrList[a] = SetToSeq(TableDlrs(a, config))
      BY <1>0, <2>1
    <2> QED
      BY <2>2, <2>3, SetToSeqLists
  <1>5. ListInv
    <2>1. list \in [Table -> Seq(Entry)] /\ pduList \in [Account -> Seq(Msg)]
      BY <1>0, <1>s
    <2>2. dlrList \in [Account -> Seq(TableDlr)]
      <3>1. \A a \in Account : dlrList[a] \in Seq(TableDlr)
        <4>1. \A a \in Account : TableDlrs(a, config) \subseteq TableDlr
          BY DEF TableDlrs
        <4> QED
          BY <1>4, <4>1, SeqMonotonic
      <3> QED
        BY <1>0, <3>1
    <2>3. \A t \in Table : list[t] \in Seq(Entries(t, config, add, gid))
      BY <1>0, <1>s
    <2>4. \A a \in Account : pduList[a] \in Seq(StoredPdus(a, config, add))
      BY <1>0, <1>s
    <2> QED
      BY <1>4, <2>1, <2>2, <2>3, <2>4 DEF ListInv
  <1>6. FlightInv /\ PendingInv
    <2>1. IsFiniteSet({})
      BY FS_EmptySet
    <2> QED
      BY <1>0, <2>1 DEF FlightInv, PendingInv, Recorded
  <1>7. PassInv
    <2>1. \A t : GoodPass(t, Idle, config, add, gid)
      BY IdleIsGood
    <2>2. Idle \in Pass
      BY <2>1 DEF GoodPass
    <2> QED
      BY <1>0, <2>1, <2>2 DEF PassInv
  <1>8. ASSUME NEW m \in Msg
        PROVE  Fine(m, Total(m, list, pduList, dlrList, pass, flight), config, add, gid, ended)
    <2>1. \A S : HowMany(<<>>, S) = 0
      BY CountShort
    <2>2. list["store"] = <<>> /\ list["queue"] = <<>> /\ pduList[AccountOf[m]] = <<>>
      BY <1>0, Names
    <2>3. InStores(m, list) = 0 /\ InList(m, pduList) = 0
      BY <2>1, <2>2 DEF InStores, InList
    <2>4. InPass(m, pass["mover"]) = 0 /\ InPass(m, pass["requeue"]) = 0
      <3>1. pass["mover"] = Idle /\ pass["requeue"] = Idle
        BY <1>0, Names
      <3>2. Idle.items = <<>> /\ Idle.claimed = <<>>
        BY DEF Idle
      <3> QED
        BY <2>1, <3>1, <3>2 DEF InPass
    <2>5. InFlightOf(m, flight) = 0
      <3>1. {f \in flight : f.msg = m /\ f.st # "moved"} = {}
        BY <1>0
      <3> QED
        BY <3>1, FS_EmptySet DEF InFlightOf
    <2>6. InList(m, dlrList) = IF m \in TableDlrs(AccountOf[m], config) THEN 1 ELSE 0
      BY <1>4 DEF InList
    <2>7. m \in TableDlrs(AccountOf[m], config) <=> StoredIn(m, config, add)
      BY <1>0 DEF TableDlrs, StoredIn
    <2>8. Total(m, list, pduList, dlrList, pass, flight) = IF StoredIn(m, config, add) THEN 1 ELSE 0
      <3>1. PICK k \in Nat : k = InList(m, dlrList)
        BY <2>6
      <3> QED
        BY <2>3, <2>4, <2>5, <2>6, <2>7, <3>1 DEF Total
    <2>9. ended[m] = "no"
      BY <1>0
    <2> QED
      BY <2>8, <2>9 DEF Fine
  <1>9. ClaimInv
    <2>1. pass["mover"].claimed = <<>>
      BY <1>0, Names DEF Idle
    <2>2. DOMAIN <<>> = {}
      OBVIOUS
    <2> QED
      BY <2>1, <2>2 DEF ClaimInv
  <1> QED
    BY <1>2, <1>3, <1>5, <1>6, <1>7, <1>8, <1>9 DEF StoreInv, BaseInv, CopyInv

-----------------------------------------------------------------------------
(* The theorems *)

\* Every step preserves the invariant.
LEMMA StoreNext ==
  ASSUME StoreInv, [Next]_vars
  PROVE  StoreInv'
  <1>1. CASE \E m \in Msg : AddIncr(m) \/ AddPush(m) \/ AddIndex(m)
    BY <1>1, AddingStep
  <1>2. CASE MoverStart
    BY <1>2, PassesStep
  <1>3. CASE \E a \in Account, room \in config.rooms : RequeueStart(a, room)
    BY <1>3, PassesStep
  <1>4. CASE \E t \in Thread : PassStep(t)
    <2>1. PICK t \in Thread : PassStep(t)
      BY <1>4
    <2>2. CASE LPop(t)
      BY <2>2, LPopStep
    <2>3. CASE ClaimOrReturn(t)
      BY <2>3, ClaimStep, ReturnStep
    <2>4. CASE BatchEnd(t) \/ PassEnd(t)
      BY <2>4, PassesStep
    <2>5. CASE HandOver(t)
      BY <2>5, HandOverStep
    <2>6. CASE NoReceiver(t)
      BY <2>6, NoReceiverStep, GiveBackStep
    <2>7. CASE t = "mover" /\ Unrouted
      BY <2>7, UnroutedStep
    <2>8. CASE t = "requeue" /\ PopPdus
      BY <2>8, PopPdusStep
    <2>9. CASE t = "requeue" /\ PopDlrs
      BY <2>9, PopDlrsStep
    <2>10. CASE CheckEmpty \/ Unindex
      BY <2>10, PassesStep
    <2> QED
      BY <2>1, <2>2, <2>3, <2>4, <2>5, <2>6, <2>7, <2>8, <2>9, <2>10 DEF PassStep
  <1>5. CASE \E f \in flight : Delivered(f) \/ NotDelivered(f) \/ MovePush(f) \/ MoveIndex(f)
    BY <1>5, CallbackStep
  <1>6. CASE Crash
    BY <1>6, CrashStep
  <1>7. CASE UNCHANGED vars
    <2>1. UNCHANGED <<config, ids, list, index, pduList, pduIndex, dlrList, add, gid, pending, pass, flight, ended, faults>>
      BY <1>7 DEF vars, storeVars, pduVars, addVars
    <2>2. BaseInv'
      BY <2>1 DEF StoreInv, BaseInv, TypeInv, NumberInv, ListInv, FlightInv, PendingInv, PassInv
    <2> QED
      BY <2>1, <2>2, QuietStep
  <1> QED
    BY <1>1, <1>2, <1>3, <1>4, <1>5, <1>6, <1>7 DEF Next

\* The inductive invariant: what each list, pass and callback holds are stored
\* messages under the numbers INCR gave them, and their copies are counted.
THEOREM StoreInvariant == Spec => []StoreInv
  <1>1. Init => StoreInv
    BY StoreInit
  <1>2. StoreInv /\ [Next]_vars => StoreInv'
    BY StoreNext
  <1> QED
    BY <1>1, <1>2, PTL DEF Spec

\* Every variable has its type: the counters of a pass stay within its limit.
THEOREM TypeCorrect == Spec => []TypeOK
  <1>1. ASSUME BaseInv
        PROVE  TypeOK
    <2>1. TypeInv /\ ListInv /\ FlightInv /\ PassInv
      BY <1>1 DEF BaseInv
    <2>2. ids \in [Table -> Gid]
      <3> DEFINE S == {m \in Msg : add[m] # "new"}
      <3>1. \A t \in Table : ids[t] <= Cardinality(S) /\ ids[t] \in Nat
        BY <1>1 DEF BaseInv, NumberInv, TypeInv
      <3>2. S \subseteq Msg
        OBVIOUS
      <3> HIDE DEF S
      <3>3. Cardinality(S) \in Nat /\ Cardinality(S) <= Cardinality(Msg)
        BY <3>2, NumbersFinite, FS_Subset, FS_CardinalityType
      <3>4. \A t \in Table : ids[t] \in Gid
        BY <3>1, <3>3, NumbersFinite DEF Gid
      <3> QED
        BY <2>1, <3>4 DEF TypeInv
    <2>3. \A t \in Thread :
            /\ pass[t].pc \in PassPc /\ pass[t].kind \in Kind
            /\ pass[t].picked \in 0 .. pass[t].limit /\ pass[t].empty \in 0 .. MaxEmpty
            /\ pass[t].items \in Seq(Entry) /\ pass[t].claimed \in Seq(Item)
      <3> SUFFICES ASSUME NEW t \in Thread
                   PROVE  /\ pass[t].pc \in PassPc /\ pass[t].kind \in Kind
                          /\ pass[t].picked \in 0 .. pass[t].limit /\ pass[t].empty \in 0 .. MaxEmpty
                          /\ pass[t].items \in Seq(Entry) /\ pass[t].claimed \in Seq(Item)
        OBVIOUS
      <3>1. PICK p \in Pass : p = pass[t] /\ p.picked <= p.limit /\ p.empty <= MaxEmpty
        BY <2>1 DEF PassInv, GoodPass
      <3>2. p.pc \in PassPc /\ p.kind \in Kind /\ p.items \in Seq(Entry) /\ p.claimed \in Seq(Item)
        BY DEF Pass
      <3>3. p.picked \in Nat /\ p.limit \in Nat /\ p.empty \in Nat
        BY DEF Pass
      <3>4. p.picked \in 0 .. p.limit /\ p.empty \in 0 .. MaxEmpty
        BY <3>1, <3>3
      <3> QED
        BY <3>1, <3>2, <3>4
    <2>4. flight \subseteq [msg : Msg, gid : Gid, kind : Kind, st : {"sent", "move", "moved"}]
      BY <2>1 DEF FlightInv, Flights, Flight
    <2> QED
      BY <2>1, <2>2, <2>3, <2>4 DEF TypeOK, TypeInv, ListInv
  <1>2. StoreInv => TypeOK
    BY <1>1 DEF StoreInv
  <1> QED
    BY <1>2, StoreInvariant, PTL

\* The copies OneCopy counts are those of the invariant.
LEMMA CopiesAreTotal ==
  ASSUME BaseInv, NEW m \in Msg
  PROVE  Copies(m) = Total(m, list, pduList, dlrList, pass, flight)
  <1>1. ASSUME NEW s \in Seq(Entry)
        PROVE  Count(s, m) = HowMany(s, With(m))
    <2>1. \A i \in DOMAIN s : s[i] \in Entry
      OBVIOUS
    <2>2. {i \in DOMAIN s : s[i].msg = m} = {i \in DOMAIN s : s[i] \in With(m)}
      BY <2>1 DEF With
    <2> QED
      BY <2>2 DEF Count, HowMany
  <1>2. ASSUME NEW s \in Seq(Item)
        PROVE  Count(s, m) = HowMany(s, With(m))
    <2>1. \A i \in DOMAIN s : s[i] \in Item
      OBVIOUS
    <2>2. {i \in DOMAIN s : s[i].msg = m} = {i \in DOMAIN s : s[i] \in With(m)}
      BY <2>1 DEF With
    <2> QED
      BY <2>2 DEF Count, HowMany
  <1>3. list["store"] \in Seq(Entry) /\ list["queue"] \in Seq(Entry)
    BY Names DEF BaseInv, ListInv
  <1>4. /\ pass["mover"].items \in Seq(Entry) /\ pass["mover"].claimed \in Seq(Item)
        /\ pass["requeue"].items \in Seq(Entry) /\ pass["requeue"].claimed \in Seq(Item)
    BY Names DEF BaseInv, PassInv, Pass
  <1>5. \A s : Cardinality({i \in DOMAIN s : s[i] = m}) = HowMany(s, {m})
    <2> SUFFICES ASSUME NEW s
                 PROVE  Cardinality({i \in DOMAIN s : s[i] = m}) = HowMany(s, {m})
      OBVIOUS
    <2>1. {i \in DOMAIN s : s[i] = m} = {i \in DOMAIN s : s[i] \in {m}}
      OBVIOUS
    <2> QED
      BY <2>1 DEF HowMany
  <1>6. /\ Count(list["store"], m) + Count(list["queue"], m) = InStores(m, list)
        /\ Cardinality({i \in DOMAIN pduList[AccountOf[m]] : pduList[AccountOf[m]][i] = m}) = InList(m, pduList)
        /\ Cardinality({i \in DOMAIN dlrList[AccountOf[m]] : dlrList[AccountOf[m]][i] = m}) = InList(m, dlrList)
        /\ Cardinality({f \in flight : f.msg = m /\ f.st # "moved"}) = InFlightOf(m, flight)
    BY <1>1, <1>3, <1>5 DEF InStores, InList, InFlightOf
  <1>7. /\ Count(pass["mover"].items, m) + Count(pass["mover"].claimed, m) = InPass(m, pass["mover"])
        /\ Count(pass["requeue"].items, m) + Count(pass["requeue"].claimed, m) = InPass(m, pass["requeue"])
    BY <1>1, <1>2, <1>4 DEF InPass
  <1>8. /\ Count(list["store"], m) \in Nat /\ Count(list["queue"], m) \in Nat
        /\ Count(pass["mover"].items, m) \in Nat /\ Count(pass["mover"].claimed, m) \in Nat
        /\ Count(pass["requeue"].items, m) \in Nat /\ Count(pass["requeue"].claimed, m) \in Nat
    BY <1>1, <1>2, <1>3, <1>4, BaseCounts, Names
  <1>9. InList(m, pduList) \in Nat /\ InList(m, dlrList) \in Nat /\ InFlightOf(m, flight) \in Nat
    BY BaseCounts
  <1> QED
    BY <1>6, <1>7, <1>8, <1>9 DEF Copies, Total

\* LPOP, the return of what does not match and the requeueing of what found no
\* receiver keep exactly one copy of each stored message, for any number of
\* messages, accounts, threads' steps, faults and crashes.
THEOREM OneCopyKept == Spec => []OneCopy
  <1>1. ASSUME StoreInv
        PROVE  OneCopy
    <2> SUFFICES ASSUME NEW m \in Msg, gid[m] # 0 \/ ~SharedNumber(m)
                 PROVE  /\ Copies(m) <= 1
                        /\ Stored(m) /\ ended[m] = "no" => Copies(m) = 1 \/ (m \in Mo /\ SharedNumber(m))
                        /\ ended[m] # "no" => Copies(m) = 0
      BY DEF OneCopy
    <2>1. \A n : Stored(n) <=> StoredIn(n, config, add)
      BY DEF Stored, StoredIn
    <2>2. SharedNumber(m) <=> SharedIn(m, config, add, gid)
      BY <2>1 DEF SharedNumber, SharedIn
    <2>3. Copies(m) = Total(m, list, pduList, dlrList, pass, flight)
      BY <1>1, CopiesAreTotal DEF StoreInv
    <2>4. Fine(m, Copies(m), config, add, gid, ended)
      BY <1>1, <2>3 DEF StoreInv, CopyInv
    <2>5. CountedIn(m, config, add, gid)
      BY <2>2 DEF CountedIn
    <2> QED
      BY <2>1, <2>2, <2>4, <2>5 DEF Fine
  <1>2. StoreInv => OneCopy
    BY <1>1
  <1> QED
    BY <1>2, StoreInvariant, PTL

\* The set of the primary store is never shortened, and while no command has
\* failed every SADD of add_message has added its account.
LEMMA PolledStep ==
  ASSUME BaseInv, PolledInv, [Next]_vars
  PROVE  PolledInv'
  <1>t. /\ TypeInv /\ index \in [Table -> SUBSET Account] /\ add \in [Msg -> {"new", "push", "index", "ok", "failed"}]
        /\ faults \in Nat /\ Report \subseteq Msg /\ "store" \in Table
    BY Names DEF BaseInv, TypeInv, Msg
  <1>f. Fault => faults' # 0
    BY <1>t, FaultStep
  <1>0. ASSUME UNCHANGED <<add, faults>> \/ (UNCHANGED add /\ Fault), index["store"] \subseteq index'["store"]
        PROVE  PolledInv'
    BY <1>0, <1>f DEF PolledInv
  <1>1. ASSUME NEW m \in Msg, AddIncr(m) \/ AddPush(m) \/ AddIndex(m)
        PROVE  PolledInv'
    <2>1. CASE AddIncr(m) \/ AddPush(m)
      <3>1. UNCHANGED index /\ (UNCHANGED faults \/ Fault)
        BY <2>1 DEF AddIncr, AddPush
      <3>2. PICK v \in {"push", "index", "failed"} : add' = [add EXCEPT ![m] = v]
        BY <2>1 DEF AddIncr, AddPush
      <3>3. \A n \in Report : add'[n] = "ok" => add[n] = "ok"
        BY <1>t, <3>2
      <3> QED
        BY <1>f, <3>1, <3>3 DEF PolledInv
    <2>2. CASE AddIndex(m)
      <3>1. add' = [add EXCEPT ![m] = "ok"]
        BY <2>2 DEF AddIndex
      <3>2. CASE index' = [index EXCEPT ![TableOf(m)] = @ \cup {AccountOf[m]}] /\ UNCHANGED faults
        <4>1. index["store"] \subseteq index'["store"]
          BY <1>t, <3>2
        <4>2. m \in Report => TableOf(m) = "store"
          BY DEF TableOf
        <4>3. m \in Report => AccountOf[m] \in index'["store"]
          BY <1>t, <3>2, <4>2
        <4>4. \A n \in Report : add'[n] = "ok" => add[n] = "ok" \/ n = m
          BY <1>t, <3>1
        <4> QED
          BY <3>2, <4>1, <4>3, <4>4 DEF PolledInv
      <3>3. CASE Fault
        BY <1>f, <3>3 DEF PolledInv
      <3> QED
        BY <2>2, <3>2, <3>3 DEF AddIndex
    <2> QED
      BY <1>1, <2>1, <2>2
  <1>2. CASE MoverStart \/ \E a \in Account, room \in config.rooms : RequeueStart(a, room)
    BY <1>2, <1>0 DEF MoverStart, RequeueStart, storeVars, addVars
  <1>3. ASSUME NEW t \in Thread, PassStep(t)
        PROVE  PolledInv'
    <2>1. CASE LPop(t) \/ BatchEnd(t) \/ PassEnd(t) \/ HandOver(t)
      BY <2>1, <1>0 DEF LPop, BatchEnd, PassEnd, HandOver, storeVars, addVars
    <2>2. CASE ClaimOrReturn(t)
      BY <2>2, <1>0 DEF ClaimOrReturn, storeVars, addVars
    <2>3. CASE NoReceiver(t)
      <3>1. UNCHANGED add
        BY <2>3 DEF NoReceiver, addVars
      <3>2. PICK g : RemoveTemporary(g) \/ UNCHANGED <<index, faults>>
        BY <2>3 DEF NoReceiver
      <3>3. CASE UNCHANGED <<index, faults>>
        BY <1>0, <3>1, <3>3
      <3>4. CASE RemoveTemporary(g)
        <4>1. /\ (\E k, a : index' = [index EXCEPT ![k] = @ \cup {a}]) \/ UNCHANGED index
              /\ UNCHANGED faults \/ Fault
          BY <3>4 DEF RemoveTemporary
        <4>2. index["store"] \subseteq index'["store"]
          BY <1>t, <4>1
        <4> QED
          BY <1>0, <3>1, <4>1, <4>2
      <3> QED
        BY <3>2, <3>3, <3>4
    <2>4. CASE Unrouted
      BY <2>4, <1>0 DEF Unrouted, storeVars, addVars
    <2>5. CASE PopPdus \/ CheckEmpty \/ Unindex \/ PopDlrs
      BY <2>5, <1>0 DEF PopPdus, CheckEmpty, Unindex, PopDlrs, storeVars, addVars
    <2> QED
      BY <1>3, <2>1, <2>2, <2>3, <2>4, <2>5 DEF PassStep
  <1>4. ASSUME NEW f \in flight, Delivered(f) \/ NotDelivered(f) \/ MovePush(f) \/ MoveIndex(f)
        PROVE  PolledInv'
    <2>1. UNCHANGED <<add, index>> /\ (UNCHANGED faults \/ Fault)
      BY <1>4 DEF Delivered, NotDelivered, MovePush, MoveIndex, storeVars, addVars
    <2> QED
      BY <1>0, <2>1
  <1>5. CASE Crash
    BY <1>5, <1>f DEF Crash, PolledInv
  <1>6. CASE UNCHANGED vars
    BY <1>6, <1>0 DEF vars, storeVars, addVars
  <1> QED
    BY <1>1, <1>2, <1>3, <1>4, <1>5, <1>6 DEF Next

\* An account with something stored is among those the requeue thread asks
\* for, while no command has failed.
THEOREM WaitingPolled == Spec => []WaitingIsPolled
  <1>1. Init => PolledInv
    BY DEF Init, PolledInv, Msg
  <1>2. StoreInv /\ PolledInv /\ [Next]_vars => PolledInv'
    BY PolledStep DEF StoreInv
  <1>3. ASSUME BaseInv, PolledInv
        PROVE  WaitingIsPolled
    <2> SUFFICES ASSUME faults = 0, NEW m \in Report \cup TableDlr, Stored(m), add[m] # "index"
                 PROVE  AccountOf[m] \in Polled
      BY DEF WaitingIsPolled
    <2>1. m \in Msg /\ AccountOf[m] \in Account
      BY DEF Msg
    <2>2. CASE m \in TableDlr
      <3>1. add[m] = "new"
        BY <1>3, <2>1, <2>2 DEF BaseInv, NumberInv
      <3>2. m \in DlrsOf(AccountOf[m])
        BY <2>2, <3>1 DEF Stored, DlrsOf
      <3> QED
        BY <2>1, <3>2 DEF Polled
    <2>3. CASE m \in Report /\ m \notin TableDlr
      BY <1>3, <2>3 DEF Stored, PolledInv, Polled
    <2> QED
      BY <2>2, <2>3
  <1>4. StoreInv /\ PolledInv => WaitingIsPolled
    BY <1>3 DEF StoreInv
  <1> QED
    BY <1>1, <1>2, <1>4, StoreInvariant, PTL DEF Spec

=============================================================================
