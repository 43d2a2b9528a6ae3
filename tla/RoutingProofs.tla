--------------------------- MODULE RoutingProofs ---------------------------
(***************************************************************************)
(* Proofs about routing, for every route table, every number of messages,  *)
(* edits, rebuilds and failed queries, and every HTTP server.              *)
(***************************************************************************)
EXTENDS Routing, FiniteSetTheorems, SequenceTheorems, WellFoundedInduction, TLAPS

-----------------------------------------------------------------------------
(* A rebuild takes effect *)

\* The histories count rebuilds, and the router's own variables are functions.
FreshType ==
  /\ begun \in Nat /\ answered \in Nat /\ answered <= begun
  /\ DOMAIN st = Req /\ st = [r \in Req |-> st[r]]
  /\ DOMAIN by = Req /\ by = [r \in Req |-> by[r]]
  /\ since \in [Req -> Nat]
  /\ outbound = [a \in Account |-> outbound[a]]

\* Both caches and the list a rebuild is about to install were read after the
\* last rebuild that was answered had begun.
FreshCaches ==
  /\ rebuild # NoRoutes => rebuild.read = begun
  /\ inbound.read \in Nat /\ inbound.read >= answered
  /\ \A a \in Account :
       outbound[a] # NoRoutes => outbound[a].read \in Nat /\ outbound[a].read >= answered

\* A reader that has read its list and not yet cached it keeps every rebuild
\* from being answered; one that matches may lag behind by rebuilds answered
\* since, never by one from before it began.
FreshReaders ==
  \A r \in Req :
    /\ since[r] <= answered
    /\ st[r] = "put" => by[r].read \in Nat /\ by[r].read >= answered
    /\ st[r] = "match" => by[r].read \in Nat /\ by[r].read >= since[r]

FreshInv == FreshType /\ FreshCaches /\ FreshReaders

\* Routing starts with the inbound routes read and nothing cached.
LEMMA FreshInit == Init => FreshInv
  BY DEF Init, FreshInv, FreshType, FreshCaches, FreshReaders

\* Steps of the HTTP router and edits of the table touch neither the caches
\* nor a message that is being matched.
LEMMA FreshElsewhere ==
  ASSUME FreshInv,
         UNCHANGED <<by, since, cacheVars, rebuildVars>>,
         st' = [r \in Req |-> st'[r]], DOMAIN st' = Req,
         \A r \in Req : st'[r] \in {"put", "match"} => st'[r] = st[r]
  PROVE  FreshInv'
  BY DEF FreshInv, FreshType, FreshCaches, FreshReaders, cacheVars, rebuildVars

\* No step of routing, rebuilding or editing lets an outdated list through.
LEMMA FreshNext == FreshInv /\ [Next]_vars => FreshInv'
  <1> SUFFICES ASSUME FreshInv, [Next]_vars PROVE FreshInv'
    OBVIOUS
  <1> USE DEF msgVars, cacheVars, rebuildVars, httpVars
  <1>1. ASSUME NEW r \in Req, RouteDatabase(r) PROVE FreshInv'
    BY <1>1 DEF RouteDatabase, FreshInv, FreshType, FreshCaches, FreshReaders
  <1>2. ASSUME NEW r \in Req, Unroutable(r) PROVE FreshInv'
    BY <1>2, FreshElsewhere DEF Unroutable, Callback, FreshInv, FreshType
  <1>3. ASSUME NEW r \in Req, LookupInbound(r) PROVE FreshInv'
    <2>1. by'[r] = inbound /\ st'[r] = "match" /\ UNCHANGED <<since, answered>>
      BY <1>3 DEF LookupInbound, FreshInv, FreshType
    <2>2. \A q \in Req : q # r => by'[q] = by[q] /\ st'[q] = st[q]
      BY <1>3 DEF LookupInbound, FreshInv, FreshType
    <2>3. FreshType' /\ FreshCaches'
      BY <1>3 DEF LookupInbound, FreshInv, FreshType, FreshCaches
    <2>4. FreshReaders'
      BY <2>1, <2>2 DEF FreshInv, FreshType, FreshCaches, FreshReaders
    <2> QED
      BY <2>3, <2>4 DEF FreshInv
  <1>4. ASSUME NEW r \in Req, LookupOutbound(r), Service[r] \in Account PROVE FreshInv'
    <2>1. CASE outbound[Service[r]] # NoRoutes
      BY <1>4, <2>1 DEF LookupOutbound, FreshInv, FreshType, FreshCaches, FreshReaders
    <2>2. CASE outbound[Service[r]] = NoRoutes
      BY <1>4, <2>2 DEF LookupOutbound, FreshInv, FreshType, FreshCaches, FreshReaders
    <2> QED
      BY <2>1, <2>2
  <1>5. ASSUME NEW r \in Req, ReadOutbound(r) PROVE FreshInv'
    <2>1. by'[r].read = begun
      BY <1>5 DEF ReadOutbound, Selected, NotSelected, FreshInv, FreshType
    <2>2. \A q \in Req : q # r => by'[q] = by[q] /\ st'[q] = st[q]
      BY <1>5 DEF ReadOutbound, FreshInv, FreshType
    <2>3. FreshType'
      BY <1>5 DEF ReadOutbound, FreshInv, FreshType
    <2>4. FreshCaches'
      BY <1>5 DEF ReadOutbound, FreshInv, FreshCaches
    <2>5. st'[r] = "put" /\ UNCHANGED <<since, answered, begun>>
      BY <1>5 DEF ReadOutbound, FreshInv, FreshType
    <2>6. FreshReaders'
      BY <2>1, <2>2, <2>5 DEF FreshInv, FreshType, FreshReaders
    <2> QED
      BY <2>3, <2>4, <2>6 DEF FreshInv
  <1>6. ASSUME NEW r \in Req, PutOutbound(r) PROVE FreshInv'
    <2>1. FreshType' /\ FreshReaders'
      BY <1>6 DEF PutOutbound, FreshInv, FreshType, FreshReaders
    <2>2. FreshCaches'
      BY <1>6 DEF PutOutbound, FreshInv, FreshType, FreshCaches, FreshReaders
    <2> QED
      BY <2>1, <2>2 DEF FreshInv
  <1>7. ASSUME NEW r \in Req, Match(r) PROVE FreshInv'
    <2>1. UNCHANGED <<by, since, cacheVars, rebuildVars>> /\ st' = [st EXCEPT ![r] = "done"]
      BY <1>7 DEF Match, Callback
    <2> QED
      BY <2>1, FreshElsewhere DEF FreshInv, FreshType
  <1>8. CASE RebuildRead
    <2>1. begun' = begun + 1 /\ rebuild'.read = begun + 1
      BY <1>8 DEF RebuildRead, Selected, NotSelected
    <2> QED
      BY <1>8, <2>1 DEF RebuildRead, FreshInv, FreshType, FreshCaches, FreshReaders
  <1>9. CASE RebuildSwap
    <2>1. \A r \in Req : st[r] \notin {"put", "match"}
      BY <1>9 DEF RebuildSwap, Readers
    <2>2. FreshType' /\ FreshCaches'
      BY <1>9 DEF RebuildSwap, FreshInv, FreshType, FreshCaches
    <2>3. FreshReaders'
      BY <1>9, <2>1 DEF RebuildSwap, FreshInv, FreshType, FreshReaders
    <2> QED
      BY <2>2, <2>3 DEF FreshInv
  <1>10. ASSUME NEW r \in Req, RouteHttp(r) PROVE FreshInv'
    BY <1>10, FreshElsewhere DEF RouteHttp, FreshInv, FreshType
  <1>11. ASSUME NEW r \in Req, NEW a \in config.answers, Receive(r, a) PROVE FreshInv'
    BY <1>11, FreshElsewhere DEF Receive, Callback, FreshInv, FreshType
  <1>12. ASSUME NEW c \in Caller, CallerStep(c) PROVE FreshInv'
    <2>1. UNCHANGED <<by, since, cacheVars, rebuildVars>>
      BY <1>12 DEF CallerStep, CallerCheck, CallerRoom, CallerConsume, CallerSend
    <2>2. CASE CallerConsume(c)
      BY <2>1, <2>2, FreshElsewhere DEF CallerConsume, FreshInv, FreshType
    <2>3. CASE CallerSend(c)
      BY <2>1, <2>3, FreshElsewhere DEF CallerSend, FreshInv, FreshType
    <2>4. CASE CallerCheck(c) \/ CallerRoom(c)
      BY <2>1, <2>4, FreshElsewhere DEF CallerCheck, CallerRoom, FreshInv, FreshType
    <2> QED
      BY <1>12, <2>2, <2>3, <2>4 DEF CallerStep
  <1>13. CASE Edit \/ Shutdown
    BY <1>13, FreshElsewhere DEF Edit, Shutdown, FreshInv, FreshType
  <1>14. CASE RouteShutdown
    BY <1>14, FreshElsewhere DEF RouteShutdown, FreshInv, FreshType
  <1>15. CASE UNCHANGED vars
    BY <1>15, FreshElsewhere DEF vars, FreshInv, FreshType
  <1>16. \A r \in Req : LookupOutbound(r) => Service[r] \in Account
    BY RequestAssumption DEF LookupOutbound
  <1> QED
    BY <1>1, <1>2, <1>3, <1>4, <1>5, <1>6, <1>7, <1>8, <1>9, <1>10, <1>11, <1>12, <1>13,
       <1>14, <1>15, <1>16 DEF Next, DatabaseStep

\* rebuild-routes takes effect: once a rebuild has been answered no message
\* is matched against a list read before that rebuild began, whatever the
\* readers, the fills of the cache and the failed queries in between.
THEOREM RebuildEffective == Spec => []RebuildTakesEffect
  <1>1. FreshInv => RebuildTakesEffect
    BY DEF FreshInv, FreshReaders, RebuildTakesEffect
  <1> QED
    BY <1>1, FreshInit, FreshNext, PTL DEF Spec

-----------------------------------------------------------------------------
(* The origin of a message *)

\* A message has the two fields, and the one that says where it is from is
\* what it came with.
OriginInv ==
  /\ msg = [r \in Req |-> msg[r]]
  /\ \A r \in Req : msg[r] = [smsc_id |-> msg[r].smsc_id, service |-> msg[r].service]
  /\ OriginKept

\* A step that leaves one field of one message to the router, and the other
\* alone, keeps the invariant.
LEMMA OriginFields ==
  ASSUME OriginInv, NEW r \in Req, NEW x, NEW y,
         msg' = [msg EXCEPT ![r] = [smsc_id |-> x, service |-> y]],
         Dir[r] = "out" => y = msg[r].service,
         Dir[r] = "in" => x = msg[r].smsc_id
  PROVE  OriginInv'
  BY DEF OriginInv, OriginKept

\* One field of a record replaced, and the other kept.
LEMMA FieldsReplaced ==
  ASSUME NEW old, NEW v, old = [smsc_id |-> old.smsc_id, service |-> old.service]
  PROVE  /\ [old EXCEPT !.smsc_id = v] = [smsc_id |-> v, service |-> old.service]
         /\ [old EXCEPT !.service = v] = [smsc_id |-> old.smsc_id, service |-> v]
  <1> DEFINE a == old.smsc_id
             b == old.service
  <1>1. old = [smsc_id |-> a, service |-> b]
    OBVIOUS
  <1> HIDE DEF a, b
  <1>2. /\ [[smsc_id |-> a, service |-> b] EXCEPT !.smsc_id = v] = [smsc_id |-> v, service |-> b]
        /\ [[smsc_id |-> a, service |-> b] EXCEPT !.service = v] = [smsc_id |-> a, service |-> v]
    OBVIOUS
  <1>3. /\ [old EXCEPT !.smsc_id = v] = [smsc_id |-> v, service |-> b]
        /\ [old EXCEPT !.service = v] = [smsc_id |-> a, service |-> v]
    BY <1>1, <1>2, Zenon
  <1> QED
    BY <1>3 DEF a, b

\* Every step of both routers keeps the origin.
LEMMA OriginNext == OriginInv /\ [Next]_vars => OriginInv'
  <1> SUFFICES ASSUME OriginInv, [Next]_vars PROVE OriginInv'
    OBVIOUS
  <1>1. ASSUME NEW r \in Req, Match(r) PROVE OriginInv'
    <2> DEFINE routes == GetRoutes(by[r], Dir[r], Service[r])
               found == routes[Search(routes, r).found]
    <2>1. \/ msg' = msg
          \/ Dir[r] = "out" /\ msg' = [msg EXCEPT ![r].smsc_id = found.smsc_id]
          \/ Dir[r] # "out" /\ msg' = [msg EXCEPT ![r].service = found.system_id]
      BY <1>1 DEF Match
    <2> HIDE DEF found, routes
    <2>3. CASE msg' = msg
      BY <2>3 DEF OriginInv, OriginKept
    <2>r. msg[r] = [smsc_id |-> msg[r].smsc_id, service |-> msg[r].service]
      BY DEF OriginInv
    <2>4. CASE Dir[r] = "out" /\ msg' = [msg EXCEPT ![r].smsc_id = found.smsc_id]
      <3> DEFINE x == found.smsc_id
                 y == msg[r].service
      <3>1. [msg[r] EXCEPT !.smsc_id = x] = [smsc_id |-> x, service |-> y]
        BY <2>r, FieldsReplaced
      <3>2. msg' = [msg EXCEPT ![r] = [msg[r] EXCEPT !.smsc_id = x]]
        BY <2>4
      <3>3. msg' = [msg EXCEPT ![r] = [smsc_id |-> x, service |-> y]]
        BY <3>1, <3>2, Zenon
      <3>4. Dir[r] = "out" /\ y = msg[r].service
        BY <2>4
      <3> HIDE DEF x, y
      <3> QED
        BY <3>3, <3>4, OriginFields
    <2>5. CASE Dir[r] # "out" /\ msg' = [msg EXCEPT ![r].service = found.system_id]
      <3> DEFINE x == msg[r].smsc_id
                 y == found.system_id
      <3>1. [msg[r] EXCEPT !.service = y] = [smsc_id |-> x, service |-> y]
        BY <2>r, FieldsReplaced
      <3>2. msg' = [msg EXCEPT ![r] = [msg[r] EXCEPT !.service = y]]
        BY <2>5
      <3>3. msg' = [msg EXCEPT ![r] = [smsc_id |-> x, service |-> y]]
        BY <3>1, <3>2, Zenon
      <3>4. Dir[r] # "out" /\ x = msg[r].smsc_id
        BY <2>5
      <3> HIDE DEF x, y
      <3> QED
        BY <3>3, <3>4, OriginFields
    <2> QED
      BY <2>1, <2>3, <2>4, <2>5
  <1>2. ASSUME NEW r \in Req, NEW a \in config.answers, Receive(r, a) PROVE OriginInv'
    <2>1. CASE Accepted(a)
      <3>1. msg' = [msg EXCEPT ![r] = Overridden(a, r)]
        BY <1>2, <2>1 DEF Receive
      <3> QED
        BY <3>1, OriginFields DEF Overridden
    <2>2. CASE ~Accepted(a)
      BY <1>2, <2>2 DEF Receive, OriginInv, OriginKept
    <2> QED
      BY <2>1, <2>2
  <1>3. ASSUME UNCHANGED msg PROVE OriginInv'
    BY <1>3 DEF OriginInv, OriginKept
  <1>4. ASSUME NEW r \in Req,
               \/ RouteDatabase(r) \/ Unroutable(r) \/ LookupInbound(r) \/ LookupOutbound(r)
               \/ ReadOutbound(r) \/ PutOutbound(r) \/ RouteHttp(r)
        PROVE UNCHANGED msg
    BY <1>4 DEF RouteDatabase, Unroutable, Callback, LookupInbound, LookupOutbound, ReadOutbound,
                PutOutbound, RouteHttp
  <1>5. ASSUME NEW c \in Caller, CallerStep(c) PROVE UNCHANGED msg
    BY <1>5 DEF CallerStep, CallerCheck, CallerRoom, CallerConsume, CallerSend, msgVars
  <1>6. ASSUME \/ Edit \/ RebuildRead \/ RebuildSwap \/ Shutdown \/ RouteShutdown
               \/ UNCHANGED vars
        PROVE UNCHANGED msg
    BY <1>6 DEF Edit, RebuildRead, RebuildSwap, Shutdown, RouteShutdown, vars, msgVars
  <1> QED
    BY <1>1, <1>2, <1>3, <1>4, <1>5, <1>6 DEF Next, DatabaseStep

\* Whatever the route table or the HTTP server says, an outbound message stays
\* the account's that sent it and an inbound message the smsc's it came from.
THEOREM OriginNeverChanges == Spec => []OriginKept
  <1>1. Init => OriginInv
    BY DEF Init, OriginInv, OriginKept
  <1>2. OriginInv => OriginKept
    BY DEF OriginInv
  <1> QED
    BY <1>1, <1>2, OriginNext, PTL DEF Spec

-----------------------------------------------------------------------------
(* The limit on outstanding requests *)

\* How many requests a caller may still send before it looks at the counter
\* again, counting the one it has taken.
CallerState == [pc : {"idle", "room", "loop", "taken"}, left : Int,
                req : {<<>>} \cup {<<r>> : r \in Req}]
Work(k) == (IF k.left > 0 THEN k.left ELSE 0) + (IF k.pc = "taken" THEN 1 ELSE 0)

\* The same as a set: one element for each request a caller may still send.
Tokens(C, m) == {t \in Caller \X (1 .. m) : t[2] <= Work(C[t[1]])}

\* What is queued, and what a caller has taken, is nobody else's.
HeldOnce(q, C, S, m) ==
  /\ q \in Seq(Req) /\ C \in [Caller -> CallerState]
  /\ \A i, j \in DOMAIN q : q[i] = q[j] => i = j
  /\ \A i \in DOMAIN q : S[q[i]] = "queued"
  /\ \A c \in Caller : C[c].pc = "taken" => C[c].left >= 0 /\ \E r \in Req : C[c].req = <<r>> /\ S[r] = "taken"
  /\ \A c, d \in Caller : C[c].pc = "taken" /\ C[d].pc = "taken" /\ C[c].req = C[d].req => c = d
  /\ \A c \in Caller : C[c].pc \in {"idle", "room"} => C[c].left = 0
  /\ \A c \in Caller : Work(C[c]) <= m

\* The counter is the number of requests sent, and what the callers may still
\* send fits below the bound.
SentIn(S) == {r \in Req : S[r] = "sent"}
LimitInv ==
  /\ config \in Scenarios /\ st = [r \in Req |-> st[r]]
  /\ HeldOnce(queue, caller, st, config.max)
  /\ IsFiniteSet(SentIn(st)) /\ outstanding = Cardinality(SentIn(st))
  /\ outstanding + Cardinality(Tokens(caller, config.max)) <= Cardinality(Caller) * config.max

\* There are finitely many tokens.
LEMMA TokensFinite ==
  ASSUME NEW C, NEW m \in Nat
  PROVE  /\ IsFiniteSet(Tokens(C, m)) /\ Cardinality(Tokens(C, m)) \in Nat
         /\ IsFiniteSet(Caller \X (1 .. m)) /\ Cardinality(Caller) \in Nat
  <1>1. IsFiniteSet(1 .. m)
    BY FS_Interval
  <1>2. IsFiniteSet(Caller \X (1 .. m))
    BY <1>1, CallerAssumption, FS_Product
  <1>3. Tokens(C, m) \subseteq Caller \X (1 .. m)
    BY DEF Tokens
  <1>4. IsFiniteSet(Tokens(C, m))
    BY <1>2, <1>3, FS_Subset
  <1> QED
    BY <1>2, <1>4, CallerAssumption, FS_CardinalityType

\* A caller that may send no more than before adds no token; one that has sent
\* a request gives one back.
LEMMA TokensSpent ==
  ASSUME NEW m \in Nat, NEW C \in [Caller -> CallerState], NEW D \in [Caller -> CallerState], NEW c \in Caller,
         \A d \in Caller : d # c => D[d] = C[d], Work(D[c]) <= Work(C[c]), Work(C[c]) <= m
  PROVE  /\ Cardinality(Tokens(D, m)) <= Cardinality(Tokens(C, m))
         /\ Work(D[c]) < Work(C[c]) => Cardinality(Tokens(D, m)) + 1 <= Cardinality(Tokens(C, m))
  <1>1. Work(C[c]) \in Nat /\ Work(D[c]) \in Nat
    <2>1. C[c].left \in Int /\ D[c].left \in Int
      BY DEF CallerState
    <2> QED
      BY <2>1 DEF Work
  <1>2. IsFiniteSet(Tokens(C, m)) /\ Cardinality(Tokens(C, m)) \in Nat /\ Cardinality(Tokens(D, m)) \in Nat
    BY TokensFinite
  <1>3. Tokens(D, m) \subseteq Tokens(C, m)
    <2> SUFFICES ASSUME NEW t \in Caller \X (1 .. m), t[2] <= Work(D[t[1]])
                 PROVE  t[2] <= Work(C[t[1]])
      BY DEF Tokens
    <2>1. t[1] \in Caller /\ t[2] \in Nat
      OBVIOUS
    <2>2. CASE t[1] = c
      BY <1>1, <2>1, <2>2
    <2>3. CASE t[1] # c
      BY <2>1, <2>3
    <2> QED
      BY <2>2, <2>3
  <1>4. Cardinality(Tokens(D, m)) <= Cardinality(Tokens(C, m))
    BY <1>2, <1>3, FS_Subset
  <1>5. ASSUME Work(D[c]) < Work(C[c])
        PROVE  Cardinality(Tokens(D, m)) # Cardinality(Tokens(C, m))
    <2>1. PICK w \in Nat : w = Work(C[c]) /\ w >= 1 /\ w <= m /\ ~(w <= Work(D[c]))
      BY <1>1, <1>5
    <2>2. <<c, w>> \in Tokens(C, m) /\ <<c, w>> \notin Tokens(D, m)
      BY <2>1 DEF Tokens
    <2>3. Tokens(C, m) # Tokens(D, m)
      BY <2>2
    <2> QED
      BY <1>2, <1>3, <2>3, FS_Subset
  <1> QED
    BY <1>2, <1>4, <1>5

\* A caller that has just looked has the room it saw, the others at most the
\* whole limit each.
LEMMA TokensRoom ==
  ASSUME NEW m \in Nat, NEW D, NEW c \in Caller, NEW w \in Nat, w = Work(D[c])
  PROVE  Cardinality(Tokens(D, m)) + m <= Cardinality(Caller) * m + w
  <1>1. PICK k \in Nat : k = Cardinality(Caller \ {c}) /\ Cardinality(Caller) = k + 1 /\ IsFiniteSet(Caller \ {c})
    <2>1. /\ IsFiniteSet(Caller \ {c}) /\ Cardinality(Caller \ {c}) = IF c \in Caller THEN Cardinality(Caller) - 1 ELSE Cardinality(Caller)
      BY CallerAssumption, FS_RemoveElement
    <2>2. Cardinality(Caller) \in Nat /\ Cardinality(Caller \ {c}) \in Nat
      BY <2>1, CallerAssumption, FS_CardinalityType
    <2> QED
      BY <2>1, <2>2
  <1>2. \A n \in Nat : IsFiniteSet(1 .. n) /\ Cardinality(1 .. n) = n
    <2> SUFFICES ASSUME NEW n \in Nat
                 PROVE  IsFiniteSet(1 .. n) /\ Cardinality(1 .. n) = n
      OBVIOUS
    <2>1. PICK one \in Int : one = 1
      OBVIOUS
    <2> n \in Int
      OBVIOUS
    <2>2. IsFiniteSet(one .. n) /\ Cardinality(one .. n) = IF one > n THEN 0 ELSE n-one+1
      BY FS_Interval
    <2> QED
      BY <2>1, <2>2
  <1> DEFINE A == (Caller \ {c}) \X (1 .. m)
             B == {c} \X (1 .. w)
  <1>3. IsFiniteSet(A) /\ Cardinality(A) = k * m
    <2>1. PICK I : I = 1 .. m
      OBVIOUS
    <2>2. IsFiniteSet(I) /\ Cardinality(I) = m
      BY <1>2, <2>1
    <2>3. IsFiniteSet((Caller \ {c}) \X I) /\ Cardinality((Caller \ {c}) \X I) = Cardinality(Caller \ {c}) * Cardinality(I)
      BY <1>1, <2>2, FS_Product
    <2> QED
      BY <1>1, <2>1, <2>2, <2>3
  <1>4. IsFiniteSet(B) /\ Cardinality(B) = w
    <2>1. IsFiniteSet({c}) /\ Cardinality({c}) = 1
      BY FS_Singleton
    <2>2. IsFiniteSet({c} \X (1 .. w)) /\ Cardinality({c} \X (1 .. w)) = Cardinality({c}) * Cardinality(1 .. w)
      BY <1>2, <2>1, FS_Product
    <2> QED
      BY <1>2, <2>1, <2>2
  <1>5. Tokens(D, m) \subseteq A \cup B
    <2> SUFFICES ASSUME NEW t \in Caller \X (1 .. m), t[2] <= Work(D[t[1]])
                 PROVE  t \in A \cup B
      BY DEF Tokens
    <2>1. t = <<t[1], t[2]>> /\ t[1] \in Caller /\ t[2] \in 1 .. m
      OBVIOUS
    <2>2. CASE t[1] = c
      <3>1. t[2] \in 1 .. w
        BY <2>1, <2>2
      <3> QED
        BY <2>1, <2>2, <3>1
    <2>3. CASE t[1] # c
      BY <2>1, <2>3
    <2> QED
      BY <2>2, <2>3
  <1> HIDE DEF A, B
  <1>6. IsFiniteSet(A \cup B) /\ Cardinality(A \cup B) = Cardinality(A) + Cardinality(B) - Cardinality(A \cap B)
    BY <1>3, <1>4, FS_Union
  <1>7. IsFiniteSet(A \cap B) /\ Cardinality(A \cap B) \in Nat
    <2>1. A \cap B \subseteq A
      OBVIOUS
    <2>2. IsFiniteSet(A \cap B)
      BY <1>3, <2>1, FS_Subset
    <2> QED
      BY <2>2, FS_CardinalityType
  <1>8. Cardinality(Tokens(D, m)) <= Cardinality(A \cup B)
    BY <1>5, <1>6, FS_Subset
  <1>9. Cardinality(Tokens(D, m)) \in Nat
    BY TokensFinite
  <1>10. PICK p \in Nat : p = k * m
    OBVIOUS
  <1>11. Cardinality(Caller) * m = p + m
    BY <1>1, <1>10
  <1> QED
    BY <1>3, <1>4, <1>6, <1>7, <1>8, <1>9, <1>10, <1>11

\* What is in the messages' states that the callers rely on.
LEMMA HeldStays ==
  ASSUME NEW q, NEW C, NEW S, NEW T, NEW m, HeldOnce(q, C, S, m),
         \A r \in Req : S[r] \in {"queued", "taken"} => T[r] = S[r]
  PROVE  HeldOnce(q, C, T, m)
  <1>1. \A i \in DOMAIN q : q[i] \in Req
    BY DEF HeldOnce
  <1>2. \A i \in DOMAIN q : T[q[i]] = "queued"
    BY <1>1 DEF HeldOnce
  <1>3. \A c \in Caller : C[c].pc = "taken" => C[c].left >= 0 /\ \E r \in Req : C[c].req = <<r>> /\ T[r] = "taken"
    BY DEF HeldOnce
  <1> QED
    BY <1>2, <1>3 DEF HeldOnce

\* Steps that have nothing to do with the HTTP router.
LEMMA LimitElsewhere ==
  ASSUME LimitInv, UNCHANGED <<config, queue, caller, outstanding>>, st' = [r \in Req |-> st'[r]],
         \A r \in Req : st[r] \in {"queued", "taken", "sent"} \/ st'[r] \in {"queued", "taken", "sent"} => st'[r] = st[r]
  PROVE  LimitInv'
  <1>1. HeldOnce(queue, caller, st', config.max)
    BY HeldStays DEF LimitInv
  <1>2. SentIn(st') = SentIn(st)
    BY DEF SentIn
  <1> QED
    BY <1>1, <1>2 DEF LimitInv

\* One message changes its state.
LEMMA SentChange ==
  ASSUME LimitInv, NEW r \in Req, NEW v, st' = [st EXCEPT ![r] = v]
  PROVE  /\ st' = [x \in Req |-> st'[x]] /\ \A x \in Req : st'[x] = IF x = r THEN v ELSE st[x]
         /\ v # "sent" => SentIn(st') = SentIn(st) \ {r}
         /\ v = "sent" => SentIn(st') = SentIn(st) \cup {r}
         /\ IsFiniteSet(SentIn(st')) /\ outstanding \in Nat
         /\ st[r] # "sent" /\ v # "sent" => Cardinality(SentIn(st')) = outstanding
         /\ st[r] # "sent" /\ v = "sent" => Cardinality(SentIn(st')) = outstanding + 1
         /\ st[r] = "sent" /\ v # "sent" => Cardinality(SentIn(st')) = outstanding - 1 /\ outstanding > 0
  <1>1. st = [x \in Req |-> st[x]] /\ IsFiniteSet(SentIn(st)) /\ outstanding = Cardinality(SentIn(st))
    BY DEF LimitInv
  <1>2. st' = [x \in Req |-> st'[x]] /\ \A x \in Req : st'[x] = IF x = r THEN v ELSE st[x]
    BY <1>1
  <1>3. /\ v # "sent" => SentIn(st') = SentIn(st) \ {r}
        /\ v = "sent" => SentIn(st') = SentIn(st) \cup {r}
        /\ r \in SentIn(st) <=> st[r] = "sent"
    BY <1>2 DEF SentIn
  <1>4. PICK X : X = SentIn(st) /\ IsFiniteSet(X) /\ Cardinality(X) = outstanding
    BY <1>1
  <1>5. /\ IsFiniteSet(X \ {r}) /\ Cardinality(X \ {r}) = IF r \in X THEN Cardinality(X)-1 ELSE Cardinality(X)
        /\ IsFiniteSet(X \cup {r}) /\ Cardinality(X \cup {r}) = IF r \in X THEN Cardinality(X) ELSE Cardinality(X)+1
    BY <1>4, FS_RemoveElement, FS_AddElement
  <1>6. Cardinality(X) \in Nat /\ Cardinality(X \ {r}) \in Nat
    BY <1>4, <1>5, FS_CardinalityType
  <1>7. CASE v # "sent"
    <2>1. SentIn(st') = X \ {r}
      BY <1>3, <1>4, <1>7
    <2>2. CASE r \in X
      <3>1. Cardinality(X \ {r}) = outstanding - 1 /\ outstanding \in Nat /\ Cardinality(X \ {r}) \in Nat
        BY <1>4, <1>5, <1>6, <2>2
      <3>2. outstanding > 0
        BY <3>1
      <3>3. st[r] = "sent"
        BY <1>3, <1>4, <2>2
      <3> QED
        BY <1>2, <1>3, <1>5, <1>7, <2>1, <3>1, <3>2, <3>3
    <2>3. CASE r \notin X
      BY <1>2, <1>3, <1>4, <1>5, <1>6, <1>7, <2>1, <2>3
    <2> QED
      BY <2>2, <2>3
  <1>8. CASE v = "sent"
    <2>1. SentIn(st') = X \cup {r}
      BY <1>3, <1>4, <1>8
    <2> QED
      BY <1>2, <1>3, <1>4, <1>5, <1>6, <1>8, <2>1
  <1> QED
    BY <1>7, <1>8

\* A message is queued.
LEMMA LimitQueue ==
  ASSUME LimitInv, NEW r \in Req, RouteHttp(r)
  PROVE  LimitInv'
  <1>0. /\ st[r] = "new" /\ queue' = Append(queue, r) /\ st' = [st EXCEPT ![r] = "queued"]
        /\ UNCHANGED <<config, caller, outstanding>>
    BY DEF RouteHttp, rebuildVars
  <1>1. /\ st' = [x \in Req |-> st'[x]] /\ \A x \in Req : st'[x] = IF x = r THEN "queued" ELSE st[x]
        /\ IsFiniteSet(SentIn(st')) /\ Cardinality(SentIn(st')) = outstanding
    BY <1>0, SentChange
  <1>2. HeldOnce(queue, caller, st, config.max)
    BY DEF LimitInv
  <1>3. HeldOnce(queue, caller, st', config.max)
    BY <1>0, <1>1, <1>2, HeldStays
  <1>4. PICK q \in Seq(Req) : q = queue
    BY <1>2 DEF HeldOnce
  <1>5. /\ Append(q, r) \in Seq(Req) /\ DOMAIN Append(q, r) = 1 .. Len(q) + 1 /\ DOMAIN q = 1 .. Len(q) /\ Len(q) \in Nat
        /\ Append(q, r)[Len(q) + 1] = r /\ \A i \in 1 .. Len(q) : Append(q, r)[i] = q[i]
    OBVIOUS
  <1>6. \A i \in 1 .. Len(q) : q[i] # r /\ st'[q[i]] = "queued"
    BY <1>0, <1>2, <1>3, <1>4, <1>5 DEF HeldOnce
  <1>7. \A i \in DOMAIN Append(q, r) : st'[Append(q, r)[i]] = "queued"
    BY <1>1, <1>5, <1>6
  <1>8. \A i, j \in DOMAIN Append(q, r) : Append(q, r)[i] = Append(q, r)[j] => i = j
    <2>1. \A i, j \in 1 .. Len(q) : q[i] = q[j] => i = j
      BY <1>2, <1>4, <1>5 DEF HeldOnce
    <2> QED
      BY <1>5, <1>6, <2>1
  <1>9. HeldOnce(queue', caller, st', config.max)
    BY <1>0, <1>3, <1>4, <1>5, <1>7, <1>8 DEF HeldOnce
  <1> QED
    BY <1>0, <1>1, <1>9 DEF LimitInv

\* The answer of the HTTP server, or its silence, comes.
LEMMA LimitReceive ==
  ASSUME LimitInv, NEW r \in Req, NEW a, Receive(r, a)
  PROVE  LimitInv'
  <1>0. /\ st[r] = "sent" /\ outstanding' = outstanding - 1 /\ st' = [st EXCEPT ![r] = "done"]
        /\ UNCHANGED <<config, caller, queue>>
    BY DEF Receive, Callback
  <1>1. /\ st' = [x \in Req |-> st'[x]] /\ \A x \in Req : st'[x] = IF x = r THEN "done" ELSE st[x]
        /\ IsFiniteSet(SentIn(st')) /\ Cardinality(SentIn(st')) = outstanding - 1 /\ outstanding \in Nat
    BY <1>0, SentChange
  <1>2. HeldOnce(queue, caller, st', config.max)
    BY <1>0, <1>1, HeldStays DEF LimitInv
  <1>3. config.max \in Nat
    BY ScenarioAssumption DEF LimitInv
  <1>4. Cardinality(Tokens(caller, config.max)) \in Nat /\ Cardinality(Caller) \in Nat
    BY <1>3, TokensFinite
  <1>5. PICK b \in Nat : b = Cardinality(Caller) * config.max
    BY <1>3, <1>4
  <1>6. outstanding - 1 + Cardinality(Tokens(caller, config.max)) <= b
    BY <1>1, <1>4, <1>5 DEF LimitInv
  <1> QED
    BY <1>0, <1>1, <1>2, <1>5, <1>6 DEF LimitInv


\* A caller that polls has no work.
LEMMA IdleCaller == Idle \in CallerState /\ Idle.pc = "idle" /\ Idle.left = 0 /\ Work(Idle) = 0
  <1>1. PICK x \in {<<>>} \cup {<<y>> : y \in Req} : x = <<>>
    OBVIOUS
  <1>2. PICK z \in Int : z = 0
    OBVIOUS
  <1>3. [pc |-> "idle", left |-> z, req |-> x] \in CallerState
    BY DEF CallerState
  <1>4. Idle.pc = "idle" /\ Idle.left = 0
    BY DEF Idle
  <1>5. Work(Idle) = 0
    BY <1>4 DEF Work
  <1> QED
    BY <1>1, <1>2, <1>3, <1>4, <1>5 DEF Idle

\* A step of one caller c that leaves the queue alone.
LEMMA CallerChange ==
  ASSUME LimitInv, NEW c \in Caller, NEW k \in CallerState, caller' = [caller EXCEPT ![c] = k]
  PROVE  /\ caller' \in [Caller -> CallerState] /\ caller'[c] = k
         /\ \A d \in Caller : d # c => caller'[d] = caller[d]
         /\ caller \in [Caller -> CallerState] /\ caller[c] \in CallerState
  BY DEF LimitInv, HeldOnce

\* A caller sees room, and how much.
LEMMA LimitLook ==
  ASSUME LimitInv, NEW c \in Caller, CallerCheck(c) \/ CallerRoom(c)
  PROVE  LimitInv'
  <1>0. UNCHANGED <<config, st, queue, outstanding>>
    BY DEF CallerCheck, CallerRoom, msgVars
  <1>1. /\ config.max \in Nat /\ HeldOnce(queue, caller, st, config.max) /\ outstanding \in Nat
        /\ outstanding + Cardinality(Tokens(caller, config.max)) <= Cardinality(Caller) * config.max
    BY ScenarioAssumption, FS_CardinalityType DEF LimitInv
  <1>2. PICK m \in Nat : m = config.max
    BY <1>1
  <1>3. PICK b \in Nat : b = Cardinality(Caller) * m
    <2>1. PICK n \in Nat : n = Cardinality(Caller)
      BY CallerAssumption, FS_CardinalityType
    <2> QED
      BY <2>1
  <1>4. PICK old \in CallerState : old = caller[c] /\ old.left = 0 /\ old.pc \in {"idle", "room"}
    BY <1>1 DEF CallerCheck, CallerRoom, HeldOnce
  <1>5. PICK k \in CallerState :
          /\ caller' = [caller EXCEPT ![c] = k] /\ k.pc \in {"room", "loop"}
          /\ k.pc = "room" => k.left = 0
          /\ k.left = 0 \/ k.left = m - outstanding
    <2>1. CASE CallerCheck(c)
      <3>1. PICK k : k = [old EXCEPT !.pc = "room"]
        OBVIOUS
      <3>2. k \in CallerState /\ k.pc = "room" /\ k.left = 0
        BY <1>4, <3>1 DEF CallerState
      <3>3. caller' = [caller EXCEPT ![c] = k]
        BY <1>4, <2>1, <3>1 DEF CallerCheck
      <3> QED
        BY <3>2, <3>3
    <2>2. CASE CallerRoom(c)
      <3>0. PICK l \in Int : l = config.max - outstanding
        BY <1>1
      <3>1. PICK k : k = [old EXCEPT !.pc = "loop", !.left = l]
        OBVIOUS
      <3>2. k \in CallerState /\ k.pc = "loop" /\ k.left = l
        BY <3>1 DEF CallerState
      <3>3. caller' = [caller EXCEPT ![c] = k]
        BY <1>4, <2>2, <3>0, <3>1 DEF CallerRoom
      <3> QED
        BY <1>2, <3>0, <3>2, <3>3
    <2> QED
      BY <2>1, <2>2
  <1>6. /\ caller' \in [Caller -> CallerState] /\ caller'[c] = k /\ caller \in [Caller -> CallerState]
        /\ \A d \in Caller : d # c => caller'[d] = caller[d]
    BY <1>5, CallerChange
  <1>7. k.left \in Int
    BY DEF CallerState
  <1>8. PICK w \in Nat : w = Work(k) /\ w <= m /\ (w = 0 \/ w = m - outstanding)
    BY <1>1, <1>5, <1>7 DEF Work
  <1>9. Work(old) = 0
    BY <1>4 DEF Work
  <1>10. HeldOnce(queue, caller', st, m)
    <2>1. \A d \in Caller : Work(caller'[d]) <= m
      BY <1>1, <1>2, <1>6, <1>8 DEF HeldOnce
    <2>2. \A d \in Caller : caller'[d].pc = "taken" => d # c
      BY <1>5, <1>6
    <2>3. \A d \in Caller : caller'[d].pc \in {"idle", "room"} => caller'[d].left = 0
      BY <1>1, <1>5, <1>6 DEF HeldOnce
    <2> QED
      BY <1>1, <1>6, <2>1, <2>2, <2>3 DEF HeldOnce
  <1>11. outstanding + Cardinality(Tokens(caller', m)) <= b
    <2>0. Cardinality(Tokens(caller', m)) \in Nat /\ Cardinality(Tokens(caller, m)) \in Nat
      BY TokensFinite
    <2>1. CASE w = 0
      <3>1. Cardinality(Tokens(caller', m)) <= Cardinality(Tokens(caller, m))
        <4>1. Work(caller'[c]) <= Work(caller[c]) /\ Work(caller[c]) <= m
          BY <1>4, <1>6, <1>8, <1>9, <2>1
        <4>2. PICK C \in [Caller -> CallerState] : C = caller
          BY <1>6
        <4>3. PICK D \in [Caller -> CallerState] : D = caller'
          BY <1>6
        <4> QED
          BY <1>6, <4>1, <4>2, <4>3, TokensSpent
      <3> QED
        BY <1>1, <1>2, <1>3, <2>0, <3>1
    <2>2. CASE w = m - outstanding
      <3>1. Cardinality(Tokens(caller', m)) + m <= Cardinality(Caller) * m + w
        BY <1>6, <1>8, TokensRoom
      <3> QED
        BY <1>1, <1>3, <2>0, <2>2, <3>1
    <2> QED
      BY <1>8, <2>1, <2>2
  <1> QED
    BY <1>0, <1>2, <1>3, <1>10, <1>11 DEF LimitInv

\* A caller takes the next request, or is done.
LEMMA LimitConsume ==
  ASSUME LimitInv, NEW c \in Caller, CallerConsume(c)
  PROVE  LimitInv'
  <1>0. UNCHANGED <<config, outstanding>> /\ caller[c].pc = "loop"
    BY DEF CallerConsume
  <1>1. /\ config.max \in Nat /\ HeldOnce(queue, caller, st, config.max) /\ outstanding \in Nat
        /\ outstanding + Cardinality(Tokens(caller, config.max)) <= Cardinality(Caller) * config.max
    BY ScenarioAssumption, FS_CardinalityType DEF LimitInv
  <1>2. PICK m \in Nat : m = config.max
    BY <1>1
  <1>3. PICK b \in Nat : b = Cardinality(Caller) * m
    <2>1. PICK n \in Nat : n = Cardinality(Caller)
      BY CallerAssumption, FS_CardinalityType
    <2> QED
      BY <2>1
  <1>4. PICK old \in CallerState : old = caller[c] /\ old.pc = "loop" /\ Work(old) <= m
    BY <1>0, <1>1, <1>2 DEF HeldOnce
  <1>5. old.left \in Int
    BY DEF CallerState
  <1>f. ASSUME NEW k \in CallerState, caller' = [caller EXCEPT ![c] = k], Work(k) <= Work(old)
        PROVE  /\ outstanding + Cardinality(Tokens(caller', m)) <= b
               /\ caller' \in [Caller -> CallerState] /\ caller'[c] = k
               /\ \A d \in Caller : d # c => caller'[d] = caller[d]
               /\ \A d \in Caller : Work(caller'[d]) <= m
    <2>1. /\ caller' \in [Caller -> CallerState] /\ caller'[c] = k /\ caller \in [Caller -> CallerState]
          /\ \A d \in Caller : d # c => caller'[d] = caller[d]
      BY <1>f, CallerChange
    <2>2. PICK C \in [Caller -> CallerState] : C = caller
      BY <2>1
    <2>3. PICK D \in [Caller -> CallerState] : D = caller'
      BY <2>1
    <2>4. Cardinality(Tokens(caller', m)) <= Cardinality(Tokens(caller, m))
      BY <1>4, <1>f, <2>1, <2>2, <2>3, TokensSpent
    <2>5. Cardinality(Tokens(caller', m)) \in Nat /\ Cardinality(Tokens(caller, m)) \in Nat
      BY TokensFinite
    <2>6. k.left \in Int
      BY DEF CallerState
    <2>7. Work(k) <= m
      BY <1>4, <1>5, <1>f, <2>6 DEF Work
    <2> QED
      BY <1>1, <1>2, <1>3, <2>1, <2>4, <2>5, <2>7 DEF HeldOnce
  <1>6. CASE caller' = [caller EXCEPT ![c] = Idle] /\ UNCHANGED <<st, queue>>
    <2>1. PICK k \in CallerState : k = Idle /\ k.pc = "idle" /\ k.left = 0 /\ Work(k) = 0
      BY IdleCaller
    <2>2. Work(k) <= Work(old)
      BY <1>5, <2>1 DEF Work
    <2>3. /\ outstanding + Cardinality(Tokens(caller', m)) <= b
          /\ caller' \in [Caller -> CallerState] /\ caller'[c] = k
          /\ \A d \in Caller : d # c => caller'[d] = caller[d]
          /\ \A d \in Caller : Work(caller'[d]) <= m
      BY <1>6, <1>f, <2>1, <2>2
    <2>4. HeldOnce(queue, caller', st, m)
      <3>1. \A d \in Caller : caller'[d].pc = "taken" => d # c
        BY <2>1, <2>3
      <3>2. \A d \in Caller : caller'[d].pc \in {"idle", "room"} => caller'[d].left = 0
        BY <1>1, <2>1, <2>3 DEF HeldOnce
      <3> QED
        BY <1>1, <2>3, <3>1, <3>2 DEF HeldOnce
    <2> QED
      BY <1>0, <1>2, <1>3, <1>6, <2>3, <2>4 DEF LimitInv
  <1>7. CASE /\ caller[c].left > 0 /\ queue # <<>>
             /\ caller' = [caller EXCEPT ![c] = [pc |-> "taken", left |-> @.left - 1, req |-> <<Head(queue)>>]]
             /\ st' = [st EXCEPT ![Head(queue)] = "taken"] /\ queue' = Tail(queue)
    <2>q. PICK q \in Seq(Req) : q = queue /\ q # <<>>
      BY <1>1, <1>7 DEF HeldOnce
    <2>0. /\ Head(q) = q[1] /\ 1 \in DOMAIN q /\ Head(q) \in Req /\ Tail(q) \in Seq(Req) /\ Len(q) \in Nat
          /\ DOMAIN q = 1 .. Len(q) /\ DOMAIN Tail(q) = 1 .. Len(q) - 1
          /\ \A i \in DOMAIN Tail(q) : Tail(q)[i] = q[i + 1] /\ i + 1 \in DOMAIN q
      BY <2>q
    <2>r. PICK r \in Req : r = Head(q) /\ st[r] = "queued"
      BY <1>1, <2>q, <2>0 DEF HeldOnce
    <2>1. PICK k \in CallerState : k = [pc |-> "taken", left |-> old.left - 1, req |-> <<r>>]
      <3>1. PICK x \in {<<>>} \cup {<<y>> : y \in Req} : x = <<r>>
        OBVIOUS
      <3>2. PICK l \in Int : l = old.left - 1
        BY <1>5
      <3>3. [pc |-> "taken", left |-> l, req |-> x] \in CallerState
        BY DEF CallerState
      <3> QED
        BY <3>1, <3>2, <3>3
    <2>2. k.pc = "taken" /\ k.left = old.left - 1 /\ k.req = <<r>> /\ old.left > 0
      BY <1>4, <1>7, <2>1
    <2>3. Work(k) <= Work(old)
      BY <1>4, <1>5, <2>2 DEF Work
    <2>4. /\ outstanding + Cardinality(Tokens(caller', m)) <= b
          /\ caller' \in [Caller -> CallerState] /\ caller'[c] = k
          /\ \A d \in Caller : d # c => caller'[d] = caller[d]
          /\ \A d \in Caller : Work(caller'[d]) <= m
      <3>1. caller' = [caller EXCEPT ![c] = k]
        BY <1>4, <1>7, <2>q, <2>r, <2>1
      <3> QED
        BY <1>f, <2>3, <3>1
    <2>5. /\ st' = [x \in Req |-> st'[x]] /\ \A x \in Req : st'[x] = IF x = r THEN "taken" ELSE st[x]
          /\ IsFiniteSet(SentIn(st')) /\ Cardinality(SentIn(st')) = outstanding
      <3>1. st' = [st EXCEPT ![r] = "taken"]
        BY <1>7, <2>q, <2>r
      <3> QED
        BY <2>r, <3>1, SentChange
    <2>6. HeldOnce(queue', caller', st', m)
      <3>1. queue' \in Seq(Req) /\ queue' = Tail(q)
        BY <1>7, <2>q, <2>0
      <3>2. \A i, j \in DOMAIN q : q[i] = q[j] => i = j
        BY <1>1, <2>q DEF HeldOnce
      <3>3. \A i \in DOMAIN Tail(q) : Tail(q)[i] # r /\ st[Tail(q)[i]] = "queued" /\ Tail(q)[i] \in Req
        <4> SUFFICES ASSUME NEW i \in DOMAIN Tail(q)
                     PROVE  Tail(q)[i] # r /\ st[Tail(q)[i]] = "queued" /\ Tail(q)[i] \in Req
          OBVIOUS
        <4>1. i \in Nat /\ i >= 1 /\ Tail(q)[i] = q[i + 1] /\ i + 1 \in DOMAIN q
          BY <2>0
        <4>2. q[i + 1] # q[1]
          BY <2>0, <3>2, <4>1
        <4>3. st[q[i + 1]] = "queued" /\ q[i + 1] \in Req
          BY <1>1, <2>q, <4>1 DEF HeldOnce
        <4> QED
          BY <2>0, <2>r, <4>1, <4>2, <4>3
      <3>4. \A i \in DOMAIN Tail(q) : st'[Tail(q)[i]] = "queued"
        BY <2>5, <3>3
      <3>5. \A i, j \in DOMAIN Tail(q) : Tail(q)[i] = Tail(q)[j] => i = j
        <4> SUFFICES ASSUME NEW i \in DOMAIN Tail(q), NEW j \in DOMAIN Tail(q), Tail(q)[i] = Tail(q)[j]
                     PROVE  i = j
          OBVIOUS
        <4>1. i + 1 = j + 1
          BY <2>0, <3>2
        <4>2. i \in Nat /\ j \in Nat
          BY <2>0
        <4> QED
          BY <4>1, <4>2
      <3>6. \A d \in Caller : d # c /\ caller'[d].pc = "taken" =>
              caller'[d].left >= 0 /\ \E x \in Req : x # r /\ caller'[d].req = <<x>> /\ st'[x] = "taken"
        BY <1>1, <2>r, <2>4, <2>5 DEF HeldOnce
      <3>7. caller'[c].left >= 0 /\ caller'[c].req = <<r>> /\ st'[r] = "taken"
        BY <1>5, <2>2, <2>4, <2>5
      <3>8. \A d \in Caller : caller'[d].pc = "taken" =>
              caller'[d].left >= 0 /\ \E x \in Req : caller'[d].req = <<x>> /\ st'[x] = "taken"
        BY <3>6, <3>7
      <3>9. \A d \in Caller : d # c /\ caller'[d].pc = "taken" => caller'[d].req # <<r>>
        BY <3>6
      <3>10. \A d, e \in Caller : caller'[d].pc = "taken" /\ caller'[e].pc = "taken" /\ caller'[d].req = caller'[e].req => d = e
        BY <1>1, <2>4, <3>7, <3>9 DEF HeldOnce
      <3>11. \A d \in Caller : caller'[d].pc \in {"idle", "room"} => caller'[d].left = 0
        BY <1>1, <2>2, <2>4 DEF HeldOnce
      <3> QED
        BY <2>4, <3>1, <3>4, <3>5, <3>8, <3>10, <3>11 DEF HeldOnce
    <2> QED
      BY <1>0, <1>2, <1>3, <2>4, <2>5, <2>6 DEF LimitInv
  <1> QED
    BY <1>6, <1>7 DEF CallerConsume


\* A caller sends the request it has taken.
LEMMA LimitSend ==
  ASSUME LimitInv, NEW c \in Caller, CallerSend(c)
  PROVE  LimitInv'
  <1>0. UNCHANGED <<config, queue>> /\ caller[c].pc = "taken" /\ outstanding' = outstanding + 1
    BY DEF CallerSend
  <1>1. /\ config.max \in Nat /\ HeldOnce(queue, caller, st, config.max) /\ outstanding \in Nat
        /\ outstanding + Cardinality(Tokens(caller, config.max)) <= Cardinality(Caller) * config.max
    BY ScenarioAssumption, FS_CardinalityType DEF LimitInv
  <1>2. PICK m \in Nat : m = config.max
    BY <1>1
  <1>3. PICK b \in Nat : b = Cardinality(Caller) * m
    <2>1. PICK n \in Nat : n = Cardinality(Caller)
      BY CallerAssumption, FS_CardinalityType
    <2> QED
      BY <2>1
  <1>4. PICK old \in CallerState : old = caller[c] /\ old.pc = "taken" /\ old.left >= 0 /\ Work(old) <= m
    BY <1>0, <1>1, <1>2 DEF HeldOnce
  <1>5. old.left \in Int
    BY DEF CallerState
  <1>6. PICK r \in Req : old.req = <<r>> /\ st[r] = "taken"
    BY <1>1, <1>4 DEF HeldOnce
  <1>7. PICK k \in CallerState : k = [old EXCEPT !.pc = "loop", !.req = <<>>] /\ k.pc = "loop" /\ k.left = old.left
    <2>1. PICK k : k = [old EXCEPT !.pc = "loop", !.req = <<>>]
      OBVIOUS
    <2>2. k \in CallerState
      BY <2>1 DEF CallerState
    <2>3. k.pc = "loop" /\ k.left = old.left
      BY <2>1 DEF CallerState
    <2> QED
      BY <2>1, <2>2, <2>3
  <1>8. caller' = [caller EXCEPT ![c] = k]
    BY <1>4, <1>7 DEF CallerSend
  <1>9. /\ caller' \in [Caller -> CallerState] /\ caller'[c] = k /\ caller \in [Caller -> CallerState]
        /\ \A d \in Caller : d # c => caller'[d] = caller[d]
    BY <1>8, CallerChange
  <1>10. Work(k) < Work(old) /\ Work(k) <= Work(old) /\ Work(k) <= m
    BY <1>4, <1>5, <1>7 DEF Work
  <1>11. outstanding + 1 + Cardinality(Tokens(caller', m)) <= b
    <2>1. PICK C \in [Caller -> CallerState] : C = caller
      BY <1>9
    <2>2. PICK D \in [Caller -> CallerState] : D = caller'
      BY <1>9
    <2>3. Cardinality(Tokens(caller', m)) + 1 <= Cardinality(Tokens(caller, m))
      BY <1>4, <1>9, <1>10, <2>1, <2>2, TokensSpent
    <2>4. Cardinality(Tokens(caller', m)) \in Nat /\ Cardinality(Tokens(caller, m)) \in Nat
      BY TokensFinite
    <2> QED
      BY <1>1, <1>2, <1>3, <2>3, <2>4
  <1>12. /\ st' = [x \in Req |-> st'[x]] /\ \A x \in Req : st'[x] = IF x = r THEN "sent" ELSE st[x]
         /\ IsFiniteSet(SentIn(st')) /\ Cardinality(SentIn(st')) = outstanding + 1
    <2>1. st' = [st EXCEPT ![r] = "sent"]
      BY <1>4, <1>6 DEF CallerSend
    <2> QED
      BY <1>6, <2>1, SentChange
  <1>13. HeldOnce(queue, caller', st', m)
    <2>1. \A i \in DOMAIN queue : queue[i] \in Req /\ st'[queue[i]] = "queued"
      BY <1>1, <1>6, <1>12 DEF HeldOnce
    <2>2. \A d \in Caller : caller'[d].pc = "taken" => d # c /\ caller'[d] = caller[d]
      BY <1>7, <1>9
    <2>3. \A d \in Caller : d # c /\ caller[d].pc = "taken" => caller[d].req # <<r>>
      BY <1>1, <1>4, <1>6 DEF HeldOnce
    <2>4. \A d \in Caller : caller'[d].pc = "taken" =>
            caller'[d].left >= 0 /\ \E x \in Req : caller'[d].req = <<x>> /\ st'[x] = "taken"
      BY <1>1, <1>12, <2>2, <2>3 DEF HeldOnce
    <2>5. \A d \in Caller : Work(caller'[d]) <= m
      BY <1>1, <1>2, <1>9, <1>10 DEF HeldOnce
    <2>6. \A d \in Caller : caller'[d].pc \in {"idle", "room"} => caller'[d].left = 0
      BY <1>1, <1>7, <1>9 DEF HeldOnce
    <2>7. \A d, e \in Caller : caller'[d].pc = "taken" /\ caller'[e].pc = "taken" /\ caller'[d].req = caller'[e].req => d = e
      BY <1>1, <2>2 DEF HeldOnce
    <2> QED
      BY <1>1, <1>9, <2>1, <2>4, <2>5, <2>6, <2>7 DEF HeldOnce
  <1> QED
    BY <1>0, <1>2, <1>3, <1>11, <1>12, <1>13 DEF LimitInv

\* Shutdown leaves nothing outstanding, and no caller with work.
LEMMA LimitShutdown ==
  ASSUME LimitInv, RouteShutdown
  PROVE  LimitInv'
  <1>0. /\ UNCHANGED <<config, caller>> /\ queue' = <<>> /\ outstanding' = 0 /\ \A c \in Caller : caller[c].pc = "idle"
        /\ st' = [r \in Req |-> IF st[r] \in {"queued", "sent"} THEN "dropped" ELSE st[r]]
    BY DEF RouteShutdown
  <1>1. /\ config.max \in Nat /\ HeldOnce(queue, caller, st, config.max) /\ outstanding \in Nat
        /\ outstanding + Cardinality(Tokens(caller, config.max)) <= Cardinality(Caller) * config.max
    BY ScenarioAssumption, FS_CardinalityType DEF LimitInv
  <1>2. PICK b \in Nat : b = Cardinality(Caller) * config.max
    <2>1. PICK n \in Nat : n = Cardinality(Caller)
      BY CallerAssumption, FS_CardinalityType
    <2> QED
      BY <1>1, <2>1
  <1>3. SentIn(st') = {} /\ st' = [r \in Req |-> st'[r]]
    BY <1>0 DEF SentIn
  <1>4. IsFiniteSet(SentIn(st')) /\ Cardinality(SentIn(st')) = 0
    BY <1>3, FS_EmptySet
  <1>5. HeldOnce(<<>>, caller, st', config.max)
    <2>1. <<>> \in Seq(Req) /\ DOMAIN <<>> = {}
      OBVIOUS
    <2> QED
      BY <1>0, <1>1, <2>1 DEF HeldOnce
  <1>6. 0 + Cardinality(Tokens(caller, config.max)) <= b
    <2>1. Cardinality(Tokens(caller, config.max)) \in Nat
      BY <1>1, TokensFinite
    <2> QED
      BY <1>1, <1>2, <2>1
  <1> QED
    BY <1>0, <1>2, <1>3, <1>4, <1>5, <1>6 DEF LimitInv

\* Every step keeps the callers within the bound.
LEMMA LimitNext == LimitInv /\ [Next]_vars => LimitInv'
  <1> SUFFICES ASSUME LimitInv, [Next]_vars PROVE LimitInv'
    OBVIOUS
  <1>0. st = [r \in Req |-> st[r]]
    BY DEF LimitInv
  <1>1. ASSUME NEW r \in Req, RouteDatabase(r) \/ DatabaseStep(r)
        PROVE  LimitInv'
    <2>1. UNCHANGED <<config, queue, caller, outstanding>>
      BY <1>1 DEF RouteDatabase, DatabaseStep, Unroutable, LookupInbound, LookupOutbound, ReadOutbound,
                  PutOutbound, Match, httpVars
    <2>2. st[r] \in {"new", "locked", "miss", "put", "match"}
      BY <1>1 DEF RouteDatabase, DatabaseStep, Unroutable, LookupInbound, LookupOutbound, ReadOutbound,
                  PutOutbound, Match
    <2>3. PICK v \in {"locked", "match", "miss", "put", "done"} : st' = [st EXCEPT ![r] = v]
      BY <1>1 DEF RouteDatabase, DatabaseStep, Unroutable, LookupInbound, LookupOutbound, ReadOutbound,
                  PutOutbound, Match, Callback
    <2>4. st' = [x \in Req |-> st'[x]] /\ \A x \in Req : st'[x] = IF x = r THEN v ELSE st[x]
      BY <1>0, <2>3
    <2> QED
      BY <2>1, <2>2, <2>4, LimitElsewhere
  <1>2. ASSUME NEW c \in Caller, CallerStep(c)
        PROVE  LimitInv'
    BY <1>2, LimitLook, LimitConsume, LimitSend DEF CallerStep
  <1>3. CASE Edit \/ RebuildRead \/ RebuildSwap \/ Shutdown
    <2>1. UNCHANGED <<config, queue, caller, outstanding, st>>
      BY <1>3 DEF Edit, RebuildRead, RebuildSwap, Shutdown, httpVars, msgVars
    <2> QED
      BY <1>0, <2>1, LimitElsewhere
  <1>4. CASE UNCHANGED vars
    <2>1. UNCHANGED <<config, queue, caller, outstanding, st>>
      BY <1>4 DEF vars, httpVars, msgVars
    <2> QED
      BY <1>0, <2>1, LimitElsewhere
  <1> QED
    BY <1>1, <1>2, <1>3, <1>4, LimitQueue, LimitReceive, LimitShutdown DEF Next

\* Whatever the callers see of the counter while others send, they never have
\* more requests outstanding than the limit for each of them.
THEOREM OutstandingIsBounded == Spec => []OutstandingBounded
  <1>1. Init => LimitInv
    <2> SUFFICES ASSUME Init PROVE LimitInv
      OBVIOUS
    <2>0. /\ config \in Scenarios /\ st = [r \in Req |-> "new"] /\ queue = <<>> /\ caller = [c \in Caller |-> Idle]
          /\ outstanding = 0
      BY DEF Init
    <2>1. PICK m \in Nat : m = config.max
      BY <2>0, ScenarioAssumption
    <2>2. SentIn(st) = {}
      BY <2>0 DEF SentIn
    <2>3. IsFiniteSet(SentIn(st)) /\ Cardinality(SentIn(st)) = 0
      BY <2>2, FS_EmptySet
    <2>4. PICK k \in CallerState : k = Idle /\ k.pc = "idle" /\ k.left = 0 /\ Work(k) = 0
      BY IdleCaller
    <2>5. HeldOnce(queue, caller, st, m)
      <3>1. <<>> \in Seq(Req) /\ DOMAIN <<>> = {}
        OBVIOUS
      <3>2. \A c \in Caller : caller[c] = k
        BY <2>0, <2>4
      <3>3. caller \in [Caller -> CallerState]
        BY <2>0, <2>4
      <3> QED
        BY <2>0, <2>4, <3>1, <3>2, <3>3 DEF HeldOnce
    <2>6. Tokens(caller, m) = {}
      <3>1. \A c \in Caller : Work(caller[c]) = 0
        BY <2>0, <2>4
      <3> QED
        BY <3>1 DEF Tokens
    <2>7. 0 + Cardinality(Tokens(caller, m)) <= Cardinality(Caller) * m
      <3>1. PICK n \in Nat : n = Cardinality(Caller)
        BY CallerAssumption, FS_CardinalityType
      <3>2. Cardinality(Tokens(caller, m)) = 0
        BY <2>6, FS_EmptySet
      <3>3. n * m \in Nat
        OBVIOUS
      <3> QED
        BY <3>1, <3>2, <3>3
    <2> QED
      BY <2>0, <2>1, <2>3, <2>5, <2>7 DEF LimitInv
  <1>2. LimitInv => OutstandingBounded
    <2> SUFFICES ASSUME LimitInv PROVE OutstandingBounded
      OBVIOUS
    <2>1. PICK m \in Nat : m = config.max
      BY ScenarioAssumption DEF LimitInv
    <2>2. Cardinality(Tokens(caller, m)) \in Nat /\ outstanding \in Nat
      BY TokensFinite, FS_CardinalityType DEF LimitInv
    <2>3. PICK n \in Nat : n = Cardinality(Caller)
      BY CallerAssumption, FS_CardinalityType
    <2>4. PICK b \in Nat : b = n * m
      OBVIOUS
    <2>5. outstanding <= b
      BY <2>1, <2>2, <2>3, <2>4 DEF LimitInv
    <2> QED
      BY <2>1, <2>3, <2>4, <2>5 DEF OutstandingBounded
  <1> QED
    BY <1>1, <1>2, LimitNext, PTL DEF Spec

-----------------------------------------------------------------------------
(* The route a message gets *)

\* A non-empty set of natural numbers has a least element.
LEMMA Least ==
  ASSUME NEW T \in SUBSET Nat, T # {}
  PROVE  \E m \in T : \A n \in T : m <= n
  <1> DEFINE R == {ss \in Nat \X Nat : ss[1] < ss[2]}
  <1>1. IsWellFoundedOn(R, Nat)
    BY NatLessThanWellFounded, Zenon DEF OpToRel
  <1> HIDE DEF R
  <1>2. \E m \in T : \A n \in T : ~(<<n, m>> \in R)
    BY <1>1, WFMin
  <1> USE DEF R
  <1>3. \A m, n \in T : ~(<<n, m>> \in R) => m <= n
    OBVIOUS
  <1> QED
    BY <1>2, <1>3

\* Rows of which only T's last is missing in s are sorted with it at the end.
LEMMA SortedLast ==
  ASSUME NEW T, NEW m \in T, IsFiniteSet(T), \A row \in T : row.priority \in Nat,
         \A row \in T : m.priority <= row.priority,
         NEW s \in SetToSeqs(T \ {m}), ByPriority(s)
  PROVE  \E t \in SetToSeqs(T) : ByPriority(t)
  <1>1. PICK n : n = Cardinality(T)
    OBVIOUS
  <1>2. n \in Nat /\ T # {}
    BY <1>1, FS_CardinalityType
  <1>3. Cardinality(T \ {m}) = n - 1
    BY <1>1, FS_RemoveElement
  <1>4. n # 0
    BY <1>1, <1>2, FS_EmptySet
  <1>5. /\ s \in [1 .. (n - 1) -> T \ {m}]
        /\ \A i, j \in 1 .. (n - 1) : i # j => s[i] # s[j]
    BY <1>3 DEF SetToSeqs
  <1>6. PICK t : t = [i \in 1 .. n |-> IF i = n THEN m ELSE s[i]]
    OBVIOUS
  <1>7. t \in [1 .. n -> T] /\ t[n] = m /\ \A i \in 1 .. (n - 1) : t[i] = s[i]
    BY <1>2, <1>4, <1>5, <1>6
  <1>8. \A i, j \in 1 .. n : i # j => t[i] # t[j]
    <2> SUFFICES ASSUME NEW i \in 1 .. n, NEW j \in 1 .. n, i # j PROVE t[i] # t[j]
      OBVIOUS
    <2>1. CASE i = n
      <3>1. j \in 1 .. (n - 1)
        BY <1>2, <2>1
      <3> QED
        BY <1>5, <1>7, <2>1, <3>1
    <2>2. CASE j = n
      <3>1. i \in 1 .. (n - 1)
        BY <1>2, <2>2
      <3> QED
        BY <1>5, <1>7, <2>2, <3>1
    <2>3. CASE i # n /\ j # n
      <3>1. i \in 1 .. (n - 1) /\ j \in 1 .. (n - 1)
        BY <1>2, <2>3
      <3> QED
        BY <1>5, <1>7, <3>1
    <2> QED
      BY <2>1, <2>2, <2>3
  <1>9. t \in SetToSeqs(T)
    BY <1>1, <1>7, <1>8 DEF SetToSeqs
  <1>10. ASSUME NEW i \in 1 .. n, NEW j \in 1 .. n, i < j
         PROVE  t[i].priority >= t[j].priority
    <2>1. i \in 1 .. (n - 1)
      BY <1>2, <1>10
    <2>2. CASE j = n
      <3>1. t[i] \in T /\ t[j] = m
        BY <1>7, <2>2
      <3>2. t[i].priority \in Nat /\ m.priority \in Nat /\ m.priority <= t[i].priority
        BY <3>1
      <3> QED
        BY <3>1, <3>2
    <2>3. CASE j # n
      <3>1. j \in 1 .. (n - 1)
        BY <1>2, <2>3
      <3>2. s[i].priority >= s[j].priority
        BY <1>5, <1>10, <2>1, <3>1 DEF ByPriority
      <3> QED
        BY <1>7, <2>1, <3>1, <3>2
    <2> QED
      BY <2>2, <2>3
  <1>11. ByPriority(t)
    <2>1. DOMAIN t = 1 .. n
      BY <1>7
    <2> QED
      BY <1>10, <2>1 DEF ByPriority
  <1> QED
    BY <1>9, <1>11

\* Finitely many rows can be sorted: the least set that could not would be
\* sorted with its last row at the end.
LEMMA SortedExists ==
  ASSUME NEW S, IsFiniteSet(S), \A row \in S : row.priority \in Nat
  PROVE  \E s \in SetToSeqs(S) : ByPriority(s)
  <1> DEFINE Bad == {n \in Nat : \E T \in SUBSET S :
                       Cardinality(T) = n /\ ~\E s \in SetToSeqs(T) : ByPriority(s)}
  <1> SUFFICES ASSUME ~\E s \in SetToSeqs(S) : ByPriority(s) PROVE FALSE
    OBVIOUS
  <1>1. Bad # {} /\ Bad \subseteq Nat
    BY FS_CardinalityType
  <1>2. PICK n \in Bad : \A k \in Bad : n <= k
    <2> HIDE DEF Bad
    <2> QED
      BY <1>1, Least
  <1>3. PICK T \in SUBSET S : Cardinality(T) = n /\ ~\E s \in SetToSeqs(T) : ByPriority(s)
    BY <1>2
  <1>4. IsFiniteSet(T) /\ n \in Nat
    BY <1>2, FS_Subset
  <1>5. CASE T = {}
    <2>1. PICK s : s = [i \in 1 .. 0 |-> i]
      OBVIOUS
    <2>2. s \in SetToSeqs({})
      BY <2>1, FS_EmptySet DEF SetToSeqs
    <2>3. ByPriority(s)
      BY <2>1 DEF ByPriority
    <2> QED
      BY <1>3, <1>5, <2>2, <2>3
  <1>6. CASE T # {}
    <2> DEFINE P == {row.priority : row \in T}
    <2>1. P \subseteq Nat /\ P # {}
      BY <1>6
    <2>2. PICK p \in P : \A q \in P : p <= q
      <3> HIDE DEF P
      <3> QED
        BY <2>1, Least
    <2>3. PICK m \in T : \A row \in T : m.priority <= row.priority
      BY <2>2
    <2>4. Cardinality(T \ {m}) = n - 1 /\ IsFiniteSet(T \ {m})
      BY <1>3, <1>4, FS_RemoveElement
    <2>5. n - 1 \in Nat
      BY <2>4, FS_CardinalityType
    <2>6. n - 1 \notin Bad
      BY <1>2, <1>4
    <2>7. PICK s \in SetToSeqs(T \ {m}) : ByPriority(s)
      BY <2>4, <2>5, <2>6
    <2>8. \A row \in T : row.priority \in Nat
      OBVIOUS
    <2> HIDE DEF Bad, P
    <2> QED
      BY <1>3, <1>4, <2>3, <2>7, <2>8, SortedLast
  <1> QED
    BY <1>5, <1>6

\* get_routes returns the usable rows, each once and sorted.
LEMMA RoutesSorted ==
  ASSUME NEW v \in 0 .. MaxVersion, NEW list, list.rows = v, NEW dir, NEW account
  PROVE  /\ Len(GetRoutes(list, dir, account)) \in Nat
         /\ DOMAIN GetRoutes(list, dir, account) = 1 .. Len(GetRoutes(list, dir, account))
         /\ \A i \in DOMAIN GetRoutes(list, dir, account) :
              GetRoutes(list, dir, account)[i] \in Usable(v, dir, account)
         /\ \A row \in Usable(v, dir, account) : \E i \in DOMAIN GetRoutes(list, dir, account) :
              GetRoutes(list, dir, account)[i] = row
         /\ ByPriority(GetRoutes(list, dir, account))
  <1>1. PICK S : S = Usable(v, dir, account)
    OBVIOUS
  <1>2. PICK s : s = GetRoutes(list, dir, account)
    OBVIOUS
  <1>3. S \subseteq Tables[v]
    BY <1>1 DEF Usable
  <1>4. IsFiniteSet(S) /\ \A row \in S : row.priority \in Nat
    <2>1. IsFiniteSet(Tables[v]) /\ \A row \in Tables[v] : row.priority \in Nat
      BY TableAssumption
    <2> QED
      BY <1>3, <2>1, FS_Subset
  <1>5. \E t \in SetToSeqs(S) : ByPriority(t)
    BY <1>4, SortedExists
  <1>6. v # Failed
    BY TableAssumption DEF Failed
  <1>7. s = CHOOSE t \in SetToSeqs(S) : ByPriority(t)
    BY <1>1, <1>2, <1>6 DEF GetRoutes
  <1>8. s \in SetToSeqs(S) /\ ByPriority(s)
    BY <1>5, <1>7
  <1>9. PICK n : n = Cardinality(S)
    OBVIOUS
  <1>10. n \in Nat
    BY <1>4, <1>9, FS_CardinalityType
  <1>11. s \in [1 .. n -> S] /\ \A i, j \in 1 .. n : i # j => s[i] # s[j]
    BY <1>8, <1>9 DEF SetToSeqs
  <1>12. Len(s) = n
    BY <1>10, <1>11
  <1>13. ASSUME NEW row \in S PROVE \E i \in 1 .. n : s[i] = row
    <2>1. IsFiniteSet(1 .. n) /\ Cardinality(1 .. n) = n
      BY <1>10, FS_Interval
    <2>2. s \in Injection(1 .. n, S)
      BY <1>11 DEF Injection, IsInjective
    <2>3. s \in Surjection(1 .. n, S)
      BY <1>4, <1>9, <2>1, <2>2, FS_Injection
    <2> QED
      BY <2>3 DEF Surjection
  <1> QED
    BY <1>1, <1>2, <1>8, <1>10, <1>11, <1>12, <1>13

\* One turn of the loop over the routes, and the loop as a function of how far
\* it has come.
Turn(before, route, i, r) ==
  IF before.found # 0 \/ ~Takes(route, r) THEN before
  ELSE IF Declines(route, Sender[r]) THEN [found |-> 0, status |-> "RINVSRCADR"]
  ELSE [found |-> i, status |-> "ROK"]
Start == [found |-> 0, status |-> "RINVDSTADR"]
Runs(f, routes, r, n) ==
  f = [i \in 0 .. n |-> IF i = 0 THEN Start ELSE Turn(f[i - 1], routes[i], i, r)]

\* The loop runs to any length: the least it could not reach would be one turn
\* away from one it reaches.
LEMMA LoopRuns ==
  ASSUME NEW routes, NEW r, NEW n \in Nat
  PROVE  \E f : Runs(f, routes, r, n)
  <1> DEFINE Bad == {k \in Nat : ~\E f : Runs(f, routes, r, k)}
  <1> SUFFICES ASSUME Bad # {} PROVE FALSE
    OBVIOUS
  <1>1. PICK k \in Bad : \A j \in Bad : k <= j
    <2>1. Bad \in SUBSET Nat
      OBVIOUS
    <2> HIDE DEF Bad
    <2> QED
      BY <2>1, Least
  <1>2. k \in Nat /\ ~\E f : Runs(f, routes, r, k)
    OBVIOUS
  <1>3. CASE k = 0
    <2>1. PICK f : f = [i \in 0 .. 0 |-> Start]
      OBVIOUS
    <2>2. f = [i \in 0 .. 0 |-> IF i = 0 THEN Start ELSE Turn(f[i - 1], routes[i], i, r)]
      <3>1. \A i \in 0 .. 0 : i = 0
        OBVIOUS
      <3> QED
        BY <2>1, <3>1
    <2> QED
      BY <1>2, <1>3, <2>2 DEF Runs
  <1>4. CASE k # 0
    <2>1. k - 1 \in Nat /\ k - 1 \notin Bad
      BY <1>1, <1>2, <1>4
    <2>2. PICK g : Runs(g, routes, r, k - 1)
      BY <2>1
    <2>3. PICK f : f = [i \in 0 .. k |-> IF i = k THEN Turn(g[k - 1], routes[k], k, r) ELSE g[i]]
      OBVIOUS
    <2>4. ASSUME NEW i \in 0 .. k
          PROVE  f[i] = IF i = 0 THEN Start ELSE Turn(f[i - 1], routes[i], i, r)
      <3>1. CASE i = k
        <4>1. f[k - 1] = g[k - 1]
          BY <1>2, <1>4, <2>3
        <4> QED
          BY <1>2, <1>4, <2>3, <3>1, <4>1
      <3>2. CASE i # k /\ i # 0
        <4>1. i \in 0 .. (k - 1) /\ i - 1 \in 0 .. (k - 1) /\ i - 1 \in 0 .. k /\ i - 1 # k
          BY <1>2, <3>2
        <4>2. g[i] = Turn(g[i - 1], routes[i], i, r)
          BY <2>2, <3>2, <4>1 DEF Runs
        <4>3. f[i] = g[i] /\ f[i - 1] = g[i - 1]
          BY <2>3, <3>2, <4>1
        <4> QED
          BY <3>2, <4>2, <4>3
      <3>3. CASE i # k /\ i = 0
        <4>1. g[0] = Start
          BY <1>2, <2>1, <2>2 DEF Runs
        <4> QED
          BY <2>3, <3>3, <4>1
      <3> QED
        BY <3>1, <3>2, <3>3
    <2>5. Runs(f, routes, r, k)
      <3>1. DOMAIN f = 0 .. k /\ f = [i \in 0 .. k |-> f[i]]
        BY <2>3
      <3> QED
        BY <2>4, <3>1 DEF Runs
    <2> QED
      BY <1>2, <2>5
  <1> QED
    BY <1>3, <1>4

\* smpp_route_message_database's loops return what the last turn leaves.
LEMMA SearchRuns ==
  ASSUME NEW routes, NEW r, Len(routes) \in Nat
  PROVE  \E f : Runs(f, routes, r, Len(routes)) /\ Search(routes, r) = f[Len(routes)]
  <1> DEFINE F == CHOOSE f : Runs(f, routes, r, Len(routes))
  <1>1. Runs(F, routes, r, Len(routes))
    BY LoopRuns
  <1>2. Search(routes, r) = F[Len(routes)]
    BY DEF Search, Runs, Turn, Start
  <1> QED
    BY <1>1, <1>2

\* What n turns have found: the first route that takes receiver and sender, or
\* that there is none and whether the sender is to blame.
FoundFirst(found, routes, r, n) ==
  /\ found \in 1 .. n
  /\ Takes(routes[found], r) /\ ~Declines(routes[found], Sender[r])
  /\ \A i \in 1 .. n : i < found /\ Takes(routes[i], r) => Declines(routes[i], Sender[r])
NoneFound(status, routes, r, n) ==
  /\ \A i \in 1 .. n : Takes(routes[i], r) => Declines(routes[i], Sender[r])
  /\ status = IF \E i \in 1 .. n : Takes(routes[i], r) THEN "RINVSRCADR" ELSE "RINVDSTADR"
Outcome(s, routes, r, n) ==
  \/ \E found : s = [found |-> found, status |-> "ROK"] /\ FoundFirst(found, routes, r, n)
  \/ \E status : s = [found |-> 0, status |-> status] /\ NoneFound(status, routes, r, n)

\* One turn more.
LEMMA OutcomeTurn ==
  ASSUME NEW routes, NEW r, NEW n \in Nat, NEW s, Outcome(s, routes, r, n)
  PROVE  Outcome(Turn(s, routes[n + 1], n + 1, r), routes, r, n + 1)
  <1> DEFINE route == routes[n + 1]
  <1>0. \A i \in 1 .. (n + 1) : i \in 1 .. n \/ i = n + 1
    OBVIOUS
  <1>1. ASSUME NEW found, s = [found |-> found, status |-> "ROK"], FoundFirst(found, routes, r, n)
        PROVE  Outcome(Turn(s, route, n + 1, r), routes, r, n + 1)
    <2>1. found \in 1 .. n /\ found # 0 /\ found \in 1 .. (n + 1) /\ s.found = found
      BY <1>1 DEF FoundFirst
    <2>2. Turn(s, route, n + 1, r) = s
      BY <2>1 DEF Turn
    <2>3. ASSUME NEW i \in 1 .. (n + 1), i < found PROVE i \in 1 .. n
      BY <2>1, <2>3
    <2>4. FoundFirst(found, routes, r, n + 1)
      BY <1>1, <2>1, <2>3 DEF FoundFirst
    <2> QED
      BY <1>1, <2>2, <2>4 DEF Outcome
  <1>2. ASSUME NEW status, s = [found |-> 0, status |-> status], NoneFound(status, routes, r, n)
        PROVE  Outcome(Turn(s, route, n + 1, r), routes, r, n + 1)
    <2>0. s.found = 0 /\ n + 1 \in 1 .. (n + 1) /\ 1 .. n \subseteq 1 .. (n + 1)
      BY <1>2
    <2>1. CASE ~Takes(route, r)
      <3>1. Turn(s, route, n + 1, r) = s
        BY <2>0, <2>1 DEF Turn
      <3>2. (\E i \in 1 .. (n + 1) : Takes(routes[i], r)) <=> (\E i \in 1 .. n : Takes(routes[i], r))
        BY <1>0, <2>0, <2>1
      <3>3. NoneFound(status, routes, r, n + 1)
        BY <1>0, <1>2, <2>1, <3>2 DEF NoneFound
      <3> QED
        BY <1>2, <3>1, <3>3 DEF Outcome
    <2>2. CASE Takes(route, r) /\ Declines(route, Sender[r])
      <3>1. Turn(s, route, n + 1, r) = [found |-> 0, status |-> "RINVSRCADR"]
        BY <2>0, <2>2 DEF Turn
      <3>3. NoneFound("RINVSRCADR", routes, r, n + 1)
        BY <1>0, <1>2, <2>0, <2>2 DEF NoneFound
      <3> QED
        BY <3>1, <3>3 DEF Outcome
    <2>3. CASE Takes(route, r) /\ ~Declines(route, Sender[r])
      <3>1. Turn(s, route, n + 1, r) = [found |-> n + 1, status |-> "ROK"]
        BY <2>0, <2>3 DEF Turn
      <3>2. FoundFirst(n + 1, routes, r, n + 1)
        BY <1>0, <1>2, <2>0, <2>3 DEF FoundFirst, NoneFound
      <3> QED
        BY <3>1, <3>2 DEF Outcome
    <2> QED
      BY <2>1, <2>2, <2>3
  <1> QED
    BY <1>1, <1>2 DEF Outcome

\* The whole loop.
LEMMA SearchFinds ==
  ASSUME NEW routes, NEW r, Len(routes) \in Nat
  PROVE  Outcome(Search(routes, r), routes, r, Len(routes))
  <1>1. PICK f : Runs(f, routes, r, Len(routes)) /\ Search(routes, r) = f[Len(routes)]
    BY SearchRuns
  <1> DEFINE Bad == {k \in 0 .. Len(routes) : ~Outcome(f[k], routes, r, k)}
  <1>2. CASE Bad # {}
    <2>1. PICK k \in Bad : \A j \in Bad : k <= j
      <3>1. Bad \in SUBSET Nat
        OBVIOUS
      <3> HIDE DEF Bad
      <3> QED
        BY <1>2, <3>1, Least
    <2>2. k \in 0 .. Len(routes) /\ ~Outcome(f[k], routes, r, k)
      OBVIOUS
    <2>3. CASE k = 0
      <3>1. f[0] = [found |-> 0, status |-> "RINVDSTADR"]
        BY <1>1 DEF Runs, Start
      <3>2. NoneFound("RINVDSTADR", routes, r, 0)
        <4>1. ~\E i \in 1 .. 0 : TRUE
          OBVIOUS
        <4> QED
          BY <4>1 DEF NoneFound
      <3> QED
        BY <2>2, <2>3, <3>1, <3>2 DEF Outcome
    <2>4. CASE k # 0
      <3>1. PICK n : n = k - 1
        OBVIOUS
      <3>2. n \in Nat /\ n \in 0 .. Len(routes) /\ k = n + 1
        BY <2>2, <2>4, <3>1
      <3>3. Outcome(f[n], routes, r, n)
        BY <2>1, <3>2
      <3>4. f[k] = Turn(f[n], routes[k], k, r)
        BY <1>1, <2>2, <2>4, <3>1 DEF Runs
      <3>5. Outcome(Turn(f[n], routes[n + 1], n + 1, r), routes, r, n + 1)
        BY <3>2, <3>3, OutcomeTurn
      <3> QED
        BY <2>2, <3>2, <3>4, <3>5
    <2> QED
      BY <2>3, <2>4
  <1>3. CASE Bad = {}
    BY <1>1, <1>3
  <1> QED
    BY <1>2, <1>3

\* What the rows of version v say of r, as RoutedAsConfigured has it.
RoutedAs(r, v, m, res) ==
  LET takers == {row \in Eligible(v, r) : ~Declines(row, Sender[r])}
  IN \/ \E best \in takers :
          /\ \A row \in takers : row.priority <= best.priority
          /\ res = [status |-> "ROK", cost |-> best.cost]
          /\ IF Dir[r] = "out" THEN m.smsc_id = best.smsc_id ELSE m.service = best.system_id
     \/ /\ takers = {}
        /\ res.status = IF Eligible(v, r) = {} THEN "RINVDSTADR" ELSE "RINVSRCADR"

\* Every list was read from the table or is that of a failed query, ...
Rows == {Failed} \cup 0 .. MaxVersion
RowsInv ==
  /\ version \in 0 .. MaxVersion /\ inbound.rows \in Rows
  /\ \A a \in Account : outbound[a] # NoRoutes => outbound[a].rows \in Rows
  /\ rebuild # NoRoutes => rebuild.rows \in Rows
  /\ \A r \in Req : st[r] \in {"put", "match"} => by[r].rows \in Rows

\* ... and the HTTP router is idle when the database routes.
DatabaseOnly ==
  config.method = "database" =>
    /\ ~shutdown /\ \A c \in Caller : caller[c].pc = "idle"
    /\ \A r \in Req : st[r] # "sent"

RoutedInv ==
  /\ FreshInv /\ OriginInv
  /\ result = [r \in Req |-> result[r]] /\ caller = [c \in Caller |-> caller[c]]
  /\ RowsInv /\ DatabaseOnly /\ RoutedAsConfigured

\* The first route that takes receiver and sender is the one the table means.
LEMMA FirstIsBest ==
  ASSUME NEW v \in 0 .. MaxVersion, NEW list, list.rows = v, NEW r, NEW routes,
         routes = GetRoutes(list, Dir[r], Service[r]),
         NEW found, FoundFirst(found, routes, r, Len(routes))
  PROVE  /\ routes[found] \in {row \in Eligible(v, r) : ~Declines(row, Sender[r])}
         /\ \A row \in {w \in Eligible(v, r) : ~Declines(w, Sender[r])} :
              row.priority <= routes[found].priority
  <1>1. /\ Len(routes) \in Nat /\ DOMAIN routes = 1 .. Len(routes)
        /\ \A i \in DOMAIN routes : routes[i] \in Usable(v, Dir[r], Service[r])
        /\ \A row \in Usable(v, Dir[r], Service[r]) : \E i \in DOMAIN routes : routes[i] = row
        /\ ByPriority(routes)
    BY RoutesSorted
  <1>2. found \in 1 .. Len(routes) /\ Takes(routes[found], r) /\ ~Declines(routes[found], Sender[r])
    BY DEF FoundFirst
  <1>3. routes[found] \in {row \in Eligible(v, r) : ~Declines(row, Sender[r])}
    BY <1>1, <1>2 DEF Eligible
  <1>4. ASSUME NEW row \in Eligible(v, r), ~Declines(row, Sender[r])
        PROVE  row.priority <= routes[found].priority
    <2>1. row \in Usable(v, Dir[r], Service[r]) /\ Takes(row, r)
      BY DEF Eligible
    <2>2. PICK i \in 1 .. Len(routes) : routes[i] = row
      BY <1>1, <2>1
    <2>3. ~(i < found)
      BY <1>4, <2>1, <2>2 DEF FoundFirst
    <2>4. row.priority \in Nat /\ routes[found].priority \in Nat
      <3>1. row \in Tables[v] /\ routes[found] \in Tables[v]
        BY <1>1, <1>2, <2>1 DEF Usable
      <3> QED
        BY <3>1, TableAssumption
    <2>5. CASE i = found
      BY <2>2, <2>4, <2>5
    <2>6. CASE found < i
      BY <1>1, <1>2, <2>2, <2>4, <2>6 DEF ByPriority
    <2> QED
      BY <1>2, <2>3, <2>5, <2>6
  <1> QED
    BY <1>3, <1>4

\* Without one, nobody takes the receiver or everybody declines the sender.
LEMMA NoneIsNone ==
  ASSUME NEW v \in 0 .. MaxVersion, NEW list, list.rows = v, NEW r, NEW routes,
         routes = GetRoutes(list, Dir[r], Service[r]),
         \A i \in 1 .. Len(routes) : Takes(routes[i], r) => Declines(routes[i], Sender[r])
  PROVE  /\ \A row \in Eligible(v, r) : Declines(row, Sender[r])
         /\ (\E i \in 1 .. Len(routes) : Takes(routes[i], r)) <=> Eligible(v, r) # {}
  <1>1. /\ DOMAIN routes = 1 .. Len(routes)
        /\ \A i \in DOMAIN routes : routes[i] \in Usable(v, Dir[r], Service[r])
        /\ \A row \in Usable(v, Dir[r], Service[r]) : \E i \in DOMAIN routes : routes[i] = row
    BY RoutesSorted
  <1>2. \A row \in Eligible(v, r) : Declines(row, Sender[r])
    BY <1>1 DEF Eligible
  <1>3. (\E i \in 1 .. Len(routes) : Takes(routes[i], r)) <=> Eligible(v, r) # {}
    BY <1>1 DEF Eligible
  <1> QED
    BY <1>2, <1>3

\* Matching gives the message what the table says.
LEMMA MatchRoutes ==
  ASSUME OriginInv, result = [q \in Req |-> result[q]], NEW r \in Req, Match(r),
         by[r].rows \in 0 .. MaxVersion
  PROVE  RoutedAs(r, by[r].rows, msg'[r], result'[r])
  <1>1. PICK list : list = by[r]
    OBVIOUS
  <1>2. PICK v \in 0 .. MaxVersion : v = list.rows
    BY <1>1
  <1>3. PICK routes : routes = GetRoutes(list, Dir[r], Service[r])
    OBVIOUS
  <1>4. PICK s : s = Search(routes, r)
    OBVIOUS
  <1>5. /\ result' = [result EXCEPT ![r] = [status |-> s.status,
                         cost |-> IF s.found = 0 THEN 0 ELSE routes[s.found].cost]]
        /\ msg' = IF s.found = 0 THEN msg
                  ELSE IF Dir[r] = "out" THEN [msg EXCEPT ![r].smsc_id = routes[s.found].smsc_id]
                  ELSE [msg EXCEPT ![r].service = routes[s.found].system_id]
    BY <1>1, <1>3, <1>4 DEF Match, Callback
  <1>6. Len(routes) \in Nat
    BY <1>2, <1>3, RoutesSorted
  <1>7. Outcome(s, routes, r, Len(routes))
    BY <1>4, <1>6, SearchFinds
  <1>8. ASSUME NEW found, s = [found |-> found, status |-> "ROK"],
               FoundFirst(found, routes, r, Len(routes))
        PROVE  RoutedAs(r, v, msg'[r], result'[r])
    <2>1. PICK best : best = routes[found]
      OBVIOUS
    <2>2. s.found = found /\ s.status = "ROK" /\ found # 0
      BY <1>6, <1>8 DEF FoundFirst
    <2>3. result'[r] = [status |-> "ROK", cost |-> best.cost]
      BY <1>5, <2>1, <2>2
    <2>4. msg = [q \in Req |-> msg[q]] /\ msg[r] = [smsc_id |-> msg[r].smsc_id, service |-> msg[r].service]
      BY DEF OriginInv
    <2>5. CASE Dir[r] = "out"
      <3>1. msg' = [msg EXCEPT ![r] = [msg[r] EXCEPT !.smsc_id = best.smsc_id]]
        BY <1>5, <2>1, <2>2, <2>5
      <3>2. msg'[r] = [msg[r] EXCEPT !.smsc_id = best.smsc_id]
        BY <2>4, <3>1
      <3>3. [msg[r] EXCEPT !.smsc_id = best.smsc_id] = [smsc_id |-> best.smsc_id, service |-> msg[r].service]
        BY <2>4, FieldsReplaced
      <3> QED
        BY <1>2, <1>3, <1>8, <2>1, <2>3, <2>5, <3>2, <3>3, FirstIsBest DEF RoutedAs
    <2>6. CASE Dir[r] # "out"
      <3>1. msg' = [msg EXCEPT ![r] = [msg[r] EXCEPT !.service = best.system_id]]
        BY <1>5, <2>1, <2>2, <2>6
      <3>2. msg'[r] = [msg[r] EXCEPT !.service = best.system_id]
        BY <2>4, <3>1
      <3>3. [msg[r] EXCEPT !.service = best.system_id] = [smsc_id |-> msg[r].smsc_id, service |-> best.system_id]
        BY <2>4, FieldsReplaced
      <3> QED
        BY <1>2, <1>3, <1>8, <2>1, <2>3, <2>6, <3>2, <3>3, FirstIsBest DEF RoutedAs
    <2> QED
      BY <2>5, <2>6
  <1>9. ASSUME NEW status, s = [found |-> 0, status |-> status],
               NoneFound(status, routes, r, Len(routes))
        PROVE  RoutedAs(r, v, msg'[r], result'[r])
    <2>1. result'[r] = [status |-> status, cost |-> 0]
      BY <1>5, <1>9
    <2>2. /\ \A row \in Eligible(v, r) : Declines(row, Sender[r])
          /\ (\E i \in 1 .. Len(routes) : Takes(routes[i], r)) <=> Eligible(v, r) # {}
      <3>1. \A i \in 1 .. Len(routes) : Takes(routes[i], r) => Declines(routes[i], Sender[r])
        BY <1>9 DEF NoneFound
      <3> QED
        BY <1>2, <1>3, <3>1, NoneIsNone
    <2>4. status = IF Eligible(v, r) = {} THEN "RINVDSTADR" ELSE "RINVSRCADR"
      BY <1>9, <2>2 DEF NoneFound
    <2>3. result'[r].status = status
      BY <2>1
    <2> QED
      BY <2>2, <2>3, <2>4, Zenon DEF RoutedAs
  <1> QED
    BY <1>1, <1>2, <1>7, <1>8, <1>9 DEF Outcome

\* A message that is done stays as it is; one that gets done is routed.
LEMMA RoutedStays ==
  ASSUME RoutedAsConfigured, config' = config,
         \A q \in Req : st'[q] = "done" =>
           \/ st[q] = "done" /\ by'[q] = by[q] /\ msg'[q] = msg[q] /\ result'[q] = result[q]
           \/ config.method # "database" \/ Dir[q] = "none" \/ by'[q].rows = Failed
           \/ RoutedAs(q, by'[q].rows, msg'[q], result'[q])
  PROVE  RoutedAsConfigured'
  <1>1. RoutedAsConfigured <=>
          \A q \in Req : config.method = "database" /\ st[q] = "done" /\ Dir[q] # "none" /\ by[q].rows # Failed =>
            RoutedAs(q, by[q].rows, msg[q], result[q])
    BY DEF RoutedAsConfigured, RoutedAs
  <1>2. RoutedAsConfigured' <=>
          \A q \in Req : config'.method = "database" /\ st'[q] = "done" /\ Dir[q] # "none" /\ by'[q].rows # Failed =>
            RoutedAs(q, by'[q].rows, msg'[q], result'[q])
    BY DEF RoutedAsConfigured, RoutedAs, Eligible, Usable, Takes, Declines
  <1> QED
    BY <1>1, <1>2

\* Every step of both routers, of edits and of rebuilds.
LEMMA RoutedNext == RoutedInv /\ [Next]_vars => RoutedInv'
  <1> SUFFICES ASSUME RoutedInv, [Next]_vars PROVE RoutedInv'
    OBVIOUS
  <1>a. FreshInv /\ OriginInv /\ RowsInv /\ DatabaseOnly /\ RoutedAsConfigured
    BY DEF RoutedInv
  <1>b. FreshInv' /\ OriginInv'
    BY <1>a, FreshNext, OriginNext
  <1>c. /\ st = [r \in Req |-> st[r]] /\ by = [r \in Req |-> by[r]] /\ outbound = [a \in Account |-> outbound[a]]
        /\ result = [r \in Req |-> result[r]] /\ caller = [c \in Caller |-> caller[c]]
        /\ msg = [r \in Req |-> msg[r]]
    BY DEF RoutedInv, FreshInv, FreshType, OriginInv
  <1>d. version \in Rows /\ Failed \in Rows
    BY <1>a DEF RowsInv, Rows
  <1> USE DEF msgVars, cacheVars, rebuildVars, httpVars
  <1>1. ASSUME NEW r \in Req, RouteDatabase(r) PROVE RoutedInv'
    <2>1. RowsInv'
      BY <1>a, <1>c, <1>1 DEF RouteDatabase, RowsInv
    <2>2. DatabaseOnly'
      BY <1>a, <1>c, <1>1 DEF RouteDatabase, DatabaseOnly
    <2>3. RoutedAsConfigured'
      BY <1>a, <1>c, <1>1, RoutedStays DEF RouteDatabase
    <2> QED
      BY <1>b, <1>c, <1>1, <2>1, <2>2, <2>3 DEF RouteDatabase, RoutedInv
  <1>2. ASSUME NEW r \in Req, Unroutable(r) PROVE RoutedInv'
    <2>1. RowsInv'
      BY <1>a, <1>c, <1>2 DEF Unroutable, Callback, RowsInv
    <2>2. DatabaseOnly'
      BY <1>a, <1>c, <1>2 DEF Unroutable, Callback, DatabaseOnly
    <2>3. RoutedAsConfigured'
      BY <1>a, <1>c, <1>2, RoutedStays DEF Unroutable, Callback
    <2> QED
      BY <1>b, <1>c, <1>2, <2>1, <2>2, <2>3 DEF Unroutable, Callback, RoutedInv
  <1>3. ASSUME NEW r \in Req, LookupInbound(r) PROVE RoutedInv'
    <2>1. RowsInv'
      BY <1>a, <1>c, <1>3 DEF LookupInbound, RowsInv
    <2>2. DatabaseOnly'
      BY <1>a, <1>c, <1>3 DEF LookupInbound, DatabaseOnly
    <2>3. RoutedAsConfigured'
      BY <1>a, <1>c, <1>3, RoutedStays DEF LookupInbound
    <2> QED
      BY <1>b, <1>c, <1>3, <2>1, <2>2, <2>3 DEF LookupInbound, RoutedInv
  <1>4. ASSUME NEW r \in Req, LookupOutbound(r) PROVE RoutedInv'
    <2>0. Service[r] \in Account
      BY <1>4, RequestAssumption DEF LookupOutbound
    <2>1. RowsInv'
      BY <1>a, <1>c, <1>4, <2>0 DEF LookupOutbound, RowsInv
    <2>2. DatabaseOnly'
      BY <1>a, <1>c, <1>4 DEF LookupOutbound, DatabaseOnly
    <2>3. RoutedAsConfigured'
      BY <1>a, <1>c, <1>4, RoutedStays DEF LookupOutbound
    <2> QED
      BY <1>b, <1>c, <1>4, <2>1, <2>2, <2>3 DEF LookupOutbound, RoutedInv
  <1>5. ASSUME NEW r \in Req, ReadOutbound(r) PROVE RoutedInv'
    <2>0. by'[r].rows \in Rows
      BY <1>c, <1>d, <1>5 DEF ReadOutbound, Selected, NotSelected
    <2>1. RowsInv'
      BY <1>a, <1>c, <1>5, <2>0 DEF ReadOutbound, RowsInv
    <2>2. DatabaseOnly'
      BY <1>a, <1>c, <1>5 DEF ReadOutbound, DatabaseOnly
    <2>3. RoutedAsConfigured'
      BY <1>a, <1>c, <1>5, RoutedStays DEF ReadOutbound
    <2> QED
      BY <1>b, <1>c, <1>5, <2>1, <2>2, <2>3 DEF ReadOutbound, RoutedInv
  <1>6. ASSUME NEW r \in Req, PutOutbound(r) PROVE RoutedInv'
    <2>1. RowsInv'
      BY <1>a, <1>c, <1>6 DEF PutOutbound, RowsInv
    <2>2. DatabaseOnly'
      BY <1>a, <1>c, <1>6 DEF PutOutbound, DatabaseOnly
    <2>3. RoutedAsConfigured'
      BY <1>a, <1>c, <1>6, RoutedStays DEF PutOutbound
    <2> QED
      BY <1>b, <1>c, <1>6, <2>1, <2>2, <2>3 DEF PutOutbound, RoutedInv
  <1>7. ASSUME NEW r \in Req, Match(r) PROVE RoutedInv'
    <2>1. /\ st[r] = "match" /\ st' = [st EXCEPT ![r] = "done"]
          /\ UNCHANGED <<config, by, version, cacheVars, rebuildVars, httpVars>>
      BY <1>7 DEF Match, Callback
    <2>2. result' = [q \in Req |-> result'[q]] /\ \A q \in Req : q # r => result'[q] = result[q]
      BY <1>c, <1>7 DEF Match, Callback
    <2>3. \A q \in Req : q # r => msg'[q] = msg[q]
      <3> DEFINE routes == GetRoutes(by[r], Dir[r], Service[r])
                 found == routes[Search(routes, r).found]
      <3>1. \/ msg' = msg
            \/ msg' = [msg EXCEPT ![r].smsc_id = found.smsc_id]
            \/ msg' = [msg EXCEPT ![r].service = found.system_id]
        BY <1>7 DEF Match
      <3> HIDE DEF found, routes
      <3> QED
        BY <1>c, <3>1
    <2>4. by'[r].rows = Failed \/ RoutedAs(r, by'[r].rows, msg'[r], result'[r])
      <3>1. by[r].rows \in Rows
        BY <1>a, <2>1 DEF RowsInv
      <3>2. CASE by[r].rows \in 0 .. MaxVersion
        BY <1>a, <1>c, <1>7, <2>1, <3>2, MatchRoutes
      <3> QED
        BY <2>1, <3>1, <3>2 DEF Rows
    <2>5. RowsInv'
      BY <1>a, <1>c, <2>1 DEF RowsInv
    <2>6. DatabaseOnly'
      BY <1>a, <1>c, <2>1 DEF DatabaseOnly
    <2>7. RoutedAsConfigured'
      BY <1>a, <1>c, <2>1, <2>2, <2>3, <2>4, RoutedStays
    <2> QED
      BY <1>b, <1>c, <2>1, <2>2, <2>5, <2>6, <2>7 DEF RoutedInv
  <1>8. CASE Edit
    <2>1. version' \in 0 .. MaxVersion
      BY <1>a, <1>8, TableAssumption DEF Edit, RowsInv
    <2>2. RowsInv'
      BY <1>a, <1>8, <2>1 DEF Edit, RowsInv
    <2>3. DatabaseOnly'
      BY <1>a, <1>8 DEF Edit, DatabaseOnly
    <2>4. RoutedAsConfigured'
      BY <1>a, <1>8, RoutedStays DEF Edit
    <2> QED
      BY <1>b, <1>c, <1>8, <2>2, <2>3, <2>4 DEF Edit, RoutedInv
  <1>9. CASE RebuildRead
    <2>1. rebuild'.rows \in Rows
      BY <1>d, <1>9 DEF RebuildRead, Selected, NotSelected
    <2>2. RowsInv'
      BY <1>a, <1>9, <2>1 DEF RebuildRead, RowsInv
    <2>3. DatabaseOnly'
      BY <1>a, <1>9 DEF RebuildRead, DatabaseOnly
    <2>4. RoutedAsConfigured'
      BY <1>a, <1>9, RoutedStays DEF RebuildRead
    <2> QED
      BY <1>b, <1>c, <1>9, <2>2, <2>3, <2>4 DEF RebuildRead, RoutedInv
  <1>10. CASE RebuildSwap
    <2>2. RowsInv'
      BY <1>a, <1>10 DEF RebuildSwap, RowsInv
    <2>3. DatabaseOnly'
      BY <1>a, <1>10 DEF RebuildSwap, DatabaseOnly
    <2>4. RoutedAsConfigured'
      BY <1>a, <1>10, RoutedStays DEF RebuildSwap
    <2> QED
      BY <1>b, <1>c, <1>10, <2>2, <2>3, <2>4 DEF RebuildSwap, RoutedInv
  <1>11. ASSUME config.method # "database", UNCHANGED <<config, by, version, cacheVars, rebuildVars>>,
                result' = [r \in Req |-> result'[r]], caller' = [c \in Caller |-> caller'[c]],
                \A r \in Req : st'[r] \in {"put", "match"} => st'[r] = st[r]
         PROVE  RoutedInv'
    <2>1. RowsInv'
      BY <1>a, <1>11 DEF RowsInv
    <2>2. DatabaseOnly'
      BY <1>11 DEF DatabaseOnly
    <2>3. RoutedAsConfigured'
      BY <1>a, <1>11, RoutedStays
    <2> QED
      BY <1>b, <1>11, <2>1, <2>2, <2>3 DEF RoutedInv
  <1>12. ASSUME NEW r \in Req, RouteHttp(r) PROVE RoutedInv'
    BY <1>c, <1>11, <1>12 DEF RouteHttp
  <1>13. ASSUME NEW r \in Req, NEW a \in config.answers, Receive(r, a) PROVE RoutedInv'
    <2>1. config.method # "database"
      BY <1>a, <1>13 DEF Receive, DatabaseOnly
    <2>2. UNCHANGED <<config, by, version, cacheVars, rebuildVars, caller>>
      BY <1>13 DEF Receive
    <2>3. /\ result' = [q \in Req |-> result'[q]]
          /\ \A q \in Req : st'[q] \in {"put", "match"} => st'[q] = st[q]
      BY <1>c, <1>13 DEF Receive, Callback
    <2> QED
      BY <1>c, <1>11, <2>1, <2>2, <2>3
  <1>14. ASSUME NEW c \in Caller, CallerStep(c) PROVE RoutedInv'
    <2>1. config.method # "database"
      BY <1>a, <1>14 DEF CallerStep, CallerCheck, CallerRoom, CallerConsume, CallerSend, DatabaseOnly
    <2>2. UNCHANGED <<config, by, version, cacheVars, rebuildVars, result>>
      BY <1>14 DEF CallerStep, CallerCheck, CallerRoom, CallerConsume, CallerSend
    <2>3. caller' = [d \in Caller |-> caller'[d]]
      BY <1>c, <1>14 DEF CallerStep, CallerCheck, CallerRoom, CallerConsume, CallerSend
    <2>4. \A q \in Req : st'[q] \in {"put", "match"} => st'[q] = st[q]
      BY <1>c, <1>14 DEF CallerStep, CallerCheck, CallerRoom, CallerConsume, CallerSend
    <2> QED
      BY <1>c, <1>11, <2>1, <2>2, <2>3, <2>4
  <1>15. CASE Shutdown
    BY <1>c, <1>11, <1>15 DEF Shutdown
  <1>16. CASE RouteShutdown
    <2>1. config.method # "database"
      BY <1>a, <1>16 DEF RouteShutdown, DatabaseOnly
    <2> QED
      BY <1>c, <1>11, <1>16, <2>1 DEF RouteShutdown
  <1>17. CASE UNCHANGED vars
    <2>1. RowsInv'
      BY <1>a, <1>17 DEF vars, RowsInv
    <2>2. DatabaseOnly'
      BY <1>a, <1>17 DEF vars, DatabaseOnly
    <2>3. RoutedAsConfigured'
      BY <1>a, <1>17, RoutedStays DEF vars
    <2> QED
      BY <1>b, <1>c, <1>17, <2>1, <2>2, <2>3 DEF vars, RoutedInv
  <1> QED
    BY <1>1, <1>2, <1>3, <1>4, <1>5, <1>6, <1>7, <1>8, <1>9, <1>10, <1>12, <1>13, <1>14, <1>15,
       <1>16, <1>17 DEF Next, DatabaseStep

\* A message routed by the database gets the route of the highest priority
\* among those of its list that take its receiver and sender, or the error
\* that says which of the two has none: for every table, by the order
\* get_routes reads it in and the loop of smpp_route_message_database.
THEOREM RoutedByTheTable == Spec => []RoutedAsConfigured
  <1>1. Init => RoutedInv
    <2> SUFFICES ASSUME Init PROVE RoutedInv
      OBVIOUS
    <2>1. FreshInv /\ OriginInv
      BY FreshInit DEF Init, OriginInv, OriginKept
    <2>2. RowsInv
      BY TableAssumption DEF Init, RowsInv, Rows
    <2>3. DatabaseOnly
      BY DEF Init, DatabaseOnly, Idle
    <2>4. RoutedAsConfigured
      BY DEF Init, RoutedAsConfigured
    <2>5. result = [r \in Req |-> result[r]] /\ caller = [c \in Caller |-> caller[c]]
      BY DEF Init
    <2> QED
      BY <2>1, <2>2, <2>3, <2>4, <2>5 DEF RoutedInv
  <1>2. RoutedInv => RoutedAsConfigured
    BY DEF RoutedInv
  <1> QED
    BY <1>1, <1>2, RoutedNext, PTL DEF Spec

=============================================================================
