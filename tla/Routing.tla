------------------------------ MODULE Routing ------------------------------
(***************************************************************************)
(* Routing of a message: to a route of the database (smpp_route.c with     *)
(* get_routes of smpp_database_mysql.c) or by asking an HTTP server        *)
(* (smpp_http_client.c); the configuration chooses one of the two.         *)
(*   - database: the inbound routes are read at start and by the command   *)
(*     rebuild-routes, the outbound routes of an account when its first    *)
(*     message comes.  Messages are routed under the read lock, a rebuild  *)
(*     replaces both caches under the write lock.  Commands are handled by *)
(*     one thread, so there is one rebuild at a time.                      *)
(*   - http: requests wait in a queue, each caller thread sends as many as *)
(*     the limit on outstanding requests leaves, and its receive thread    *)
(*     calls back.                                                         *)
(* A regular expression is the set of addresses it matches.                *)
(***************************************************************************)
EXTENDS Integers, Sequences, SequencesExt, FiniteSets

CONSTANTS
  Req,          \* the messages to be routed
  Account,      \* system ids
  Smsc,         \* smsc ids
  Address,      \* senders and receivers
  Dir,          \* [Req -> "out", "in", or "none" when the id it needs is empty]
  Service,      \* [Req -> the account an outbound message comes from]
  SmscId,       \* [Req -> the smsc an inbound message comes from]
  Receiver, Sender,
  NoId,         \* an empty octet string
  NoRoutes,     \* no cached list
  Caller,       \* HTTP caller threads
  Tables,       \* [0 .. MaxVersion -> the rows of the route table]
  MaxVersion,   \* bound: edits of the table
  Scenarios     \* [method, offered: the messages, max: http-max-outstanding-
                \*  requests, answers: what the HTTP server may say, rebuilds,
                \*  faults: bounds, stops: shutdown may come]

\* A row of the route table.  source: "none", "bad" when it is no regular
\* expression, or "set"; valid: regex is a regular expression.
Row == [dir : {"out", "in"}, system_id : Account, smsc_id : Smsc \cup {NoId},
        priority : Nat, cost : Nat, valid : BOOLEAN, regex : SUBSET Address,
        source : {"none", "bad", "set"}, source_regex : SUBSET Address]

\* What an HTTP server may answer; without any header when it cannot be asked.
\* The headers smsc_id and service ask for the message to be changed.
Answer == [status : {"absent", "accepted", "refused"},
           cost : {"absent", "invalid", "valid"},
           error : {"absent", "zero", "other"},
           smsc_id : Smsc \cup {NoId}, service : Account \cup {NoId}]

ASSUME RequestAssumption ==
  /\ Dir \in [Req -> {"out", "in", "none"}]
  /\ Service \in [Req -> Account \cup {NoId}] /\ SmscId \in [Req -> Smsc \cup {NoId}]
  /\ Receiver \in [Req -> Address] /\ Sender \in [Req -> Address]
  /\ \A r \in Req : /\ Dir[r] = "out" => Service[r] \in Account
                    /\ Dir[r] = "in" => SmscId[r] \in Smsc
ASSUME TableAssumption ==
  /\ MaxVersion \in Nat
  /\ \A v \in 0 .. MaxVersion :
       \A row \in Tables[v] : row.priority \in Nat /\ row.cost \in Nat
                              /\ row.regex \cup row.source_regex \subseteq Address
  /\ \A v \in 0 .. MaxVersion : IsFiniteSet(Tables[v])
ASSUME ScenarioAssumption ==
  \A c \in Scenarios :
    /\ c.method \in {"database", "http"} /\ c.offered \subseteq Req
    /\ c.answers \subseteq Answer
    /\ c.max \in Nat \ {0} /\ {c.rebuilds, c.faults} \subseteq Nat /\ c.stops \in BOOLEAN
ASSUME CallerAssumption == IsFiniteSet(Caller) /\ Caller # {}

VARIABLES
  config,      \* the scenario of this behaviour, never changed
  st,          \* how far each message has come
  msg,         \* its smsc_id and service
  result,      \* smpp_route_status when the callback ran
  by,          \* the cached list it is matched against
  since,       \* history: the last rebuild answered when its routing began
  version,     \* the rows the route table holds
  inbound,     \* smpp_routing->inbound_routes
  outbound,    \* smpp_routing->outbound_routes
  filler,      \* who holds smpp_routing->outbound_lock, to fill a miss
  rebuild,     \* the inbound routes a rebuild has read, not yet installed
  begun,       \* history: rebuilds begun
  answered,    \* history: the last rebuild that was answered "Routes updated"
  queue,       \* queued_requests
  caller,      \* the caller threads
  outstanding, \* outstanding_requests
  shutdown,    \* SMPP_SERVER_STATUS_SHUTDOWN
  faults

msgVars == <<st, msg, result, by, since>>
cacheVars == <<inbound, outbound, filler>>
rebuildVars == <<rebuild, begun, answered>>
httpVars == <<queue, caller, outstanding, shutdown>>
vars == <<config, msgVars, version, cacheVars, rebuildVars, httpVars, faults>>

\* A list of routes as get_routes returned it: the version of the table it
\* was read from, or that the query failed, and when.
Failed == -1
Lists == [rows : {Failed} \cup 0 .. MaxVersion, read : Nat]
Status == {"none", "ROK", "RINVDSTADR", "RINVSRCADR", "RSUBMITFAIL", "other"}
Idle == [pc |-> "idle", left |-> 0, req |-> <<>>]

TypeOK ==
  /\ config \in Scenarios
  /\ st \in [Req -> {"new", "locked", "miss", "put", "match", "queued", "taken", "sent",
                     "done", "dropped"}]
  /\ msg \in [Req -> [smsc_id : Smsc \cup {NoId}, service : Account \cup {NoId}]]
  /\ result \in [Req -> [status : Status, cost : Nat]]
  /\ by \in [Req -> Lists \cup {NoRoutes}] /\ since \in [Req -> Nat]
  /\ version \in 0 .. MaxVersion
  /\ inbound \in Lists /\ outbound \in [Account -> Lists \cup {NoRoutes}]
  /\ filler \subseteq Req /\ Cardinality(filler) <= 1
  /\ rebuild \in Lists \cup {NoRoutes} /\ begun \in Nat /\ answered \in 0 .. begun
  /\ queue \in Seq(Req)
  /\ \A c \in Caller :
       /\ caller[c].pc \in {"idle", "room", "loop", "taken"} /\ caller[c].left \in Int
       /\ caller[c].req \in {<<>>} \cup {<<r>> : r \in Req}
  /\ outstanding \in Nat
  /\ shutdown \in BOOLEAN /\ faults \in 0 .. config.faults

Init ==
  /\ config \in Scenarios
  /\ st = [r \in Req |-> "new"]
  /\ msg = [r \in Req |-> [smsc_id |-> SmscId[r], service |-> Service[r]]]
  /\ result = [r \in Req |-> [status |-> "none", cost |-> 0]]
  /\ by = [r \in Req |-> NoRoutes] /\ since = [r \in Req |-> 0]
  /\ version = 0
  /\ inbound = [rows |-> 0, read |-> 0] /\ outbound = [a \in Account |-> NoRoutes]
  /\ filler = {} /\ rebuild = NoRoutes /\ begun = 0 /\ answered = 0
  /\ queue = <<>> /\ caller = [c \in Caller |-> Idle]
  /\ outstanding = 0 /\ shutdown = FALSE /\ faults = 0

Fault == faults < config.faults /\ faults' = faults + 1

\* callback(context, smpp_route_status)
Callback(r, status, cost) ==
  /\ result' = [result EXCEPT ![r] = [status |-> status, cost |-> cost]]
  /\ st' = [st EXCEPT ![r] = "done"]

-----------------------------------------------------------------------------
(* The routes of the database *)

\* The rows smpp_database_mysql_get_routes turns into routes: those whose
\* regex compiles.
Usable(v, dir, account) ==
  {row \in Tables[v] : /\ row.dir = dir /\ row.valid
                       /\ dir = "out" => row.system_id = account}

ByPriority(routes) ==
  \A i, j \in DOMAIN routes : i < j => routes[i].priority >= routes[j].priority

\* smpp_database_mysql_get_routes: ORDER BY priority DESC, equal priorities in
\* whichever order the server has them; when the query fails the list is empty.
GetRoutes(list, dir, account) ==
  IF list.rows = Failed THEN <<>>
  ELSE CHOOSE routes \in SetToSeqs(Usable(list.rows, dir, account)) : ByPriority(routes)

\* The route takes the receiver of r; an inbound one may name an smsc.
Takes(route, r) ==
  Receiver[r] \in route.regex /\ (Dir[r] = "in" => route.smsc_id \in {NoId, SmscId[r]})

\* A source_regex that is empty or does not compile allows every sender.
Declines(route, sender) == route.source = "set" /\ sender \notin route.source_regex

\* Mutant: a route that declines the sender ends the search.
SearchStopsAtDeclined(routes, r) ==
  LET f[i \in 0 .. Len(routes)] ==
        IF i = 0 THEN [found |-> 0, status |-> "RINVDSTADR"]
        ELSE IF \/ f[i - 1].found # 0 \/ f[i - 1].status = "RINVSRCADR"
                \/ ~Takes(routes[i], r) THEN f[i - 1]
        ELSE IF Declines(routes[i], Sender[r]) THEN [found |-> 0, status |-> "RINVSRCADR"]
        ELSE [found |-> i, status |-> "ROK"]
  IN f[Len(routes)]

\* The loops of smpp_route_message_database: the first route that takes the
\* receiver and does not decline the sender.
Search(routes, r) ==
  LET f[i \in 0 .. Len(routes)] ==
        IF i = 0 THEN [found |-> 0, status |-> "RINVDSTADR"]
        ELSE IF f[i - 1].found # 0 \/ ~Takes(routes[i], r) THEN f[i - 1]
        ELSE IF Declines(routes[i], Sender[r]) THEN [found |-> 0, status |-> "RINVSRCADR"]
        ELSE [found |-> i, status |-> "ROK"]
  IN f[Len(routes)]

\* The SELECT on the route table that rebuild number n, or the router after it,
\* makes now
Selected(n) == [rows |-> version, read |-> n]
NotSelected(n) == [rows |-> Failed, read |-> n]

\* Who holds smpp_routing->lock for reading
Readers == {r \in Req : st[r] \in {"locked", "miss", "put", "match"}}

RouteDatabase(r) ==
  /\ config.method = "database" /\ r \in config.offered /\ st[r] = "new"
  /\ st' = [st EXCEPT ![r] = "locked"]
  /\ since' = [since EXCEPT ![r] = answered]
  /\ UNCHANGED <<config, msg, result, by, version, cacheVars, rebuildVars, httpVars, faults>>

\* Neither an account nor an smsc to route by
Unroutable(r) ==
  /\ st[r] = "locked" /\ Dir[r] = "none"
  /\ Callback(r, "RINVDSTADR", 0)
  /\ UNCHANGED <<config, msg, by, since, version, cacheVars, rebuildVars, httpVars, faults>>

LookupInbound(r) ==
  /\ st[r] = "locked" /\ Dir[r] = "in"
  /\ by' = [by EXCEPT ![r] = inbound]
  /\ st' = [st EXCEPT ![r] = "match"]
  /\ UNCHANGED <<config, msg, result, since, version, cacheVars, rebuildVars, httpVars,
                 faults>>

\* The cache of outbound routes, under outbound_lock: a hit ...
LookupOutbound(r) ==
  LET cached == outbound[Service[r]]
  IN /\ st[r] = "locked" /\ Dir[r] = "out" /\ filler = {}
     /\ \/ /\ cached # NoRoutes
           /\ by' = [by EXCEPT ![r] = cached]
           /\ st' = [st EXCEPT ![r] = "match"]
           /\ UNCHANGED filler
        \/ /\ cached = NoRoutes
           /\ st' = [st EXCEPT ![r] = "miss"]
           /\ filler' = {r}
           /\ UNCHANGED by
     /\ UNCHANGED <<config, msg, result, since, version, inbound, outbound, rebuildVars,
                    httpVars, faults>>

\* ... or a miss: the routes of the account are read ...
ReadOutbound(r) ==
  /\ st[r] = "miss"
  /\ \/ by' = [by EXCEPT ![r] = Selected(begun)] /\ UNCHANGED faults
     \/ by' = [by EXCEPT ![r] = NotSelected(begun)] /\ Fault
  /\ st' = [st EXCEPT ![r] = "put"]
  /\ UNCHANGED <<config, msg, result, since, version, cacheVars, rebuildVars, httpVars>>

\* ... and cached.
PutOutbound(r) ==
  /\ st[r] = "put"
  /\ outbound' = [outbound EXCEPT ![Service[r]] = by[r]]
  /\ filler' = {}
  /\ st' = [st EXCEPT ![r] = "match"]
  /\ UNCHANGED <<config, msg, result, by, since, version, inbound, rebuildVars, httpVars,
                 faults>>

\* An outbound message gets the smsc of its route, an inbound one the account.
Match(r) ==
  LET routes == GetRoutes(by[r], Dir[r], Service[r])
      s == Search(routes, r)
  IN /\ st[r] = "match"
     /\ Callback(r, s.status, IF s.found = 0 THEN 0 ELSE routes[s.found].cost)
     /\ msg' = IF s.found = 0 THEN msg
               ELSE IF Dir[r] = "out" THEN [msg EXCEPT ![r].smsc_id = routes[s.found].smsc_id]
               ELSE [msg EXCEPT ![r].service = routes[s.found].system_id]
     /\ UNCHANGED <<config, by, since, version, cacheVars, rebuildVars, httpVars, faults>>

\* Somebody edits the route table.
Edit ==
  /\ config.method = "database" /\ version < MaxVersion
  /\ version' = version + 1
  /\ UNCHANGED <<config, msgVars, cacheVars, rebuildVars, httpVars, faults>>

\* smpp_route_rebuild_database reads the inbound routes without a lock ...
RebuildRead ==
  /\ config.method = "database" /\ rebuild = NoRoutes /\ begun < config.rebuilds
  /\ begun' = begun + 1
  /\ \/ rebuild' = Selected(begun + 1) /\ UNCHANGED faults
     \/ rebuild' = NotSelected(begun + 1) /\ Fault
  /\ UNCHANGED <<config, msgVars, version, cacheVars, answered, httpVars>>

\* Mutant: the caches are replaced without waiting for the readers.
RebuildSwapUnlocked ==
  /\ rebuild # NoRoutes
  /\ inbound' = rebuild /\ outbound' = [a \in Account |-> NoRoutes]
  /\ rebuild' = NoRoutes /\ answered' = begun
  /\ UNCHANGED <<config, msgVars, version, filler, begun, httpVars, faults>>

\* ... replaces them and drops all outbound routes under the write lock, and
\* the command is answered.
RebuildSwap ==
  /\ rebuild # NoRoutes /\ Readers = {}
  /\ inbound' = rebuild /\ outbound' = [a \in Account |-> NoRoutes]
  /\ rebuild' = NoRoutes /\ answered' = begun
  /\ UNCHANGED <<config, msgVars, version, filler, begun, httpVars, faults>>

-----------------------------------------------------------------------------
(* The HTTP router *)

\* smpp_http_client_route_message
RouteHttp(r) ==
  /\ config.method = "http" /\ r \in config.offered /\ st[r] = "new" /\ ~shutdown
  /\ queue' = Append(queue, r)
  /\ st' = [st EXCEPT ![r] = "queued"]
  /\ UNCHANGED <<config, msg, result, by, since, version, cacheVars, rebuildVars, caller,
                 outstanding, shutdown, faults>>

\* smpp_http_client_request_thread: a caller goes on when there is room ...
CallerCheck(c) ==
  /\ config.method = "http" /\ caller[c].pc = "idle" /\ ~shutdown
  /\ outstanding < config.max
  /\ caller' = [caller EXCEPT ![c].pc = "room"]
  /\ UNCHANGED <<config, msgVars, version, cacheVars, rebuildVars, queue, outstanding,
                 shutdown, faults>>

\* ... reads the counter once more to see how much, ...
CallerRoom(c) ==
  /\ caller[c].pc = "room"
  /\ caller' = [caller EXCEPT ![c].pc = "loop", ![c].left = config.max - outstanding]
  /\ UNCHANGED <<config, msgVars, version, cacheVars, rebuildVars, queue, outstanding,
                 shutdown, faults>>

\* Mutant: and takes the whole queue.
CallerConsumeAll(c) ==
  /\ caller[c].pc = "loop"
  /\ \/ /\ queue # <<>>
        /\ caller' = [caller EXCEPT ![c] = [pc |-> "taken", left |-> @.left - 1,
                                            req |-> <<Head(queue)>>]]
        /\ st' = [st EXCEPT ![Head(queue)] = "taken"]
        /\ queue' = Tail(queue)
     \/ /\ queue = <<>>
        /\ caller' = [caller EXCEPT ![c] = Idle]
        /\ UNCHANGED <<st, queue>>
  /\ UNCHANGED <<config, msg, result, by, since, version, cacheVars, rebuildVars,
                 outstanding, shutdown, faults>>

\* ... and takes as many requests, or as there are.
CallerConsume(c) ==
  /\ caller[c].pc = "loop"
  /\ \/ /\ caller[c].left > 0 /\ queue # <<>>
        /\ caller' = [caller EXCEPT ![c] = [pc |-> "taken", left |-> @.left - 1,
                                            req |-> <<Head(queue)>>]]
        /\ st' = [st EXCEPT ![Head(queue)] = "taken"]
        /\ queue' = Tail(queue)
     \/ /\ caller[c].left <= 0 \/ queue = <<>>
        /\ caller' = [caller EXCEPT ![c] = Idle]
        /\ UNCHANGED <<st, queue>>
  /\ UNCHANGED <<config, msg, result, by, since, version, cacheVars, rebuildVars,
                 outstanding, shutdown, faults>>

CallerSend(c) ==
  /\ caller[c].pc = "taken"
  /\ outstanding' = outstanding + 1
  /\ st' = [st EXCEPT ![caller[c].req[1]] = "sent"]
  /\ caller' = [caller EXCEPT ![c].pc = "loop", ![c].req = <<>>]
  /\ UNCHANGED <<config, msg, result, by, since, version, cacheVars, rebuildVars, queue,
                 shutdown, faults>>

Accepted(a) == a.status = "accepted" /\ a.cost = "valid"

AnswerStatus(a) ==
  CASE Accepted(a) -> "ROK"
    [] a.status = "refused" /\ a.error = "other" -> "other"
    [] OTHER -> "RSUBMITFAIL"

\* A header that is not empty replaces the field, ...
Override(header, old) == IF header = NoId THEN old ELSE header

\* Mutant: whatever the direction.
OverriddenAll(a, r) ==
  [smsc_id |-> Override(a.smsc_id, msg[r].smsc_id),
   service |-> Override(a.service, msg[r].service)]

\* ... but not the service of an outbound and the smsc of an inbound message.
Overridden(a, r) ==
  [smsc_id |-> IF Dir[r] = "in" THEN msg[r].smsc_id ELSE Override(a.smsc_id, msg[r].smsc_id),
   service |-> IF Dir[r] = "out" THEN msg[r].service ELSE Override(a.service, msg[r].service)]

\* Mutant: the counter goes down only for messages that are routed.
ReceiveCountsAccepted(r, a) ==
  /\ st[r] = "sent"
  /\ outstanding' = IF Accepted(a) THEN outstanding - 1 ELSE outstanding
  /\ msg' = IF Accepted(a) THEN [msg EXCEPT ![r] = Overridden(a, r)] ELSE msg
  /\ Callback(r, AnswerStatus(a), IF Accepted(a) THEN 1 ELSE 0)
  /\ UNCHANGED <<config, by, since, version, cacheVars, rebuildVars, queue, caller, shutdown,
                 faults>>

\* smpp_http_client_receive_thread
Receive(r, a) ==
  /\ st[r] = "sent"
  /\ outstanding' = outstanding - 1
  /\ msg' = IF Accepted(a) THEN [msg EXCEPT ![r] = Overridden(a, r)] ELSE msg
  /\ Callback(r, AnswerStatus(a), IF Accepted(a) THEN 1 ELSE 0)
  /\ UNCHANGED <<config, by, since, version, cacheVars, rebuildVars, queue, caller, shutdown,
                 faults>>

Shutdown ==
  /\ config.method = "http" /\ config.stops /\ ~shutdown
  /\ shutdown' = TRUE
  /\ UNCHANGED <<config, msgVars, version, cacheVars, rebuildVars, queue, caller, outstanding,
                 faults>>

\* smpp_http_client_route_shutdown, when the callers have ended: what is still
\* queued is destroyed, and nobody receives what is still outstanding.
RouteShutdown ==
  /\ shutdown /\ \A c \in Caller : caller[c].pc = "idle"
  /\ queue' = <<>> /\ outstanding' = 0
  /\ st' = [r \in Req |-> IF st[r] \in {"queued", "sent"} THEN "dropped" ELSE st[r]]
  /\ UNCHANGED <<config, msg, result, by, since, version, cacheVars, rebuildVars, caller,
                 shutdown, faults>>

-----------------------------------------------------------------------------

DatabaseStep(r) ==
  \/ Unroutable(r) \/ LookupInbound(r) \/ LookupOutbound(r) \/ ReadOutbound(r)
  \/ PutOutbound(r) \/ Match(r)

CallerStep(c) == CallerCheck(c) \/ CallerRoom(c) \/ CallerConsume(c) \/ CallerSend(c)

Next ==
  \/ \E r \in Req : RouteDatabase(r) \/ DatabaseStep(r) \/ RouteHttp(r)
  \/ \E r \in Req : \E a \in config.answers : Receive(r, a)
  \/ \E c \in Caller : CallerStep(c)
  \/ Edit \/ RebuildRead \/ RebuildSwap
  \/ Shutdown \/ RouteShutdown

Spec == Init /\ [][Next]_vars

\* The threads that route go on, callers poll, and the HTTP client answers or
\* times out.
Fairness ==
  /\ \A r \in Req : WF_vars(DatabaseStep(r)) /\ WF_vars(\E a \in config.answers : Receive(r, a))
  /\ \A c \in Caller : WF_vars(CallerStep(c))
  /\ WF_vars(RouteShutdown)

FairSpec == Spec /\ Fairness

-----------------------------------------------------------------------------
(* Properties *)

\* "You MUST run this if you change routes in the database": once rebuild-
\* routes has answered, no message is routed by what was read before that
\* rebuild, neither an edit it has missed nor the empty list of a failed query.
RebuildTakesEffect ==
  \A r \in Req : st[r] = "match" => by[r].read >= since[r]

\* The rows that take the receiver of r, the sender being allowed or not
Eligible(v, r) ==
  {row \in Usable(v, Dir[r], Service[r]) : Takes(row, r)}

\* What the route table says of r: the row of the highest priority among those
\* that take receiver and sender; without one, whether the sender is to blame.
RoutedAsConfigured ==
  \A r \in Req :
    config.method = "database" /\ st[r] = "done" /\ Dir[r] # "none" /\ by[r].rows # Failed =>
      LET takers == {row \in Eligible(by[r].rows, r) : ~Declines(row, Sender[r])}
      IN \/ \E best \in takers :
              /\ \A row \in takers : row.priority <= best.priority
              /\ result[r] = [status |-> "ROK", cost |-> best.cost]
              /\ IF Dir[r] = "out" THEN msg[r].smsc_id = best.smsc_id
                                   ELSE msg[r].service = best.system_id
         \/ /\ takers = {}
            /\ result[r].status =
                 IF Eligible(by[r].rows, r) = {} THEN "RINVDSTADR" ELSE "RINVSRCADR"

\* No router changes who an outbound message is charged to, or which smsc an
\* inbound message came from.
OriginKept ==
  \A r \in Req : /\ Dir[r] = "out" => msg[r].service = Service[r]
                 /\ Dir[r] = "in" => msg[r].smsc_id = SmscId[r]

\* Each caller compares the counter with the limit on its own, and may send
\* the whole limit before it looks again.
OutstandingBounded == outstanding <= Cardinality(Caller) * config.max

\* A message that waits for its route gets its callback, unless the server
\* shuts down: the limit on outstanding requests never closes for good.
Routed == \A r \in Req : st[r] # "new" ~> st[r] = "done" \/ shutdown

=============================================================================
