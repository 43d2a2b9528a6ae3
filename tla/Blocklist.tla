------------------------------ MODULE Blocklist ------------------------------
(***************************************************************************)
(* Who may connect: the IP block list of smpp_listener.c and what feeds    *)
(* it.  An address gathers a failure for every bind that smpp_esme_auth    *)
(* refuses, in an inbound queue thread, and for every connection that ends *)
(* before it is authenticated, in the listener thread; the listener turns  *)
(* new connections away while there are too many.  The list is forgotten   *)
(* by the next connection that comes ip-blocklist-time after the last      *)
(* failure.  What a bound ESME does is the business of EsmeLifecycle.      *)
(***************************************************************************)
EXTENDS Integers, Sequences, FiniteSets

CONSTANTS
  Conn,          \* the connections ever attempted
  Ip,            \* the addresses, as sequences of four octets
  Peers,         \* where the connections may come from, functions [Conn -> Ip]
  Literals,      \* the addresses that occur in the text of ip-blocklist-exempt-ips
  Patterns,      \* its IPv4 patterns, sequences of four octets or "*"
  Answers,       \* what the backend may answer to credentials
  AllowIp,       \* connect_allow_ip of the account: addresses, {} for no limit
  BlockTime,     \* ip-blocklist-time
  Attempts,      \* ip-blocklist-attempts
  MaxErrors,     \* SMPP_ESME_MAX_CONSECUTIVE_ERRORS
  MaxTime,       \* bound: seconds
  MaxBindPdu     \* bound: bind requests per connection

\* What smpp_http_client_auth gets to see: a reply or none, and in it the
\* header x-ksmppd-auth; full: the account has max_binds binds.
Answer == [ok : BOOLEAN, auth : {"absent", "zero", "set"}, full : BOOLEAN]

ASSUME AddressAssumption ==
  Peers \subseteq [Conn -> Ip] /\ Literals \subseteq Ip
ASSUME AnswerAssumption == Answers \subseteq Answer
ASSUME LimitAssumption ==
  BlockTime \in Nat /\ Attempts \in Nat \ {0} /\ MaxErrors \in Nat \ {0}
ASSUME BoundAssumption == MaxTime \in Nat /\ MaxBindPdu \in Nat

VARIABLES
  ip,        \* smpp_esme->ip
  now,       \* time(NULL)
  listed,    \* smpp_server->ip_blocklist: [attempts, time_blocked] of each address
  st,        \* each connection: absent, rejected, open, stopped
  authed,    \* smpp_esme->authenticated
  errors,    \* smpp_esme->errors
  sent,      \* binds read from it
  inq,       \* binds of it in inbound_queue
  refusal,   \* a response with the disconnect flag is in outbound_queue
  failures   \* history: the times of the failures of each connection

connVars == <<st, authed, errors>>
pduVars == <<sent, inq, refusal>>
vars == <<ip, now, listed, connVars, pduVars, failures>>

TypeOK ==
  /\ ip \in Peers /\ now \in 0 .. MaxTime
  /\ listed \in [Ip -> [attempts : Nat, time_blocked : 0 .. MaxTime]]
  /\ st \in [Conn -> {"absent", "rejected", "open", "stopped"}]
  /\ authed \in [Conn -> BOOLEAN] /\ errors \in [Conn -> 0 .. MaxErrors]
  /\ sent \in [Conn -> 0 .. MaxBindPdu] /\ inq \in [Conn -> 0 .. MaxBindPdu]
  /\ refusal \in [Conn -> BOOLEAN]
  /\ failures \in [Conn -> Seq(0 .. MaxTime)]

Init ==
  /\ ip \in Peers /\ now = 0
  /\ listed = [i \in Ip |-> [attempts |-> 0, time_blocked |-> 0]]
  /\ st = [c \in Conn |-> "absent"]
  /\ authed = [c \in Conn |-> FALSE] /\ errors = [c \in Conn |-> 0]
  /\ sent = [c \in Conn |-> 0] /\ inq = [c \in Conn |-> 0]
  /\ refusal = [c \in Conn |-> FALSE]
  /\ failures = [c \in Conn |-> <<>>]

-----------------------------------------------------------------------------
(* The block list *)

\* smpp_listener_ipv4_wildcard_match
WildcardMatch(pattern, addr) ==
  Len(pattern) = 4 /\ Len(addr) = 4 /\ \A i \in 1 .. 4 : pattern[i] \in {"*", addr[i]}

\* smpp_listener_ip_blocklist_exempt
Exempt(addr) == addr \in Literals \/ \E p \in Patterns : WildcardMatch(p, addr)

\* smpp_listener_auth_failed
AuthFailed(c) ==
  /\ listed' = IF Exempt(ip[c]) THEN listed
               ELSE [listed EXCEPT ![ip[c]] = [attempts |-> @.attempts + 1, time_blocked |-> now]]
  /\ failures' = [failures EXCEPT ![c] = Append(@, now)]

\* Mutant: the block is lifted a second early.
ElapsedEarly(addr) == now - listed[addr].time_blocked >= BlockTime

\* smpp_listener_ip_is_blocked: the time has elapsed, and the list forgets; ...
Elapsed(addr) == now - listed[addr].time_blocked > BlockTime

\* ... or it has not, and there were too many failures.
Blocked(addr) ==
  ~Exempt(addr) /\ ~Elapsed(addr) /\ listed[addr].attempts >= Attempts

\* Mutant: turning somebody away counts as another failure.
ForgottenOrProlonged(addr) ==
  CASE ~Exempt(addr) /\ Elapsed(addr) ->
         [listed EXCEPT ![addr] = [attempts |-> 0, time_blocked |-> 0]]
    [] Blocked(addr) -> [listed EXCEPT ![addr].time_blocked = now]
    [] OTHER -> listed

Forgotten(addr) ==
  IF ~Exempt(addr) /\ Elapsed(addr)
  THEN [listed EXCEPT ![addr] = [attempts |-> 0, time_blocked |-> 0]]
  ELSE listed

-----------------------------------------------------------------------------
(* The listener thread *)

\* smpp_listener_connection_callback
Connect(c) ==
  /\ st[c] = "absent"
  /\ st' = [st EXCEPT ![c] = IF Blocked(ip[c]) THEN "rejected" ELSE "open"]
  /\ listed' = Forgotten(ip[c])
  /\ UNCHANGED <<ip, now, authed, errors, pduVars, failures>>

\* smpp_listener_event with a PDU
ReadBind(c) ==
  /\ st[c] = "open" /\ sent[c] < MaxBindPdu
  /\ errors' = [errors EXCEPT ![c] = 0]
  /\ sent' = [sent EXCEPT ![c] = @ + 1] /\ inq' = [inq EXCEPT ![c] = @ + 1]
  /\ UNCHANGED <<ip, now, listed, st, authed, refusal, failures>>

\* Mutant: the connection goes on being read.
EndConnectionListens(c) ==
  /\ \/ authed[c] /\ UNCHANGED <<listed, failures>>
     \/ ~authed[c] /\ AuthFailed(c)
  /\ UNCHANGED st

\* smpp_esme_stop_listening; a connection that is not authenticated counts as
\* a failure, whether or not a refused bind of it has counted already.
EndConnection(c) ==
  /\ st' = [st EXCEPT ![c] = "stopped"]
  /\ \/ authed[c] /\ UNCHANGED <<listed, failures>>
     \/ ~authed[c] /\ AuthFailed(c)

\* smpp_listener_event, the peer has closed the connection
PeerCloses(c) ==
  /\ st[c] = "open"
  /\ EndConnection(c)
  /\ UNCHANGED <<ip, now, authed, errors, pduVars>>

\* smpp_listener_event with something that is no PDU
Garbage(c) ==
  /\ st[c] = "open"
  /\ errors' = [errors EXCEPT ![c] = @ + 1]
  /\ \/ errors[c] + 1 < MaxErrors /\ UNCHANGED <<st, listed, failures>>
     \/ errors[c] + 1 >= MaxErrors /\ EndConnection(c)
  /\ UNCHANGED <<ip, now, authed, pduVars>>

-----------------------------------------------------------------------------
(* The queue threads *)

\* No reply, like no row or a failed query of the user table, is a refusal.
Accepts(answer) == answer.ok /\ answer.auth = "set"

\* smpp_esme_auth: credentials, allowed addresses, max_binds
Authenticated(c, answer) ==
  Accepts(answer) /\ (AllowIp = {} \/ ip[c] \in AllowIp) /\ ~answer.full

\* smpp_queues_handle_bind_pdu
HandleBind(c, answer) ==
  /\ inq[c] > 0
  /\ inq' = [inq EXCEPT ![c] = @ - 1]
  /\ \/ /\ Authenticated(c, answer)
        /\ authed' = [authed EXCEPT ![c] = TRUE]
        /\ UNCHANGED <<listed, failures, refusal>>
     \/ /\ ~Authenticated(c, answer)
        /\ AuthFailed(c)
        /\ refusal' = [refusal EXCEPT ![c] = TRUE]
        /\ UNCHANGED authed
  /\ UNCHANGED <<ip, now, st, errors, sent>>

\* smpp_queues_outbound_thread sends the response and disconnects.
SendRefusal(c) ==
  /\ refusal[c]
  /\ refusal' = [refusal EXCEPT ![c] = FALSE]
  /\ st' = [st EXCEPT ![c] = IF @ = "open" THEN "stopped" ELSE @]
  /\ UNCHANGED <<ip, now, listed, authed, errors, sent, inq, failures>>

Tick ==
  /\ now < MaxTime
  /\ now' = now + 1
  /\ UNCHANGED <<ip, listed, connVars, pduVars, failures>>

-----------------------------------------------------------------------------

Next ==
  \/ \E c \in Conn : \/ Connect(c) \/ ReadBind(c) \/ PeerCloses(c) \/ Garbage(c)
                     \/ SendRefusal(c)
                     \/ \E answer \in Answers : HandleBind(c, answer)
  \/ Tick

Spec == Init /\ [][Next]_vars

-----------------------------------------------------------------------------
(* Properties *)

\* The failures of an address, as pairs of a connection and an index
FailuresOf(addr) == {f \in Conn \X (1 .. MaxBindPdu + 1) :
                       ip[f[1]] = addr /\ f[2] \in DOMAIN failures[f[1]]}
Recent(addr) == {f \in FailuresOf(addr) : now - failures[f[1]][f[2]] <= BlockTime}

\* An address gets no connection while ip-blocklist-attempts or more of its
\* failures, counted by whichever thread, lie within ip-blocklist-time; that
\* the list is forgotten by a connection attempt never lets it in early.
AdmittedIsBelowLimit ==
  [][\A c \in Conn : st[c] = "absent" /\ st'[c] = "open" =>
       Exempt(ip[c]) \/ Cardinality(Recent(ip[c])) < Attempts]_vars

\* An address is turned away only within ip-blocklist-time of a failure, and
\* only after enough of them: being turned away does not prolong the block.
RejectedHasFailed ==
  [][\A c \in Conn : st[c] = "absent" /\ st'[c] = "rejected" =>
       /\ Recent(ip[c]) # {}
       /\ Cardinality(FailuresOf(ip[c])) >= Attempts]_vars

\* A connection is held against its address once for every bind it has sent
\* and once for ending unauthenticated, never again.
CountedOnce ==
  \A c \in Conn :
    Len(failures[c]) <= sent[c] - inq[c] + (IF st[c] = "stopped" THEN 1 ELSE 0)

=============================================================================
