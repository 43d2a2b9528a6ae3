----------------------------- MODULE PduConvert -----------------------------
(***************************************************************************)
(* The conversions of smpp_pdu_util.c and what they do to one message on   *)
(* its way through the server: a submit_sm or data_sm becomes a Kannel     *)
(* message, the message gets its DLR-URL, and bearerbox later hands back a *)
(* report or a reply, which becomes deliver_sm PDUs for the ESME.          *)
(* An address is a sequence of chunks, a leading "+", a leading "00", runs *)
(* of digits and of letters; a text is a sequence of octets; a DLR-URL is  *)
(* the sequence of its fields between the bars.  Times are in seconds.     *)
(***************************************************************************)
EXTENDS Integers, Sequences, SequencesExt

CONSTANTS
  Account,     \* system_ids, each the sequence of its fields between bars
  Versions,    \* interface_version of the bind
  Pdus,        \* the submissions, as records (see SubmitSmToMsg)
  Chunk,       \* pieces of addresses other than "+" and "00"
  Size,        \* their length in octets
  Numeric,     \* those that consist of digits
  DcsCoding,   \* what dcs_to_fields makes of each data_coding
  Masks,       \* dlr_mask of the reports bearerbox sends
  Texts,       \* what is in a report's msgdata, as records (see ParseDlrShortMessage)
  Foreign,     \* DLR-URLs of reports that are not about a submission of ours
  Now,         \* the time of all conversions
  Clock,       \* the same as the hour and minute of a date
  Zone,        \* the server's offset from UTC now
  PartSize     \* octets that sms_split puts in one part

ASSUME ChunkAssumption ==
  /\ {"+", "00"} \cap Chunk = {} /\ Numeric \subseteq Chunk
  /\ Size \in [Chunk -> Nat \ {0}]
ASSUME ClockAssumption == {Now, Zone} \subseteq Int /\ PartSize \in Nat \ {0}
ASSUME AccountAssumption == Account \subseteq Seq(STRING) \ {<<>>}
ASSUME ReportAssumption ==
  /\ Masks \subseteq {"UNDEFINED", "NOTHING", "SUCCESS", "BUFFERED", "SMSC_SUCCESS", "FAIL",
                      "SMSC_FAIL"}
  /\ \A text \in Texts : DOMAIN text.submit \cup DOMAIN text.done \subseteq DOMAIN Clock

VARIABLES
  stage,   \* how far the message has come
  esme,    \* the bind that submits: system_id and version
  pdu,     \* what it submits
  msg,     \* the Kannel message
  reason,  \* command_status of the response
  report,  \* what bearerbox hands back
  target,  \* the account the report is for, <<>> when it names none
  pdulist  \* the deliver_sm PDUs made of it, <<>> when there is no list

vars == <<stage, esme, pdu, msg, reason, report, target, pdulist>>

-----------------------------------------------------------------------------
(* Addresses *)

Width(c) == IF c = "+" THEN 1 ELSE IF c = "00" THEN 2 ELSE Size[c]
Octets(addr) ==
  LET upTo[i \in 0 .. Len(addr)] == IF i = 0 THEN 0 ELSE upTo[i - 1] + Width(addr[i])
  IN upTo[Len(addr)]

StartsWith(addr, c) == addr # <<>> /\ Head(addr) = c

\* octstr_check_range(..., gw_isdigit), behind a leading '+' if there is one
AllDigits(addr) ==
  \A i \in DOMAIN addr : addr[i] \in Numeric \cup {"00"} \/ (i = 1 /\ addr[i] = "+")

INTERNATIONAL == 1
NATIONAL == 2
ALPHANUMERIC == 5

\* smpp_pdu_util_convert_addr: an international number loses '00' and gets '+';
\* one that is not a number is refused when it has 7 octets or more.
ConvertAddr(addr, ton) ==
  LET bare == IF StartsWith(addr, "00") THEN Tail(addr) ELSE addr IN
  IF addr = <<>> \/ ton # INTERNATIONAL THEN [reason |-> "ROK", addr |-> addr]
  ELSE IF Octets(addr) >= 7 /\ ~AllDigits(addr) THEN [reason |-> "RINVSRCADR", addr |-> addr]
  ELSE [reason |-> "ROK", addr |-> IF StartsWith(bare, "+") THEN bare ELSE <<"+">> \o bare]

\* smpp_pdu_msg_to_pdu, source address
SourceAddr(addr) ==
  CASE addr # <<>> /\ ~AllDigits(addr) -> [ton |-> ALPHANUMERIC, addr |-> addr]
    [] StartsWith(addr, "+") /\ AllDigits(addr) -> [ton |-> INTERNATIONAL, addr |-> Tail(addr)]
    [] OTHER -> [ton |-> NATIONAL, addr |-> addr]

\* Mutant: the type of number is not set when '+' is removed.
DestinationAddrNational(addr) ==
  [ton |-> NATIONAL, addr |-> IF StartsWith(addr, "+") THEN Tail(addr) ELSE addr]

\* smpp_pdu_msg_to_pdu, destination address
DestinationAddr(addr) ==
  IF StartsWith(addr, "+") THEN [ton |-> INTERNATIONAL, addr |-> Tail(addr)]
                           ELSE [ton |-> NATIONAL, addr |-> addr]

-----------------------------------------------------------------------------
(* Submissions *)

\* smpp_pdu.def of Kannel gives an address at most 20 octets.
ASSUME PduAssumption ==
  \A p \in Pdus :
    /\ \A addr \in {p.source_addr, p.destination_addr} :
         addr \in Seq(Chunk \cup {"+", "00"}) /\ Octets(addr) <= 20
    /\ {p.short_message, p.payload} \subseteq Seq(0 .. 255)
    /\ p.sar \in [ref : Int, seq : Int, total : Int] /\ p.udhi \in BOOLEAN
    /\ {p.validity.at, p.validity.quarters, p.validity.offset} \subseteq Int

\* smpp_pdu_util_compute_inbound_dcs: the coding, and whether the text is
\* converted to UTF-8
ComputeInboundDcs(dcs, udhi) ==
  LET coding == DcsCoding[dcs] IN
  CASE dcs = 1 -> [coding |-> "7BIT", recoded |-> FALSE]
    [] dcs \in {0, 3, 5, 6, 7, 13, 14} -> [coding |-> "7BIT", recoded |-> TRUE]
    [] dcs \in {2, 4} -> [coding |-> "8BIT", recoded |-> FALSE]
    [] dcs = 8 -> [coding |-> "UCS2", recoded |-> FALSE]
    [] dcs \notin 0 .. 8 \cup {13, 14} /\ coding = "UNDEF" /\ udhi ->
         [coding |-> "8BIT", recoded |-> FALSE]
    [] dcs \notin 0 .. 8 \cup {13, 14} /\ (coding = "7BIT" \/ (coding = "UNDEF" /\ ~udhi)) ->
         [coding |-> "7BIT", recoded |-> TRUE]
    [] OTHER -> [coding |-> coding, recoded |-> FALSE]

CeilingOfMinutes(s) == -((-s) \div 60)

\* Mutant: the difference to UTC is applied the wrong way round.
TimestampToMinutesSwapped(t) ==
  CASE t.form = "+" -> CeilingOfMinutes(t.at + t.quarters * 900 - t.offset + Zone - Now)
    [] t.form = "-" -> CeilingOfMinutes(t.at - t.quarters * 900 - t.offset + Zone - Now)
    [] t.form = "R" -> CeilingOfMinutes(t.at)
    [] OTHER -> -1

\* timestamp_to_minutes.  mktime takes the fields for local time, with the
\* offset that will hold then; the offset that holds now is put back.
TimestampToMinutes(t) ==
  CASE t.form = "+" -> CeilingOfMinutes(t.at - t.quarters * 900 - t.offset + Zone - Now)
    [] t.form = "-" -> CeilingOfMinutes(t.at + t.quarters * 900 - t.offset + Zone - Now)
    [] t.form = "R" -> CeilingOfMinutes(t.at)
    [] OTHER -> -1

\* prepend_catenation_udh of Kannel: the element joins the header there is
CatenationUdh(udh, sar) ==
  LET h == IF udh = <<>> THEN <<0>> ELSE udh IN
  <<Head(h) + 5>> \o Tail(h) \o <<0, 3, sar.ref, sar.total, sar.seq>>

\* The text of the submission: a data_sm has its payload only.
Content(p, version) ==
  IF p.type = "data_sm" \/ (version > 51 /\ p.short_message = <<>>)
  THEN p.payload ELSE p.short_message

\* The TLVs of a segment are looked at from version 3.4 on.
HasSar(p, version) == version > 51 /\ p.sar.ref >= 0 /\ p.sar.seq > 0 /\ p.sar.total > 0

\* octstr_get_char is -1 for an empty text
UdhLength(text) == IF text = <<>> THEN 0 ELSE Head(text) + 1

\* The first error that smpp_submit_sm_to_msg and smpp_data_sm_to_msg meet
Refusal(p, version) ==
  LET text == Content(p, version) IN
  IF ConvertAddr(p.source_addr, p.source_ton).reason # "ROK" THEN "RINVSRCADR"
  ELSE IF p.destination_addr = <<>> THEN "RINVDSTADR"
  ELSE IF ConvertAddr(p.destination_addr, p.dest_ton).reason # "ROK" THEN "RINVSRCADR"
  ELSE IF HasSar(p, version) /\ p.udhi THEN "RINVTLVVAL"
  ELSE IF p.udhi /\ UdhLength(text) > Len(text) THEN "RINVESMCLASS"
  ELSE "ROK"

\* Mutant: the length octet itself is not counted.
HeaderShort(p, version) ==
  LET text == Content(p, version) IN
  CASE p.udhi -> SubSeq(text, 1, UdhLength(text) - 1)
    [] ~p.udhi /\ HasSar(p, version) -> CatenationUdh(<<>>, p.sar)
    [] OTHER -> <<>>

\* udhdata of the message
Header(p, version) ==
  LET text == Content(p, version) IN
  CASE p.udhi -> SubSeq(text, 1, UdhLength(text))
    [] ~p.udhi /\ HasSar(p, version) -> CatenationUdh(<<>>, p.sar)
    [] OTHER -> <<>>

\* smpp_submit_sm_to_msg, smpp_data_sm_to_msg: the message when nothing is wrong
SubmitSmToMsg(p, version) ==
  LET text == Content(p, version) IN
  [sender   |-> ConvertAddr(p.source_addr, p.source_ton).addr,
   receiver |-> ConvertAddr(p.destination_addr, p.dest_ton).addr,
   udhdata  |-> Header(p, version),
   msgdata  |-> IF p.udhi THEN SubSeq(text, UdhLength(text) + 1, Len(text)) ELSE text,
   dcs      |-> ComputeInboundDcs(p.data_coding, p.udhi),
   validity |-> IF p.type = "data_sm" \/ p.validity.form = "absent" THEN -1
                ELSE Now + TimestampToMinutes(p.validity) * 60,
   dlr_url  |-> <<>>]

\* smpp_queues_msg_set_dlr_url: system_id|time|uuid.  The last field is the
\* sequence of ids, of which the server itself puts one.
MsgSetDlrUrl(m, system_id) == [m EXCEPT !.dlr_url = system_id \o <<"time", <<"uuid">>>>]

-----------------------------------------------------------------------------
(* Reports and replies *)

\* smpp_pdu_get_system_id_from_dlr_url: what is before the first bar
GetSystemIdFromDlrUrl(url) == IF Len(url) > 1 THEN <<Head(url)>> ELSE <<>>

\* smpp_time_to_c_time: what is zero or missing is taken from the clock
SmppTimeToCTime(date) ==
  [f \in DOMAIN Clock |-> IF f \in DOMAIN date /\ date[f] > 0 THEN date[f] ELSE Clock[f]]

\* parse_dlr_short_message fails when there is neither an id nor a status
Unreadable(text) == text.id = "" /\ text.stat = ""
ParseDlrShortMessage(text) ==
  [stat |-> text.stat, err |-> text.err,
   submit |-> SmppTimeToCTime(text.submit), done |-> SmppTimeToCTime(text.done)]

\* Mutant: a message that the SMSC buffers counts as delivered.
DlrStateBufferedIsSuccess(mask) ==
  CASE mask \in {"UNDEFINED", "NOTHING"} -> 8
    [] mask \in {"SUCCESS", "BUFFERED"} -> 2
    [] mask = "SMSC_SUCCESS" -> 0
    [] mask \in {"FAIL", "SMSC_FAIL"} -> 5

\* message_state by the type of the report
DlrState(mask) ==
  CASE mask \in {"UNDEFINED", "NOTHING"} -> 8
    [] mask = "SUCCESS" -> 2
    [] mask = "BUFFERED" -> 6
    [] mask = "SMSC_SUCCESS" -> 0
    [] mask \in {"FAIL", "SMSC_FAIL"} -> 5

\* smpp_pdu_msg_to_pdu refuses addresses that deliver_sm cannot carry.
BadAddresses(m) ==
  LET n == Octets(DestinationAddr(m.receiver).addr) IN
  n = 0 \/ n > 20 \/ Octets(SourceAddr(m.sender).addr) > 20

\* One receipt: the addresses change places.
Receipt(m, id, version) ==
  LET parsed == ParseDlrShortMessage(m.text) IN
  [source |-> DestinationAddr(m.receiver), destination |-> SourceAddr(m.sender), id |-> id,
   receipted_message_id |-> IF version > 51 THEN id ELSE "none",
   message_state |-> IF version <= 51 THEN -1 ELSE IF m.expired THEN 3 ELSE DlrState(m.mask),
   dlvrd |-> m.mask = "SUCCESS", stat |-> parsed.stat,
   err |-> IF m.mask \in {"FAIL", "SMSC_FAIL"} /\ parsed.err = 0 THEN 1 ELSE parsed.err,
   submit |-> parsed.submit, done |-> parsed.done]

\* Mutant: more than three fields are accepted, the last ones count.
ReportToPduAnyFields(m, version) ==
  IF BadAddresses(m) \/ Len(m.dlr_url) < 3 \/ Unreadable(m.text) THEN <<>>
  ELSE LET ids == m.dlr_url[Len(m.dlr_url)] IN
       [i \in DOMAIN ids |-> Receipt(m, ids[i], version)]

\* smpp_pdu_msg_to_pdu for a report: one receipt per id of a DLR-URL with
\* exactly three fields.  A URL no longer than a UUID stands among those with fewer.
ReportToPdu(m, version) ==
  IF BadAddresses(m) \/ Len(m.dlr_url) # 3 \/ Unreadable(m.text) THEN <<>>
  ELSE [i \in DOMAIN m.dlr_url[3] |-> Receipt(m, m.dlr_url[3][i], version)]

\* sms_split of Kannel: parts that fit, with a header each when there are several
SmsSplit(m) ==
  LET n == (Len(m.msgdata) + PartSize - 1) \div PartSize IN
  IF n <= 1 THEN <<[udhdata |-> m.udhdata, msgdata |-> m.msgdata]>>
  ELSE [i \in 1 .. n |->
          [udhdata |-> CatenationUdh(m.udhdata, [ref |-> 0, total |-> n, seq |-> i]),
           msgdata |-> SubSeq(m.msgdata, (i - 1) * PartSize + 1, Min({i * PartSize, Len(m.msgdata)}))]]

\* Mutant: the header is sent without its indicator.
ReplyPartNoIndicator(m, part) ==
  [source |-> SourceAddr(m.sender), destination |-> DestinationAddr(m.receiver),
   udhi |-> FALSE, short_message |-> part.udhdata \o part.msgdata]

\* smpp_pdu_msg_to_pdu for anything else, one part
ReplyPart(m, part) ==
  [source |-> SourceAddr(m.sender), destination |-> DestinationAddr(m.receiver),
   udhi |-> part.udhdata # <<>>, short_message |-> part.udhdata \o part.msgdata]

ReplyToPdu(m) ==
  IF BadAddresses(m) THEN <<>>
  ELSE LET parts == SmsSplit(m) IN [i \in DOMAIN parts |-> ReplyPart(m, parts[i])]

-----------------------------------------------------------------------------
NoPdu == [type |-> "none"]
NoMsg == [dlr_url |-> <<>>]

Init ==
  /\ stage = "idle"
  /\ esme \in [system_id : Account, version : Versions]
  /\ pdu = NoPdu /\ msg = NoMsg /\ reason = "ROK"
  /\ report = NoMsg /\ target = <<>> /\ pdulist = <<>>

\* The inbound handler converts the submission and answers a refusal.
Submit(p) ==
  /\ stage = "idle"
  /\ pdu' = p /\ reason' = Refusal(p, esme.version)
  /\ \/ reason' = "ROK" /\ stage' = "accepted" /\ msg' = SubmitSmToMsg(p, esme.version)
     \/ reason' # "ROK" /\ stage' = "refused" /\ msg' = NoMsg
  /\ UNCHANGED <<esme, report, target, pdulist>>

\* smpp_queues_submit_routing_done hands the message to bearerbox.
RoutingDone ==
  /\ stage = "accepted"
  /\ stage' = "sent" /\ msg' = MsgSetDlrUrl(msg, esme.system_id)
  /\ UNCHANGED <<esme, pdu, reason, report, target, pdulist>>

\* bearerbox reports on the message: its addresses and its DLR-URL come back.
\* The URL names the account whose bind gets the PDUs; it has our version here.
Deliver(r) ==
  /\ report' = r /\ target' = GetSystemIdFromDlrUrl(r.dlr_url)
  /\ pdulist' = IF target' = <<>> THEN <<>> ELSE ReportToPdu(r, esme.version)

Report(mask, text, expired) ==
  /\ stage = "sent"
  /\ stage' = "reported"
  /\ Deliver([sender |-> msg.sender, receiver |-> msg.receiver, dlr_url |-> msg.dlr_url,
              mask |-> mask, text |-> text, expired |-> expired])
  /\ UNCHANGED <<esme, pdu, msg, reason>>

\* A report with the DLR-URL of somebody else's message
ReportForeign(url, text) ==
  /\ stage = "sent"
  /\ stage' = "foreign"
  /\ Deliver([sender |-> msg.sender, receiver |-> msg.receiver, dlr_url |-> url,
              mask |-> "SUCCESS", text |-> text, expired |-> FALSE])
  /\ UNCHANGED <<esme, pdu, msg, reason>>

\* The receiver of the message replies with what it got.
Reply ==
  /\ stage = "sent"
  /\ stage' = "replied"
  /\ report' = [sender |-> msg.receiver, receiver |-> msg.sender, dlr_url |-> <<>>,
                udhdata |-> msg.udhdata, msgdata |-> msg.msgdata]
  /\ pdulist' = ReplyToPdu(report')
  /\ UNCHANGED <<esme, pdu, msg, reason, target>>

\* The next submission
Again ==
  /\ stage \in {"refused", "reported", "foreign", "replied"}
  /\ stage' = "idle"
  /\ pdu' = NoPdu /\ msg' = NoMsg /\ reason' = "ROK"
  /\ report' = NoMsg /\ target' = <<>> /\ pdulist' = <<>>
  /\ UNCHANGED esme

Next ==
  \/ \E p \in Pdus : Submit(p)
  \/ RoutingDone \/ Reply \/ Again
  \/ \E text \in Texts :
       \/ \E mask \in Masks, expired \in BOOLEAN : Report(mask, text, expired)
       \/ \E url \in Foreign : ReportForeign(url, text)

Spec == Init /\ [][Next]_vars

-----------------------------------------------------------------------------
(* Properties *)

\* The number an address stands for: the prefixes of an international one
\* are not part of it, however its type is given.
Denotes(ton, addr) ==
  LET bare == IF ton = INTERNATIONAL /\ StartsWith(addr, "00") THEN Tail(addr) ELSE addr IN
  CASE StartsWith(bare, "+") /\ AllDigits(bare) -> [intl |-> TRUE, number |-> Tail(bare)]
    [] OTHER -> [intl |-> ton = INTERNATIONAL, number |-> bare]

\* Letters under an international type, which only an address shorter than 7
\* octets may have: '+' is put in front of them and not taken away again.
Mistyped(ton, addr) == ton = INTERNATIONAL /\ ~AllDigits(addr)
PlusAndLetters(addr) == StartsWith(addr, "+") /\ ~AllDigits(addr)

SameNumber(submitted, ton, delivered) ==
  \/ Mistyped(ton, submitted) \/ PlusAndLetters(submitted)
  \/ submitted = <<>> /\ delivered.addr = <<>>
  \/ Denotes(ton, submitted) = [intl |-> delivered.ton = INTERNATIONAL, number |-> delivered.addr]

\* What comes back about a message is from the number it was submitted to and
\* for the number it was submitted from, whatever prefixes and type of number
\* the ESME had used: two conversions in opposite directions agree.
AddressesComeBack ==
  stage \in {"reported", "replied"} /\ pdulist # <<>> =>
    \A i \in DOMAIN pdulist :
      /\ SameNumber(pdu.destination_addr, pdu.dest_ton, pdulist[i].source)
      /\ SameNumber(pdu.source_addr, pdu.source_ton, pdulist[i].destination)

\* A report on an accepted message becomes exactly one receipt, with the
\* message's id, if its text says anything, its destination is more than a
\* prefix and the system_id has no bar in it.  No receipt is ever made for
\* another account: a system_id with a bar names another one in the URL, but
\* then the URL has too many fields.
ReceiptArrives ==
  stage = "reported" =>
    /\ \/ Unreadable(report.text)
       \/ Denotes(pdu.dest_ton, pdu.destination_addr).number = <<>>
       \/ Len(esme.system_id) > 1
       \/ pdulist # <<>> /\ Len(pdulist) = 1 /\ pdulist[1].id = "uuid"
    /\ pdulist # <<>> => target = esme.system_id

\* Receipts say what the report said: delivered only when it was, a failure
\* never with the error code of success, and the SMSC's own dates except for
\* hours and minutes that are zero, which the conversion takes from the clock.
ReceiptTruthful ==
  stage = "reported" /\ pdulist # <<>> =>
    \A i \in DOMAIN pdulist :
      /\ pdulist[i].message_state = 2 => report.mask = "SUCCESS"
      /\ report.mask \in {"FAIL", "SMSC_FAIL"} => pdulist[i].err # 0
      /\ \A f \in DOMAIN report.text.done :
           report.text.done[f] > 0 => pdulist[i].done[f] = report.text.done[f]

\* No octet of the text is lost or moved: header and text together are what
\* was submitted, behind the header the server makes of the segment TLVs, the
\* header is as long as it says it is, and binary text is not converted.
ContentKept ==
  stage = "accepted" =>
    LET text == Content(pdu, esme.version) IN
    /\ msg.udhdata \o msg.msgdata
         = (IF HasSar(pdu, esme.version) THEN CatenationUdh(<<>>, pdu.sar) ELSE <<>>) \o text
    /\ msg.udhdata # <<>> => Len(msg.udhdata) = msg.udhdata[1] + 1
    /\ pdu.udhi /\ text # <<>> => msg.udhdata # <<>>
    /\ msg.dcs.coding # "7BIT" => ~msg.dcs.recoded

\* A reply keeps its octets in order over its parts, and a part that starts
\* with a header says so.
ReplyKept ==
  stage = "replied" /\ pdulist # <<>> =>
    /\ \A i \in DOMAIN pdulist :
         pdulist[i].udhi => Len(pdulist[i].short_message) > pdulist[i].short_message[1]
    /\ FlattenSeq([i \in DOMAIN pdulist |->
                     LET s == pdulist[i].short_message IN
                     IF pdulist[i].udhi THEN SubSeq(s, s[1] + 2, Len(s)) ELSE s])
         = report.msgdata

\* The instant a validity period asks for
Asked(t) ==
  CASE t.form = "+" -> t.at - t.quarters * 900
    [] t.form = "-" -> t.at + t.quarters * 900
    [] OTHER -> Now + t.at

\* A well-formed validity period is kept to the minute and never shortened,
\* in whatever zone it is given and the server runs, unless the server's own
\* offset changes before it ends.
ValidityKept ==
  stage = "accepted" /\ pdu.type = "submit_sm" /\ pdu.validity.form \in {"+", "-", "R"}
    /\ pdu.validity.offset = Zone =>
    msg.validity - Asked(pdu.validity) \in 0 .. 59

=============================================================================
