--------------------------- MODULE MC_PduConvert ---------------------------
(* Submissions for PduConvert: every address in each place with the types of *)
(* number that are told apart, every combination of texts, headers and       *)
(* segment TLVs, and validity periods around the minute and in other zones.  *)
EXTENDS PduConvert

MCChunk == {"12", "123456", "20digits", "ab", "letters"}
MCSize == [c \in MCChunk |->
             CASE c \in {"12", "ab"} -> 2 [] c = "123456" -> 6 [] c = "letters" -> 7 [] OTHER -> 20]
MCDcsCoding == [d \in {0, 1, 4, 8, 240, 244, 192} |->
                  CASE d \in {0, 1, 240} -> "7BIT" [] d \in {4, 244} -> "8BIT"
                    [] d = 8 -> "UCS2" [] OTHER -> "UNDEF"]

Addresses ==
  {<<>>, <<"+">>, <<"00">>, <<"12">>, <<"ab">>, <<"+", "ab">>, <<"00", "+", "12">>, <<"123456">>,
   <<"+", "123456">>, <<"00", "123456">>, <<"00", "00", "123456">>, <<"+", "00", "123456">>,
   <<"letters">>, <<"+", "letters">>, <<"20digits">>}

NoSar == [ref |-> -1, seq |-> 0, total |-> 0]
NoValidity == [form |-> "absent", at |-> 0, quarters |-> 0, offset |-> Zone]

Plain ==
  [type |-> "submit_sm", source_addr |-> <<"123456">>, source_ton |-> NATIONAL,
   destination_addr |-> <<"+", "123456">>, dest_ton |-> INTERNATIONAL,
   short_message |-> <<65>>, payload |-> <<>>, sar |-> NoSar, udhi |-> FALSE, data_coding |-> 0,
   validity |-> NoValidity]

AddressPdus ==
  {[Plain EXCEPT !.source_addr = a, !.source_ton = t, !.destination_addr = b, !.dest_ton = u] :
     a \in Addresses, t \in {INTERNATIONAL, NATIONAL, ALPHANUMERIC},
     b \in {<<>>, <<"00", "123456">>}, u \in {INTERNATIONAL}}
  \cup
  {[Plain EXCEPT !.destination_addr = b, !.dest_ton = u] :
     b \in Addresses, u \in {INTERNATIONAL, NATIONAL}}

\* A header, one longer than the text, one octet, nothing, a text of three parts
MCTexts == {<<>>, <<0>>, <<1, 7, 8>>, <<5, 1>>, <<65, 66, 67, 68, 69>>}

ContentPdus ==
  {[Plain EXCEPT !.type = y, !.short_message = s, !.payload = l, !.sar = r, !.udhi = h,
                 !.data_coding = d] :
     y \in {"submit_sm"}, s \in MCTexts, l \in {<<>>, <<2, 7, 8, 9>>},
     r \in {NoSar, [ref |-> 3, seq |-> 1, total |-> 2], [ref |-> 3, seq |-> 0, total |-> 2]},
     h \in BOOLEAN, d \in DOMAIN MCDcsCoding}
  \cup
  {[Plain EXCEPT !.type = "data_sm", !.short_message = <<>>, !.payload = l, !.sar = r,
                 !.udhi = h] :
     l \in MCTexts \ {<<>>}, r \in {NoSar, [ref |-> 3, seq |-> 1, total |-> 2]}, h \in BOOLEAN}

\* Sixty minutes ahead and the seconds around it, in four zones, and relative
ValidityPdus ==
  {[Plain EXCEPT !.validity = [form |-> f, at |-> Now + 3600 + s, quarters |-> q, offset |-> o]] :
     f \in {"+", "-"}, s \in {-1, 0, 1, 59}, q \in {0, 1, 8}, o \in {Zone, Zone + 3600}}
  \cup
  {[Plain EXCEPT !.validity = [form |-> f, at |-> s, quarters |-> 0, offset |-> Zone]] :
     f \in {"R", "malformed"}, s \in {0, 1, 60, 61}}

MCPdus == AddressPdus \cup ContentPdus \cup ValidityPdus

MCAccount == {<<"acme">>, <<"ac", "me">>}
Date == [hour |-> 9, minute |-> 30]
MCClock == [hour |-> 12, minute |-> 45]
MCReports ==
  {[id |-> "x", stat |-> "DELIVRD", err |-> 0, submit |-> Date, done |-> [hour |-> 10, minute |-> 0]],
   [id |-> "", stat |-> "UNDELIV", err |-> 7, submit |-> <<>>, done |-> <<>>],
   [id |-> "", stat |-> "", err |-> 0, submit |-> <<>>, done |-> <<>>]}
MCForeign == {<<"http">>, <<"acme", "time", <<"a", "b">>>>, <<"acme", "time">>}
=============================================================================
