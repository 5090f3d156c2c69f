------------------------------ MODULE XimProto ------------------------------
(***************************************************************************)
(* The lengths of XIM messages (ximproto.c, ximtypes.c).  The framing of   *)
(* the byte stream rests on them alone: a message is complete when as many *)
(* bytes are there as its header announces, but what is then removed from  *)
(* the receive buffer is what the decoder of its type says it parsed.      *)
(*                                                                         *)
(* A message is its type and the lengths of its variable parts:            *)
(*   n        bytes of the one string or string list, number of attribute  *)
(*            ids, or for a list of attribute values the number that its   *)
(*            bytes make _count_attributes() come to                       *)
(*   details  bytes of the encoding details                                *)
(*   values   the lengths of the attribute values, or of the names of      *)
(*            authentication protocols                                     *)
(* A part a type does not have is 0 or <<>>.                               *)
(***************************************************************************)
EXTENDS Integers, Sequences, SequencesExt

HeaderLen == 4  \* sizeof(struct XIM_PACKET)

PAD(n) == (4 - (n % 4)) % 4
Padded(n) == n + PAD(n)

Message(type, n, details, values) ==
  [type |-> type, n |-> n, details |-> details, values |-> values]

\* Types whose payload is a packed struct, with its size.
FixedSize ==
  [CLOSE |-> 4, SET_IC_FOCUS |-> 4, UNSET_IC_FOCUS |-> 4,
   DESTROY_IC |-> 4, SYNC_REPLY |-> 4, RESET_IC |-> 4, FORWARD_EVENT |-> 40]

\* Types with a list of attribute values, and the size of what precedes it.
ValuesAt == [CREATE_IC |-> 4, SET_IC_VALUES |-> 8, SET_IM_VALUES |-> 4]

\* Types with a list of attribute ids, and the size of what precedes it.
IdsAt == [GET_IM_VALUES |-> 4, GET_IC_VALUES |-> 6]

\* A list of elements, each padded behind a head of its own.
ListLen(head, lens) ==
  LET upto[k \in 0 .. Len(lens)] == IF k = 0 THEN 0 ELSE upto[k - 1] + Padded(head + lens[k])
  IN  upto[Len(lens)]

AttributesLen(values) == ListLen(4, values)

\* CONNECT: a packed struct and behind it a list of strings.
ConnectLen(names) == 8 + ListLen(2, names)

-----------------------------------------------------------------------------
(* What the sender writes.  The structs name every part of a payload and   *)
(* its padding; the header counts the payload in units of four bytes.      *)

PayloadLen(m) ==
  CASE m.type \in DOMAIN FixedSize      -> FixedSize[m.type]
    [] m.type \in DOMAIN ValuesAt       -> ValuesAt[m.type] + AttributesLen(m.values)
    [] m.type \in DOMAIN IdsAt          -> Padded(IdsAt[m.type] + 2 * m.n)
    [] m.type = "CONNECT"               -> ConnectLen(m.values)
    [] m.type = "OPEN"                  -> Padded(1 + m.n)
    [] m.type = "QUERY_EXTENSION"       -> Padded(4 + m.n)
    [] m.type = "ENCODING_NEGOTIATION"  -> Padded(4 + m.n) + 4 + m.details
    [] m.type \in {"DISCONNECT", "UNKNOWN"} -> 0

Frame(m) == HeaderLen + PayloadLen(m)

\* A mutant: a message that ends where the buffer does is not complete yet.
need_more_data_OffByOne(len, frame) == len <= HeaderLen \/ len <= frame

\* need_more_data(): the header, then the payload it announces, must be there.
need_more_data(len, frame) == len < HeaderLen \/ len < frame

-----------------------------------------------------------------------------
(* What the decoders return for a complete message: the bytes of the       *)
(* payload they parsed, or a negative error.                               *)

EBADMSG == -74
ENOSYS  == -38

\* What _count_attributes() may come to, stepping from value to value without
\* their padding: one too many when the last value has padding; behind padding
\* further up it reads lengths where there are none, and counts what it finds.
_count_attributes(values) ==
  LET odd == {i \in DOMAIN values : PAD(values[i]) > 0}
  IN  CASE odd = {}            -> {Len(values)}
        [] odd = {Len(values)} -> {Len(values) + 1}
        [] OTHER               -> {n \in Nat : \E i \in odd : n > i}

\* As many values as were counted are decoded, from where they really begin; a
\* surplus one is not there.
decode_LISTofATTRIBUTE(counted, values) ==
  CASE counted > Len(values) -> EBADMSG
    [] counted = Len(values) -> AttributesLen(values)
    [] OTHER                 -> AttributesLen(SubSeq(values, 1, counted))

\* The length in front of the list is padded with it, the id before it is not
\* counted.  The length of the details is looked for two bytes off, where the
\* padding is, and found to be zero.
decode_ENCODING_NEGOTIATION(m) == Padded(2 + m.n) + 4

\* sizeof(*src) of a pointer to void is 1.
decode_DISCONNECT(m) == 1

decode_payload(m) ==
  CASE m.type \in DOMAIN FixedSize      -> FixedSize[m.type]
    [] m.type \in DOMAIN ValuesAt       ->
         LET len == decode_LISTofATTRIBUTE(m.n, m.values)
         IN  IF len < 0 THEN len ELSE len + ValuesAt[m.type]
    [] m.type \in DOMAIN IdsAt          -> Padded(IdsAt[m.type] + 2 * m.n)
    [] m.type = "CONNECT"               -> ConnectLen(m.values)
    [] m.type = "OPEN"                  -> Padded(1 + m.n)
    [] m.type = "QUERY_EXTENSION"       -> 4 + m.n + PAD(4 + m.n)
    [] m.type = "ENCODING_NEGOTIATION"  -> decode_ENCODING_NEGOTIATION(m)
    [] m.type = "DISCONNECT"            -> decode_DISCONNECT(m)
    [] m.type = "UNKNOWN"               -> ENOSYS

\* A mutant: the header is not counted.
xim_msg_decode_PayloadOnly(m) == decode_payload(m)

\* xim_msg_decode() of a complete message: the bytes to remove, header
\* included, or an error.
xim_msg_decode(m) ==
  LET len == decode_payload(m) IN IF len < 0 THEN len ELSE len + HeaderLen

\* What a client can send.  A list of attributes is counted as its bytes have
\* it.  Lists that are counted short and details of encodings are left out:
\* what the decoder leaves of them would be read as messages.
IsMessage(m) ==
  /\ m.type \in DOMAIN FixedSize \cup DOMAIN ValuesAt \cup DOMAIN IdsAt
       \cup {"CONNECT", "DISCONNECT", "OPEN", "QUERY_EXTENSION", "ENCODING_NEGOTIATION", "UNKNOWN"}
  /\ m.n \in Nat /\ m.details = 0 /\ m.values \in Seq(Nat)
  /\ m.type \in DOMAIN ValuesAt =>
       m.n \in _count_attributes(m.values) /\ m.n >= Len(m.values)

\* The decoder takes as much as the sender sent.
WellFramed(m) == xim_msg_decode(m) = Frame(m)

Undecodable(m) == xim_msg_decode(m) < 0

\* A message the decoder takes too much or too little of.
Mismeasured(m) == ~ Undecodable(m) /\ ~ WellFramed(m)

=============================================================================
