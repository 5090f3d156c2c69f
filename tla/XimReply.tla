------------------------------ MODULE XimReply ------------------------------
(***************************************************************************)
(* The lengths of what the server writes (ximproto.c, ximtypes.c).  The    *)
(* client takes from its stream as many bytes as the header announces, in  *)
(* units of four; the server writes as many as the encoder says it used.   *)
(*                                                                         *)
(* A message is its type and the lengths of its variable parts:            *)
(*   text     bytes of the detail of an error, of the preedit, of the      *)
(*            text of a commit                                             *)
(*   flags    of a commit: does it carry characters, a key symbol, both?   *)
(*   parts    the lengths of attribute values, or of the names of          *)
(*            extensions or of attributes of the method                    *)
(*   more     the lengths of the names of attributes of contexts           *)
(* "size" is always the room left in the buffer, dst_size.                 *)
(***************************************************************************)
EXTENDS XimProto

\* Without room an encoder returns EMSGSIZE or ENOMEM, and xim_msg_encode()
\* makes EFAULT of either.
EMSGSIZE == -90
EFAULT == -14

OutMessage(type, text, flags, parts, more) ==
  [type |-> type, text |-> text, flags |-> flags, parts |-> parts, more |-> more]

Fitted(len, size) == IF size < len THEN EMSGSIZE ELSE len

-----------------------------------------------------------------------------
(* Elements of lists *)

encode_STRING(len, size) == Fitted(Padded(2 + len), size)

\* The name is encoded as a string; the padding is the same for both.
encode_ATTR(len, size) == Fitted(Padded(4 + 2 + len), size)

encode_ATTRIBUTE(len, size) == Fitted(Padded(4 + len), size)

\* What is returned is not what was tested: the padding is that of the name
\* alone, which does not begin at a multiple of four.
encode_EXT(len, size) ==
  IF size < Padded(2 + len + 2) THEN EMSGSIZE
  ELSE LET name_len == encode_STRING(len, size - 2)
       IN  IF name_len < 0 THEN name_len ELSE 2 + name_len

\* The loop of every encoder with a list: the bytes used when the elements
\* stand behind the first "from", or the error of the first that fails.
EncodeList(Encode(_, _), lens, from, size) ==
  LET used[k \in 0 .. Len(lens)] ==
        IF k = 0 THEN from
        ELSE IF used[k - 1] < 0 THEN used[k - 1]
        ELSE LET n == Encode(lens[k], size - used[k - 1])
             IN  IF n < 0 THEN n ELSE used[k - 1] + n
  IN  used[Len(lens)]

NamesLen(lens) == ListLen(6, lens)

-----------------------------------------------------------------------------
(* The encoders: the bytes of the payload, or an error *)

encode_XIM_ERROR(m, size) == Fitted(Padded(12 + m.text), size)

encode_XIM_CONNECT_REPLY(size) == Fitted(4, size)

\* Two lists of names, each behind its length.
encode_XIM_OPEN_REPLY(m, size) ==
  IF size < 8 + NamesLen(m.parts) + NamesLen(m.more) THEN EMSGSIZE
  ELSE LET imattrs == EncodeList(encode_ATTR, m.parts, 4, size)
       IN  IF imattrs < 0 THEN imattrs
           ELSE EncodeList(encode_ATTR, m.more, imattrs + 4, size)

encode_XIM_CLOSE_REPLY(size) == Fitted(4, size)

encode_XIM_QUERY_EXTENSION_REPLY(m, size) ==
  IF size < 4 THEN EMSGSIZE ELSE EncodeList(encode_EXT, m.parts, 4, size)

encode_XIM_ENCODING_NEGOTIATION_REPLY(size) == Fitted(8, size)

\* Values stand behind a header of 4 bytes for methods, and of 6 for contexts.
EncodeValues(header, values, size) ==
  IF size < header + AttributesLen(values) THEN EMSGSIZE
  ELSE EncodeList(encode_ATTRIBUTE, values, header, size)

encode_XIM_GET_IM_VALUES_REPLY(m, size) == EncodeValues(4, m.parts, size)

encode_XIM_SET_IM_VALUES_REPLY(size) == Fitted(4, size)

encode_XIM_GET_IC_VALUES_REPLY(m, size) == EncodeValues(6, m.parts, size)

encode_XIM_SET_IC_VALUES_REPLY(size) == Fitted(4, size)

encode_XIM_CREATE_IC_REPLY(size) == Fitted(4, size)

encode_XIM_DESTROY_IC_REPLY(size) == Fitted(4, size)

encode_XIM_SYNC_REPLY(size) == Fitted(4, size)

encode_XIM_RESET_IC_REPLY(m, size) == Fitted(Padded(6 + m.text), size)

\* Escape sequences in front of the text and behind it.
encode_COMPOUND_TEXT(text) == 3 + text + 3

\* The key symbol is preceded by padding of the compiler's, as the union's
\* members are not packed.
CommitLen(m) ==
  6 + (IF "keysym" \in m.flags THEN 8 ELSE 0)
    + (IF "chars" \in m.flags THEN 2 + encode_COMPOUND_TEXT(m.text) ELSE 0)

\* Mutant: the padding is that of the text alone.
encode_XIM_COMMIT_PadText(m, size) ==
  Fitted(CommitLen(m) + PAD(encode_COMPOUND_TEXT(m.text)), size)

encode_XIM_COMMIT(m, size) == Fitted(Padded(CommitLen(m)), size)

encode_XIM_FORWARD_EVENT(size) == Fitted(8 + 32, size)

encode_XIM_SET_EVENT_MASK(size) == Fitted(12, size)

encode_payload(m, size) ==
  CASE m.type = "ERROR"                      -> encode_XIM_ERROR(m, size)
    [] m.type = "CONNECT_REPLY"              -> encode_XIM_CONNECT_REPLY(size)
    [] m.type = "DISCONNECT_REPLY"           -> 0
    [] m.type = "OPEN_REPLY"                 -> encode_XIM_OPEN_REPLY(m, size)
    [] m.type = "CLOSE_REPLY"                -> encode_XIM_CLOSE_REPLY(size)
    [] m.type = "QUERY_EXTENSION_REPLY"      -> encode_XIM_QUERY_EXTENSION_REPLY(m, size)
    [] m.type = "ENCODING_NEGOTIATION_REPLY" -> encode_XIM_ENCODING_NEGOTIATION_REPLY(size)
    [] m.type = "GET_IM_VALUES_REPLY"        -> encode_XIM_GET_IM_VALUES_REPLY(m, size)
    [] m.type = "SET_IM_VALUES_REPLY"        -> encode_XIM_SET_IM_VALUES_REPLY(size)
    [] m.type = "GET_IC_VALUES_REPLY"        -> encode_XIM_GET_IC_VALUES_REPLY(m, size)
    [] m.type = "SET_IC_VALUES_REPLY"        -> encode_XIM_SET_IC_VALUES_REPLY(size)
    [] m.type = "CREATE_IC_REPLY"            -> encode_XIM_CREATE_IC_REPLY(size)
    [] m.type = "DESTROY_IC_REPLY"           -> encode_XIM_DESTROY_IC_REPLY(size)
    [] m.type \in {"SYNC", "SYNC_REPLY"}     -> encode_XIM_SYNC_REPLY(size)
    [] m.type = "RESET_IC_REPLY"             -> encode_XIM_RESET_IC_REPLY(m, size)
    [] m.type = "COMMIT"                     -> encode_XIM_COMMIT(m, size)
    [] m.type = "FORWARD_EVENT"              -> encode_XIM_FORWARD_EVENT(size)
    [] m.type = "SET_EVENT_MASK"             -> encode_XIM_SET_EVENT_MASK(size)
    [] OTHER                                 -> ENOSYS

\* xim_msg_encode(): the bytes that are written, header included.
xim_msg_encode(m, size) ==
  IF size < HeaderLen THEN EMSGSIZE
  ELSE LET len == encode_payload(m, size - HeaderLen)
       IN  IF len >= 0 THEN HeaderLen + len
           ELSE IF len = ENOSYS THEN ENOSYS ELSE EFAULT

\* What the header announces: hdr->length, a uint16_t, is the quotient.
Announced(m, size) ==
  HeaderLen + 4 * ((encode_payload(m, size - HeaderLen) \div 4) % 65536)

\* The message is written as the client will read it, or not at all.
KeepsStep(m, size) ==
  LET len == xim_msg_encode(m, size) IN len < 0 \/ len = Announced(m, size)

-----------------------------------------------------------------------------
(* Who keeps in step *)

TxSize == 1024  \* sizeof(buf) in xim_client_send()

FixedReplies ==
  {"CONNECT_REPLY", "DISCONNECT_REPLY", "CLOSE_REPLY", "ENCODING_NEGOTIATION_REPLY",
   "SET_IM_VALUES_REPLY", "SET_IC_VALUES_REPLY", "CREATE_IC_REPLY", "DESTROY_IC_REPLY",
   "SYNC", "SYNC_REPLY", "FORWARD_EVENT", "SET_EVENT_MASK"}

TextReplies == {"ERROR", "RESET_IC_REPLY", "COMMIT"}

ListReplies ==
  {"OPEN_REPLY", "QUERY_EXTENSION_REPLY", "GET_IM_VALUES_REPLY", "GET_IC_VALUES_REPLY"}

OutMessages ==
  [type : FixedReplies \cup TextReplies \cup ListReplies, text : Nat,
   flags : SUBSET {"chars", "keysym"}, parts : Seq(Nat), more : Seq(Nat)]

\* The values of a context stand behind six bytes, and a list of extensions of
\* odd length (this server has none) ends two bytes off.
OutOfStep(m) ==
  \/ m.type = "GET_IC_VALUES_REPLY"
  \/ m.type = "QUERY_EXTENSION_REPLY" /\ Len(m.parts) % 2 = 1

\* These are written with two bytes more than announced, all others as the
\* client will read them.
ReadAsMeant(m, size) ==
  IF OutOfStep(m)
  THEN xim_msg_encode(m, size) < 0 \/ xim_msg_encode(m, size) = Announced(m, size) + 2
  ELSE KeepsStep(m, size)

=============================================================================
