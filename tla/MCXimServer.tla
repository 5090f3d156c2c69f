---------------------------- MODULE MCXimServer ----------------------------
(***************************************************************************)
(* Instances of XimServer for TLC.  Messages are as small as they can be   *)
(* and still differ: one of 8 bytes, one that fills the buffer, one too    *)
(* long for it, two that cannot be decoded, and two that are mismeasured.  *)
(***************************************************************************)
EXTENDS XimServer

Close == Message("CLOSE", 0, 0, <<>>)
Full == Message("CREATE_IC", 1, 0, <<4>>)
TooLong == Message("GET_IC_VALUES", 6, 0, <<>>)
Unknown == Message("UNKNOWN", 0, 0, <<>>)
Unpadded == Message("CREATE_IC", 2, 0, <<3>>)
Disconnect == Message("DISCONNECT", 0, 0, <<>>)
Encodings == Message("ENCODING_NEGOTIATION", 2, 0, <<>>)

MCMixed == {Close, Full, TooLong, Unknown, Unpadded}
MCDisconnect == {Close, Disconnect}
MCEncodings == {Close, Encodings}

-----------------------------------------------------------------------------
(* What the server writes *)

TextLens == 0 .. 8
Lists == {<<>>} \cup {<<k>> : k \in 0 .. 4} \cup {<<k, n>> : k, n \in {0, 1, 3}}

MCReplies ==
  {OutMessage(type, text, {}, <<>>, <<>>) :
     type \in {"ERROR", "RESET_IC_REPLY"}, text \in TextLens}
  \cup {OutMessage("COMMIT", text, flags, <<>>, <<>>) :
          text \in TextLens, flags \in {{"chars"}, {"keysym"}, {"chars", "keysym"}}}
  \cup {OutMessage(type, 0, {}, parts, <<>>) :
          type \in {"QUERY_EXTENSION_REPLY", "GET_IM_VALUES_REPLY", "GET_IC_VALUES_REPLY"},
          parts \in Lists}
  \cup {OutMessage("OPEN_REPLY", 0, {}, <<k>>, more) : k \in {1, 2}, more \in Lists}
  \cup {OutMessage(type, 0, {}, <<>>, <<>>) :
          type \in {"CONNECT_REPLY", "DISCONNECT_REPLY", "CLOSE_REPLY",
                    "ENCODING_NEGOTIATION_REPLY", "SET_IM_VALUES_REPLY", "SET_IC_VALUES_REPLY",
                    "CREATE_IC_REPLY", "DESTROY_IC_REPLY", "SYNC", "SYNC_REPLY",
                    "FORWARD_EVENT", "SET_EVENT_MASK"}}

\* Too little for a header, for some messages, and enough for all.
MCRooms == {2, 7, 16, 24, 64}

=============================================================================
