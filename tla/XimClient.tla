----------------------------- MODULE XimClient -----------------------------
(***************************************************************************)
(* A session of one client with the server (ximclient.c): the tables of    *)
(* the input methods it opened and the input contexts it created, and the  *)
(* answers to its requests.  Requests and answers travel through the       *)
(* connection in order, so both sides act on what the other knew earlier.  *)
(*                                                                         *)
(* The client library is modelled from the answers the handlers send it:   *)
(* it waits for the answer to a request, knows the ids it was told, and    *)
(* passes on to the application the text and the keys it gets back.  Which *)
(* keys the input method consumes is the subject of InputMethod.           *)
(***************************************************************************)
EXTENDS Integers, Sequences, SequencesExt, FiniteSets

CONSTANTS
  CLIENT_IM_MAX, CLIENT_IC_MAX,  \* sizes of the tables, 16 and 16
  MaxInFlight,                   \* bound: messages in each direction
  MaxSerial                      \* bound: key events of a session

ASSUME TableAssumption ==
  CLIENT_IM_MAX \in Nat \ {0} /\ CLIENT_IC_MAX \in Nat \ {0}

VARIABLES
  ims,       \* the open input methods of the client
  ics,       \* ics[id]: the method context id was created for, 0 for none
  toServer,  \* requests sent and not yet handled
  toClient,  \* messages sent by the server and not yet received
  produced,  \* text and keys the server sent for the application, in order
  myIMs, myICs,  \* the ids the client was told and has not given back
  waiting,   \* what the client waits for: the end of a key event, by its
             \* serial, an answer to a request (0), or nothing (NoRequest)
  serial,    \* number of key events forwarded
  settled,   \* the last key event whose fate the client knows
  app        \* text and keys the application got, in order

serverVars == <<ims, ics, produced>>
clientVars == <<myIMs, myICs, waiting, serial, settled, app>>
vars == <<serverVars, clientVars, toServer, toClient>>

IMs == 1 .. CLIENT_IM_MAX
ICs == 1 .. CLIENT_IC_MAX

\* Ids as they may stand in a request, valid or not.
AnyIM == 0 .. CLIENT_IM_MAX
AnyIC == 0 .. CLIENT_IC_MAX

Msg(type, im, ic) == [type |-> type, im |-> im, ic |-> ic, sync |-> FALSE, serial |-> 0]

KeyEvent(im, ic, sync, n) ==
  [type |-> "FORWARD_EVENT", im |-> im, ic |-> ic, sync |-> sync, serial |-> n]

NoRequest == -1

Init ==
  /\ ims = {}
  /\ ics = [id \in ICs |-> 0]
  /\ toServer = <<>> /\ toClient = <<>>
  /\ produced = <<>>
  /\ myIMs = {} /\ myICs = {}
  /\ waiting = NoRequest
  /\ serial = 0 /\ settled = 0
  /\ app = <<>>

-----------------------------------------------------------------------------
(* _xim_client_handle_msg(): the first request is handled and answered.    *)
(* The server's writes block while the connection is full.  Every answer    *)
(* fits the 1024 bytes of xim_client_send and is sent: what it does when    *)
(* encoding fails, which is to send nothing, is left out.                   *)

Answer(m, replies) ==
  /\ toServer # <<>> /\ m = Head(toServer)
  /\ Len(toClient) + Len(replies) <= MaxInFlight
  /\ toServer' = Tail(toServer)
  /\ toClient' = toClient \o replies
  /\ UNCHANGED clientVars

\* xim_client_send_error(); the ids in it are left out.
Error == <<Msg("ERROR", 0, 0)>>

Reply(m, type) == <<Msg(type, m.im, m.ic)>>

ValidIM(m) == m.im \in IMs /\ m.im \in ims
ValidIC(m) == m.ic \in ICs /\ ics[m.ic] # 0

\* A mutant: the search stops before the last slot.
FreeIMs_Short ==
  {i \in IMs \ (ims \cup {CLIENT_IM_MAX}) : \A j \in 1 .. i - 1 : j \in ims}

\* The free slot with the smallest number, if there is one.
FreeIMs == {i \in IMs \ ims : \A j \in 1 .. i - 1 : j \in ims}
FreeICs == {i \in ICs : ics[i] = 0 /\ \A j \in 1 .. i - 1 : ics[j] # 0}

handle_connect_msg(m) ==
  /\ m.type = "CONNECT"
  /\ Answer(m, Reply(m, "CONNECT_REPLY"))
  /\ UNCHANGED serverVars

\* Every locale is served by the one input method.
handle_open_msg(m) ==
  /\ m.type = "OPEN"
  /\ \/ /\ FreeIMs = {}
        /\ Answer(m, Error)
        /\ UNCHANGED serverVars
     \/ \E id \in FreeIMs :
          /\ ims' = ims \cup {id}
          /\ Answer(m, <<Msg("OPEN_REPLY", id, 0), Msg("SET_EVENT_MASK", id, 0)>>)
          /\ UNCHANGED <<ics, produced>>

\* The last slot of the table is out of bounds for this test: ">=", where
\* every other handler has ">".
Closable(m) == m.im \in IMs \ {CLIENT_IM_MAX} /\ m.im \in ims

\* A mutant: the contexts of the method go with it.
handle_close_msg_WithICs(m) ==
  /\ m.type = "CLOSE"
  /\ IF Closable(m)
     THEN /\ ims' = ims \ {m.im}
          /\ ics' = [id \in ICs |-> IF ics[id] = m.im THEN 0 ELSE ics[id]]
          /\ Answer(m, Reply(m, "CLOSE_REPLY"))
          /\ UNCHANGED produced
     ELSE /\ Answer(m, Error)
          /\ UNCHANGED serverVars

\* The contexts of the method stay in their slots.
handle_close_msg(m) ==
  /\ m.type = "CLOSE"
  /\ IF Closable(m)
     THEN /\ ims' = ims \ {m.im}
          /\ Answer(m, Reply(m, "CLOSE_REPLY"))
          /\ UNCHANGED <<ics, produced>>
     ELSE /\ Answer(m, Error)
          /\ UNCHANGED serverVars

\* QUERY_EXTENSION stands for the three requests that only read from a method:
\* handle_encoding_negotiation_msg and handle_get_im_values_msg do alike.
Queries == {"QUERY_EXTENSION"}

handle_query_msg(m) ==
  /\ m.type \in Queries
  /\ Answer(m, IF ValidIM(m) THEN Reply(m, "QUERY_REPLY") ELSE Error)
  /\ UNCHANGED serverVars

\* That memory runs out is left out: it may be answered by an error, or, once a
\* slot was found, by an error and the reply.
handle_create_ic_msg(m) ==
  /\ m.type = "CREATE_IC"
  /\ \/ /\ ~ ValidIM(m) \/ FreeICs = {}
        /\ Answer(m, Error)
        /\ UNCHANGED serverVars
     \/ \E id \in FreeICs :
          /\ ValidIM(m)
          /\ ics' = [ics EXCEPT ![id] = m.im]
          /\ Answer(m, <<Msg("CREATE_IC_REPLY", m.im, id)>>)
          /\ UNCHANGED <<ims, produced>>

\* A context may lack a value that is asked for.
handle_get_ic_values_msg(m) ==
  /\ m.type = "GET_IC_VALUES"
  /\ \/ ValidIM(m) /\ ValidIC(m) /\ Answer(m, Reply(m, "QUERY_REPLY"))
     \/ Answer(m, Error)
  /\ UNCHANGED serverVars

\* A mutant: an id that is not in use is not worth an answer.
handle_destroy_ic_msg_Silent(m) ==
  /\ m.type = "DESTROY_IC"
  /\ IF ValidIM(m) /\ ValidIC(m)
     THEN /\ ics' = [ics EXCEPT ![m.ic] = 0]
          /\ Answer(m, Reply(m, "DESTROY_IC_REPLY"))
          /\ UNCHANGED <<ims, produced>>
     ELSE /\ Answer(m, <<>>)
          /\ UNCHANGED serverVars

handle_destroy_ic_msg(m) ==
  /\ m.type = "DESTROY_IC"
  /\ IF ValidIM(m) /\ ValidIC(m)
     THEN /\ ics' = [ics EXCEPT ![m.ic] = 0]
          /\ Answer(m, Reply(m, "DESTROY_IC_REPLY"))
          /\ UNCHANGED <<ims, produced>>
     ELSE /\ Answer(m, Error)
          /\ UNCHANGED serverVars

\* xim_client_commit() names the method the context was created with.
Commit(m) == [type |-> "COMMIT", im |-> ics[m.ic], ic |-> m.ic, sync |-> FALSE,
              serial |-> m.serial]

Returned(m) == KeyEvent(m.im, m.ic, FALSE, m.serial)

\* xim_client_sync()
SyncReply(m) == IF m.sync THEN Reply(m, "SYNC_REPLY") ELSE <<>>

\* Mutants: the reply to a sync request is sent first; a key that committed
\* text is returned, too.
handle_forward_event_msg_SyncFirst(m) ==
  /\ m.type = "FORWARD_EVENT"
  /\ UNCHANGED <<ims, ics>>
  /\ IF ~ (ValidIM(m) /\ ValidIC(m))
     THEN Answer(m, Error) /\ UNCHANGED produced
     ELSE LET out == {Commit(m), Returned(m)}
          IN  \/ Answer(m, SyncReply(m)) /\ UNCHANGED produced
              \/ \E o \in out : /\ Answer(m, Append(SyncReply(m), o))
                                /\ produced' = Append(produced, o)
handle_forward_event_msg_Both(m) ==
  /\ m.type = "FORWARD_EVENT"
  /\ UNCHANGED <<ims, ics>>
  /\ IF ~ (ValidIM(m) /\ ValidIC(m))
     THEN Answer(m, Error) /\ UNCHANGED produced
     ELSE \E out \in {<<>>, <<Commit(m), Returned(m)>>, <<Returned(m)>>} :
            /\ Answer(m, out \o SyncReply(m))
            /\ produced' = produced \o out

\* The method consumes the key, consumes it and commits text, or refuses it;
\* a refused key goes back to the client.  The method's own messages are sent
\* from within input_method_handle_key(), the reply to a sync request last.
handle_forward_event_msg(m) ==
  /\ m.type = "FORWARD_EVENT"
  /\ UNCHANGED <<ims, ics>>
  /\ IF ~ (ValidIM(m) /\ ValidIC(m))
     THEN Answer(m, Error) /\ UNCHANGED produced
     ELSE \E out \in {<<>>, <<Commit(m)>>, <<Returned(m)>>} :
            /\ Answer(m, out \o SyncReply(m))
            /\ produced' = produced \o out

\* The types that have a decoder but no handler: SET_IC_FOCUS stands for
\* those that a client does not expect an answer to.
Ignored == {"SET_IC_FOCUS"}

ignore_msg(m) ==
  /\ m.type \in Ignored
  /\ Answer(m, <<>>)
  /\ UNCHANGED serverVars

_xim_client_handle_msg ==
  /\ toServer # <<>>
  /\ LET m == Head(toServer)
     IN  \/ handle_connect_msg(m)
         \/ handle_open_msg(m)
         \/ handle_close_msg(m)
         \/ handle_query_msg(m)
         \/ handle_create_ic_msg(m)
         \/ handle_get_ic_values_msg(m)
         \/ handle_destroy_ic_msg(m)
         \/ handle_forward_event_msg(m)
         \/ ignore_msg(m)

-----------------------------------------------------------------------------
(* The client library *)

Put(m) ==
  /\ waiting = NoRequest
  /\ Len(toServer) < MaxInFlight
  /\ toServer' = Append(toServer, m)
  /\ UNCHANGED <<serverVars, toClient, myIMs, myICs, settled, app>>

\* It may ask for anything, with any ids, but one thing at a time.
Request ==
  /\ \E type \in {"CONNECT", "OPEN", "CLOSE", "CREATE_IC", "GET_IC_VALUES", "DESTROY_IC"}
                 \cup Queries :
       \E im \in AnyIM :
         \E ic \in IF type \in {"GET_IC_VALUES", "DESTROY_IC"} THEN AnyIC ELSE {0} :
           /\ type \in {"CONNECT", "OPEN"} => im = 0
           /\ Put(Msg(type, im, ic))
           /\ waiting' = 0
  /\ UNCHANGED serial

\* Nothing answers these.
Notify ==
  /\ \E type \in Ignored : Put(Msg(type, 0, 0))
  /\ UNCHANGED <<waiting, serial>>

\* Keys are forwarded one after the other, or one by one when the client
\* wants to be told that each is done with.
Forward ==
  /\ serial < MaxSerial
  /\ serial' = serial + 1
  /\ \E im \in myIMs, ic \in myICs, sync \in BOOLEAN :
       /\ Put(KeyEvent(im, ic, sync, serial'))
       /\ waiting' = IF sync THEN serial' ELSE NoRequest

Receive ==
  /\ toClient # <<>>
  /\ toClient' = Tail(toClient)
  /\ LET m == Head(toClient)
         Done == /\ waiting' = NoRequest
                 /\ settled' = IF waiting > 0 THEN waiting ELSE settled
     IN  \/ /\ m.type \in {"OPEN_REPLY", "CLOSE_REPLY", "CREATE_IC_REPLY", "DESTROY_IC_REPLY"}
            /\ myIMs' = CASE m.type = "OPEN_REPLY"  -> myIMs \cup {m.im}
                          [] m.type = "CLOSE_REPLY" -> myIMs \ {m.im}
                          [] OTHER                  -> myIMs
            /\ myICs' = CASE m.type = "CREATE_IC_REPLY"  -> myICs \cup {m.ic}
                          [] m.type = "DESTROY_IC_REPLY" -> myICs \ {m.ic}
                          [] OTHER                       -> myICs
            /\ Done
            /\ UNCHANGED app
         \/ /\ m.type \in {"CONNECT_REPLY", "QUERY_REPLY", "ERROR", "SYNC_REPLY"}
            /\ Done
            /\ UNCHANGED <<myIMs, myICs, app>>
         \/ /\ m.type \in {"COMMIT", "FORWARD_EVENT"}
            /\ app' = Append(app, m)
            /\ UNCHANGED <<myIMs, myICs, waiting, settled>>
         \/ /\ m.type = "SET_EVENT_MASK"
            /\ UNCHANGED <<myIMs, myICs, waiting, settled, app>>
  /\ UNCHANGED <<serverVars, toServer, serial>>

Next == _xim_client_handle_msg \/ Request \/ Notify \/ Forward \/ Receive

Spec == Init /\ [][Next]_vars

\* The server's thread runs, and the client reads what it is sent.
FairSpec ==
  /\ Spec
  /\ WF_vars(_xim_client_handle_msg)
  /\ WF_vars(Receive)

-----------------------------------------------------------------------------
(* Properties *)

\* Whatever is refused on the way, and whatever ids are reused, client and
\* server agree on what is open once no message is on its way.
TablesAgree ==
  toServer = <<>> /\ toClient = <<>> =>
    myIMs = ims /\ myICs = {id \in ICs : ics[id] # 0}

\* The application gets text and unconsumed keys in the order in which the
\* keys were typed, and each only once.
InTypedOrder ==
  /\ IsPrefix(app, produced)
  /\ \A i, j \in DOMAIN produced : i < j => produced[i].serial < produced[j].serial

\* XIM_SYNC_REPLY closes an event: what the event, and all before it, made
\* for the application has reached it (ximclient.c:574 sends it last).
SyncSettles ==
  \A i \in DOMAIN produced : produced[i].serial <= settled => i \in DOMAIN app

\* A request of this type is handled.
Handles(type) ==
  toServer # <<>> /\ Head(toServer).type = type /\ toServer' = Tail(toServer)

\* An id is handed out only while the client does not use it, and a method is
\* refused only when the client holds all there are (ximclient.c:193).
IdsFresh ==
  [][/\ \A id \in ims' \ ims : id \notin myIMs
     /\ \A id \in ICs : ics[id] = 0 /\ ics'[id] # 0 => id \notin myICs
     /\ Handles("OPEN") /\ toClient' = toClient \o Error => myIMs = IMs]_vars

\* Every request is answered in the end, by its reply or by an error: the
\* client is not left waiting.
RequestsAnswered == waiting # NoRequest ~> waiting = NoRequest

\* "Invalid IM id" (ximclient.c:252) is said of ids that are not open.
InvalidIsInvalid ==
  [][Handles("CLOSE") /\ Head(toServer).im \in ims => toClient' # toClient \o Error]_vars

=============================================================================
