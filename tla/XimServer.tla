----------------------------- MODULE XimServer -----------------------------
(***************************************************************************)
(* The thread of the XIM server (ximserver.c): it waits with epoll, accepts *)
(* connections, reads what clients sent into their receive buffers         *)
(* (ximclient.c, in4.c) and handles every complete message in them.        *)
(*                                                                         *)
(* The bytes of a connection are counted from its beginning: "received" of *)
(* them were read, "base" of those removed from the front of rxbuf, so     *)
(* that rxbuf_len is the difference.  What a handler does with a message   *)
(* is the subject of XimClient; here it writes to the client at most.      *)
(*                                                                         *)
(* The kernel is modelled from how the code uses it: read() returns any    *)
(* part of what has arrived, 0 at the end of the stream or for an empty    *)
(* buffer, -1 once when the peer reset the connection; a write to a peer   *)
(* that is gone may raise SIGPIPE, which nobody handles.                   *)
(***************************************************************************)
EXTENDS XimReply, FiniteSets

CONSTANTS
  Client,     \* connections; a client connects once
  Listener,   \* the socket on which they arrive
  NoClient,   \* serving none of them
  Messages,   \* what clients send
  Replies,    \* what the server writes
  Rooms,      \* the room it may find in the buffer it writes to
  RxSize,     \* sizeof(rxbuf), 1024
  MaxEvents,  \* events of one epoll_wait, 8
  Chunk,      \* bound: the sizes in which the network delivers bytes
  MaxSent     \* bound: the messages a client sends

ASSUME ClientAssumption == Listener \notin Client /\ NoClient \notin Client

ASSUME SizeAssumption == RxSize \in Nat \ {0} /\ MaxEvents \in Nat \ {0}

ASSUME MessagesAssumption == \A m \in Messages : IsMessage(m)

ASSUME RepliesAssumption == Replies \subseteq OutMessages /\ Rooms \subseteq 0 .. TxSize

ASSUME ChunkAssumption == Chunk # {} /\ Chunk \subseteq Nat \ {0}

VARIABLES
  peer,      \* the other end: "none", "open", "closed", "reset", "dead"
  sent,      \* the messages it wrote, each with its first byte's position
  conn,      \* the server's end: "none", "backlog", "accepted", "freed"
  received,  \* the bytes the server has read
  base,      \* the bytes it has removed from rxbuf
  handled,   \* the messages it has handled
  batch,     \* the events of the last epoll_wait that are still to be handled
  serving,   \* the client whose messages are being decoded, or NoClient
  crashed    \* the process is dead

clientVars == <<peer, sent>>
connVars == <<conn, received, base, handled>>
loopVars == <<batch, serving, crashed>>
vars == <<clientVars, connVars, loopVars>>

Init ==
  /\ peer = [c \in Client |-> "none"]
  /\ sent = [c \in Client |-> <<>>]
  /\ conn = [c \in Client |-> "none"]
  /\ received = [c \in Client |-> 0]
  /\ base = [c \in Client |-> 0]
  /\ handled = [c \in Client |-> <<>>]
  /\ batch = {}
  /\ serving = NoClient
  /\ crashed = FALSE

-----------------------------------------------------------------------------
(* The clients *)

\* The bytes a client has written.
Written(c) ==
  IF sent[c] = <<>> THEN 0
  ELSE LET last == sent[c][Len(sent[c])] IN last.start + Frame(last.msg)

Connect(c) ==
  /\ peer[c] = "none"
  /\ peer' = [peer EXCEPT ![c] = "open"]
  /\ conn' = [conn EXCEPT ![c] = "backlog"]
  /\ UNCHANGED <<sent, received, base, handled, loopVars>>

Send(c, m) ==
  /\ peer[c] = "open"
  /\ Len(sent[c]) < MaxSent
  /\ sent' = [sent EXCEPT ![c] = Append(@, [msg |-> m, start |-> Written(c)])]
  /\ UNCHANGED <<peer, connVars, loopVars>>

\* An orderly end, or a reset that the server meets as an error first.
Leave(c) ==
  /\ peer[c] = "open"
  /\ \E how \in {"closed", "reset"} : peer' = [peer EXCEPT ![c] = how]
  /\ UNCHANGED <<sent, connVars, loopVars>>

-----------------------------------------------------------------------------
(* _xim_server_run(): one thread, one callback at a time *)

rxbuf_len(c) == received[c] - base[c]

\* A mutant: the end of the stream is not waited for.
Readable_DataOnly(c) == conn[c] = "accepted" /\ received[c] < Written(c)

Readable(c) ==
  /\ conn[c] = "accepted"
  /\ received[c] < Written(c) \/ peer[c] # "open"

Ready ==
  {c \in Client : Readable(c)} \cup
  (IF \E c \in Client : conn[c] = "backlog" THEN {Listener} ELSE {})

\* EPOLLHUP is reported, together with EPOLLIN, for a reset connection.  The
\* events are a snapshot: they may be old when their turn comes.
Event(fd) == [fd |-> fd, hup |-> fd \in Client /\ peer[fd] \in {"reset", "dead"}]

epoll_wait ==
  /\ ~ crashed /\ serving = NoClient /\ batch = {}
  /\ \E fds \in SUBSET Ready :
       /\ fds # {}
       /\ Cardinality(fds) = MaxEvents \/ (fds = Ready /\ Cardinality(fds) < MaxEvents)
       /\ batch' = {Event(fd) : fd \in fds}
  /\ UNCHANGED <<clientVars, connVars, serving, crashed>>

\* An event of the batch whose turn it is.
Dispatch(e) ==
  /\ ~ crashed /\ serving = NoClient
  /\ e \in batch
  /\ batch' = batch \ {e}

_xim_server_in ==
  /\ \E e \in batch : e.fd = Listener /\ Dispatch(e)
  /\ \E c \in Client :
       /\ conn[c] = "backlog"
       /\ conn' = [conn EXCEPT ![c] = "accepted"]
  /\ UNCHANGED <<clientVars, received, base, handled, serving, crashed>>

Min2(a, b) == IF a < b THEN a ELSE b

\* A mutant: every read may fill the whole buffer.
Room_All(c) == RxSize

Room(c) == RxSize - rxbuf_len(c)
Arrived(c) == Written(c) - received[c]

\* _xim_client_in() with data to read: decoding follows.
fd_read_data(c) ==
  /\ \E e \in batch : e.fd = c /\ Dispatch(e)
  /\ Room(c) > 0 /\ Arrived(c) > 0
  /\ \E n \in Chunk :
       received' = [received EXCEPT ![c] = @ + Min2(n, Min2(Room(c), Arrived(c)))]
  /\ serving' = c
  /\ UNCHANGED <<clientVars, conn, base, handled, crashed>>

\* The error of a reset connection is printed and forgotten.
fd_read_error(c) ==
  /\ \E e \in batch : e.fd = c /\ Dispatch(e)
  /\ Room(c) > 0 /\ Arrived(c) = 0 /\ peer[c] = "reset"
  /\ peer' = [peer EXCEPT ![c] = "dead"]
  /\ UNCHANGED <<sent, connVars, serving, crashed>>

\* read() returned 0: xim_client_free() releases the client and its fd_t.  If
\* the event also carries EPOLLHUP, the loop then notifies the freed fd_t,
\* which goes unnoticed or kills the process.
xim_client_free(c) ==
  /\ \E e \in batch :
       /\ e.fd = c /\ Dispatch(e)
       /\ crashed' \in IF e.hup THEN BOOLEAN ELSE {FALSE}
  /\ Room(c) = 0 \/ (Arrived(c) = 0 /\ peer[c] \in {"closed", "dead"})
  /\ conn' = [conn EXCEPT ![c] = "freed"]
  /\ UNCHANGED <<clientVars, received, base, handled, serving>>

\* The message that starts where rxbuf does, at most one.  Out of step with
\* the stream there is none: the bytes found there instead of a header are
\* padding, or begin with the unused minor opcode, and decode to an error.
\* (IsMessage leaves out what would put other bytes there.)
AtFront(c) == {i \in DOMAIN sent[c] : sent[c][i].start = base[c]}

Complete(c) ==
  {i \in AtFront(c) :
     LET m == sent[c][i].msg
     IN  ~ need_more_data(rxbuf_len(c), Frame(m)) /\ ~ Undecodable(m)}

\* Mutants: the buffer is emptied after a message; only one message is
\* handled for each read; the header is counted again.
_xim_client_handle_msg_DropRest(c) ==
  /\ ~ crashed /\ serving = c
  /\ \E i \in Complete(c) : handled' = [handled EXCEPT ![c] = Append(@, sent[c][i].msg)]
  /\ base' = [base EXCEPT ![c] = received[c]]
  /\ UNCHANGED <<clientVars, conn, received, loopVars>>
_xim_client_handle_msg_Once(c) ==
  /\ ~ crashed /\ serving = c
  /\ \E i \in Complete(c) :
       LET m == sent[c][i].msg
       IN  /\ handled' = [handled EXCEPT ![c] = Append(@, m)]
           /\ base' = [base EXCEPT ![c] = @ + xim_msg_decode(m)]
  /\ serving' = NoClient
  /\ UNCHANGED <<clientVars, conn, received, batch, crashed>>

_xim_client_handle_msg_HeaderAgain(c) ==
  /\ ~ crashed /\ serving = c
  /\ \E i \in Complete(c) :
       LET m == sent[c][i].msg
       IN  /\ handled' = [handled EXCEPT ![c] = Append(@, m)]
           /\ base' = [base EXCEPT ![c] = @ + HeaderLen + xim_msg_decode(m)]
  /\ peer' \in IF peer[c] = "closed"
               THEN {peer, [peer EXCEPT ![c] = "reset"]} ELSE {peer}
  /\ crashed' \in IF base'[c] > received[c] THEN {TRUE}
                  ELSE IF peer[c] # "open" THEN BOOLEAN ELSE {FALSE}
  /\ UNCHANGED <<sent, conn, received, batch, serving>>

\* One turn of the decoding loop: the message is handled, then removed.  When
\* the decoder took more than is there, rxbuf_len wraps around and memmove
\* is asked to move all of memory.
_xim_client_handle_msg(c) ==
  /\ ~ crashed /\ serving = c
  /\ \E i \in Complete(c) :
       LET m == sent[c][i].msg
       IN  /\ handled' = [handled EXCEPT ![c] = Append(@, m)]
           /\ base' = [base EXCEPT ![c] = @ + xim_msg_decode(m)]
  /\ peer' \in IF peer[c] = "closed"
               THEN {peer, [peer EXCEPT ![c] = "reset"]} ELSE {peer}
  /\ crashed' \in IF base'[c] > received[c] THEN {TRUE}
                  ELSE IF peer[c] # "open" THEN BOOLEAN ELSE {FALSE}
  /\ UNCHANGED <<sent, conn, received, batch, serving>>

\* The loop ends when no complete message is left or the next one cannot be
\* decoded; it then stays in the buffer.
ReturnToLoop(c) ==
  /\ ~ crashed /\ serving = c
  /\ Complete(c) = {}
  /\ serving' = NoClient
  /\ UNCHANGED <<clientVars, connVars, batch, crashed>>

_xim_client_in(c) ==
  fd_read_data(c) \/ fd_read_error(c) \/ xim_client_free(c)

Serve ==
  \/ epoll_wait
  \/ _xim_server_in
  \/ \E c \in Client : \/ _xim_client_in(c)
                       \/ _xim_client_handle_msg(c)
                       \/ ReturnToLoop(c)

Next ==
  \/ Serve
  \/ \E c \in Client : Connect(c) \/ Leave(c) \/ \E m \in Messages : Send(c, m)

\* The thread runs when it can, and epoll reports every ready descriptor in
\* turn: those it reported go to the end of its list.
Reported(fd) == epoll_wait /\ \E e \in batch' : e.fd = fd

Spec == Init /\ [][Next]_vars

FairSpec ==
  /\ Spec
  /\ WF_vars(Serve)
  /\ \A fd \in Client \cup {Listener} : SF_vars(Reported(fd))

-----------------------------------------------------------------------------
(* Properties *)

\* Every variable has the shape the structures of ximserver.c and ximclient.c
\* give it; in particular rxbuf_len, a size_t, is never negative.
TypeOK ==
  /\ peer \in [Client -> {"none", "open", "closed", "reset", "dead"}]
  /\ \A c \in Client : \A i \in DOMAIN sent[c] :
       sent[c][i] \in [msg : Messages, start : Nat]
  /\ conn \in [Client -> {"none", "backlog", "accepted", "freed"}]
  /\ \A c \in Client : rxbuf_len(c) \in 0 .. RxSize
  /\ \A e \in batch : e.fd \in Client \cup {Listener} /\ e.hup \in BOOLEAN
  /\ serving \in Client \cup {NoClient}
  /\ crashed \in BOOLEAN

\* The comment at ximclient.c:702, "Remove parsed message from the buffer":
\* what is removed is that message and nothing else, so that the buffer
\* always begins with the first byte of a message.
RemovesParsedMessage ==
  \A c \in Client : base[c] = Written(c) \/ AtFront(c) # {}

\* A client that sends what the decoders can take, and fits the buffer.
Plays(c) ==
  \A i \in DOMAIN sent[c] :
    WellFramed(sent[c][i].msg) /\ Frame(sent[c][i].msg) <= RxSize

\* read() also returns 0 when the buffer is full; that is taken for the end
\* of the stream, but never for a client that keeps to the protocol and is
\* still there.
DroppedOnlyIfGone ==
  [][\A c \in Client :
       conn[c] # "freed" /\ conn'[c] = "freed" => peer[c] # "open" \/ ~ Plays(c)]_vars

\* None of what the client sent is mismeasured by its decoder.
InTune(c) == \A i \in DOMAIN sent[c] : ~ Mismeasured(sent[c][i].msg)

\* The client whose message or event the step is about.
Attended(c) == conn[c] = "accepted" /\ (serving = c \/ conn'[c] = "freed")

\* The process dies only of the client it is serving, and only if that client
\* left before it was answered or sent a message that its decoder mismeasures,
\* such as DISCONNECT (see ximproto.c:530 and ximclient.c:703): it never dies of
\* one client while it serves another, nor of messages that are refused, too
\* long for the buffer or cut into pieces.
DiesOnlyOfCulprits ==
  [][~ crashed /\ crashed' =>
       \E c \in Client : Attended(c) /\ (peer[c] # "open" \/ ~ InTune(c))]_vars

AllReadAsMeant == \A m \in Replies, size \in Rooms : ReadAsMeant(m, size)

\* The lengths that the encoders of ximproto.c and ximtypes.c add up by hand are
\* those the client will read by, in every message but two; in those two bytes
\* more are written than announced, and the client reads them as the header of
\* the next message.
ClientsKeepStep == \A c \in Client : conn[c] = "accepted" => AllReadAsMeant

\* The receive buffers and the framing (ximclient.c:674) lose, repeat and
\* reorder nothing: every connection is a mailbox.
Posted == [c \in Client |-> [n \in DOMAIN sent[c] |-> sent[c][n].msg]]

Mail == INSTANCE Mailbox WITH posted <- Posted, taken <- handled

ImplementsMailbox == Mail!Spec

\* No client waits for ever: what it sent is handled in the end, whatever the
\* other clients send, as long as it stays and keeps to the protocol.
EverythingHandled ==
  \A c \in Client : \A n \in 1 .. MaxSent :
    Len(sent[c]) >= n ~> \/ Len(handled[c]) >= n
                         \/ peer[c] # "open" \/ ~ Plays(c) \/ crashed

\* The state of a client that left is released in the end, even if something
\* that cannot be decoded is stuck in its buffer.
LeaversReleased ==
  \A c \in Client : peer[c] \notin {"none", "open"} ~> conn[c] = "freed" \/ crashed

=============================================================================
