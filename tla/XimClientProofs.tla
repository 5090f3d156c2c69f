-------------------------- MODULE XimClientProofs --------------------------
(***************************************************************************)
(* Proofs that client and server agree on the methods and contexts of a    *)
(* session, for tables of any size, any number of messages on their way    *)
(* and any number of key events.                                           *)
(*                                                                         *)
(* A client waits for the answer to a request, so that at most one message *)
(* that changes a table, or tells that one was changed, is on its way; it  *)
(* is the last request, or the only answer that ends the waiting.          *)
(***************************************************************************)
EXTENDS XimClient, WellFoundedInduction, TLAPS

Type ==
  {"CONNECT", "OPEN", "CLOSE", "CREATE_IC", "GET_IC_VALUES", "DESTROY_IC", "FORWARD_EVENT",
   "CONNECT_REPLY", "OPEN_REPLY", "SET_EVENT_MASK", "CLOSE_REPLY", "QUERY_REPLY",
   "CREATE_IC_REPLY", "DESTROY_IC_REPLY", "COMMIT", "SYNC_REPLY", "ERROR"}
    \cup Queries \cup Ignored

Packet == [type : Type, im : AnyIM, ic : AnyIC, sync : BOOLEAN, serial : Nat]

\* Requests after which the client goes on.
Async(m) == m.type \in Ignored \/ (m.type = "FORWARD_EVENT" /\ ~ m.sync)

\* Answers that end the waiting, and what they tell the client.
Ends(m) == m.type \notin {"COMMIT", "FORWARD_EVENT", "SET_EVENT_MASK"}

IMsAfter(m) ==
  IF m.type = "OPEN_REPLY" THEN myIMs \cup {m.im}
  ELSE IF m.type = "CLOSE_REPLY" THEN myIMs \ {m.im} ELSE myIMs

ICsAfter(m) ==
  IF m.type = "CREATE_IC_REPLY" THEN myICs \cup {m.ic}
  ELSE IF m.type = "DESTROY_IC_REPLY" THEN myICs \ {m.ic} ELSE myICs

LiveICs == {id \in ICs : ics[id] # 0}

Types ==
  /\ ims \subseteq IMs
  /\ ics \in [ICs -> AnyIM]
  /\ toServer \in Seq(Packet) /\ toClient \in Seq(Packet)
  /\ serial \in Nat
  /\ waiting \in Nat \cup {NoRequest}

\* Only the last request is one that is waited for.
Requests ==
  \A k \in 1 .. Len(toServer) : Async(toServer[k]) \/ (k = Len(toServer) /\ waiting # NoRequest)

\* Keys are sent to what is open.
Keys ==
  \A k \in 1 .. Len(toServer) :
    toServer[k].type = "FORWARD_EVENT" => toServer[k].im \in ims /\ ics[toServer[k].ic] # 0
                                           /\ toServer[k].im \in IMs /\ toServer[k].ic \in ICs

\* An answer on its way is the only one; the client will then know what the
\* server knows.
Answers ==
  \A k \in 1 .. Len(toClient) : Ends(toClient[k]) =>
    /\ waiting # NoRequest
    /\ toServer = <<>>
    /\ \A j \in 1 .. Len(toClient) : Ends(toClient[j]) => j = k
    /\ IMsAfter(toClient[k]) = ims /\ ICsAfter(toClient[k]) = LiveICs

\* Without one it knows that already.
Agreed ==
  (\A k \in 1 .. Len(toClient) : ~ Ends(toClient[k])) => myIMs = ims /\ myICs = LiveICs

Inv == Types /\ Requests /\ Keys /\ Answers /\ Agreed

LEMMA InitInv == Init => Inv
<1> SUFFICES ASSUME Init PROVE Inv
  OBVIOUS
<1>1. Types
  BY TableAssumption DEF Init, Types, IMs, ICs, AnyIM, NoRequest
<1>2. Requests /\ Keys /\ Answers
  BY DEF Init, Requests, Keys, Answers
<1>3. Agreed
  BY DEF Init, Agreed, LiveICs
<1> QED
  BY <1>1, <1>2, <1>3 DEF Inv

-----------------------------------------------------------------------------
(* The client's steps *)

LEMMA PutTypes ==
  ASSUME Inv, NEW m \in Packet, Put(m), waiting' \in Nat \cup {NoRequest}, serial' \in Nat
  PROVE  Types'
  BY DEF Inv, Types, Put, serverVars

\* A request with which the client begins to wait, or after which it does not.
LEMMA PutInv ==
  ASSUME Inv, NEW m \in Packet, Put(m), waiting' \in Nat \cup {NoRequest}, serial' \in Nat,
         waiting' # NoRequest \/ Async(m),
         m.type = "FORWARD_EVENT" => m.im \in myIMs /\ m.ic \in myICs
  PROVE  Inv'
<1> DEFINE n == Len(toServer)
<1>1. /\ toServer \in Seq(Packet) /\ n \in Nat
      /\ toServer' = Append(toServer, m) /\ Len(toServer') = n + 1
      /\ toServer'[n + 1] = m
      /\ \A k \in 1 .. n : toServer'[k] = toServer[k]
  BY DEF Inv, Types, Put
<1>2. \A k \in 1 .. Len(toServer') : k \in 1 .. n \/ k = n + 1
  BY <1>1
<1>3. UNCHANGED <<ims, ics, toClient, myIMs, myICs>> /\ waiting = NoRequest
  BY DEF Put, serverVars
<1>4. \A k \in 1 .. Len(toClient) : ~ Ends(toClient[k])
  BY <1>3 DEF Inv, Answers
<1>5. myIMs = ims /\ myICs = LiveICs
  BY <1>4 DEF Inv, Agreed
<1>6. Requests'
  <2>1. \A k \in 1 .. n : Async(toServer[k])
    BY <1>3 DEF Inv, Requests
  <2>2. ASSUME NEW k \in 1 .. Len(toServer')
        PROVE  Async(toServer'[k]) \/ (k = Len(toServer') /\ waiting' # NoRequest)
    <3>1. CASE k \in 1 .. n
      BY <1>1, <2>1, <3>1
    <3>2. CASE k = n + 1
      BY <1>1, <3>2
    <3> QED
      BY <1>2, <3>1, <3>2
  <2> QED
    BY <2>2 DEF Requests, Async
<1>7. Keys'
  <2>1. m.type = "FORWARD_EVENT" => /\ m.im \in ims /\ ics[m.ic] # 0
                                    /\ m.im \in IMs /\ m.ic \in ICs
    BY <1>5 DEF Inv, Types, LiveICs
  <2> QED
    BY <1>1, <1>2, <1>3, <2>1 DEF Inv, Keys
<1>8. Answers' /\ Agreed'
  BY <1>3, <1>4, <1>5 DEF Answers, Agreed, LiveICs, Ends
<1> QED
  BY PutTypes, <1>6, <1>7, <1>8 DEF Inv

LEMMA RequestInv == ASSUME Inv, Request PROVE Inv'
<1>1. PICK type \in {"CONNECT", "OPEN", "CLOSE", "CREATE_IC", "GET_IC_VALUES", "DESTROY_IC"}
                      \cup Queries, im \in AnyIM, ic \in AnyIC :
        Put(Msg(type, im, ic)) /\ waiting' = 0
  <2>1. 0 \in AnyIC
    BY TableAssumption DEF AnyIC
  <2> QED
    BY <2>1 DEF Request
<1>2. Msg(type, im, ic) \in Packet /\ Msg(type, im, ic).type # "FORWARD_EVENT"
  BY DEF Msg, Packet, Type, Queries
<1>3. waiting' # NoRequest /\ waiting' \in Nat
  BY <1>1 DEF NoRequest
<1>4. serial' \in Nat
  BY DEF Request, Inv, Types
<1> QED
  BY <1>1, <1>2, <1>3, <1>4, PutInv

LEMMA NotifyInv == ASSUME Inv, Notify PROVE Inv'
<1>1. PICK type \in Ignored : Put(Msg(type, 0, 0))
  BY DEF Notify
<1>2. /\ Msg(type, 0, 0) \in Packet /\ Msg(type, 0, 0).type # "FORWARD_EVENT"
      /\ Async(Msg(type, 0, 0))
  BY TableAssumption DEF Msg, Packet, Type, Ignored, Async, AnyIM, AnyIC
<1>3. serial' \in Nat /\ waiting' \in Nat \cup {NoRequest}
  BY DEF Notify, Inv, Types
<1> QED
  BY <1>1, <1>2, <1>3, PutInv

LEMMA Tables == Inv => ims \subseteq AnyIM /\ LiveICs \subseteq AnyIC
  BY TableAssumption DEF Inv, Types, IMs, AnyIM, LiveICs, ICs, AnyIC

LEMMA ForwardInv == ASSUME Inv, Forward PROVE Inv'
<1>1. PICK im \in myIMs, ic \in myICs, sync \in BOOLEAN :
        /\ Put(KeyEvent(im, ic, sync, serial'))
        /\ waiting' = IF sync THEN serial' ELSE NoRequest
  BY DEF Forward
<1>2. serial \in Nat /\ serial' = serial + 1
  BY DEF Forward, Inv, Types
<1>3. myIMs = ims /\ myICs = LiveICs
  <2>1. waiting = NoRequest
    BY <1>1 DEF Put
  <2> QED
    BY <2>1 DEF Inv, Answers, Agreed
<1> DEFINE m == KeyEvent(im, ic, sync, serial')
<1>4. /\ m \in Packet /\ m.im = im /\ m.ic = ic /\ m.sync = sync
      /\ m.type = "FORWARD_EVENT"
  BY <1>2, <1>3, Tables DEF KeyEvent, Packet, Type
<1>5. waiting' # NoRequest \/ Async(m)
  BY <1>1, <1>2, <1>4 DEF Async, NoRequest
<1>6. serial' \in Nat /\ waiting' \in Nat \cup {NoRequest}
  BY <1>1, <1>2
<1>7. Put(m)
  BY <1>1
<1> HIDE DEF m
<1> QED
  BY <1>4, <1>5, <1>6, <1>7, PutInv

LEMMA ReceiveInv == ASSUME Inv, Receive PROVE Inv'
<1> DEFINE n == Len(toClient)
           m == Head(toClient)
<1>1. /\ toClient \in Seq(Packet) /\ n \in Nat /\ n >= 1
      /\ toClient[1] = m
      /\ toClient' \in Seq(Packet) /\ Len(toClient') = n - 1
      /\ \A k \in 1 .. n - 1 : toClient'[k] = toClient[k + 1]
  BY DEF Inv, Types, Receive
<1>2. UNCHANGED <<ims, ics, toServer, serial>>
  BY DEF Receive, serverVars
<1>3. CASE Ends(m)
  <2>1. /\ waiting # NoRequest /\ toServer = <<>>
        /\ \A j \in 1 .. n : Ends(toClient[j]) => j = 1
        /\ IMsAfter(m) = ims /\ ICsAfter(m) = LiveICs
    BY <1>1, <1>3 DEF Inv, Answers
  <2>2. myIMs' = IMsAfter(m) /\ myICs' = ICsAfter(m) /\ waiting' = NoRequest
    BY <1>3 DEF Receive, Ends, IMsAfter, ICsAfter
  <2>3. \A k \in 1 .. Len(toClient') : ~ Ends(toClient'[k])
    <3> SUFFICES ASSUME NEW k \in 1 .. n - 1 PROVE ~ Ends(toClient[k + 1])
      BY <1>1
    <3> QED
      BY <1>1, <2>1
  <2>4. Types'
    BY <1>1, <1>2, <2>2 DEF Inv, Types
  <2>5. Requests' /\ Keys'
    BY <1>2, <2>1 DEF Requests, Keys
  <2>6. Answers' /\ Agreed'
    BY <1>2, <2>1, <2>2, <2>3 DEF Answers, Agreed, LiveICs, Ends
  <2> QED
    BY <2>4, <2>5, <2>6 DEF Inv
<1>4. CASE ~ Ends(m)
  <2>1. UNCHANGED <<myIMs, myICs, waiting>>
    BY <1>4 DEF Receive, Ends
  <2>2. Types'
    BY <1>1, <1>2, <2>1 DEF Inv, Types
  <2>3. Requests' /\ Keys'
    BY <1>2, <2>1 DEF Inv, Requests, Keys, Async
  <2>4. Answers'
    <3> SUFFICES ASSUME NEW k \in 1 .. n - 1, Ends(toClient[k + 1])
                 PROVE  /\ waiting # NoRequest /\ toServer = <<>>
                        /\ \A j \in 1 .. n - 1 : Ends(toClient[j + 1]) => j = k
                        /\ IMsAfter(toClient[k + 1]) = ims /\ ICsAfter(toClient[k + 1]) = LiveICs
      BY <1>1, <1>2, <2>1, SMTT(40) DEF Answers, Ends, IMsAfter, ICsAfter, LiveICs
    <3>1. k + 1 \in 1 .. n /\ \A j \in 1 .. n - 1 : j + 1 \in 1 .. n
      BY <1>1
    <3> QED
      BY <1>1, <3>1 DEF Inv, Answers
  <2>5. Agreed'
    <3> SUFFICES ASSUME \A k \in 1 .. n - 1 : ~ Ends(toClient[k + 1])
                 PROVE  myIMs = ims /\ myICs = LiveICs
      BY <1>1, <1>2, <2>1 DEF Agreed, Ends, LiveICs
    <3>1. \A k \in 1 .. n : k = 1 \/ (k - 1 \in 1 .. n - 1 /\ k = (k - 1) + 1)
      BY <1>1
    <3>2. \A k \in 1 .. n : ~ Ends(toClient[k])
      BY <1>1, <1>4, <3>1
    <3> QED
      BY <3>2 DEF Inv, Agreed
  <2> QED
    BY <2>2, <2>3, <2>4, <2>5 DEF Inv
<1> QED
  BY <1>3, <1>4

-----------------------------------------------------------------------------
(* The server's steps *)

\* What every handler does to the queues.
LEMMA Queues ==
  ASSUME Inv, NEW m, NEW replies \in Seq(Packet), Answer(m, replies)
  PROVE  LET n == Len(toClient)
             r == Len(replies)
         IN  /\ m \in Packet /\ m = toServer[1] /\ Len(toServer) \in Nat \ {0}
             /\ toServer' \in Seq(Packet) /\ Len(toServer') = Len(toServer) - 1
             /\ \A k \in 1 .. Len(toServer) - 1 : toServer'[k] = toServer[k + 1]
             /\ toClient' \in Seq(Packet) /\ n \in Nat /\ r \in Nat /\ Len(toClient') = n + r
             /\ \A k \in 1 .. n : toClient'[k] = toClient[k]
             /\ \A k \in 1 .. r : toClient'[n + k] = replies[k]
             /\ \A k \in 1 .. n + r : k \in 1 .. n \/ (k - n \in 1 .. r /\ k = n + (k - n))
             /\ \A k \in 1 .. n : ~ Ends(toClient[k])
             /\ myIMs = ims /\ myICs = LiveICs
             /\ UNCHANGED <<myIMs, myICs, waiting, serial>>
<1>1. toServer # <<>> /\ m = Head(toServer) /\ toServer' = Tail(toServer)
  BY DEF Answer
<1>2. toClient' = toClient \o replies /\ UNCHANGED clientVars
  BY DEF Answer
<1>3. toServer \in Seq(Packet) /\ toClient \in Seq(Packet)
  BY DEF Inv, Types
<1>4. \A k \in 1 .. Len(toClient) : ~ Ends(toClient[k])
  BY <1>1 DEF Inv, Answers
<1>5. myIMs = ims /\ myICs = LiveICs
  BY <1>4 DEF Inv, Agreed
<1>6. /\ m \in Packet /\ m = toServer[1] /\ Len(toServer) \in Nat \ {0}
      /\ toServer' \in Seq(Packet) /\ Len(toServer') = Len(toServer) - 1
      /\ \A k \in 1 .. Len(toServer) - 1 : toServer'[k] = toServer[k + 1]
  BY <1>1, <1>3
<1>7. /\ toClient' \in Seq(Packet) /\ Len(toClient') = Len(toClient) + Len(replies)
      /\ \A k \in 1 .. Len(toClient) : toClient'[k] = toClient[k]
      /\ \A k \in 1 .. Len(replies) : toClient'[Len(toClient) + k] = replies[k]
  BY <1>2, <1>3
<1> QED
  BY <1>2, <1>3, <1>4, <1>5, <1>6, <1>7 DEF clientVars

\* The rest of the requests moves up.
LEMMA RequestsLeft ==
  ASSUME Inv, NEW m, NEW replies \in Seq(Packet), Answer(m, replies)
  PROVE  Requests' /\ (UNCHANGED <<ims, ics>> => Keys')
<1>1. /\ Len(toServer) \in Nat \ {0} /\ Len(toServer') = Len(toServer) - 1
      /\ \A k \in 1 .. Len(toServer) - 1 : toServer'[k] = toServer[k + 1]
      /\ waiting' = waiting
  BY Queues
<1>2. \A k \in 1 .. Len(toServer) - 1 : k + 1 \in 1 .. Len(toServer)
  BY <1>1
<1>3. Requests'
  <2>1. ASSUME NEW k \in 1 .. Len(toServer')
        PROVE  Async(toServer'[k]) \/ (k = Len(toServer') /\ waiting' # NoRequest)
    <3>1. k + 1 \in 1 .. Len(toServer) /\ toServer'[k] = toServer[k + 1]
      BY <1>1, <1>2
    <3>2. Async(toServer[k + 1]) \/ (k + 1 = Len(toServer) /\ waiting # NoRequest)
      BY <3>1 DEF Inv, Requests
    <3> QED
      BY <1>1, <3>1, <3>2
  <2> QED
    BY <2>1 DEF Requests, Async
<1>4. ASSUME UNCHANGED <<ims, ics>> PROVE Keys'
  BY <1>1, <1>2, <1>4 DEF Inv, Keys
<1> QED
  BY <1>3, <1>4

\* A message after which the client went on: no table changes, and no answer
\* ends a waiting.
LEMMA QuietInv ==
  ASSUME Inv, NEW m, NEW replies \in Seq(Packet), Answer(m, replies), UNCHANGED <<ims, ics>>,
         \A k \in 1 .. Len(replies) : ~ Ends(replies[k])
  PROVE  Inv'
<1>1. \A k \in 1 .. Len(toClient') : ~ Ends(toClient'[k])
  <2> DEFINE n == Len(toClient)
             r == Len(replies)
  <2>1. /\ Len(toClient') = n + r
        /\ \A k \in 1 .. n : toClient'[k] = toClient[k]
        /\ \A k \in 1 .. r : toClient'[n + k] = replies[k]
        /\ \A k \in 1 .. n + r : k \in 1 .. n \/ (k - n \in 1 .. r /\ k = n + (k - n))
        /\ \A k \in 1 .. n : ~ Ends(toClient[k])
    BY Queues
  <2> SUFFICES ASSUME NEW k \in 1 .. n + r PROVE ~ Ends(toClient'[k])
    BY <2>1
  <2>2. CASE k \in 1 .. n
    BY <2>1, <2>2
  <2>3. CASE k - n \in 1 .. r /\ k = n + (k - n)
    <3>1. toClient'[k] = replies[k - n]
      BY <2>1, <2>3
    <3> QED
      BY <2>3, <3>1
  <2> QED
    BY <2>1, <2>2, <2>3
<1>2. /\ toServer' \in Seq(Packet) /\ toClient' \in Seq(Packet)
      /\ myIMs = ims /\ myICs = LiveICs
      /\ UNCHANGED <<myIMs, myICs, waiting, serial>>
  BY Queues
<1>3. Types'
  BY <1>2 DEF Inv, Types
<1>4. Answers' /\ Agreed'
  BY <1>1, <1>2 DEF Answers, Agreed, Ends, LiveICs
<1> QED
  BY RequestsLeft, <1>3, <1>4 DEF Inv

\* A request that the client waits for: one of the replies ends the waiting
\* and tells what became of the tables.
LEMMA FinalInv ==
  ASSUME Inv, NEW m, NEW replies \in Seq(Packet), Answer(m, replies), ~ Async(m),
         ims' \subseteq IMs, ics' \in [ICs -> AnyIM],
         NEW f \in 1 .. Len(replies), Ends(replies[f]),
         \A k \in 1 .. Len(replies) : Ends(replies[k]) => k = f,
         myIMs = ims /\ myICs = LiveICs =>
           IMsAfter(replies[f]) = ims' /\ ICsAfter(replies[f]) = LiveICs'
  PROVE  Inv'
<1> DEFINE n == Len(toClient)
           r == Len(replies)
<1>1. /\ m = toServer[1] /\ Len(toServer) \in Nat \ {0}
      /\ toServer' \in Seq(Packet) /\ Len(toServer') = Len(toServer) - 1
      /\ toClient' \in Seq(Packet) /\ n \in Nat /\ r \in Nat /\ Len(toClient') = n + r
      /\ \A k \in 1 .. n : toClient'[k] = toClient[k]
      /\ \A k \in 1 .. r : toClient'[n + k] = replies[k]
      /\ \A k \in 1 .. n + r : k \in 1 .. n \/ (k - n \in 1 .. r /\ k = n + (k - n))
      /\ \A k \in 1 .. n : ~ Ends(toClient[k])
      /\ myIMs = ims /\ myICs = LiveICs
      /\ UNCHANGED <<myIMs, myICs, waiting, serial>>
  BY Queues
<1>2. Len(toServer) = 1 /\ waiting # NoRequest
  <2>1. 1 \in 1 .. Len(toServer)
    BY <1>1
  <2> QED
    BY <1>1, <2>1 DEF Inv, Requests
<1>3. toServer' = <<>>
  BY <1>1, <1>2
<1>4. Types'
  BY <1>1 DEF Inv, Types
<1>5. Requests' /\ Keys'
  BY <1>3 DEF Requests, Keys
<1>6. \A k \in 1 .. Len(toClient') : Ends(toClient'[k]) => k = n + f
  <2> SUFFICES ASSUME NEW k \in 1 .. n + r, Ends(toClient'[k]) PROVE k = n + f
    BY <1>1
  <2>1. k - n \in 1 .. r /\ k = n + (k - n)
    BY <1>1
  <2>2. Ends(replies[k - n])
    BY <1>1, <2>1
  <2> QED
    BY <2>1, <2>2
<1>7. n + f \in 1 .. Len(toClient') /\ toClient'[n + f] = replies[f]
  BY <1>1
<1>8. Answers'
  <2> SUFFICES ASSUME NEW k \in 1 .. Len(toClient'), Ends(toClient'[k])
               PROVE  /\ waiting' # NoRequest /\ toServer' = <<>>
                      /\ \A j \in 1 .. Len(toClient') : Ends(toClient'[j]) => j = k
                      /\ IMsAfter(toClient'[k]) = ims' /\ ICsAfter(toClient'[k]) = LiveICs'
    BY <1>1 DEF Answers, Ends, IMsAfter, ICsAfter
  <2> QED
    BY <1>1, <1>2, <1>3, <1>6, <1>7
<1>9. Agreed'
  <2>1. \E k \in 1 .. Len(toClient') : Ends(toClient'[k])
    BY <1>7
  <2> QED
    BY <2>1 DEF Agreed, Ends
<1> QED
  BY <1>4, <1>5, <1>8, <1>9 DEF Inv

\* A single reply that ends the waiting, while the tables stay.
LEMMA RefuseInv ==
  ASSUME Inv, NEW m, NEW reply \in Packet, Answer(m, <<reply>>), ~ Async(m), Ends(reply),
         reply.type \notin {"OPEN_REPLY", "CLOSE_REPLY", "CREATE_IC_REPLY", "DESTROY_IC_REPLY"},
         UNCHANGED <<ims, ics>>
  PROVE  Inv'
<1> DEFINE replies == <<reply>>
<1>1. /\ replies \in Seq(Packet) /\ Len(replies) = 1 /\ replies[1] = reply
      /\ 1 \in 1 .. Len(replies) /\ \A k \in 1 .. Len(replies) : k = 1
  OBVIOUS
<1>2. ims' \subseteq IMs /\ ics' \in [ICs -> AnyIM] /\ LiveICs' = LiveICs
  BY DEF Inv, Types, LiveICs
<1>3. myIMs = ims /\ myICs = LiveICs =>
        IMsAfter(replies[1]) = ims' /\ ICsAfter(replies[1]) = LiveICs'
  BY <1>1, <1>2 DEF IMsAfter, ICsAfter
<1>4. Answer(m, replies)
  OBVIOUS
<1> HIDE DEF replies
<1> QED
  BY <1>1, <1>2, <1>3, <1>4, FinalInv

LEMMA ReplyPacket ==
  ASSUME Inv, NEW m \in Packet, NEW type \in Type
  PROVE  /\ Msg(type, m.im, m.ic) \in Packet
         /\ Reply(m, type) = <<Msg(type, m.im, m.ic)>>
         /\ Msg(type, m.im, m.ic).type = type
         /\ Msg(type, m.im, m.ic).im = m.im /\ Msg(type, m.im, m.ic).ic = m.ic
  BY DEF Msg, Reply, Packet

LEMMA ErrorInv ==
  ASSUME Inv, NEW m, Answer(m, Error), ~ Async(m), UNCHANGED <<ims, ics>>
  PROVE  Inv'
<1>1. Msg("ERROR", 0, 0) \in Packet /\ Msg("ERROR", 0, 0).type = "ERROR"
  BY TableAssumption DEF Msg, Packet, Type, AnyIM, AnyIC
<1>2. Ends(Msg("ERROR", 0, 0))
  BY <1>1 DEF Ends
<1> QED
  BY <1>1, <1>2, RefuseInv DEF Error

\* What is handled is a packet.
LEMMA HeadPacket == ASSUME Inv, toServer # <<>> PROVE Head(toServer) \in Packet
  BY DEF Inv, Types

LEMMA ConnectInv == ASSUME Inv, NEW m \in Packet, handle_connect_msg(m) PROVE Inv'
<1> DEFINE reply == Msg("CONNECT_REPLY", m.im, m.ic)
<1>1. /\ reply \in Packet /\ reply.type = "CONNECT_REPLY"
      /\ Reply(m, "CONNECT_REPLY") = <<reply>>
  BY ReplyPacket DEF Type
<1>2. Answer(m, <<reply>>) /\ UNCHANGED <<ims, ics>> /\ m.type = "CONNECT"
  BY <1>1 DEF handle_connect_msg, serverVars
<1> HIDE DEF reply
<1>3. ~ Async(m) /\ Ends(reply)
  BY <1>1, <1>2 DEF Async, Ignored, Ends
<1> QED
  BY <1>1, <1>2, <1>3, RefuseInv

LEMMA OpenInv == ASSUME Inv, NEW m \in Packet, handle_open_msg(m) PROVE Inv'
<1>1. m.type = "OPEN" /\ ~ Async(m)
  BY DEF handle_open_msg, Async, Ignored
<1>2. CASE Answer(m, Error) /\ UNCHANGED serverVars
  BY <1>1, <1>2, ErrorInv DEF serverVars
<1>3. ASSUME NEW id \in FreeIMs, ims' = ims \cup {id}, UNCHANGED <<ics, produced>>,
             Answer(m, <<Msg("OPEN_REPLY", id, 0), Msg("SET_EVENT_MASK", id, 0)>>)
      PROVE  Inv'
  <2> DEFINE opened == Msg("OPEN_REPLY", id, 0)
             mask == Msg("SET_EVENT_MASK", id, 0)
             replies == <<opened, mask>>
  <2>1. id \in IMs /\ id \in AnyIM
    BY TableAssumption DEF FreeIMs, IMs, AnyIM
  <2>2. /\ opened \in Packet /\ opened.type = "OPEN_REPLY" /\ opened.im = id
        /\ mask \in Packet /\ mask.type = "SET_EVENT_MASK"
    BY <2>1, TableAssumption DEF Msg, Packet, Type, AnyIC
  <2> HIDE DEF opened, mask
  <2>3. /\ replies \in Seq(Packet) /\ Len(replies) = 2
        /\ replies[1] = opened /\ replies[2] = mask
    BY <2>2
  <2>4. Answer(m, replies)
    BY <1>3 DEF opened, mask
  <2> HIDE DEF replies
  <2>5. Ends(replies[1]) /\ ~ Ends(replies[2])
    BY <2>2, <2>3 DEF Ends
  <2>6. 1 \in 1 .. Len(replies) /\ \A k \in 1 .. Len(replies) : k = 1 \/ k = 2
    BY <2>3
  <2>7. ims' \subseteq IMs /\ ics' \in [ICs -> AnyIM] /\ LiveICs' = LiveICs
    BY <1>3, <2>1 DEF Inv, Types, LiveICs
  <2>8. myIMs = ims /\ myICs = LiveICs =>
          IMsAfter(replies[1]) = ims' /\ ICsAfter(replies[1]) = LiveICs'
    BY <1>3, <2>2, <2>3, <2>7 DEF IMsAfter, ICsAfter
  <2> QED
    BY <1>1, <2>3, <2>4, <2>5, <2>6, <2>7, <2>8, FinalInv
<1> QED
  BY <1>2, <1>3 DEF handle_open_msg

\* A single reply that ends the waiting and tells of a table that changed.
LEMMA AcceptInv ==
  ASSUME Inv, NEW m, NEW reply \in Packet, Answer(m, <<reply>>), ~ Async(m), Ends(reply),
         ims' \subseteq IMs, ics' \in [ICs -> AnyIM],
         myIMs = ims /\ myICs = LiveICs =>
           IMsAfter(reply) = ims' /\ ICsAfter(reply) = LiveICs'
  PROVE  Inv'
<1> DEFINE replies == <<reply>>
<1>1. /\ replies \in Seq(Packet) /\ Len(replies) = 1 /\ replies[1] = reply
      /\ 1 \in 1 .. Len(replies) /\ \A k \in 1 .. Len(replies) : k = 1
      /\ Answer(m, replies)
  OBVIOUS
<1> HIDE DEF replies
<1> QED
  BY <1>1, FinalInv

LEMMA CloseInv == ASSUME Inv, NEW m \in Packet, handle_close_msg(m) PROVE Inv'
<1> DEFINE reply == Msg("CLOSE_REPLY", m.im, m.ic)
<1>1. m.type = "CLOSE" /\ ~ Async(m)
  BY DEF handle_close_msg, Async, Ignored
<1>2. /\ reply \in Packet /\ reply.type = "CLOSE_REPLY" /\ reply.im = m.im
      /\ Reply(m, "CLOSE_REPLY") = <<reply>>
  BY ReplyPacket DEF Type
<1>3. CASE Closable(m)
  <2>1. ims' = ims \ {m.im} /\ ics' = ics /\ Answer(m, <<reply>>)
    BY <1>2, <1>3 DEF handle_close_msg
  <2> HIDE DEF reply
  <2>2. Ends(reply)
    BY <1>2 DEF Ends
  <2>3. ims' \subseteq IMs /\ ics' \in [ICs -> AnyIM] /\ LiveICs' = LiveICs
    BY <2>1 DEF Inv, Types, LiveICs
  <2>4. myIMs = ims /\ myICs = LiveICs =>
          IMsAfter(reply) = ims' /\ ICsAfter(reply) = LiveICs'
    BY <1>2, <2>1, <2>3 DEF IMsAfter, ICsAfter
  <2> QED
    BY <1>1, <1>2, <2>1, <2>2, <2>3, <2>4, AcceptInv
<1>4. CASE ~ Closable(m)
  <2>1. Answer(m, Error) /\ UNCHANGED <<ims, ics>>
    BY <1>4 DEF handle_close_msg, serverVars
  <2> QED
    BY <1>1, <2>1, ErrorInv
<1> QED
  BY <1>3, <1>4

\* Requests that only read.
LEMMA QueryInv ==
  ASSUME Inv, NEW m \in Packet, handle_query_msg(m) \/ handle_get_ic_values_msg(m)
  PROVE  Inv'
<1> DEFINE reply == Msg("QUERY_REPLY", m.im, m.ic)
<1>1. ~ Async(m) /\ UNCHANGED <<ims, ics>>
  BY DEF handle_query_msg, handle_get_ic_values_msg, Queries, Async, Ignored, serverVars
<1>2. /\ reply \in Packet /\ reply.type = "QUERY_REPLY"
      /\ Reply(m, "QUERY_REPLY") = <<reply>>
  BY ReplyPacket DEF Type
<1>3. CASE Answer(m, Reply(m, "QUERY_REPLY"))
  <2>1. Answer(m, <<reply>>)
    BY <1>2, <1>3
  <2> HIDE DEF reply
  <2>2. Ends(reply)
    BY <1>2 DEF Ends
  <2> QED
    BY <1>1, <1>2, <2>1, <2>2, RefuseInv
<1>4. CASE Answer(m, Error)
  BY <1>1, <1>4, ErrorInv
<1>5. Answer(m, Reply(m, "QUERY_REPLY")) \/ Answer(m, Error)
  BY DEF handle_query_msg, handle_get_ic_values_msg
<1> QED
  BY <1>3, <1>4, <1>5

LEMMA CreateInv == ASSUME Inv, NEW m \in Packet, handle_create_ic_msg(m) PROVE Inv'
<1>1. m.type = "CREATE_IC" /\ ~ Async(m)
  BY DEF handle_create_ic_msg, Async, Ignored
<1>2. CASE Answer(m, Error) /\ UNCHANGED serverVars
  BY <1>1, <1>2, ErrorInv DEF serverVars
<1>3. ASSUME NEW id \in FreeICs, ValidIM(m), ics' = [ics EXCEPT ![id] = m.im],
             Answer(m, <<Msg("CREATE_IC_REPLY", m.im, id)>>), UNCHANGED <<ims, produced>>
      PROVE  Inv'
  <2> DEFINE reply == Msg("CREATE_IC_REPLY", m.im, id)
  <2>1. id \in ICs /\ id \in AnyIC /\ m.im \in IMs /\ m.im \in AnyIM /\ m.im # 0
    BY <1>3, TableAssumption DEF FreeICs, ICs, AnyIC, ValidIM, IMs, AnyIM
  <2>2. reply \in Packet /\ reply.type = "CREATE_IC_REPLY" /\ reply.ic = id
    BY <2>1 DEF Msg, Packet, Type
  <2>3. Answer(m, <<reply>>)
    BY <1>3
  <2> HIDE DEF reply
  <2>4. Ends(reply)
    BY <2>2 DEF Ends
  <2>5. /\ ims' \subseteq IMs /\ ics' \in [ICs -> AnyIM]
        /\ LiveICs' = LiveICs \cup {id}
    BY <1>3, <2>1 DEF Inv, Types, LiveICs
  <2>6. myIMs = ims /\ myICs = LiveICs =>
          IMsAfter(reply) = ims' /\ ICsAfter(reply) = LiveICs'
    BY <1>3, <2>2, <2>5 DEF IMsAfter, ICsAfter
  <2> QED
    BY <1>1, <2>2, <2>3, <2>4, <2>5, <2>6, AcceptInv
<1> QED
  BY <1>2, <1>3 DEF handle_create_ic_msg

LEMMA DestroyInv == ASSUME Inv, NEW m \in Packet, handle_destroy_ic_msg(m) PROVE Inv'
<1> DEFINE reply == Msg("DESTROY_IC_REPLY", m.im, m.ic)
<1>1. m.type = "DESTROY_IC" /\ ~ Async(m)
  BY DEF handle_destroy_ic_msg, Async, Ignored
<1>2. /\ reply \in Packet /\ reply.type = "DESTROY_IC_REPLY" /\ reply.ic = m.ic
      /\ Reply(m, "DESTROY_IC_REPLY") = <<reply>>
  BY ReplyPacket DEF Type
<1>3. CASE ValidIM(m) /\ ValidIC(m)
  <2>1. ims' = ims /\ ics' = [ics EXCEPT ![m.ic] = 0] /\ Answer(m, <<reply>>)
    BY <1>2, <1>3 DEF handle_destroy_ic_msg
  <2> HIDE DEF reply
  <2>2. Ends(reply)
    BY <1>2 DEF Ends
  <2>3. m.ic \in ICs /\ 0 \in AnyIM
    BY <1>3, TableAssumption DEF ValidIC, AnyIM
  <2>4. /\ ims' \subseteq IMs /\ ics' \in [ICs -> AnyIM]
        /\ LiveICs' = LiveICs \ {m.ic}
    BY <2>1, <2>3 DEF Inv, Types, LiveICs
  <2>5. myIMs = ims /\ myICs = LiveICs =>
          IMsAfter(reply) = ims' /\ ICsAfter(reply) = LiveICs'
    BY <1>2, <2>1, <2>4 DEF IMsAfter, ICsAfter
  <2> QED
    BY <1>1, <1>2, <2>1, <2>2, <2>4, <2>5, AcceptInv
<1>4. CASE ~ (ValidIM(m) /\ ValidIC(m))
  <2>1. Answer(m, Error) /\ UNCHANGED <<ims, ics>>
    BY <1>4 DEF handle_destroy_ic_msg, serverVars
  <2> QED
    BY <1>1, <2>1, ErrorInv
<1> QED
  BY <1>3, <1>4

LEMMA IgnoreInv == ASSUME Inv, NEW m \in Packet, ignore_msg(m) PROVE Inv'
<1>1. Answer(m, <<>>) /\ UNCHANGED <<ims, ics>>
  BY DEF ignore_msg, serverVars
<1> DEFINE replies == <<>>
<1>2. replies \in Seq(Packet) /\ \A k \in 1 .. Len(replies) : ~ Ends(replies[k])
  OBVIOUS
<1>3. Answer(m, replies)
  BY <1>1
<1> HIDE DEF replies
<1> QED
  BY <1>1, <1>2, <1>3, QuietInv

\* What the input method did with the key, and the reply to a sync request.
LEMMA KeyInv == ASSUME Inv, NEW m \in Packet, handle_forward_event_msg(m) PROVE Inv'
<1>1. m.type = "FORWARD_EVENT" /\ UNCHANGED <<ims, ics>>
  BY DEF handle_forward_event_msg
<1>2. toServer # <<>> /\ m = Head(toServer)
  BY DEF handle_forward_event_msg, Answer
<1>3. 1 \in 1 .. Len(toServer) /\ m = toServer[1]
  BY <1>2 DEF Inv, Types
<1>4. m.im \in ims /\ m.im \in IMs /\ m.ic \in ICs /\ ics[m.ic] # 0
  BY <1>1, <1>3 DEF Inv, Keys
<1>5. PICK out \in {<<>>, <<Commit(m)>>, <<Returned(m)>>} : Answer(m, out \o SyncReply(m))
  BY <1>4 DEF handle_forward_event_msg, ValidIM, ValidIC
<1>6. /\ Commit(m) \in Packet /\ ~ Ends(Commit(m))
      /\ Returned(m) \in Packet /\ ~ Ends(Returned(m))
  <2>1. ics[m.ic] \in AnyIM
    BY <1>4 DEF Inv, Types
  <2>2. m.im \in AnyIM /\ m.ic \in AnyIC /\ m.serial \in Nat
    BY DEF Packet
  <2>3. Commit(m) \in Packet /\ Commit(m).type = "COMMIT"
    BY <2>1, <2>2 DEF Commit, Packet, Type
  <2>4. Returned(m) \in Packet /\ Returned(m).type = "FORWARD_EVENT"
    BY <2>2 DEF Returned, KeyEvent, Packet, Type
  <2> QED
    BY <2>3, <2>4 DEF Ends
<1>7. /\ out \in Seq(Packet) /\ Len(out) \in {0, 1}
      /\ \A k \in 1 .. Len(out) : ~ Ends(out[k])
  <2>1. CASE out = <<>>
    BY <2>1
  <2>2. ASSUME NEW p \in Packet, ~ Ends(p), out = <<p>>
        PROVE  out \in Seq(Packet) /\ Len(out) = 1 /\ \A k \in 1 .. Len(out) : ~ Ends(out[k])
    BY <2>2
  <2> QED
    BY <1>5, <1>6, <2>1, <2>2
<1>8. CASE ~ m.sync
  <2>1. out \o SyncReply(m) = out
    BY <1>7, <1>8 DEF SyncReply
  <2> QED
    BY <1>1, <1>5, <1>7, <2>1, QuietInv
<1>9. CASE m.sync
  <2> DEFINE sync == Msg("SYNC_REPLY", m.im, m.ic)
             replies == out \o <<sync>>
             f == Len(out) + 1
  <2>1. /\ sync \in Packet /\ sync.type = "SYNC_REPLY"
        /\ SyncReply(m) = <<sync>>
    BY <1>9, ReplyPacket DEF Type, SyncReply
  <2>2. Answer(m, replies)
    BY <1>5, <2>1
  <2> HIDE DEF sync
  <2>3. /\ replies \in Seq(Packet) /\ Len(replies) = f
        /\ replies[f] = sync /\ \A k \in 1 .. Len(out) : replies[k] = out[k]
    BY <1>7, <2>1
  <2>4. f \in 1 .. Len(replies) /\ \A k \in 1 .. Len(replies) : k \in 1 .. Len(out) \/ k = f
    BY <1>7, <2>3
  <2> HIDE DEF replies, f
  <2>5. Ends(replies[f])
    BY <2>1, <2>3 DEF Ends
  <2>6. \A k \in 1 .. Len(replies) : Ends(replies[k]) => k = f
    <3> SUFFICES ASSUME NEW k \in 1 .. Len(out) PROVE ~ Ends(replies[k])
      BY <2>4
    <3> QED
      BY <1>7, <2>3
  <2>7. ims' \subseteq IMs /\ ics' \in [ICs -> AnyIM] /\ LiveICs' = LiveICs
    BY <1>1 DEF Inv, Types, LiveICs
  <2>8. myIMs = ims /\ myICs = LiveICs =>
          IMsAfter(replies[f]) = ims' /\ ICsAfter(replies[f]) = LiveICs'
    BY <1>1, <2>1, <2>3, <2>7 DEF IMsAfter, ICsAfter
  <2>9. ~ Async(m)
    BY <1>1, <1>9 DEF Async, Ignored
  <2> QED
    BY <2>2, <2>3, <2>4, <2>5, <2>6, <2>7, <2>8, <2>9, FinalInv
<1> QED
  BY <1>8, <1>9

LEMMA NextInv == Inv /\ [Next]_vars => Inv'
<1> SUFFICES ASSUME Inv, [Next]_vars PROVE Inv'
  OBVIOUS
<1>1. CASE _xim_client_handle_msg
  <2> DEFINE m == Head(toServer)
  <2>1. m \in Packet
    BY <1>1, HeadPacket DEF _xim_client_handle_msg
  <2>2. \/ handle_connect_msg(m)
        \/ handle_open_msg(m)
        \/ handle_close_msg(m)
        \/ handle_query_msg(m)
        \/ handle_create_ic_msg(m)
        \/ handle_get_ic_values_msg(m)
        \/ handle_destroy_ic_msg(m)
        \/ handle_forward_event_msg(m)
        \/ ignore_msg(m)
    BY <1>1 DEF _xim_client_handle_msg
  <2> HIDE DEF m
  <2> QED
    BY <2>1, <2>2, ConnectInv, OpenInv, CloseInv, QueryInv, CreateInv, DestroyInv, KeyInv, IgnoreInv
<1>2. CASE UNCHANGED vars
  <2>1. UNCHANGED <<ims, ics, toServer, toClient, myIMs, myICs, waiting, serial>>
    BY <1>2 DEF vars, serverVars, clientVars
  <2> QED
    BY <2>1 DEF Inv, Types, Requests, Keys, Answers, Agreed, Async, Ends, IMsAfter, ICsAfter,
                LiveICs
<1> QED
  BY <1>1, <1>2, RequestInv, NotifyInv, ForwardInv, ReceiveInv DEF Next

-----------------------------------------------------------------------------
(* The order of what is made for the application *)

Output(m) == m.type \in {"COMMIT", "FORWARD_EVENT"}

\* What the application did not yet get is on its way, in order: the i-th of it
\* is the at[i]-th of the messages.
OnItsWay(at) ==
  LET n == Len(app)
      d == Len(produced) - Len(app)
  IN  /\ at \in [1 .. d -> 1 .. Len(toClient)]
      /\ \A i, j \in 1 .. d : i < j => at[i] < at[j]
      /\ \A i \in 1 .. d : Output(toClient[at[i]]) /\ toClient[at[i]] = produced[n + i]
      /\ \A k \in 1 .. Len(toClient) : Output(toClient[k]) => \E i \in 1 .. d : at[i] = k

Delivered ==
  /\ app \in Seq(Packet) /\ produced \in Seq(Packet)
  /\ Len(app) <= Len(produced)
  /\ \A i \in 1 .. Len(app) : app[i] = produced[i]
  /\ \E at \in [1 .. Len(produced) - Len(app) -> 1 .. Len(toClient)] : OnItsWay(at)

\* Nothing is made for the application behind the end of the waiting.
Closed ==
  \A k, j \in 1 .. Len(toClient) : Ends(toClient[k]) /\ k < j => ~ Output(toClient[j])

IsKey(m) == m.type = "FORWARD_EVENT"

\* Key events are handled in the order of their numbers ...
ProducedInOrder ==
  \A i, j \in 1 .. Len(produced) : i < j => produced[i].serial < produced[j].serial

KeysInOrder ==
  \A j, k \in 1 .. Len(toServer) :
    IsKey(toServer[j]) /\ IsKey(toServer[k]) /\ j < k => toServer[j].serial < toServer[k].serial

KeysComeLater ==
  \A i \in 1 .. Len(produced), k \in 1 .. Len(toServer) :
    IsKey(toServer[k]) => produced[i].serial < toServer[k].serial

\* ... and what was settled is behind all that are still to be handled.
Settled ==
  /\ settled \in Nat /\ settled <= serial /\ waiting <= serial
  /\ \A i \in 1 .. Len(produced) :
       produced[i].serial <= serial /\ (produced[i].serial <= settled => i <= Len(app))
  /\ \A k \in 1 .. Len(toServer) : IsKey(toServer[k]) =>
       toServer[k].serial <= serial /\ settled < toServer[k].serial

Serials == ProducedInOrder /\ KeysInOrder /\ KeysComeLater /\ Settled

Order == Inv /\ Delivered /\ Closed /\ Serials

LEMMA InitOrder == Init => Order
<1> SUFFICES ASSUME Init PROVE Order
  OBVIOUS
<1>1. Delivered
  <2> DEFINE none == [i \in 1 .. 0 |-> 1]
  <2>1. none \in [1 .. Len(produced) - Len(app) -> 1 .. Len(toClient)]
    BY DEF Init
  <2>2. OnItsWay(none)
    BY <2>1 DEF Init, OnItsWay
  <2> HIDE DEF none
  <2>3. \E at \in [1 .. Len(produced) - Len(app) -> 1 .. Len(toClient)] : OnItsWay(at)
    BY <2>1, <2>2
  <2>4. /\ app \in Seq(Packet) /\ produced \in Seq(Packet)
        /\ Len(app) <= Len(produced)
        /\ \A i \in 1 .. Len(app) : app[i] = produced[i]
    BY DEF Init
  <2> QED
    BY <2>3, <2>4 DEF Delivered
<1>2. Closed /\ Serials
  BY DEF Init, Closed, Serials, ProducedInOrder, KeysInOrder, KeysComeLater, Settled, NoRequest
<1> QED
  BY InitInv, <1>1, <1>2 DEF Order

\* Steps that make nothing and deliver nothing.
LEMMA DeliveredStays ==
  ASSUME Delivered, Closed, UNCHANGED <<toClient, produced, app>> PROVE Delivered' /\ Closed'
<1>1. PICK at \in [1 .. Len(produced) - Len(app) -> 1 .. Len(toClient)] : OnItsWay(at)
  BY DEF Delivered
<1>2. OnItsWay(at)'
  BY <1>1 DEF OnItsWay, Output
<1> QED
  BY <1>1, <1>2 DEF Delivered, Closed, Ends, Output

LEMMA PutOrder ==
  ASSUME Order, NEW m \in Packet, Put(m), waiting' <= serial',
         serial \in Nat, serial' \in Nat, serial <= serial',
         m.type = "FORWARD_EVENT" => m.serial = serial' /\ serial < serial'
  PROVE  Delivered' /\ Closed' /\ Serials'
<1> DEFINE n == Len(toServer)
<1>1. /\ n \in Nat /\ Len(toServer') = n + 1
      /\ toServer'[n + 1] = m
      /\ \A k \in 1 .. n : toServer'[k] = toServer[k]
  BY DEF Order, Inv, Types, Put
<1>2. \A k \in 1 .. Len(toServer') : k \in 1 .. n \/ k = n + 1
  BY <1>1
<1>3. UNCHANGED <<toClient, produced, app, settled>>
  BY DEF Put, serverVars
<1>4. produced \in Seq(Packet) /\ toServer \in Seq(Packet)
  BY DEF Order, Delivered, Inv, Types
<1>5. /\ \A i \in 1 .. Len(produced) : produced[i].serial \in Nat
      /\ \A k \in 1 .. n : toServer[k].serial \in Nat
  <2>1. \A p \in Packet : p.serial \in Nat
    BY DEF Packet
  <2>2. /\ \A i \in 1 .. Len(produced) : produced[i] \in Packet
        /\ \A k \in 1 .. n : toServer[k] \in Packet
    BY <1>4
  <2> QED
    BY <2>1, <2>2
<1>6. IsKey(toServer'[n + 1]) => m.serial = serial' /\ serial < serial'
  BY <1>1 DEF IsKey
<1>7. \A k \in 1 .. n : IsKey(toServer'[k]) <=> IsKey(toServer[k])
  BY <1>1 DEF IsKey
<1>8. Settled
  BY DEF Order, Serials
<1>9. ProducedInOrder'
  BY <1>3 DEF Order, Serials, ProducedInOrder
<1>10. KeysInOrder'
  <2> SUFFICES ASSUME NEW j \in 1 .. n + 1, NEW k \in 1 .. n + 1, IsKey(toServer'[j]), IsKey(toServer'[k]), j < k
               PROVE  toServer'[j].serial < toServer'[k].serial
    BY <1>1 DEF KeysInOrder
  <2>1. j \in 1 .. n /\ IsKey(toServer[j])
    BY <1>1, <1>7
  <2>2. CASE k \in 1 .. n
    BY <1>1, <1>7, <2>1, <2>2 DEF Order, Serials, KeysInOrder
  <2>3. CASE k = n + 1
    <3>1. toServer[j].serial <= serial
      BY <1>8, <2>1 DEF Settled
    <3> QED
      BY <1>1, <1>5, <1>6, <2>1, <2>3, <3>1
  <2> QED
    BY <1>1, <2>2, <2>3
<1>11. KeysComeLater'
  <2> SUFFICES ASSUME NEW i \in 1 .. Len(produced), NEW k \in 1 .. n + 1, IsKey(toServer'[k])
               PROVE  produced[i].serial < toServer'[k].serial
    BY <1>1, <1>3 DEF KeysComeLater
  <2>1. CASE k \in 1 .. n
    BY <1>1, <1>7, <2>1 DEF Order, Serials, KeysComeLater
  <2>2. CASE k = n + 1
    <3>1. produced[i].serial <= serial
      BY <1>8 DEF Settled
    <3> QED
      BY <1>1, <1>5, <1>6, <2>2, <3>1
  <2> QED
    BY <1>1, <2>1, <2>2
<1>12. Settled'
  <2>1. settled' \in Nat /\ settled' <= serial' /\ waiting' <= serial'
    BY <1>3, <1>8 DEF Settled
  <2>2. \A i \in 1 .. Len(produced') :
          produced'[i].serial <= serial' /\ (produced'[i].serial <= settled' => i <= Len(app'))
    BY <1>3, <1>5, <1>8 DEF Settled
  <2>3. ASSUME NEW k \in 1 .. Len(toServer'), IsKey(toServer'[k])
        PROVE  toServer'[k].serial <= serial' /\ settled' < toServer'[k].serial
    <3>1. CASE k \in 1 .. n
      BY <1>1, <1>3, <1>5, <1>7, <1>8, <2>3, <3>1 DEF Settled
    <3>2. CASE k = n + 1
      BY <1>1, <1>3, <1>6, <1>8, <2>3, <3>2 DEF Settled
    <3> QED
      BY <1>2, <3>1, <3>2
  <2> QED
    BY <2>1, <2>2, <2>3 DEF Settled, IsKey
<1>13. Serials'
  BY <1>9, <1>10, <1>11, <1>12 DEF Serials
<1> QED
  BY DeliveredStays, <1>3, <1>13 DEF Order

\* Requests, notifications and key events.
LEMMA SendOrder ==
  ASSUME Order, Request \/ Notify \/ Forward PROVE Delivered' /\ Closed' /\ Serials'
<1>1. Inv /\ serial \in Nat /\ waiting <= serial
  BY DEF Order, Inv, Types, Serials, Settled
<1>2. CASE Request
  <2>1. PICK type \in {"CONNECT", "OPEN", "CLOSE", "CREATE_IC", "GET_IC_VALUES", "DESTROY_IC"}
                        \cup Queries, im \in AnyIM, ic \in AnyIC :
          Put(Msg(type, im, ic)) /\ waiting' = 0
    <3>1. 0 \in AnyIC
      BY TableAssumption DEF AnyIC
    <3> QED
      BY <1>2, <3>1 DEF Request
  <2>2. Msg(type, im, ic) \in Packet /\ Msg(type, im, ic).type # "FORWARD_EVENT"
    BY DEF Msg, Packet, Type, Queries
  <2>3. serial' = serial
    BY <1>2 DEF Request
  <2> QED
    BY <1>1, <2>1, <2>2, <2>3, PutOrder
<1>3. CASE Notify
  <2>1. PICK type \in Ignored : Put(Msg(type, 0, 0))
    BY <1>3 DEF Notify
  <2>2. Msg(type, 0, 0) \in Packet /\ Msg(type, 0, 0).type # "FORWARD_EVENT"
    BY TableAssumption DEF Msg, Packet, Type, Ignored, AnyIM, AnyIC
  <2>3. serial' = serial /\ waiting' = waiting
    BY <1>3 DEF Notify
  <2> QED
    BY <1>1, <2>1, <2>2, <2>3, PutOrder
<1>4. CASE Forward
  <2>1. PICK im \in myIMs, ic \in myICs, sync \in BOOLEAN :
          /\ Put(KeyEvent(im, ic, sync, serial'))
          /\ waiting' = IF sync THEN serial' ELSE NoRequest
    BY <1>4 DEF Forward
  <2>2. serial' = serial + 1
    BY <1>4 DEF Forward
  <2>3. myIMs = ims /\ myICs = LiveICs
    <3>1. waiting = NoRequest
      BY <2>1 DEF Put
    <3> QED
      BY <1>1, <3>1 DEF Inv, Answers, Agreed
  <2> DEFINE m == KeyEvent(im, ic, sync, serial')
  <2>4. m \in Packet /\ m.serial = serial'
    BY <1>1, <2>2, <2>3, Tables DEF KeyEvent, Packet, Type
  <2>5. waiting' <= serial'
    BY <1>1, <2>1, <2>2 DEF NoRequest
  <2>6. Put(m)
    BY <2>1
  <2> HIDE DEF m
  <2> QED
    BY <1>1, <2>2, <2>4, <2>5, <2>6, PutOrder
<1> QED
  BY <1>2, <1>3, <1>4

\* How the next state is shown to be one in which all is on its way.
LEMMA DeliveredNext ==
  ASSUME NEW n \in Nat, Len(toClient') = n,
         app' \in Seq(Packet), produced' \in Seq(Packet), Len(app') <= Len(produced'),
         \A i \in 1 .. Len(app') : app'[i] = produced'[i],
         NEW d \in Nat, Len(produced') - Len(app') = d,
         NEW at \in [1 .. d -> 1 .. n],
         \A i, j \in 1 .. d : i < j => at[i] < at[j],
         \A i \in 1 .. d :
           Output(toClient'[at[i]]) /\ toClient'[at[i]] = produced'[Len(app') + i],
         \A k \in 1 .. n : Output(toClient'[k]) => \E i \in 1 .. d : at[i] = k
  PROVE  Delivered'
<1>1. OnItsWay(at)'
  BY DEF OnItsWay, Output
<1> QED
  BY <1>1 DEF Delivered

\* The first message reaches the client.
LEMMA ReceiveOrder == ASSUME Order, Receive PROVE Delivered' /\ Closed' /\ Serials'
<1> DEFINE n == Len(toClient)
           m == Head(toClient)
           d == Len(produced) - Len(app)
<1>1. /\ toClient \in Seq(Packet) /\ n \in Nat /\ n >= 1
      /\ toClient[1] = m
      /\ Len(toClient') = n - 1
      /\ \A k \in 1 .. n - 1 : toClient'[k] = toClient[k + 1]
      /\ m \in Packet
  BY DEF Order, Inv, Types, Receive
<1>2. UNCHANGED <<produced, toServer, serial>>
  BY DEF Receive, serverVars
<1>3. /\ app \in Seq(Packet) /\ produced \in Seq(Packet)
      /\ Len(app) \in Nat /\ Len(produced) \in Nat /\ Len(app) <= Len(produced) /\ d \in Nat
      /\ \A i \in 1 .. Len(app) : app[i] = produced[i]
  BY DEF Order, Delivered
<1>4. PICK at \in [1 .. d -> 1 .. n] : OnItsWay(at)
  BY DEF Order, Delivered
<1>5. /\ \A i, j \in 1 .. d : i < j => at[i] < at[j]
      /\ \A i \in 1 .. d : at[i] \in 1 .. n
      /\ \A i \in 1 .. d : Output(toClient[at[i]]) /\ toClient[at[i]] = produced[Len(app) + i]
      /\ \A k \in 1 .. n : Output(toClient[k]) => \E i \in 1 .. d : at[i] = k
  BY <1>4 DEF OnItsWay
<1> HIDE DEF n, m, d
<1>6. Closed'
  <2> SUFFICES ASSUME NEW k \in 1 .. n - 1, NEW j \in 1 .. n - 1, Ends(toClient[k + 1]), k < j
               PROVE  ~ Output(toClient[j + 1])
    BY <1>1 DEF Closed, Ends, Output
  <2>1. k + 1 \in 1 .. n /\ j + 1 \in 1 .. n /\ k + 1 < j + 1
    BY <1>1
  <2> QED
    BY <2>1 DEF Order, Closed, n
<1>7. CASE Output(m)
  <2>1. d >= 1 /\ at[1] = 1
    <3>1. PICK i \in 1 .. d : at[i] = 1
      BY <1>1, <1>5, <1>7
    <3>2. d >= 1 /\ 1 \in 1 .. d
      BY <1>3, <3>1
    <3>3. i = 1
      BY <1>5, <3>1, <3>2
    <3> QED
      BY <3>1, <3>2, <3>3
  <2>2. app' = Append(app, m) /\ UNCHANGED <<waiting, settled>>
    BY <1>7 DEF Receive, Output, m
  <2>3. /\ app' \in Seq(Packet) /\ Len(app') = Len(app) + 1 /\ app'[Len(app) + 1] = m
        /\ \A i \in 1 .. Len(app) : app'[i] = app[i]
    BY <1>1, <1>3, <2>2
  <2>4. produced[Len(app) + 1] = m
    BY <1>1, <1>5, <2>1
  <2>5. \A i \in 1 .. d - 1 :
          i + 1 \in 1 .. d /\ at[i + 1] \in 1 .. n /\ 1 < at[i + 1] /\ at[i + 1] - 1 \in 1 .. n - 1
    <3> SUFFICES ASSUME NEW i \in 1 .. d - 1
                 PROVE  /\ i + 1 \in 1 .. d /\ at[i + 1] \in 1 .. n
                        /\ 1 < at[i + 1] /\ at[i + 1] - 1 \in 1 .. n - 1
      OBVIOUS
    <3>1. i + 1 \in 1 .. d /\ 1 \in 1 .. d /\ 1 < i + 1
      BY <1>3, <2>1
    <3>2. at[i + 1] \in 1 .. n /\ 1 < at[i + 1]
      BY <1>5, <2>1, <3>1
    <3> QED
      BY <1>1, <3>1, <3>2
  <2>6. PICK later \in [1 .. d - 1 -> 1 .. n - 1] : \A i \in 1 .. d - 1 : later[i] = at[i + 1] - 1
    <3>1. [i \in 1 .. d - 1 |-> at[i + 1] - 1] \in [1 .. d - 1 -> 1 .. n - 1]
      BY <2>5
    <3> QED
      BY <3>1
  <2>7. \A i \in 1 .. d - 1 : later[i] \in 1 .. n - 1 /\ toClient'[later[i]] = toClient[at[i + 1]]
    BY <1>1, <2>5, <2>6
  <2>8. ASSUME NEW i \in 1 .. d - 1, NEW j \in 1 .. d - 1, i < j PROVE later[i] < later[j]
    <3>1. at[i + 1] < at[j + 1]
      BY <1>3, <1>5, <2>5, <2>8
    <3> QED
      BY <2>5, <2>6, <3>1
  <2>9. /\ Len(produced') - Len(app') = d - 1 /\ Len(app') = Len(app) + 1
        /\ Len(app') <= Len(produced') /\ d - 1 \in Nat /\ n - 1 \in Nat
        /\ \A i \in 1 .. Len(app') : app'[i] = produced'[i]
    <3>1. Len(produced') - Len(app') = d - 1
      BY <1>2, <1>3, <2>3 DEF d
    <3>2. d - 1 \in Nat /\ n - 1 \in Nat /\ Len(app') <= Len(produced')
      BY <1>1, <1>2, <1>3, <2>1, <2>3 DEF d
    <3>3. ASSUME NEW i \in 1 .. Len(app') PROVE app'[i] = produced'[i]
      <4>1. i \in 1 .. Len(app) \/ i = Len(app) + 1
        BY <1>3, <2>3
      <4> QED
        BY <1>2, <1>3, <2>3, <2>4, <4>1
    <3> QED
      BY <2>3, <3>1, <3>2, <3>3
  <2>10. ASSUME NEW i \in 1 .. d - 1
         PROVE  /\ Output(toClient'[later[i]])
                /\ toClient'[later[i]] = produced'[Len(app') + i]
    <3>1. Len(app) + (i + 1) = Len(app') + i
      BY <1>3, <2>9
    <3> QED
      BY <1>2, <1>5, <2>5, <2>7, <3>1
  <2>11. ASSUME NEW k \in 1 .. n - 1, Output(toClient'[k])
         PROVE  \E i \in 1 .. d - 1 : later[i] = k
    <3>1. k + 1 \in 1 .. n /\ Output(toClient[k + 1])
      BY <1>1, <2>11
    <3>2. PICK i \in 1 .. d : at[i] = k + 1
      BY <1>5, <3>1
    <3>3. i # 1
      BY <2>1, <3>2
    <3>4. i - 1 \in 1 .. d - 1 /\ (i - 1) + 1 = i
      BY <1>3, <3>3
    <3>5. later[i - 1] = k
      BY <2>6, <3>2, <3>4
    <3> QED
      BY <3>4, <3>5
  <2>12. Delivered'
    BY <1>1, <1>2, <1>3, <2>3, <2>6, <2>8, <2>9, <2>10, <2>11, DeliveredNext
  <2>13. Serials'
    <3>1. \A i \in 1 .. Len(app) : i \in 1 .. Len(app')
      BY <1>3, <2>3
    <3>2. Settled'
      BY <1>2, <1>3, <2>2, <2>3 DEF Order, Serials, Settled, IsKey
    <3> QED
      BY <1>2, <3>2 DEF Order, Serials, ProducedInOrder, KeysInOrder, KeysComeLater, IsKey
  <2> QED
    BY <1>6, <2>12, <2>13
<1>8. CASE ~ Output(m)
  <2>1. app' = app
    BY <1>8 DEF Receive, Output, m
  <2>2. \A i \in 1 .. d : 1 < at[i]
    <3> SUFFICES ASSUME NEW i \in 1 .. d, at[i] = 1 PROVE FALSE
      BY <1>1, <1>5
    <3> QED
      BY <1>1, <1>5, <1>8
  <2>3. PICK later \in [1 .. d -> 1 .. n - 1] : \A i \in 1 .. d : later[i] = at[i] - 1
    <3>1. \A i \in 1 .. d : at[i] - 1 \in 1 .. n - 1
      BY <1>1, <1>5, <2>2
    <3>2. [i \in 1 .. d |-> at[i] - 1] \in [1 .. d -> 1 .. n - 1]
      BY <3>1
    <3> QED
      BY <3>2
  <2>4. ASSUME NEW i \in 1 .. d PROVE toClient'[later[i]] = toClient[at[i]]
    <3>1. later[i] \in 1 .. n - 1 /\ later[i] + 1 = at[i]
      BY <1>5, <2>3
    <3> QED
      BY <1>1, <3>1
  <2>5. ASSUME NEW i \in 1 .. d, NEW j \in 1 .. d, i < j PROVE later[i] < later[j]
    <3>1. at[i] < at[j] /\ at[i] \in 1 .. n /\ at[j] \in 1 .. n
      BY <1>5, <2>5
    <3> QED
      BY <2>3, <3>1
  <2>6. ASSUME NEW k \in 1 .. n - 1, Output(toClient'[k])
        PROVE  \E i \in 1 .. d : later[i] = k
    <3>1. k + 1 \in 1 .. n /\ Output(toClient[k + 1])
      BY <1>1, <2>6
    <3>2. PICK i \in 1 .. d : at[i] = k + 1
      BY <1>5, <3>1
    <3> QED
      BY <2>3, <3>2
  <2>7. \A i \in 1 .. d :
          Output(toClient'[later[i]]) /\ toClient'[later[i]] = produced'[Len(app') + i]
    BY <1>2, <1>5, <2>1, <2>4
  <2>8. /\ Len(produced') - Len(app') = d /\ n - 1 \in Nat
        /\ Len(app') <= Len(produced') /\ \A i \in 1 .. Len(app') : app'[i] = produced'[i]
    BY <1>1, <1>2, <1>3, <2>1 DEF d
  <2>9. Delivered'
    <3>1. app' \in Seq(Packet) /\ produced' \in Seq(Packet) /\ Len(toClient') = n - 1
      BY <1>1, <1>2, <1>3, <2>1
    <3> QED
      BY <1>3, <2>3, <2>5, <2>6, <2>7, <2>8, <3>1, DeliveredNext, ZenonT(40)
  <2>10. ASSUME ~ Ends(m) PROVE Settled'
    <3>1. UNCHANGED <<waiting, settled>>
      BY <1>8, <2>10 DEF Receive, Ends, Output, m
    <3> QED
      BY <1>2, <2>1, <3>1 DEF Order, Serials, Settled, IsKey
  <2>11. ASSUME Ends(m) PROVE Settled'
    <3>1. waiting' = NoRequest /\ settled' \in {waiting, settled} /\ (settled' = waiting => waiting \in Nat)
      <4>1. waiting' = NoRequest /\ settled' = IF waiting > 0 THEN waiting ELSE settled
        BY <2>11 DEF Receive, Ends, m
      <4>2. settled \in Nat /\ waiting \in Nat \cup {-1}
        BY DEF Order, Inv, Types, Serials, Settled, NoRequest
      <4> QED
        BY <4>1, <4>2
    <3>2. toServer = <<>>
      BY <1>1, <2>11 DEF Order, Inv, Answers, n
    <3>3. d = 0
      <4> SUFFICES ASSUME d # 0 PROVE FALSE
        OBVIOUS
      <4>1. 1 \in 1 .. d
        BY <1>3
      <4>2. Output(toClient[at[1]]) /\ 1 < at[1] /\ at[1] \in 1 .. n /\ 1 \in 1 .. n
        BY <1>1, <1>5, <2>2, <4>1
      <4> QED
        BY <1>1, <2>11, <4>2 DEF Order, Closed, n
    <3>4. settled' \in Nat /\ settled' <= serial /\ waiting' <= serial
      BY <3>1 DEF Order, Inv, Types, Serials, Settled, NoRequest
    <3>5. \A i \in 1 .. Len(produced) : produced[i].serial <= serial /\ i <= Len(app)
      BY <1>3, <3>3 DEF Order, Serials, Settled, d
    <3>6. Len(toServer) = 0
      BY <3>2
    <3> QED
      BY <1>2, <2>1, <3>4, <3>5, <3>6 DEF Settled
  <2>12. Serials'
    BY <1>2, <2>10, <2>11 DEF Order, Serials, ProducedInOrder, KeysInOrder, KeysComeLater, IsKey
  <2> QED
    BY <1>6, <2>9, <2>12
<1> QED
  BY <1>7, <1>8

\* What a handler sends, and what of it is for the application: nothing, or
\* one thing that comes first.
LEMMA HandlerEffect ==
  ASSUME Inv, produced \in Seq(Packet), _xim_client_handle_msg
  PROVE  \E replies \in Seq(Packet) :
           /\ Answer(Head(toServer), replies)
           /\ \/ /\ produced' = produced
                 /\ \A k \in 1 .. Len(replies) : ~ Output(replies[k])
              \/ \E o \in Packet :
                   /\ Head(toServer).type = "FORWARD_EVENT" /\ o.serial = Head(toServer).serial
                   /\ produced' = Append(produced, o)
                   /\ Output(o) /\ Len(replies) >= 1 /\ replies[1] = o
                   /\ \A k \in 2 .. Len(replies) : ~ Output(replies[k])
<1> DEFINE m == Head(toServer)
           Quiet(r) == r \in Seq(Packet) /\ \A k \in 1 .. Len(r) : ~ Output(r[k])
<1>1. m \in Packet
  BY HeadPacket DEF _xim_client_handle_msg
<1> SUFFICES \/ \E r : Quiet(r) /\ Answer(m, r) /\ produced' = produced
             \/ \E o \in Packet, r \in Seq(Packet) :
                  /\ Answer(m, r) /\ m.type = "FORWARD_EVENT" /\ o.serial = m.serial
                  /\ produced' = Append(produced, o)
                  /\ Output(o) /\ Len(r) >= 1 /\ r[1] = o
                  /\ \A k \in 2 .. Len(r) : ~ Output(r[k])
  OBVIOUS
<1>2. ASSUME NEW p \in Packet, ~ Output(p) PROVE Quiet(<<p>>)
  BY <1>2
<1>3. Quiet(Error)
  <2>1. Msg("ERROR", 0, 0) \in Packet /\ ~ Output(Msg("ERROR", 0, 0))
    BY TableAssumption DEF Msg, Packet, Type, AnyIM, AnyIC, Output
  <2> QED
    BY <1>2, <2>1 DEF Error
<1>4. \A type \in Type \ {"COMMIT", "FORWARD_EVENT"} : Quiet(Reply(m, type))
  <2> SUFFICES ASSUME NEW type \in Type \ {"COMMIT", "FORWARD_EVENT"} PROVE Quiet(Reply(m, type))
    OBVIOUS
  <2>1. /\ Msg(type, m.im, m.ic) \in Packet /\ ~ Output(Msg(type, m.im, m.ic))
        /\ Reply(m, type) = <<Msg(type, m.im, m.ic)>>
    BY <1>1, ReplyPacket DEF Output
  <2> QED
    BY <1>2, <2>1
<1>5. Quiet(<<>>)
  OBVIOUS
<1> HIDE DEF m
<1>6. CASE handle_connect_msg(m)
  BY <1>4, <1>6 DEF handle_connect_msg, serverVars, Type
<1>7. CASE handle_open_msg(m)
  <2>1. CASE Answer(m, Error) /\ UNCHANGED serverVars
    BY <1>3, <2>1 DEF serverVars
  <2>2. ASSUME NEW id \in FreeIMs, UNCHANGED <<ics, produced>>,
               Answer(m, <<Msg("OPEN_REPLY", id, 0), Msg("SET_EVENT_MASK", id, 0)>>)
        PROVE  \E r : Quiet(r) /\ Answer(m, r) /\ produced' = produced
    <3> DEFINE a == Msg("OPEN_REPLY", id, 0)
               b == Msg("SET_EVENT_MASK", id, 0)
    <3>1. a \in Packet /\ b \in Packet /\ ~ Output(a) /\ ~ Output(b)
      BY TableAssumption DEF FreeIMs, IMs, AnyIM, AnyIC, Msg, Packet, Type, Output
    <3>2. Answer(m, <<a, b>>)
      BY <2>2
    <3> HIDE DEF a, b
    <3>3. <<a, b>> \in Seq(Packet) /\ \A k \in 1 .. Len(<<a, b>>) : ~ Output(<<a, b>>[k])
      BY <3>1
    <3> QED
      BY <2>2, <3>2, <3>3
  <2> QED
    BY <1>7, <2>1, <2>2 DEF handle_open_msg
<1>8. CASE handle_close_msg(m)
  BY <1>3, <1>4, <1>8 DEF handle_close_msg, serverVars, Type
<1>9. CASE handle_query_msg(m)
  BY <1>3, <1>4, <1>9 DEF handle_query_msg, serverVars, Type
<1>10. CASE handle_create_ic_msg(m)
  <2>1. CASE Answer(m, Error) /\ UNCHANGED serverVars
    BY <1>3, <2>1 DEF serverVars
  <2>2. ASSUME NEW id \in FreeICs, UNCHANGED <<ims, produced>>,
               Answer(m, <<Msg("CREATE_IC_REPLY", m.im, id)>>)
        PROVE  \E r : Quiet(r) /\ Answer(m, r) /\ produced' = produced
    <3>1. id \in AnyIC /\ m.im \in AnyIM
      BY <1>1, TableAssumption DEF FreeICs, ICs, AnyIC, Packet
    <3>2. /\ Msg("CREATE_IC_REPLY", m.im, id) \in Packet
          /\ ~ Output(Msg("CREATE_IC_REPLY", m.im, id))
      BY <3>1 DEF Msg, Packet, Type, Output
    <3> QED
      BY <1>2, <2>2, <3>2
  <2> QED
    BY <1>10, <2>1, <2>2 DEF handle_create_ic_msg
<1>11. CASE handle_get_ic_values_msg(m)
  BY <1>3, <1>4, <1>11 DEF handle_get_ic_values_msg, serverVars, Type
<1>12. CASE handle_destroy_ic_msg(m)
  BY <1>3, <1>4, <1>12 DEF handle_destroy_ic_msg, serverVars, Type
<1>13. CASE ignore_msg(m)
  BY <1>5, <1>13 DEF ignore_msg, serverVars
<1>14. CASE handle_forward_event_msg(m)
  <2>1. CASE Answer(m, Error) /\ UNCHANGED produced
    BY <1>3, <2>1
  <2>2. ASSUME ValidIM(m), ValidIC(m), NEW out \in {<<>>, <<Commit(m)>>, <<Returned(m)>>},
               Answer(m, out \o SyncReply(m)), produced' = produced \o out,
               m.type = "FORWARD_EVENT"
        PROVE  \/ \E r : Quiet(r) /\ Answer(m, r) /\ produced' = produced
               \/ \E o \in Packet, r \in Seq(Packet) :
                    /\ Answer(m, r) /\ m.type = "FORWARD_EVENT" /\ o.serial = m.serial
                    /\ produced' = Append(produced, o)
                    /\ Output(o) /\ Len(r) >= 1 /\ r[1] = o
                    /\ \A k \in 2 .. Len(r) : ~ Output(r[k])
    <3>1. Quiet(SyncReply(m)) /\ Len(SyncReply(m)) \in {0, 1}
      <4>1. CASE m.sync
        <5>1. SyncReply(m) = Reply(m, "SYNC_REPLY")
          BY <4>1 DEF SyncReply
        <5> QED
          BY <1>4, <5>1 DEF Type, Reply
      <4>2. CASE ~ m.sync
        BY <1>5, <4>2 DEF SyncReply
      <4> QED
        BY <4>1, <4>2
    <3>2. CASE out = <<>>
      <4>1. <<>> \o SyncReply(m) = SyncReply(m) /\ produced \o <<>> = produced
        BY <3>1
      <4> QED
        BY <2>2, <3>1, <3>2, <4>1
    <3>3. ASSUME NEW o \in Packet, o.serial = m.serial, Output(o), out = <<o>>
          PROVE  \E r \in Seq(Packet) :
                   /\ Answer(m, r) /\ produced' = Append(produced, o)
                   /\ Len(r) >= 1 /\ r[1] = o /\ \A k \in 2 .. Len(r) : ~ Output(r[k])
      <4> DEFINE rest == SyncReply(m)
                 r == <<o>> \o rest
      <4>1. Answer(m, r) /\ produced' = produced \o <<o>>
        BY <2>2, <3>3
      <4>2. rest \in Seq(Packet) /\ Len(rest) \in {0, 1}
            /\ \A k \in 1 .. Len(rest) : ~ Output(rest[k])
        BY <3>1
      <4> HIDE DEF rest
      <4>3. /\ r \in Seq(Packet) /\ Len(r) = 1 + Len(rest) /\ r[1] = o
            /\ \A k \in 1 .. Len(rest) : r[1 + k] = rest[k]
        BY <4>2
      <4>4. \A k \in 2 .. Len(r) : k - 1 \in 1 .. Len(rest) /\ k = 1 + (k - 1)
        BY <4>2, <4>3
      <4>5. \A k \in 2 .. Len(r) : ~ Output(r[k])
        BY <4>2, <4>3, <4>4
      <4>6. produced \o <<o>> = Append(produced, o)
        OBVIOUS
      <4> HIDE DEF r
      <4> QED
        BY <4>1, <4>2, <4>3, <4>5, <4>6
    <3>4. /\ Commit(m) \in Packet /\ Commit(m).serial = m.serial /\ Output(Commit(m))
          /\ Returned(m) \in Packet /\ Returned(m).serial = m.serial /\ Output(Returned(m))
      <4>1. m.im \in AnyIM /\ m.ic \in AnyIC /\ m.serial \in Nat
        BY <1>1 DEF Packet
      <4>2. ics[m.ic] \in AnyIM
        BY <2>2 DEF Inv, Types, ValidIC
      <4>3. Commit(m) \in Packet /\ Commit(m).serial = m.serial /\ Commit(m).type = "COMMIT"
        BY <4>1, <4>2 DEF Commit, Packet, Type
      <4>4. /\ Returned(m) \in Packet /\ Returned(m).serial = m.serial
            /\ Returned(m).type = "FORWARD_EVENT"
        BY <4>1 DEF Returned, KeyEvent, Packet, Type
      <4> QED
        BY <4>3, <4>4 DEF Output
    <3> HIDE DEF Quiet
    <3> QED
      BY <2>2, <3>2, <3>3, <3>4
  <2> HIDE DEF Quiet
  <2> QED
    BY <1>14, <2>1, <2>2 DEF handle_forward_event_msg
<1> HIDE DEF Quiet
<1> QED
  <2>1. \/ handle_connect_msg(m) \/ handle_open_msg(m) \/ handle_close_msg(m)
        \/ handle_query_msg(m) \/ handle_create_ic_msg(m) \/ handle_get_ic_values_msg(m)
        \/ handle_destroy_ic_msg(m) \/ handle_forward_event_msg(m) \/ ignore_msg(m)
    BY DEF _xim_client_handle_msg, m
  <2> QED
    BY <1>6, <1>7, <1>8, <1>9, <1>10, <1>11, <1>12, <1>13, <1>14, <2>1

\* The numbers, when the first request is gone and at most one thing was made
\* of it.
LEMMA HandleSerials ==
  ASSUME Order, NEW replies \in Seq(Packet), Answer(Head(toServer), replies),
         \/ produced' = produced
         \/ \E o \in Packet : /\ Head(toServer).type = "FORWARD_EVENT"
                              /\ o.serial = Head(toServer).serial
                              /\ produced' = Append(produced, o)
  PROVE  Serials'
<1> DEFINE m == Head(toServer)
           n == Len(toServer)
           p == Len(produced)
<1>1. /\ m \in Packet /\ m = toServer[1] /\ n \in Nat \ {0} /\ Len(toServer') = n - 1
      /\ \A k \in 1 .. n - 1 : toServer'[k] = toServer[k + 1]
      /\ UNCHANGED <<waiting, serial>>
  BY Queues DEF Order
<1>2. UNCHANGED <<app, settled>>
  BY DEF Answer, clientVars
<1>3. /\ produced \in Seq(Packet) /\ app \in Seq(Packet) /\ toServer \in Seq(Packet)
      /\ p \in Nat /\ Len(app) \in Nat /\ Len(app) <= p
  BY DEF Order, Delivered, Inv, Types
<1>4. \A k \in 1 .. n - 1 : k + 1 \in 1 .. n /\ 1 \in 1 .. n /\ 1 < k + 1
  BY <1>1
<1>5. ProducedInOrder /\ KeysInOrder /\ KeysComeLater /\ Settled
  BY DEF Order, Serials
<1>6. KeysInOrder'
  <2> SUFFICES ASSUME NEW j \in 1 .. n - 1, NEW k \in 1 .. n - 1,
                      IsKey(toServer[j + 1]), IsKey(toServer[k + 1]), j < k
               PROVE  toServer[j + 1].serial < toServer[k + 1].serial
    BY <1>1 DEF KeysInOrder, IsKey
  <2>1. j + 1 < k + 1
    BY <1>1
  <2> QED
    BY <1>4, <1>5, <2>1 DEF KeysInOrder
<1>7. CASE produced' = produced
  <2>1. ProducedInOrder'
    BY <1>5, <1>7 DEF ProducedInOrder
  <2>2. KeysComeLater'
    BY <1>1, <1>4, <1>5, <1>7 DEF KeysComeLater, IsKey
  <2>3. Settled'
    BY <1>1, <1>2, <1>4, <1>5, <1>7 DEF Settled, IsKey
  <2> QED
    BY <1>6, <2>1, <2>2, <2>3 DEF Serials
<1>8. ASSUME NEW o \in Packet, m.type = "FORWARD_EVENT", o.serial = m.serial,
             produced' = Append(produced, o)
      PROVE  Serials'
  <2>1. /\ Len(produced') = p + 1 /\ produced'[p + 1] = o
        /\ \A i \in 1 .. p : produced'[i] = produced[i]
        /\ \A i \in 1 .. Len(produced') : i \in 1 .. p \/ i = p + 1
    BY <1>3, <1>8
  <2>2. IsKey(toServer[1]) /\ 1 \in 1 .. n /\ o.serial = toServer[1].serial
    BY <1>1, <1>8 DEF IsKey
  <2>3. /\ \A i \in 1 .. p : produced[i].serial < o.serial
        /\ o.serial <= serial /\ settled < o.serial
    BY <1>5, <2>2 DEF KeysComeLater, Settled
  <2>4. \A k \in 1 .. n - 1 : IsKey(toServer[k + 1]) => o.serial < toServer[k + 1].serial
    BY <1>4, <1>5, <2>2 DEF KeysInOrder
  <2>5. ProducedInOrder'
    <3> SUFFICES ASSUME NEW i \in 1 .. Len(produced'), NEW j \in 1 .. Len(produced'), i < j
                 PROVE  produced'[i].serial < produced'[j].serial
      BY DEF ProducedInOrder
    <3>1. i \in 1 .. p
      BY <1>3, <2>1
    <3>2. CASE j \in 1 .. p
      BY <1>5, <2>1, <3>1, <3>2 DEF ProducedInOrder
    <3>3. CASE j = p + 1
      BY <2>1, <2>3, <3>1, <3>3
    <3> QED
      BY <2>1, <3>2, <3>3
  <2>6. KeysComeLater'
    <3> SUFFICES ASSUME NEW i \in 1 .. Len(produced'), NEW k \in 1 .. n - 1,
                        IsKey(toServer[k + 1])
                 PROVE  produced'[i].serial < toServer[k + 1].serial
      BY <1>1 DEF KeysComeLater, IsKey
    <3>1. CASE i \in 1 .. p
      BY <1>4, <1>5, <2>1, <3>1 DEF KeysComeLater
    <3>2. CASE i = p + 1
      BY <2>1, <2>4, <3>2
    <3> QED
      BY <2>1, <3>1, <3>2
  <2>7. Settled'
    <3>1. settled' \in Nat /\ settled' <= serial' /\ waiting' <= serial'
      BY <1>1, <1>2, <1>5 DEF Settled
    <3>2. ASSUME NEW i \in 1 .. Len(produced')
          PROVE  /\ produced'[i].serial <= serial
                 /\ produced'[i].serial <= settled => i <= Len(app)
      <4>1. CASE i \in 1 .. p
        BY <1>5, <2>1, <4>1 DEF Settled
      <4>2. CASE i = p + 1
        <5>1. o.serial \in Nat /\ settled \in Nat
          BY <1>5 DEF Packet, Settled
        <5> QED
          BY <2>1, <2>3, <4>2, <5>1
      <4> QED
        BY <2>1, <4>1, <4>2
    <3>3. ASSUME NEW k \in 1 .. n - 1, IsKey(toServer[k + 1])
          PROVE  toServer[k + 1].serial <= serial /\ settled < toServer[k + 1].serial
      BY <1>4, <1>5, <3>3 DEF Settled
    <3> QED
      BY <1>1, <1>2, <3>1, <3>2, <3>3 DEF Settled, IsKey
  <2> QED
    BY <1>6, <2>5, <2>6, <2>7 DEF Serials
<1> QED
  BY <1>7, <1>8

LEMMA HandleOrder ==
  ASSUME Order, _xim_client_handle_msg PROVE Delivered' /\ Closed' /\ Serials'
<1>1. PICK replies \in Seq(Packet) :
        /\ Answer(Head(toServer), replies)
        /\ \/ /\ produced' = produced
              /\ \A k \in 1 .. Len(replies) : ~ Output(replies[k])
           \/ \E o \in Packet :
                /\ Head(toServer).type = "FORWARD_EVENT" /\ o.serial = Head(toServer).serial
                /\ produced' = Append(produced, o)
                /\ Output(o) /\ Len(replies) >= 1 /\ replies[1] = o
                /\ \A k \in 2 .. Len(replies) : ~ Output(replies[k])
  BY HandlerEffect DEF Order, Delivered
<1> DEFINE n == Len(toClient)
           r == Len(replies)
           d == Len(produced) - Len(app)
<1>2. /\ toClient' \in Seq(Packet) /\ n \in Nat /\ r \in Nat /\ Len(toClient') = n + r
      /\ \A k \in 1 .. n : toClient'[k] = toClient[k]
      /\ \A k \in 1 .. r : toClient'[n + k] = replies[k]
      /\ \A k \in 1 .. n + r : k \in 1 .. n \/ (k - n \in 1 .. r /\ k = n + (k - n))
      /\ \A k \in 1 .. n : ~ Ends(toClient[k])
  BY <1>1, Queues DEF Order
<1>3. app' = app
  BY <1>1 DEF Answer, clientVars
<1>4. /\ app \in Seq(Packet) /\ produced \in Seq(Packet)
      /\ Len(app) \in Nat /\ Len(produced) \in Nat /\ Len(app) <= Len(produced) /\ d \in Nat
      /\ \A i \in 1 .. Len(app) : app[i] = produced[i]
  BY DEF Order, Delivered
<1>5. PICK at \in [1 .. d -> 1 .. n] : OnItsWay(at)
  BY DEF Order, Delivered
<1>6. /\ \A i, j \in 1 .. d : i < j => at[i] < at[j]
      /\ \A i \in 1 .. d : at[i] \in 1 .. n
      /\ \A i \in 1 .. d : Output(toClient[at[i]]) /\ toClient[at[i]] = produced[Len(app) + i]
      /\ \A k \in 1 .. n : Output(toClient[k]) => \E i \in 1 .. d : at[i] = k
  BY <1>5 DEF OnItsWay
<1>7. Serials'
  BY <1>1, HandleSerials
<1>8. \A k \in 2 .. r : ~ Output(replies[k])
  BY <1>1, <1>2
<1>9. Closed'
  <2> SUFFICES ASSUME NEW k \in 1 .. n + r, NEW j \in 1 .. n + r, Ends(toClient'[k]), k < j
               PROVE  ~ Output(toClient'[j])
    BY <1>2 DEF Closed, Ends, Output
  <2>1. k - n \in 1 .. r
    BY <1>2
  <2>2. j - n \in 2 .. r /\ j = n + (j - n) /\ j - n \in 1 .. r
    BY <1>2, <2>1
  <2> QED
    BY <1>2, <1>8, <2>2
<1> HIDE DEF n, r, d
<1>10. CASE produced' = produced /\ \A k \in 1 .. r : ~ Output(replies[k])
  <2>1. at \in [1 .. d -> 1 .. n + r]
    <3>1. \A i \in 1 .. d : at[i] \in 1 .. n + r
      BY <1>2, <1>6
    <3> QED
      BY <1>5, <3>1
  <2>2. \A i \in 1 .. d :
          Output(toClient'[at[i]]) /\ toClient'[at[i]] = produced'[Len(app') + i]
    BY <1>2, <1>3, <1>6, <1>10
  <2>3. ASSUME NEW k \in 1 .. n + r, Output(toClient'[k]) PROVE \E i \in 1 .. d : at[i] = k
    <3>1. k \in 1 .. n
      BY <1>2, <1>10, <2>3
    <3> QED
      BY <1>2, <1>6, <2>3, <3>1
  <2>4. /\ Len(produced') - Len(app') = d /\ n + r \in Nat /\ Len(app') <= Len(produced')
        /\ \A i \in 1 .. Len(app') : app'[i] = produced'[i]
        /\ app' \in Seq(Packet) /\ produced' \in Seq(Packet)
    BY <1>2, <1>3, <1>4, <1>10 DEF d
  <2>5. \A i, j \in 1 .. d : i < j => at[i] < at[j]
    BY <1>6
  <2>6. d \in Nat /\ toClient' \in Seq(Packet) /\ Len(toClient') = n + r
    BY <1>2, <1>4
  <2>7. Delivered'
    BY <2>1, <2>2, <2>3, <2>4, <2>5, <2>6, DeliveredNext
  <2> QED
    BY <1>7, <1>9, <2>7
<1>11. ASSUME NEW o \in Packet, produced' = Append(produced, o), Output(o), r >= 1, replies[1] = o
       PROVE  Delivered'
  <2>1. /\ produced' \in Seq(Packet) /\ Len(produced') = Len(produced) + 1
        /\ produced'[Len(produced) + 1] = o
        /\ \A i \in 1 .. Len(produced) : produced'[i] = produced[i]
    BY <1>4, <1>11
  <2>2. toClient'[n + 1] = o /\ n + 1 \in 1 .. n + r
    BY <1>2, <1>11
  <2>3. \A i \in 1 .. d + 1 : i \in 1 .. d \/ i = d + 1
    BY <1>4
  <2>4. PICK more \in [1 .. d + 1 -> 1 .. n + r] :
          more[d + 1] = n + 1 /\ \A i \in 1 .. d : more[i] = at[i]
    <3> DEFINE f == [i \in 1 .. d + 1 |-> IF i = d + 1 THEN n + 1 ELSE at[i]]
    <3>1. \A i \in 1 .. d : at[i] \in 1 .. n + r /\ i # d + 1 /\ i \in 1 .. d + 1
      BY <1>2, <1>4, <1>6
    <3>2. f \in [1 .. d + 1 -> 1 .. n + r]
      BY <2>2, <2>3, <3>1
    <3>3. d + 1 \in 1 .. d + 1
      BY <1>4
    <3>4. f[d + 1] = n + 1 /\ \A i \in 1 .. d : f[i] = at[i]
      BY <3>1, <3>3
    <3> HIDE DEF f
    <3> QED
      BY <3>2, <3>4
  <2>5. ASSUME NEW i \in 1 .. d + 1, NEW j \in 1 .. d + 1, i < j PROVE more[i] < more[j]
    <3>1. i \in 1 .. d
      BY <1>4, <2>5
    <3>2. CASE j \in 1 .. d
      BY <1>6, <2>4, <2>5, <3>1, <3>2
    <3>3. CASE j = d + 1
      BY <1>2, <1>6, <2>4, <3>1, <3>3
    <3> QED
      BY <2>3, <3>2, <3>3
  <2>6. ASSUME NEW i \in 1 .. d + 1
        PROVE  Output(toClient'[more[i]]) /\ toClient'[more[i]] = produced'[Len(app') + i]
    <3>1. CASE i \in 1 .. d
      <4>1. Len(app) + i \in 1 .. Len(produced)
        BY <1>4, <3>1 DEF d
      <4>2. more[i] = at[i] /\ at[i] \in 1 .. n /\ toClient'[at[i]] = toClient[at[i]]
        BY <1>2, <1>6, <2>4, <3>1
      <4>3. Output(toClient[at[i]]) /\ toClient[at[i]] = produced[Len(app) + i]
        BY <1>6, <3>1
      <4>4. produced'[Len(app') + i] = produced[Len(app) + i]
        BY <1>3, <2>1, <4>1
      <4>5. toClient'[more[i]] = toClient[at[i]]
        BY <4>2
      <4> QED
        BY <4>3, <4>4, <4>5
    <3>2. CASE i = d + 1
      <4>1. Len(app) + i = Len(produced) + 1
        BY <1>4, <3>2 DEF d
      <4> QED
        BY <1>3, <1>11, <2>1, <2>2, <2>4, <3>2, <4>1
    <3> QED
      BY <2>3, <3>1, <3>2
  <2>7. ASSUME NEW k \in 1 .. n + r, Output(toClient'[k]) PROVE \E i \in 1 .. d + 1 : more[i] = k
    <3>1. CASE k \in 1 .. n
      <4>1. PICK i \in 1 .. d : at[i] = k
        BY <1>2, <1>6, <2>7, <3>1
      <4>2. i \in 1 .. d + 1
        BY <1>4
      <4> QED
        BY <2>4, <4>1, <4>2
    <3>2. CASE k - n \in 1 .. r /\ k = n + (k - n)
      <4>1. k - n = 1
        <5> SUFFICES ASSUME k - n # 1 PROVE FALSE
          OBVIOUS
        <5>1. k - n \in 2 .. r
          BY <1>2, <3>2
        <5> QED
          BY <1>2, <1>8, <2>7, <3>2, <5>1
      <4>2. k = n + 1 /\ d + 1 \in 1 .. d + 1
        BY <1>2, <1>4, <3>2, <4>1
      <4> QED
        BY <2>4, <4>2
    <3> QED
      BY <1>2, <3>1, <3>2
  <2>8. /\ Len(produced') - Len(app') = d + 1 /\ d + 1 \in Nat /\ n + r \in Nat
        /\ Len(app') <= Len(produced') /\ app' \in Seq(Packet)
    BY <1>2, <1>3, <1>4, <2>1 DEF d
  <2>9. \A i \in 1 .. Len(app') : app'[i] = produced'[i]
    BY <1>3, <1>4, <2>1
  <2> QED
    BY <1>2, <2>1, <2>4, <2>5, <2>6, <2>7, <2>8, <2>9, DeliveredNext
<1> QED
  BY <1>1, <1>7, <1>9, <1>10, <1>11 DEF r

LEMMA NextOrder == Order /\ [Next]_vars => Order'
<1> SUFFICES ASSUME Order, [Next]_vars PROVE Delivered' /\ Closed' /\ Serials'
  BY NextInv DEF Order
<1>1. CASE UNCHANGED vars
  <2>1. /\ UNCHANGED <<toServer, toClient, produced, app, waiting, serial, settled>>
        /\ Delivered /\ Closed /\ Serials
    BY <1>1 DEF vars, serverVars, clientVars, Order
  <2>2. Delivered' /\ Closed'
    BY <2>1, DeliveredStays
  <2>3. Serials'
    BY <2>1 DEF Serials, ProducedInOrder, KeysInOrder, KeysComeLater, Settled, IsKey
  <2> QED
    BY <2>2, <2>3
<1> QED
  BY <1>1, SendOrder, ReceiveOrder, HandleOrder DEF Next

-----------------------------------------------------------------------------
(* The theorems *)

\* Whatever was asked for and refused, and whatever ids were reused: once no
\* message is on its way both sides have the same methods and contexts.
THEOREM Agreement == Spec => []TablesAgree
<1>1. Inv => TablesAgree
  <2> SUFFICES ASSUME Inv, toServer = <<>>, toClient = <<>>
               PROVE  myIMs = ims /\ myICs = {id \in ICs : ics[id] # 0}
    BY DEF TablesAgree
  <2> QED
    BY DEF Inv, Agreed, LiveICs
<1> QED
  BY <1>1, InitInv, NextInv, PTL DEF Spec

\* The smallest free slot exists unless all are taken.
LEMMA NoSlotLeft == FreeIMs = {} => IMs \subseteq ims
<1> SUFFICES ASSUME IMs \ ims # {} PROVE FreeIMs # {}
  OBVIOUS
<1> DEFINE Free == IMs \ ims
<1>1. Free \subseteq Nat
  BY TableAssumption DEF IMs
<1>2. PICK i \in Free : \A j \in Free : <<j, i>> \notin OpToRel(<, Nat)
  BY <1>1, NatLessThanWellFounded, WFMin
<1>3. \A j \in Free : ~ (j < i)
  <2>1. OpToRel(<, Nat) = {ss \in Nat \X Nat : ss[1] < ss[2]}
    BY Zenon DEF OpToRel
  <2>2. \A j \in Free : <<j, i>> \notin {ss \in Nat \X Nat : ss[1] < ss[2]}
    BY <1>2, <2>1, Zenon
  <2> SUFFICES ASSUME NEW j \in Free PROVE ~ (j < i)
    OBVIOUS
  <2>3. j \in Nat /\ i \in Nat
    BY <1>1
  <2>4. <<j, i>> \notin {ss \in Nat \X Nat : ss[1] < ss[2]}
    BY <2>2
  <2> QED
    BY <2>3, <2>4
<1>4. \A j \in 1 .. i - 1 : j \in IMs /\ j < i
  BY <1>1, TableAssumption DEF IMs
<1>5. i \in FreeIMs
  BY <1>3, <1>4 DEF FreeIMs
<1> QED
  BY <1>5

\* No id is handed out that the client still uses, and no method is refused
\* while there is a slot for it.
THEOREM FreshIds == Spec => IdsFresh
<1> DEFINE Fresh ==
      /\ \A id \in ims' \ ims : id \notin myIMs
      /\ \A id \in ICs : ics[id] = 0 /\ ics'[id] # 0 => id \notin myICs
      /\ Handles("OPEN") /\ toClient' = toClient \o Error => myIMs = IMs
<1>1. ASSUME Inv, Next PROVE Fresh
  <2>1. CASE _xim_client_handle_msg
    <3>1. toServer # <<>>
      BY <2>1 DEF _xim_client_handle_msg
    <3>2. myIMs = ims /\ myICs = LiveICs
      BY <1>1, <3>1 DEF Inv, Answers, Agreed
    <3>3. ASSUME Handles("OPEN"), toClient' = toClient \o Error PROVE myIMs = IMs
      <4> DEFINE m == Head(toServer)
      <4>1. m.type = "OPEN"
        BY <3>3 DEF Handles
      <4>2. handle_open_msg(m)
        BY <2>1, <4>1 DEF _xim_client_handle_msg, handle_connect_msg, handle_close_msg,
          handle_query_msg, Queries, handle_create_ic_msg, handle_get_ic_values_msg,
          handle_destroy_ic_msg, handle_forward_event_msg, ignore_msg, Ignored
      <4>3. toClient \in Seq(Packet)
        BY <1>1 DEF Inv, Types
      <4>4. Len(toClient') = Len(toClient) + 1
        BY <3>3, <4>3 DEF Error
      <4>5. FreeIMs = {}
        <5> SUFFICES ASSUME NEW id \in FreeIMs,
                       toClient' = toClient \o <<Msg("OPEN_REPLY", id, 0), Msg("SET_EVENT_MASK", id, 0)>>
                     PROVE  FALSE
          BY <4>2 DEF handle_open_msg, Answer
        <5>1. Len(toClient') = Len(toClient) + 2
          BY <4>3
        <5> QED
          BY <4>3, <4>4, <5>1
      <4> QED
        BY <1>1, <3>2, <4>5, NoSlotLeft DEF Inv, Types
    <3> QED
      BY <3>2, <3>3 DEF LiveICs
  <2>2. CASE ~ _xim_client_handle_msg
    <3>1. UNCHANGED <<ims, ics>>
      BY <1>1, <2>2 DEF Next, Request, Notify, Forward, Receive, Put, serverVars
    <3>2. toServer' = toServer \/ \E q : toServer' = Append(toServer, q)
      BY <1>1, <2>2 DEF Next, Request, Notify, Forward, Receive, Put
    <3>3. toServer # <<>> => toServer' # Tail(toServer)
      <4>1. toServer \in Seq(Packet)
        BY <1>1 DEF Inv, Types
      <4>2. toServer # <<>> => Len(Tail(toServer)) = Len(toServer) - 1 /\ Len(toServer) \in Nat
        BY <4>1
      <4>3. \A q : Len(Append(toServer, q)) = Len(toServer) + 1
        BY <4>1
      <4> QED
        BY <3>2, <4>2, <4>3
    <3> QED
      BY <3>1, <3>3 DEF Handles
  <2> QED
    BY <2>1, <2>2
<1>2. Inv /\ [Next]_vars => [Fresh]_vars
  BY <1>1
<1> QED
  BY <1>2, InitInv, NextInv, PTL DEF Spec, IdsFresh

\* Each text and each key that was not consumed reaches the application once,
\* in the order of the keys that were typed.
THEOREM TypedOrder == Spec => []InTypedOrder
<1>1. Order => InTypedOrder
  <2> SUFFICES ASSUME Order PROVE InTypedOrder
    OBVIOUS
  <2>1. /\ app \in Seq(Packet) /\ produced \in Seq(Packet) /\ Len(app) <= Len(produced)
        /\ \A i \in 1 .. Len(app) : app[i] = produced[i]
    BY DEF Order, Delivered
  <2>2. IsPrefix(app, produced)
    <3>1. Len(app) \in Nat /\ Len(produced) \in Nat
      BY <2>1
    <3>2. SubSeq(produced, 1, Len(app)) \in Seq(Packet) /\ Len(SubSeq(produced, 1, Len(app))) = Len(app)
      BY <2>1, <3>1
    <3>3. \A i \in 1 .. Len(app) : app[i] = SubSeq(produced, 1, Len(app))[i]
      BY <2>1, <3>1
    <3>4. app = SubSeq(produced, 1, Len(app))
      BY <2>1, <3>2, <3>3
    <3> QED
      BY <2>1, <3>4 DEF IsPrefix
  <2>3. \A i, j \in DOMAIN produced : i < j => produced[i].serial < produced[j].serial
    BY <2>1 DEF Order, Serials, ProducedInOrder
  <2> QED
    BY <2>2, <2>3 DEF InTypedOrder
<1> QED
  BY <1>1, InitOrder, NextOrder, PTL DEF Spec

\* The reply to a synchronous key event comes behind everything the server
\* made for the application of that event and of all before it.
THEOREM SyncComesLast == Spec => []SyncSettles
<1>1. Order => SyncSettles
  <2> SUFFICES ASSUME Order, NEW i \in DOMAIN produced, produced[i].serial <= settled
               PROVE  i \in DOMAIN app
    BY DEF SyncSettles
  <2>1. app \in Seq(Packet) /\ produced \in Seq(Packet)
    BY DEF Order, Delivered
  <2>2. i \in 1 .. Len(produced)
    BY <2>1
  <2>3. i <= Len(app)
    BY <2>2 DEF Order, Serials, Settled
  <2> QED
    BY <2>1, <2>2, <2>3
<1> QED
  BY <1>1, InitOrder, NextOrder, PTL DEF Spec

=============================================================================
