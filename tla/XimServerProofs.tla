-------------------------- MODULE XimServerProofs --------------------------
(***************************************************************************)
(* Proofs about the server's loop, the framing of messages and what the    *)
(* server writes: for any number of clients, any buffer, any pieces in     *)
(* which bytes arrive and any replies.  Of a client none of whose messages *)
(* is mismeasured the stream is followed message by message, whatever the  *)
(* others send; which decoders never mismeasure is proved first.           *)
(***************************************************************************)
EXTENDS XimServer, WellFoundedInduction, TLAPS

-----------------------------------------------------------------------------
(* Lists *)

\* Induction over the numbers, for a set of numbers.
LEMMA NatInduct ==
  ASSUME NEW P, 0 \in P, \A n \in Nat : n \in P => n + 1 \in P
  PROVE  Nat \subseteq P
<1> SUFFICES ASSUME Nat \ P # {} PROVE FALSE
  OBVIOUS
<1> DEFINE Rest == Nat \ P
<1>1. PICK m \in Rest : \A k \in Rest : <<k, m>> \notin OpToRel(<, Nat)
  BY NatLessThanWellFounded, WFMin
<1>2. m \in Nat /\ m # 0 /\ m - 1 \in Nat
  OBVIOUS
<1>3. OpToRel(<, Nat) = {ss \in Nat \X Nat : ss[1] < ss[2]}
  BY Zenon DEF OpToRel
<1>4. <<m - 1, m>> \in {ss \in Nat \X Nat : ss[1] < ss[2]}
  BY <1>2
<1>5. m - 1 \notin Rest
  BY <1>1, <1>3, <1>4
<1>6. m - 1 \in P /\ m - 1 + 1 = m
  BY <1>2, <1>5
<1> QED
  BY <1>2, <1>6

\* A function on 0 .. n is defined by its first value and a step.
Stepwise(X, a, step, n) ==
  \E u \in [0 .. n -> X] : u[0] = a /\ \A k \in 1 .. n : u[k] = step[<<k, u[k - 1]>>]

LEMMA RecursionExists ==
  ASSUME NEW X, NEW a \in X, NEW step \in [Nat \X X -> X], NEW n \in Nat
  PROVE  Stepwise(X, a, step, n)
<1> DEFINE Steps(u, m) == u[0] = a /\ \A k \in 1 .. m : u[k] = step[<<k, u[k - 1]>>]
           P == {m \in Nat : \E u \in [0 .. m -> X] : Steps(u, m)}
<1>1. 0 \in P
  <2>1. [i \in 0 .. 0 |-> a] \in [0 .. 0 -> X] /\ Steps([i \in 0 .. 0 |-> a], 0)
    OBVIOUS
  <2> QED
    BY <2>1
<1>2. ASSUME NEW m \in Nat, m \in P PROVE m + 1 \in P
  <2>1. PICK u \in [0 .. m -> X] : Steps(u, m)
    BY <1>2
  <2> DEFINE last == step[<<m + 1, u[m]>>]
  <2>2. u \in [0 .. m -> X] /\ u[m] \in X /\ last \in X
    BY <2>1
  <2>3. last = step[<<m + 1, u[m]>>]
    OBVIOUS
  <2> HIDE DEF last
  <2>4. PICK v : v = [i \in 0 .. m + 1 |-> IF i = m + 1 THEN last ELSE u[i]]
    OBVIOUS
  <2>5. v \in [0 .. m + 1 -> X]
    BY <2>2, <2>4
  <2>6. (\A i \in 0 .. m : v[i] = u[i]) /\ v[m + 1] = last
    BY <2>4
  <2>7. v[0] = a
    BY <2>1, <2>6
  <2>8. ASSUME NEW k \in 1 .. m + 1 PROVE v[k] = step[<<k, v[k - 1]>>]
    <3>1. CASE k = m + 1
      <4>1. k - 1 = m /\ v[m] = u[m]
        BY <2>6, <3>1
      <4> QED
        BY <2>3, <2>6, <3>1, <4>1
    <3>2. CASE k \in 1 .. m
      <4>1. v[k - 1] = u[k - 1] /\ v[k] = u[k]
        BY <2>6, <3>2
      <4> QED
        BY <2>1, <3>2, <4>1
    <3> QED
      BY <3>1, <3>2
  <2> QED
    BY <2>5, <2>7, <2>8
<1> HIDE DEF P
<1>3. Nat \subseteq P
  BY <1>1, <1>2, NatInduct
<1> QED
  BY <1>3 DEF P, Stepwise

LEMMA PaddedType == ASSUME NEW n \in Nat PROVE PAD(n) \in Nat /\ Padded(n) \in Nat
BY DEF PAD, Padded

\* The length of a list of padded elements is a length.
LEMMA ListLenType ==
  ASSUME NEW head \in Nat, NEW lens \in Seq(Nat)
  PROVE  ListLen(head, lens) \in Nat
<1> DEFINE n == Len(lens)
           elem == [k \in 1 .. n |-> Padded(head + lens[k])]
           step == [x \in Nat \X Nat |-> x[2] + IF x[1] \in 1 .. n THEN elem[x[1]] ELSE 0]
<1>1. n \in Nat /\ elem \in [1 .. n -> Nat]
  BY SMTT(40) DEF Padded, PAD
<1>2. step \in [Nat \X Nat -> Nat]
  BY <1>1
<1>3. PICK u \in [0 .. n -> Nat] :
        u[0] = 0 /\ \A k \in 1 .. n : u[k] = step[<<k, u[k - 1]>>]
  <2>1. 0 \in Nat
    OBVIOUS
  <2> HIDE DEF n, step
  <2>2. Stepwise(Nat, 0, step, n)
    BY <1>1, <1>2, <2>1, RecursionExists
  <2> QED
    BY <2>2 DEF Stepwise
<1>4. \A k \in 1 .. n : u[k] = u[k - 1] + Padded(head + lens[k])
  <2> TAKE k \in 1 .. n
  <2>1. k - 1 \in 0 .. n /\ u[k - 1] \in Nat /\ k \in Nat
    <3> HIDE DEF n, step, elem
    <3>1. k - 1 \in 0 .. n /\ k \in Nat
      BY <1>1
    <3> QED
      BY <1>3, <3>1
  <2>2. step[<<k, u[k - 1]>>] = u[k - 1] + elem[k]
    BY <2>1
  <2> QED
    BY <1>3, <2>2
<1> HIDE DEF step, elem
<1>5. u = [k \in 0 .. n |-> IF k = 0 THEN 0 ELSE u[k - 1] + Padded(head + lens[k])]
  <2>1. \A k \in 0 .. n : u[k] = IF k = 0 THEN 0 ELSE u[k - 1] + Padded(head + lens[k])
    BY <1>3, <1>4
  <2>2. u = [k \in 0 .. n |-> u[k]]
    BY <1>3
  <2> QED
    BY <2>1, <2>2
<1> DEFINE U == CHOOSE v : v = [k \in 0 .. n |-> IF k = 0 THEN 0 ELSE v[k - 1] + Padded(head + lens[k])]
<1>6. ListLen(head, lens) = U[n]
  BY DEF ListLen
<1>7. U = [k \in 0 .. n |-> IF k = 0 THEN 0 ELSE U[k - 1] + Padded(head + lens[k])]
  BY <1>5
<1> HIDE DEF U
<1>8. \A k \in 0 .. n : U[k] = IF k = 0 THEN 0 ELSE U[k - 1] + Padded(head + lens[k])
  BY <1>7, Zenon
<1> DEFINE P == {k \in Nat : k <= n => U[k] \in Nat}
<1>9. 0 \in P
  BY <1>1, <1>8
<1>10. ASSUME NEW k \in Nat, k \in P PROVE k + 1 \in P
  <2>1. CASE k + 1 <= n
    <3>1. k + 1 \in 1 .. n /\ k + 1 \in 0 .. n /\ (k + 1) - 1 = k /\ k <= n /\ k + 1 # 0
      BY <1>1, <2>1
    <3>2. U[k + 1] = U[k] + Padded(head + lens[k + 1])
      BY <1>8, <3>1
    <3>3. lens[k + 1] \in Nat
      BY <3>1
    <3>4. head + lens[k + 1] \in Nat
      BY <3>3
    <3>5. Padded(head + lens[k + 1]) \in Nat
      BY <3>4, PaddedType
    <3> QED
      BY <1>10, <3>1, <3>2, <3>5
  <2> QED
    BY <2>1
<1> HIDE DEF P
<1>11. Nat \subseteq P
  BY <1>9, <1>10, NatInduct
<1> QED
  BY <1>1, <1>6, <1>11 DEF P

-----------------------------------------------------------------------------
(* The decoders *)

\* Types whose decoder measures the payload as the sender does.
Measured ==
  DOMAIN FixedSize \cup DOMAIN ValuesAt \cup DOMAIN IdsAt
    \cup {"CONNECT", "OPEN", "QUERY_EXTENSION", "UNKNOWN"}

LEMMA Division ==
  \A n \in Nat : \E q \in Nat, r \in 0 .. 3 : n = 4 * q + r /\ n % 4 = r
<1> TAKE n \in Nat
<1> DEFINE q == n \div 4
           r == n % 4
<1>1. r \in 0 .. 3
  OBVIOUS
<1>2. q \in Nat /\ n = 4 * q + r
  OBVIOUS
<1> HIDE DEF q, r
<1>3. QED
  BY <1>1, <1>2 DEF r

LEMMA LengthsType ==
  ASSUME NEW m, IsMessage(m)
  PROVE  /\ m.n \in Nat /\ m.details \in Nat
         /\ AttributesLen(m.values) \in Nat /\ ConnectLen(m.values) \in Nat
         /\ m.type \in DOMAIN ValuesAt => m.n >= Len(m.values) /\ Len(m.values) \in Nat
<1>1. m.n \in Nat /\ m.details \in Nat /\ m.values \in Seq(Nat)
  BY DEF IsMessage
<1>2. ListLen(4, m.values) \in Nat /\ ListLen(2, m.values) \in Nat
  BY <1>1, ListLenType
<1>3. m.type \in DOMAIN ValuesAt => m.n >= Len(m.values) /\ Len(m.values) \in Nat
  BY <1>1 DEF IsMessage
<1> QED
  BY <1>1, <1>2, <1>3 DEF AttributesLen, ConnectLen

\* The decoders of ximproto.c take what the sender wrote, header and padding
\* included, or fail, except for two types: DISCONNECT, and ENCODING_NEGOTIATION
\* (see XimServer_disconnect and XimServer_encodings).
THEOREM DecodersMeasure ==
  ASSUME NEW m, IsMessage(m), m.type \in Measured
  PROVE  /\ Frame(m) \in Nat /\ HeaderLen <= Frame(m) /\ xim_msg_decode(m) \in Int
         /\ WellFramed(m) \/ Undecodable(m)
<1>0. /\ m.n \in Nat
      /\ AttributesLen(m.values) \in Nat /\ ConnectLen(m.values) \in Nat
      /\ m.type \in DOMAIN ValuesAt => m.n >= Len(m.values) /\ Len(m.values) \in Nat
  BY LengthsType
<1>1. CASE m.type \in DOMAIN FixedSize
  <2>1. FixedSize[m.type] \in Nat
    BY <1>1 DEF FixedSize
  <2>2. PayloadLen(m) = FixedSize[m.type] /\ decode_payload(m) = FixedSize[m.type]
    BY <1>1 DEF PayloadLen, decode_payload, FixedSize, ValuesAt, IdsAt
  <2>3. QED
    BY <2>1, <2>2 DEF Frame, WellFramed, xim_msg_decode, HeaderLen
<1>2. CASE m.type \in DOMAIN ValuesAt
  <2>1. ValuesAt[m.type] \in Nat
    BY <1>2 DEF ValuesAt
  <2> DEFINE len == decode_LISTofATTRIBUTE(m.n, m.values)
  <2>2. /\ PayloadLen(m) = ValuesAt[m.type] + AttributesLen(m.values)
        /\ decode_payload(m) = IF len < 0 THEN len ELSE len + ValuesAt[m.type]
    BY <1>2 DEF PayloadLen, decode_payload, FixedSize, ValuesAt, IdsAt
  <2>3. len = EBADMSG \/ len = AttributesLen(m.values)
    BY <1>0, <1>2 DEF decode_LISTofATTRIBUTE
  <2> HIDE DEF len
  <2>4. CASE len = EBADMSG
    BY <1>0, <2>1, <2>2, <2>4 DEF Frame, Undecodable, xim_msg_decode, HeaderLen, EBADMSG
  <2>5. CASE len = AttributesLen(m.values)
    BY <1>0, <2>1, <2>2, <2>5 DEF Frame, WellFramed, xim_msg_decode, HeaderLen
  <2>6. QED
    BY <2>3, <2>4, <2>5
<1>3. CASE m.type \in DOMAIN IdsAt
  <2>1. IdsAt[m.type] \in Nat
    BY <1>3 DEF IdsAt
  <2>2. Padded(IdsAt[m.type] + 2 * m.n) \in Nat
    <3>1. IdsAt[m.type] + 2 * m.n \in Nat
      BY <1>0, <2>1
    <3> QED
      BY <3>1, PaddedType
  <2>3. /\ PayloadLen(m) = Padded(IdsAt[m.type] + 2 * m.n)
        /\ decode_payload(m) = Padded(IdsAt[m.type] + 2 * m.n)
    BY <1>3 DEF PayloadLen, decode_payload, FixedSize, ValuesAt, IdsAt
  <2>4. QED
    BY <2>2, <2>3 DEF Frame, WellFramed, xim_msg_decode, HeaderLen
<1>4. CASE m.type = "OPEN"
  <2>1. Padded(1 + m.n) \in Nat
    <3>1. 1 + m.n \in Nat
      BY <1>0
    <3> QED
      BY <3>1, PaddedType
  <2>2. PayloadLen(m) = Padded(1 + m.n) /\ decode_payload(m) = Padded(1 + m.n)
    BY <1>4 DEF PayloadLen, decode_payload, FixedSize, ValuesAt, IdsAt
  <2>3. QED
    BY <2>1, <2>2 DEF Frame, WellFramed, xim_msg_decode, HeaderLen
<1>5. CASE m.type = "QUERY_EXTENSION"
  <2>1. Padded(4 + m.n) \in Nat
    <3>1. 4 + m.n \in Nat
      BY <1>0
    <3> QED
      BY <3>1, PaddedType
  <2>2. PayloadLen(m) = Padded(4 + m.n) /\ decode_payload(m) = Padded(4 + m.n)
    BY <1>5 DEF PayloadLen, decode_payload, FixedSize, ValuesAt, IdsAt, Padded
  <2>3. QED
    BY <2>1, <2>2 DEF Frame, WellFramed, xim_msg_decode, HeaderLen
<1>6. CASE m.type = "UNKNOWN"
  <2>1. PayloadLen(m) = 0 /\ decode_payload(m) = ENOSYS
    BY <1>6 DEF PayloadLen, decode_payload, FixedSize, ValuesAt, IdsAt
  <2>2. QED
    BY <2>1 DEF Frame, Undecodable, xim_msg_decode, HeaderLen, ENOSYS
<1>7. CASE m.type = "CONNECT"
  <2>1. PayloadLen(m) = ConnectLen(m.values) /\ decode_payload(m) = ConnectLen(m.values)
    BY <1>7 DEF PayloadLen, decode_payload, FixedSize, ValuesAt, IdsAt
  <2>2. QED
    BY <1>0, <2>1 DEF Frame, WellFramed, xim_msg_decode, HeaderLen
<1>8. QED
  BY <1>1, <1>2, <1>3, <1>4, <1>5, <1>6, <1>7 DEF Measured

\* A client that negotiates the encoding without details keeps in step when the
\* names of its encodings happen to leave no padding that is misjudged.
THEOREM EncodingsMeasure ==
  ASSUME NEW m, m.type = "ENCODING_NEGOTIATION", m.n \in Nat, m.details = 0
  PROVE  WellFramed(m) <=> m.n % 4 \in {0, 3}
<1>1. PayloadLen(m) = Padded(4 + m.n) + 4
  <2>1. Padded(4 + m.n) \in Nat
    BY PaddedType
  <2>2. PayloadLen(m) = Padded(4 + m.n) + 4 + m.details
    BY DEF PayloadLen, FixedSize, ValuesAt, IdsAt
  <2>3. QED
    BY <2>1, <2>2
<1>2. decode_payload(m) = Padded(2 + m.n) + 4
  BY DEF decode_payload, decode_ENCODING_NEGOTIATION, FixedSize, ValuesAt, IdsAt
<1>3. PICK q \in Nat, r \in 0 .. 3 : m.n = 4 * q + r /\ m.n % 4 = r
  BY Division
<1>4. /\ Padded(4 + m.n) = 4 * q + (IF r = 0 THEN 4 ELSE 8)
      /\ Padded(2 + m.n) = 4 * q + (IF r \in {0, 1, 2} THEN 4 ELSE 8)
  BY <1>3 DEF Padded, PAD
<1>5. QED
  BY <1>1, <1>2, <1>3, <1>4 DEF WellFramed, xim_msg_decode, Frame, HeaderLen

-----------------------------------------------------------------------------
(* The invariant *)

\* Whatever a client sends has a length, and its decoder returns one or fails.
Sized ==
  \A m \in Messages :
    Frame(m) \in Nat /\ HeaderLen <= Frame(m) /\ xim_msg_decode(m) \in Int

LEMMA MessagesSized == Sized
<1> SUFFICES ASSUME NEW m \in Messages
             PROVE  Frame(m) \in Nat /\ HeaderLen <= Frame(m) /\ xim_msg_decode(m) \in Int
  BY DEF Sized
<1>1. IsMessage(m)
  BY MessagesAssumption
<1>2. CASE m.type \in Measured
  BY <1>1, <1>2, DecodersMeasure
<1>3. CASE m.type = "DISCONNECT"
  <2>1. PayloadLen(m) = 0 /\ decode_payload(m) = 1
    BY <1>3 DEF PayloadLen, decode_payload, decode_DISCONNECT, FixedSize, ValuesAt, IdsAt
  <2> QED
    BY <2>1 DEF Frame, xim_msg_decode, HeaderLen
<1>4. CASE m.type = "ENCODING_NEGOTIATION"
  <2>1. m.n \in Nat /\ m.details \in Nat
    BY <1>1, LengthsType
  <2>2. Padded(4 + m.n) \in Nat /\ Padded(2 + m.n) \in Nat
    BY <2>1, PaddedType
  <2>3. /\ PayloadLen(m) = Padded(4 + m.n) + 4 + m.details
        /\ decode_payload(m) = Padded(2 + m.n) + 4
    BY <1>4 DEF PayloadLen, decode_payload, decode_ENCODING_NEGOTIATION, FixedSize, ValuesAt, IdsAt
  <2> QED
    BY <2>1, <2>2, <2>3 DEF Frame, xim_msg_decode, HeaderLen
<1> QED
  BY <1>1, <1>2, <1>3, <1>4 DEF IsMessage, Measured

\* No client sends what is mismeasured.
Framed == \A m \in Messages : ~ Mismeasured(m)

\* Clients that send neither DISCONNECT nor ENCODING_NEGOTIATION.
THEOREM MeasuredFramed ==
  ASSUME \A m \in Messages : m.type \in Measured
  PROVE  Framed
BY MessagesAssumption, DecodersMeasure DEF Framed, Mismeasured

Entry == [msg : Messages, start : Nat]

\* Where the n-th message of a client begins, or the next one will.
Start(s, n) == IF n = 1 THEN 0 ELSE s[n - 1].start + Frame(s[n - 1].msg)

\* Messages lie in the stream one behind the other.
Contiguous(s) ==
  /\ s \in Seq(Entry)
  /\ \A n \in 1 .. Len(s) : s[n].start = Start(s, n)
  /\ \A k, n \in 1 .. Len(s) : k < n => s[k].start < s[n].start

\* Those handled are the first of those sent, and the buffer begins behind
\* them.
InStep(c) ==
  /\ handled[c] \in Seq(Messages)
  /\ Len(handled[c]) <= Len(sent[c])
  /\ \A n \in 1 .. Len(handled[c]) : handled[c][n] = sent[c][n].msg
  /\ base[c] = Start(sent[c], Len(handled[c]) + 1)

\* The buffer holds what was read and not removed.
Buffered(c) ==
  /\ base[c] <= received[c] /\ received[c] <= Written(c)
  /\ received[c] - base[c] <= RxSize

\* While nothing is decoded, no message waits in the buffer.
Drained(c) == serving # c => Complete(c) = {}

Flow(c) == InStep(c) /\ Buffered(c) /\ Drained(c)

\* Messages are followed as long as none of them is mismeasured.
Stream(c) == Contiguous(sent[c]) /\ (InTune(c) => Flow(c))

\* Events are those of connections that are open here, one for each.
Events ==
  /\ \A e \in batch :
       /\ e.fd \in Client => conn[e.fd] = "accepted"
       /\ e.hup => e.fd \in Client /\ peer[e.fd] \in {"reset", "dead"}
  /\ \A d, e \in batch : d.fd = e.fd => d = e
  /\ serving \in Client => conn[serving] = "accepted"
  /\ \A c \in Client : peer[c] = "none" => conn[c] = "none"

Types ==
  /\ peer \in [Client -> {"none", "open", "closed", "reset", "dead"}]
  /\ sent = [c \in Client |-> sent[c]]
  /\ conn \in [Client -> {"none", "backlog", "accepted", "freed"}]
  /\ received \in [Client -> Nat]
  /\ base \in [Client -> Nat]
  /\ handled = [c \in Client |-> handled[c]]
  /\ batch \subseteq [fd : Client \cup {Listener}, hup : BOOLEAN]
  /\ serving \in Client \cup {NoClient}
  /\ crashed \in BOOLEAN

IInv == Types /\ Events /\ \A c \in Client : Stream(c)

-----------------------------------------------------------------------------
(* The stream of one client *)

LEMMA EntryFacts ==
  ASSUME Sized, NEW s, Contiguous(s), NEW n \in 1 .. Len(s)
  PROVE  /\ s[n] \in Entry /\ s[n].msg \in Messages /\ s[n].start \in Nat
         /\ Frame(s[n].msg) \in Nat /\ HeaderLen <= Frame(s[n].msg)
<1>1. s[n] \in Entry
  BY DEF Contiguous
<1>2. s[n].msg \in Messages /\ s[n].start \in Nat
  BY <1>1 DEF Entry
<1>3. QED
  BY <1>1, <1>2 DEF Sized

LEMMA StartType ==
  ASSUME Sized, NEW s, Contiguous(s), NEW n \in 1 .. Len(s) + 1
  PROVE  Start(s, n) \in Nat
<1>1. CASE n = 1
  BY <1>1 DEF Start
<1>2. CASE n # 1
  <2>1. Len(s) \in Nat
    BY DEF Contiguous
  <2>2. n - 1 \in 1 .. Len(s)
    BY <1>2, <2>1
  <2>3. QED
    BY <1>2, <2>2, EntryFacts DEF Start
<1>3. QED
  BY <1>1, <1>2

LEMMA WrittenIsStart ==
  ASSUME NEW c, Contiguous(sent[c])
  PROVE  Written(c) = Start(sent[c], Len(sent[c]) + 1)
<1>1. sent[c] \in Seq(Entry)
  BY DEF Contiguous
<1>2. CASE sent[c] = <<>>
  BY <1>2 DEF Written, Start
<1>3. CASE sent[c] # <<>>
  <2>1. Len(sent[c]) + 1 # 1 /\ (Len(sent[c]) + 1) - 1 = Len(sent[c])
    BY <1>1, <1>3
  <2>2. QED
    BY <1>3, <2>1 DEF Written, Start
<1>4. QED
  BY <1>2, <1>3

LEMMA WrittenType == ASSUME Sized, NEW c, Contiguous(sent[c]) PROVE Written(c) \in Nat
<1>1. Len(sent[c]) \in Nat
  BY DEF Contiguous
<1>2. Len(sent[c]) + 1 \in 1 .. Len(sent[c]) + 1
  BY <1>1
<1>3. QED
  BY <1>2, StartType, WrittenIsStart

\* At most one message begins where the buffer does: the one behind those
\* that were handled.
LEMMA FrontIsNext ==
  ASSUME Sized, NEW s, Contiguous(s), NEW n \in 1 .. Len(s) + 1
  PROVE  {k \in DOMAIN s : s[k].start = Start(s, n)}
           = IF n <= Len(s) THEN {n} ELSE {}
<1>1. s \in Seq(Entry) /\ DOMAIN s = 1 .. Len(s) /\ Len(s) \in Nat
  BY DEF Contiguous
<1>2. CASE n <= Len(s)
  <2>1. n \in 1 .. Len(s) /\ s[n].start = Start(s, n)
    BY <1>1, <1>2 DEF Contiguous
  <2>2. ASSUME NEW k \in 1 .. Len(s), k # n PROVE s[k].start # s[n].start
    <3>1. k < n \/ n < k
      BY <1>1, <2>1, <2>2
    <3>2. s[k].start \in Nat /\ s[n].start \in Nat
      BY <2>1, EntryFacts
    <3>3. QED
      BY <2>1, <3>1, <3>2 DEF Contiguous
  <2>3. QED
    BY <1>1, <1>2, <2>1, <2>2
<1>3. CASE ~(n <= Len(s))
  <2>1. n = Len(s) + 1
    BY <1>1, <1>3
  <2>2. ASSUME NEW k \in 1 .. Len(s) PROVE s[k].start # Start(s, n)
    <3>1. 1 <= k /\ k <= Len(s) /\ k \in Int /\ n - 1 = Len(s)
      BY <1>1, <2>1, <2>2
    <3>2. /\ n # 1
          /\ n - 1 \in 1 .. Len(s)
          /\ k < n - 1 \/ k = n - 1
      <4>1. n # 1
        BY <1>1, <2>1, <3>1
      <4>2. n - 1 \in 1 .. Len(s)
        BY <1>1, <3>1
      <4>3. k < n - 1 \/ k = n - 1
        BY <1>1, <3>1
      <4>4. QED
        BY <4>1, <4>2, <4>3
    <3>3. /\ s[k].start \in Nat /\ s[n - 1].start \in Nat
          /\ Frame(s[n - 1].msg) \in Nat /\ HeaderLen <= Frame(s[n - 1].msg)
      BY <3>2, EntryFacts
    <3>4. s[k].start <= s[n - 1].start
      BY <3>2, <3>3 DEF Contiguous
    <3>5. QED
      BY <3>2, <3>3, <3>4 DEF Start, HeaderLen
  <2>3. QED
    BY <1>1, <1>3, <2>2
<1>4. QED
  BY <1>2, <1>3

\* A message more.
LEMMA AppendContiguous ==
  ASSUME Sized, NEW s, Contiguous(s), NEW m \in Messages
  PROVE  LET t == Append(s, [msg |-> m, start |-> Start(s, Len(s) + 1)])
         IN  /\ Contiguous(t)
             /\ Len(t) = Len(s) + 1
             /\ \A n \in 1 .. Len(s) : t[n] = s[n]
             /\ \A n \in 1 .. Len(s) + 1 : Start(t, n) = Start(s, n)
<1> DEFINE last == [msg |-> m, start |-> Start(s, Len(s) + 1)]
           t == Append(s, last)
<1>1. s \in Seq(Entry) /\ Len(s) \in Nat
  BY DEF Contiguous
<1>2. Start(s, Len(s) + 1) \in Nat
  BY <1>1, StartType
<1>3. last \in Entry
  BY <1>2 DEF Entry
<1> HIDE DEF last
<1>4. t \in Seq(Entry) /\ Len(t) = Len(s) + 1 /\ t[Len(s) + 1] = last
  BY <1>1, <1>3
<1>5. \A n \in 1 .. Len(s) : t[n] = s[n]
  BY <1>1, <1>3
<1> HIDE DEF t
<1>6. ASSUME NEW n \in 1 .. Len(s) + 1 PROVE Start(t, n) = Start(s, n)
  <2>1. n # 1 => n - 1 \in 1 .. Len(s)
    BY <1>1
  <2>2. QED
    BY <1>5, <2>1 DEF Start
<1>7. ASSUME NEW n \in 1 .. Len(t) PROVE t[n].start = Start(t, n)
  <2>1. CASE n \in 1 .. Len(s)
    BY <1>5, <1>6, <1>1, <2>1 DEF Contiguous
  <2>2. CASE n = Len(s) + 1
    BY <1>4, <1>6, <1>1, <2>2 DEF last
  <2>3. QED
    BY <1>1, <1>4, <2>1, <2>2
<1>8. ASSUME NEW k \in 1 .. Len(t), NEW n \in 1 .. Len(t), k < n
      PROVE  t[k].start < t[n].start
  <2>1. k \in 1 .. Len(s)
    BY <1>1, <1>4, <1>8
  <2>2. CASE n \in 1 .. Len(s)
    BY <1>5, <1>8, <2>1, <2>2 DEF Contiguous
  <2>3. CASE n = Len(s) + 1
    <3>1. Len(s) \in 1 .. Len(s) /\ Len(s) + 1 # 1 /\ (Len(s) + 1) - 1 = Len(s)
      BY <1>1, <2>1
    <3>2. t[n].start = s[Len(s)].start + Frame(s[Len(s)].msg)
      BY <1>4, <2>3, <3>1 DEF last, Start
    <3>3. /\ s[k].start \in Nat /\ s[Len(s)].start \in Nat
          /\ Frame(s[Len(s)].msg) \in Nat /\ HeaderLen <= Frame(s[Len(s)].msg)
      BY <2>1, <3>1, EntryFacts
    <3>4. k = Len(s) \/ k < Len(s)
      BY <1>1, <2>1
    <3>5. s[k].start <= s[Len(s)].start
      <4>1. CASE k = Len(s)
        BY <3>3, <4>1
      <4>2. CASE k < Len(s)
        BY <2>1, <3>1, <3>3, <4>2 DEF Contiguous
      <4>3. QED
        BY <3>4, <4>1, <4>2
    <3>6. QED
      BY <1>5, <2>1, <3>2, <3>3, <3>5 DEF HeaderLen
  <2>4. QED
    BY <1>1, <1>4, <2>2, <2>3
<1>9. Contiguous(t)
  BY <1>4, <1>7, <1>8 DEF Contiguous
<1>10. QED
  BY <1>4, <1>5, <1>6, <1>9 DEF t, last

-----------------------------------------------------------------------------
(* One message of a client *)

LEMMA InRange ==
  ASSUME NEW c, Contiguous(sent[c]), InStep(c)
  PROVE  /\ Len(sent[c]) \in Nat /\ Len(handled[c]) \in Nat
         /\ Len(handled[c]) + 1 \in 1 .. Len(sent[c]) + 1
<1>1. Len(sent[c]) \in Nat /\ Len(handled[c]) \in Nat /\ Len(handled[c]) <= Len(sent[c])
  BY DEF Contiguous, InStep
<1>2. QED
  BY <1>1

LEMMA AtFrontOfBuffer ==
  ASSUME Sized, NEW c, Contiguous(sent[c]), InStep(c)
  PROVE  AtFront(c) = IF Len(handled[c]) + 1 <= Len(sent[c]) THEN {Len(handled[c]) + 1} ELSE {}
<1>1. AtFront(c) = {k \in DOMAIN sent[c] : sent[c][k].start = Start(sent[c], Len(handled[c]) + 1)}
  BY DEF AtFront, InStep
<1>2. QED
  BY <1>1, InRange, FrontIsNext

LEMMA CompleteMessage ==
  ASSUME Sized, NEW c, Types, Stream(c), InTune(c), c \in Client, NEW n \in Complete(c)
  PROVE  /\ n = Len(handled[c]) + 1 /\ n \in 1 .. Len(sent[c])
         /\ sent[c][n].msg \in Messages
         /\ Frame(sent[c][n].msg) \in Nat
         /\ xim_msg_decode(sent[c][n].msg) = Frame(sent[c][n].msg)
         /\ base[c] + Frame(sent[c][n].msg) = Start(sent[c], n + 1)
         /\ base[c] + Frame(sent[c][n].msg) <= received[c]
<1>1. Contiguous(sent[c]) /\ InStep(c) /\ Buffered(c)
  BY DEF Stream, Flow
<1>2. /\ n \in AtFront(c)
      /\ ~need_more_data(rxbuf_len(c), Frame(sent[c][n].msg))
      /\ ~Undecodable(sent[c][n].msg)
  BY DEF Complete
<1>3. n = Len(handled[c]) + 1 /\ n \in 1 .. Len(sent[c])
  <2>1. n = Len(handled[c]) + 1 /\ n <= Len(sent[c])
    BY <1>1, <1>2, AtFrontOfBuffer
  <2>2. QED
    BY <1>1, <2>1, InRange
<1>4. /\ sent[c][n].msg \in Messages /\ Frame(sent[c][n].msg) \in Nat
  BY <1>1, <1>3, EntryFacts
<1>5. xim_msg_decode(sent[c][n].msg) = Frame(sent[c][n].msg)
  <2>1. n \in DOMAIN sent[c]
    BY <1>2 DEF AtFront
  <2> QED
    BY <1>2, <2>1 DEF InTune, Mismeasured, WellFramed
<1>6. base[c] \in Nat /\ received[c] \in Nat
  BY DEF Types
<1>7. base[c] + Frame(sent[c][n].msg) <= received[c]
  BY <1>2, <1>4, <1>6 DEF need_more_data, rxbuf_len
<1>8. base[c] + Frame(sent[c][n].msg) = Start(sent[c], n + 1)
  <2>1. sent[c][n].start = base[c]
    BY <1>2 DEF AtFront
  <2>2. n + 1 # 1 /\ (n + 1) - 1 = n
    BY <1>3
  <2>3. QED
    BY <2>1, <2>2 DEF Start
<1>9. QED
  BY <1>3, <1>4, <1>5, <1>7, <1>8

\* Whatever is decoded, a number of bytes is removed.
LEMMA Removes ==
  ASSUME Sized, NEW c, Contiguous(sent[c]), NEW n \in Complete(c)
  PROVE  xim_msg_decode(sent[c][n].msg) \in Nat
<1>1. n \in 1 .. Len(sent[c]) /\ ~ Undecodable(sent[c][n].msg)
  BY DEF Complete, AtFront, Contiguous
<1>2. sent[c][n].msg \in Messages
  BY <1>1, EntryFacts
<1>3. xim_msg_decode(sent[c][n].msg) \in Int
  BY <1>2 DEF Sized
<1> QED
  BY <1>1, <1>3 DEF Undecodable

\* What concerns other clients leaves a stream as it is.
LEMMA SameStream ==
  ASSUME NEW c, Stream(c), sent'[c] = sent[c], handled'[c] = handled[c],
         base'[c] = base[c], received'[c] = received[c],
         serving' # c => serving # c
  PROVE  Stream(c)'
<1>1. Contiguous(sent[c])'
  BY DEF Stream, Contiguous, Start
<1>2. InTune(c)' => InTune(c)
  BY DEF InTune
<1>3. ASSUME InTune(c) PROVE Flow(c)'
  <2>1. InStep(c) /\ Buffered(c) /\ Drained(c)
    BY <1>3 DEF Stream, Flow
  <2>2. InStep(c)'
    BY <2>1 DEF InStep, Start
  <2>3. Buffered(c)'
    BY <2>1 DEF Buffered, Written
  <2>4. Complete(c)' = Complete(c)
    BY DEF Complete, AtFront, rxbuf_len
  <2> QED
    BY <2>1, <2>2, <2>3, <2>4 DEF Flow, Drained
<1> QED
  BY <1>1, <1>2, <1>3 DEF Stream

-----------------------------------------------------------------------------
(* Types *)

LEMMA TypesNext == ASSUME Sized, IInv, [Next]_vars PROVE Types'
<1>1. Types /\ \A c \in Client : Stream(c)
  BY DEF IInv
<1>2. CASE UNCHANGED vars
  BY <1>1, <1>2 DEF vars, clientVars, connVars, loopVars, Types
<1>3. ASSUME NEW c \in Client, Connect(c) PROVE Types'
  BY <1>1, <1>3 DEF Connect, loopVars, Types
<1>4. ASSUME NEW c \in Client, Leave(c) PROVE Types'
  BY <1>1, <1>4 DEF Leave, connVars, loopVars, Types
<1>5. ASSUME NEW c \in Client, NEW m \in Messages, Send(c, m) PROVE Types'
  BY <1>1, <1>5 DEF Send, connVars, loopVars, Types
<1>6. CASE epoll_wait
  <2>1. PICK fds \in SUBSET Ready : batch' = {Event(fd) : fd \in fds}
    BY <1>6 DEF epoll_wait
  <2>2. ASSUME NEW e \in batch' PROVE e \in [fd : Client \cup {Listener}, hup : BOOLEAN]
    <3>1. PICK fd \in fds : e = Event(fd)
      BY <2>1, <2>2
    <3>2. fd \in Client \cup {Listener}
      BY <2>1, <3>1 DEF Ready
    <3>3. (fd \in Client /\ peer[fd] \in {"reset", "dead"}) \in BOOLEAN
      OBVIOUS
    <3>4. QED
      BY <3>1, <3>2, <3>3 DEF Event
  <2>3. QED
    BY <1>1, <1>6, <2>1, <2>2 DEF epoll_wait, clientVars, connVars, Types
<1>7. CASE _xim_server_in
  BY <1>1, <1>7 DEF _xim_server_in, Dispatch, clientVars, Types
<1>8. ASSUME NEW c \in Client, fd_read_data(c) PROVE Types'
  <2>1. PICK n \in Chunk :
          received' = [received EXCEPT ![c] = @ + Min2(n, Min2(Room(c), Arrived(c)))]
    BY <1>8 DEF fd_read_data
  <2>2. n \in Nat /\ Room(c) > 0 /\ Arrived(c) > 0
    BY <1>8, ChunkAssumption DEF fd_read_data
  <2>3. Room(c) \in Int /\ Arrived(c) \in Int
    <3>1. base[c] \in Nat /\ received[c] \in Nat /\ RxSize \in Nat
      BY <1>1, SizeAssumption DEF Types
    <3>2. Written(c) \in Nat
      BY <1>1, WrittenType DEF Stream
    <3>3. QED
      BY <3>1, <3>2 DEF Room, Arrived, rxbuf_len
  <2>4. Min2(n, Min2(Room(c), Arrived(c))) \in Nat
    BY <2>2, <2>3 DEF Min2
  <2>5. received' \in [Client -> Nat]
    BY <1>1, <2>1, <2>4 DEF Types
  <2>6. QED
    BY <1>1, <1>8, <2>5 DEF fd_read_data, Dispatch, clientVars, Types
<1>9. ASSUME NEW c \in Client, fd_read_error(c) PROVE Types'
  BY <1>1, <1>9 DEF fd_read_error, Dispatch, connVars, Types
<1>10. ASSUME NEW c \in Client, xim_client_free(c) PROVE Types'
  BY <1>1, <1>10 DEF xim_client_free, Dispatch, clientVars, Types
<1>11. ASSUME NEW c \in Client, _xim_client_handle_msg(c) PROVE Types'
  <2>1. PICK n \in Complete(c) :
          /\ handled' = [handled EXCEPT ![c] = Append(@, sent[c][n].msg)]
          /\ base' = [base EXCEPT ![c] = @ + xim_msg_decode(sent[c][n].msg)]
    BY <1>11 DEF _xim_client_handle_msg
  <2>2. xim_msg_decode(sent[c][n].msg) \in Nat
    BY <1>1, Removes DEF Stream
  <2>3. base' \in [Client -> Nat]
    BY <1>1, <2>1, <2>2 DEF Types
  <2>4. peer' \in [Client -> {"none", "open", "closed", "reset", "dead"}]
    BY <1>1, <1>11 DEF _xim_client_handle_msg, Types
  <2>5. crashed' \in BOOLEAN
    BY <1>11 DEF _xim_client_handle_msg
  <2>6. QED
    BY <1>1, <1>11, <2>1, <2>3, <2>4, <2>5 DEF _xim_client_handle_msg, Types
<1>12. ASSUME NEW c \in Client, ReturnToLoop(c) PROVE Types'
  BY <1>1, <1>12 DEF ReturnToLoop, clientVars, connVars, Types
<1>13. QED
  BY <1>2, <1>3, <1>4, <1>5, <1>6, <1>7, <1>8, <1>9, <1>10, <1>11, <1>12
  DEF Next, Serve, _xim_client_in

-----------------------------------------------------------------------------
(* Events *)

LEMMA EventsNext == ASSUME IInv, [Next]_vars PROVE Events'
<1> USE DEF Events
<1>1. Types /\ Events
  BY DEF IInv
<1>2. /\ peer \in [Client -> {"none", "open", "closed", "reset", "dead"}]
      /\ conn \in [Client -> {"none", "backlog", "accepted", "freed"}]
  BY <1>1 DEF Types
<1>3. CASE UNCHANGED vars
  BY <1>1, <1>3 DEF vars, clientVars, connVars, loopVars
<1>4. ASSUME NEW c \in Client, Connect(c) PROVE Events'
  <2>1. conn[c] = "none"
    BY <1>1, <1>4 DEF Connect
  <2>2. QED
    BY <1>1, <1>2, <1>4, <2>1 DEF Connect, loopVars
<1>5. ASSUME NEW c \in Client, Leave(c) PROVE Events'
  BY <1>1, <1>2, <1>5 DEF Leave, connVars, loopVars
<1>6. ASSUME NEW c \in Client, NEW m \in Messages, Send(c, m) PROVE Events'
  BY <1>1, <1>6 DEF Send, connVars, loopVars
<1>7. CASE epoll_wait
  <2>1. PICK fds \in SUBSET Ready : batch' = {Event(fd) : fd \in fds}
    BY <1>7 DEF epoll_wait
  <2>2. UNCHANGED <<peer, conn, serving>>
    BY <1>7 DEF epoll_wait, clientVars, connVars
  <2>3. ASSUME NEW e \in batch'
        PROVE  /\ e.fd \in Client => conn[e.fd] = "accepted"
               /\ e.hup => e.fd \in Client /\ peer[e.fd] \in {"reset", "dead"}
               /\ e = Event(e.fd)
    <3>1. PICK fd \in fds : e = Event(fd)
      BY <2>1, <2>3
    <3>2. fd \in Client => conn[fd] = "accepted"
      BY <2>1, ClientAssumption DEF Ready, Readable
    <3>3. QED
      BY <3>1, <3>2 DEF Event
  <2>4. QED
    BY <1>1, <2>2, <2>3
<1>8. CASE _xim_server_in
  BY <1>1, <1>2, <1>8 DEF _xim_server_in, Dispatch, clientVars
<1>9. ASSUME NEW c \in Client, fd_read_data(c) PROVE Events'
  BY <1>1, <1>9 DEF fd_read_data, Dispatch, clientVars
<1>10. ASSUME NEW c \in Client, fd_read_error(c) PROVE Events'
  BY <1>1, <1>2, <1>10 DEF fd_read_error, Dispatch, connVars
<1>11. ASSUME NEW c \in Client, xim_client_free(c) PROVE Events'
  <2>1. PICK e \in batch : e.fd = c /\ Dispatch(e)
    BY <1>11 DEF xim_client_free
  <2>2. batch' = batch \ {e} /\ serving = NoClient /\ serving' = serving
    BY <1>11, <2>1 DEF Dispatch, xim_client_free
  <2>3. \A d \in batch' : d.fd # c
    BY <1>1, <2>1, <2>2
  <2>4. conn' = [conn EXCEPT ![c] = "freed"] /\ peer' = peer
    BY <1>11 DEF xim_client_free, clientVars
  <2>5. conn[c] = "accepted"
    BY <1>1, <2>1
  <2>6. QED
    BY <1>1, <1>2, <2>2, <2>3, <2>4, <2>5, ClientAssumption
<1>12. ASSUME NEW c \in Client, _xim_client_handle_msg(c) PROVE Events'
  <2>1. UNCHANGED <<conn, batch, serving>>
    BY <1>12 DEF _xim_client_handle_msg
  <2>2. CASE peer' = peer
    BY <1>1, <2>1, <2>2
  <2>3. CASE peer[c] = "closed" /\ peer' = [peer EXCEPT ![c] = "reset"]
    BY <1>1, <1>2, <2>1, <2>3
  <2>4. QED
    BY <1>12, <2>2, <2>3 DEF _xim_client_handle_msg
<1>13. ASSUME NEW c \in Client, ReturnToLoop(c) PROVE Events'
  BY <1>1, <1>13, ClientAssumption DEF ReturnToLoop, clientVars, connVars
<1>14. QED
  BY <1>3, <1>4, <1>5, <1>6, <1>7, <1>8, <1>9, <1>10, <1>11, <1>12, <1>13
  DEF Next, Serve, _xim_client_in

-----------------------------------------------------------------------------
(* Streams *)

LEMMA SendStream ==
  ASSUME Sized, IInv, NEW c \in Client, NEW m \in Messages, Send(c, m)
  PROVE  Stream(c)'
<1> DEFINE s == sent[c]
           n == Len(handled[c]) + 1
<1>0. Contiguous(s)
  BY DEF IInv, Stream
<1>2. UNCHANGED <<received, base, handled, serving>>
  BY DEF Send, connVars, loopVars
<1>3. sent'[c] = Append(s, [msg |-> m, start |-> Start(s, Len(s) + 1)])
  BY <1>0, WrittenIsStart DEF Send, IInv, Types
<1>4. /\ Contiguous(sent'[c])
      /\ Len(sent'[c]) = Len(s) + 1
      /\ \A k \in 1 .. Len(s) : sent'[c][k] = s[k]
      /\ \A k \in 1 .. Len(s) + 1 : Start(sent'[c], k) = Start(s, k)
  BY <1>0, <1>3, AppendContiguous
<1>6. Contiguous(sent[c])'
  BY <1>4 DEF Contiguous, Start
<1>14. InTune(c)' => InTune(c)
  <2>1. DOMAIN s = 1 .. Len(s) /\ DOMAIN sent'[c] = 1 .. Len(s) + 1 /\ Len(s) \in Nat
    BY <1>0, <1>4 DEF Contiguous
  <2>2. \A k \in DOMAIN s : k \in DOMAIN sent'[c] /\ sent'[c][k] = s[k]
    BY <1>4, <2>1
  <2> QED
    BY <2>2 DEF InTune
<1> SUFFICES ASSUME InTune(c) PROVE Flow(c)'
  BY <1>6, <1>14 DEF Stream
<1>1. /\ Contiguous(s) /\ InStep(c) /\ Buffered(c) /\ Drained(c)
  BY DEF IInv, Stream, Flow
<1>5. /\ Len(s) \in Nat /\ Len(handled[c]) \in Nat /\ n \in 1 .. Len(s) + 1
  BY <1>1, InRange
<1>7. InStep(c)'
  <2>1. Len(handled[c]) <= Len(sent'[c])
    BY <1>1, <1>4, <1>5 DEF InStep
  <2>2. \A k \in 1 .. Len(handled[c]) : handled[c][k] = sent'[c][k].msg
    BY <1>1, <1>4, <1>5 DEF InStep
  <2>3. base[c] = Start(sent'[c], n)
    BY <1>1, <1>4, <1>5 DEF InStep
  <2>4. QED
    BY <1>1, <1>2, <2>1, <2>2, <2>3 DEF InStep, Start
<1>8. Written(c) \in Nat /\ Start(s, Len(s) + 1) = Written(c)
  BY <1>1, WrittenType, WrittenIsStart
<1>9. /\ Written(c)' = Written(c) + Frame(m) /\ Frame(m) \in Nat
  <2>1. sent'[c] # <<>> /\ sent'[c][Len(sent'[c])] = [msg |-> m, start |-> Start(s, Len(s) + 1)]
    BY <1>1, <1>3, <1>4, <1>5 DEF Contiguous
  <2>2. Frame(m) \in Nat
    BY DEF Sized
  <2>3. QED
    BY <1>8, <2>1, <2>2 DEF Written
<1>10. base[c] \in Nat /\ received[c] \in Nat
  BY DEF IInv, Types
<1>11. Buffered(c)'
  BY <1>1, <1>2, <1>8, <1>9, <1>10 DEF Buffered
<1>12. Drained(c)'
  <2> SUFFICES ASSUME serving # c, NEW k \in Complete(c)' PROVE FALSE
    BY <1>2 DEF Drained
  <2>1. /\ k \in DOMAIN sent'[c] /\ sent'[c][k].start = base[c]
        /\ ~need_more_data(received[c] - base[c], Frame(sent'[c][k].msg))
        /\ ~Undecodable(sent'[c][k].msg)
    BY <1>2 DEF Complete, AtFront, rxbuf_len
  <2>2. base[c] = Start(sent'[c], n) /\ n \in 1 .. Len(sent'[c]) + 1
    BY <1>1, <1>4, <1>5 DEF InStep
  <2>3. k = n
    <3>1. {j \in DOMAIN sent'[c] : sent'[c][j].start = base[c]} \subseteq {n}
      BY <1>4, <2>2, FrontIsNext
    <3>2. QED
      BY <2>1, <3>1
  <2>4. CASE n <= Len(s)
    <3>1. n \in AtFront(c)
      BY <1>1, <1>5, <2>4, AtFrontOfBuffer
    <3>2. sent'[c][n] = s[n]
      BY <1>4, <1>5, <2>4
    <3>3. n \in Complete(c)
      BY <2>1, <2>3, <3>1, <3>2 DEF Complete, rxbuf_len
    <3>4. QED
      BY <1>1, <3>3 DEF Drained
  <2>5. CASE ~(n <= Len(s))
    <3>1. n = Len(s) + 1
      BY <1>5, <2>5
    <3>2. received[c] - base[c] = 0
      BY <1>1, <1>8, <1>10, <3>1 DEF InStep, Buffered
    <3>3. QED
      BY <2>1, <3>2 DEF need_more_data, HeaderLen
  <2>6. QED
    BY <2>4, <2>5
<1>13. QED
  BY <1>7, <1>11, <1>12 DEF Flow

LEMMA ReadStream ==
  ASSUME Sized, IInv, NEW c \in Client, fd_read_data(c)
  PROVE  Stream(c)'
<1>2. UNCHANGED <<sent, handled, base>> /\ serving' = c
  BY DEF fd_read_data, clientVars
<1>12. Contiguous(sent[c])' /\ (InTune(c)' => InTune(c))
  BY <1>2 DEF IInv, Stream, Contiguous, Start, InTune
<1> SUFFICES ASSUME InTune(c) PROVE Flow(c)'
  BY <1>12 DEF Stream
<1>1. /\ Contiguous(sent[c]) /\ InStep(c) /\ Buffered(c)
  BY DEF IInv, Stream, Flow
<1>3. /\ base[c] \in Nat /\ received[c] \in Nat /\ RxSize \in Nat /\ Written(c) \in Nat
  BY <1>1, SizeAssumption, WrittenType DEF IInv, Types
<1>4. PICK n \in Chunk :
        received' = [received EXCEPT ![c] = @ + Min2(n, Min2(Room(c), Arrived(c)))]
  BY DEF fd_read_data
<1>5. n \in Nat /\ Room(c) \in Int /\ Arrived(c) \in Int /\ Room(c) > 0 /\ Arrived(c) > 0
  BY <1>3, ChunkAssumption DEF fd_read_data, Room, Arrived, rxbuf_len
<1> DEFINE more == Min2(n, Min2(Room(c), Arrived(c)))
<1>6. more \in Nat /\ more <= Room(c) /\ more <= Arrived(c)
  BY <1>5 DEF Min2
<1>7. received'[c] = received[c] + more
  BY <1>4 DEF IInv, Types
<1> HIDE DEF more
<1>8. Buffered(c)'
  <2>1. Written(c)' = Written(c)
    BY <1>2 DEF Written
  <2>2. QED
    BY <1>1, <1>2, <1>3, <1>6, <1>7, <2>1 DEF Buffered, Room, Arrived, rxbuf_len
<1>9. InStep(c)'
  BY <1>1, <1>2 DEF InStep, Start
<1>10. Drained(c)'
  BY <1>2 DEF Drained
<1>11. QED
  BY <1>8, <1>9, <1>10 DEF Flow

LEMMA HandleStream ==
  ASSUME Sized, IInv, NEW c \in Client, _xim_client_handle_msg(c)
  PROVE  Stream(c)'
<1> DEFINE s == sent[c]
<1>2. UNCHANGED <<sent, received, serving>> /\ serving = c
  BY DEF _xim_client_handle_msg
<1>9. Contiguous(sent[c])' /\ (InTune(c)' => InTune(c))
  BY <1>2 DEF IInv, Stream, Contiguous, Start, InTune
<1> SUFFICES ASSUME InTune(c) PROVE Flow(c)'
  BY <1>9 DEF Stream
<1>1. Types /\ Stream(c) /\ Contiguous(s) /\ InStep(c) /\ Buffered(c)
  BY DEF IInv, Stream, Flow
<1>3. PICK n \in Complete(c) :
        /\ handled' = [handled EXCEPT ![c] = Append(@, s[n].msg)]
        /\ base' = [base EXCEPT ![c] = @ + xim_msg_decode(s[n].msg)]
  BY DEF _xim_client_handle_msg
<1>4. /\ n = Len(handled[c]) + 1 /\ n \in 1 .. Len(s)
      /\ s[n].msg \in Messages
      /\ Frame(s[n].msg) \in Nat
      /\ xim_msg_decode(s[n].msg) = Frame(s[n].msg)
      /\ base[c] + Frame(s[n].msg) = Start(s, n + 1)
      /\ base[c] + Frame(s[n].msg) <= received[c]
  BY <1>1, CompleteMessage
<1>5. handled'[c] = Append(handled[c], s[n].msg) /\ base'[c] = base[c] + Frame(s[n].msg)
  BY <1>1, <1>3, <1>4 DEF Types
<1>6. handled[c] \in Seq(Messages) /\ \A k \in 1 .. Len(handled[c]) : handled[c][k] = s[k].msg
  BY <1>1 DEF InStep
<1>7. /\ handled'[c] \in Seq(Messages) /\ Len(handled'[c]) = n
      /\ \A k \in 1 .. n : handled'[c][k] = s[k].msg
  BY <1>4, <1>5, <1>6
<1>8. InStep(c)'
  BY <1>2, <1>4, <1>5, <1>7 DEF InStep, Start
<1>10. base[c] \in Nat /\ received[c] \in Nat /\ RxSize \in Nat
  BY <1>1, SizeAssumption DEF Types
<1>11. Buffered(c)'
  <2>1. Written(c)' = Written(c)
    BY <1>2 DEF Written
  <2>2. QED
    BY <1>1, <1>2, <1>4, <1>5, <1>10, <2>1 DEF Buffered
<1>12. Drained(c)'
  BY <1>2 DEF Drained
<1>13. QED
  BY <1>8, <1>11, <1>12 DEF Flow

LEMMA StreamsNext ==
  ASSUME Sized, IInv, [Next]_vars
  PROVE  \A c \in Client : Stream(c)'
<1>1. Types /\ \A c \in Client : Stream(c)
  BY DEF IInv
<1> SUFFICES ASSUME NEW d \in Client PROVE Stream(d)'
  OBVIOUS
<1>2. Stream(d)
  BY <1>1
<1>3. CASE UNCHANGED vars
  BY <1>2, <1>3, SameStream DEF vars, clientVars, connVars, loopVars
<1>4. ASSUME NEW c \in Client, Connect(c) PROVE Stream(d)'
  BY <1>2, <1>4, SameStream DEF Connect, loopVars
<1>5. ASSUME NEW c \in Client, Leave(c) PROVE Stream(d)'
  BY <1>2, <1>5, SameStream DEF Leave, connVars, loopVars
<1>6. ASSUME NEW c \in Client, NEW m \in Messages, Send(c, m) PROVE Stream(d)'
  <2>1. CASE c = d
    BY <1>6, <2>1, SendStream
  <2>2. CASE c # d
    <3>1. sent'[d] = sent[d]
      BY <1>1, <1>6, <2>2 DEF Send, Types
    <3>2. QED
      BY <1>2, <1>6, <3>1, SameStream DEF Send, connVars, loopVars
  <2>3. QED
    BY <2>1, <2>2
<1>7. CASE epoll_wait
  BY <1>2, <1>7, SameStream DEF epoll_wait, clientVars, connVars
<1>8. CASE _xim_server_in
  BY <1>2, <1>8, SameStream DEF _xim_server_in, clientVars
<1>9. ASSUME NEW c \in Client, fd_read_data(c) PROVE Stream(d)'
  <2>1. CASE c = d
    BY <1>9, <2>1, ReadStream
  <2>2. CASE c # d
    <3>1. received'[d] = received[d]
      BY <1>1, <1>9, <2>2 DEF fd_read_data, Types
    <3>2. serving # d
      BY <1>9, ClientAssumption DEF fd_read_data, Dispatch
    <3>3. QED
      BY <1>2, <1>9, <3>1, <3>2, SameStream DEF fd_read_data, clientVars
  <2>3. QED
    BY <2>1, <2>2
<1>10. ASSUME NEW c \in Client, fd_read_error(c) PROVE Stream(d)'
  BY <1>2, <1>10, SameStream DEF fd_read_error, connVars
<1>11. ASSUME NEW c \in Client, xim_client_free(c) PROVE Stream(d)'
  BY <1>2, <1>11, SameStream DEF xim_client_free, clientVars
<1>12. ASSUME NEW c \in Client, _xim_client_handle_msg(c) PROVE Stream(d)'
  <2>1. CASE c = d
    BY <1>12, <2>1, HandleStream
  <2>2. CASE c # d
    <3>1. handled'[d] = handled[d] /\ base'[d] = base[d]
      BY <1>1, <1>12, <2>2 DEF _xim_client_handle_msg, Types
    <3>2. QED
      BY <1>2, <1>12, <3>1, SameStream DEF _xim_client_handle_msg
  <2>3. QED
    BY <2>1, <2>2
<1>13. ASSUME NEW c \in Client, ReturnToLoop(c) PROVE Stream(d)'
  <2>1. UNCHANGED <<sent, received, base, handled>>
    BY <1>13 DEF ReturnToLoop, clientVars, connVars
  <2>2. serving = c /\ Complete(c) = {}
    BY <1>13 DEF ReturnToLoop
  <2>3. CASE c # d
    BY <1>2, <2>1, <2>2, <2>3, SameStream
  <2>4. CASE c = d
    <3>1. Complete(d)' = Complete(d)
      BY <2>1 DEF Complete, AtFront, rxbuf_len
    <3>2. Drained(d)'
      BY <2>2, <2>4, <3>1 DEF Drained
    <3>3. Contiguous(sent[d])' /\ (InTune(d)' => InTune(d))
      BY <1>2, <2>1 DEF Stream, Contiguous, Start, InTune
    <3>4. InTune(d) => InStep(d)' /\ Buffered(d)'
      BY <1>2, <2>1 DEF Stream, Flow, InStep, Buffered, Start, Written
    <3>5. QED
      BY <3>2, <3>3, <3>4 DEF Stream, Flow
  <2>5. QED
    BY <2>3, <2>4
<1>14. QED
  BY <1>3, <1>4, <1>5, <1>6, <1>7, <1>8, <1>9, <1>10, <1>11, <1>12, <1>13
  DEF Next, Serve, _xim_client_in

-----------------------------------------------------------------------------
(* The invariant holds *)

LEMMA InitIInv == Init => IInv
<1> SUFFICES ASSUME Init PROVE IInv
  OBVIOUS
<1>1. Types
  BY DEF Init, Types
<1>2. Events
  BY ClientAssumption DEF Init, Events
<1>3. ASSUME NEW c \in Client PROVE Stream(c)
  <2>1. sent[c] = <<>> /\ handled[c] = <<>> /\ base[c] = 0 /\ received[c] = 0
    BY DEF Init
  <2>2. Contiguous(sent[c])
    BY <2>1 DEF Contiguous
  <2>3. InStep(c)
    BY <2>1 DEF InStep, Start
  <2>4. Buffered(c)
    BY <2>1, SizeAssumption DEF Buffered, Written
  <2>5. Drained(c)
    BY <2>1 DEF Drained, Complete, AtFront
  <2>6. QED
    BY <2>2, <2>3, <2>4, <2>5 DEF Stream, Flow
<1>4. QED
  BY <1>1, <1>2, <1>3 DEF IInv

LEMMA NextIInv == Sized /\ IInv /\ [Next]_vars => IInv'
<1> SUFFICES ASSUME Sized, IInv, [Next]_vars PROVE IInv'
  OBVIOUS
<1>1. Types'
  BY TypesNext
<1>2. Events'
  BY EventsNext
<1>3. \A c \in Client : Stream(c)'
  BY StreamsNext
<1>4. QED
  BY <1>1, <1>2, <1>3 DEF IInv

LEMMA Invariant == Spec => []IInv
<1>0. Sized
  BY MessagesSized
<1>1. Sized /\ IInv /\ [Next]_vars => IInv'
  BY NextIInv
<1>2. IInv /\ [Next]_vars => IInv'
  BY <1>0, <1>1
<1>3. QED
  BY <1>2, InitIInv, PTL DEF Spec

-----------------------------------------------------------------------------
(* What the server promises *)

\* Nobody who sends no mismeasured message is out of tune.
LEMMA AllInTune ==
  ASSUME Framed, IInv, NEW c \in Client PROVE InTune(c)
<1>1. sent[c] \in Seq(Entry)
  BY DEF IInv, Stream, Contiguous
<1>2. ASSUME NEW i \in DOMAIN sent[c] PROVE sent[c][i].msg \in Messages
  <2>1. sent[c][i] \in Entry
    BY <1>1
  <2> QED
    BY <2>1 DEF Entry
<1> QED
  BY <1>2 DEF InTune, Framed

\* The buffer never holds less than nothing or more than it has room for.
THEOREM TypeCorrect == ASSUME Framed PROVE Spec => []TypeOK
<1>1. IInv => TypeOK
  <2> SUFFICES ASSUME IInv PROVE TypeOK
    OBVIOUS
  <2>1. Types /\ \A c \in Client : Contiguous(sent[c]) /\ Flow(c)
    BY AllInTune DEF IInv, Stream
  <2>2. ASSUME NEW c \in Client, NEW i \in DOMAIN sent[c]
        PROVE  sent[c][i] \in [msg : Messages, start : Nat]
    <3>1. sent[c] \in Seq(Entry)
      BY <2>1 DEF Contiguous
    <3>2. sent[c][i] \in Entry
      BY <3>1
    <3>3. QED
      BY <3>2 DEF Entry
  <2>3. ASSUME NEW c \in Client PROVE rxbuf_len(c) \in 0 .. RxSize
    BY <2>1, SizeAssumption DEF Flow, Buffered, Types, rxbuf_len
  <2>4. \A e \in batch : e.fd \in Client \cup {Listener} /\ e.hup \in BOOLEAN
    BY <2>1 DEF Types
  <2>5. QED
    BY <2>1, <2>2, <2>3, <2>4 DEF TypeOK, Types
<1>2. QED
  BY <1>1, Invariant, PTL

\* After any number of messages the buffer begins where a message does.
THEOREM InFrame == ASSUME Framed PROVE Spec => []RemovesParsedMessage
<1>1. IInv => RemovesParsedMessage
  <2> SUFFICES ASSUME IInv, NEW c \in Client PROVE base[c] = Written(c) \/ AtFront(c) # {}
    BY DEF RemovesParsedMessage
  <2>0. Sized
    BY MessagesSized
  <2>1. Contiguous(sent[c]) /\ InStep(c)
    BY AllInTune DEF IInv, Stream, Flow
  <2>2. CASE Len(handled[c]) + 1 <= Len(sent[c])
    BY <2>0, <2>1, <2>2, AtFrontOfBuffer
  <2>3. CASE ~(Len(handled[c]) + 1 <= Len(sent[c]))
    <3>1. Len(handled[c]) = Len(sent[c])
      BY <2>1, <2>3, InRange DEF InStep
    <3>2. QED
      BY <2>1, <3>1, WrittenIsStart DEF InStep
  <2>4. QED
    BY <2>2, <2>3
<1>2. QED
  BY <1>1, Invariant, PTL

\* A client that stays and keeps to the protocol is never dropped: a full
\* buffer holds a complete message, and those are removed before the server
\* reads again.
THEOREM Served == Spec => DroppedOnlyIfGone
<1> DEFINE Kept(c) == conn[c] # "freed" /\ conn'[c] = "freed" => peer[c] # "open" \/ ~ Plays(c)
<1>1. ASSUME IInv, [Next]_vars, NEW c \in Client PROVE Kept(c)
  <2> SUFFICES ASSUME conn[c] # "freed", conn'[c] = "freed", peer[c] = "open", Plays(c)
               PROVE FALSE
    OBVIOUS
  <2>0. Sized
    BY MessagesSized
  <2>1. Types /\ Contiguous(sent[c]) /\ InStep(c) /\ Buffered(c) /\ Drained(c)
    <3>1. InTune(c)
      BY DEF Plays, InTune, Mismeasured
    <3> QED
      BY <1>1, <3>1 DEF IInv, Stream, Flow
  <2>2. xim_client_free(c)
    <3>1. conn \in [Client -> {"none", "backlog", "accepted", "freed"}]
      BY <2>1 DEF Types
    <3>2. ASSUME NEW d \in Client, Connect(d) PROVE FALSE
      BY <3>1, <3>2 DEF Connect
    <3>3. CASE _xim_server_in
      BY <3>1, <3>3 DEF _xim_server_in
    <3>4. ASSUME NEW d \in Client, xim_client_free(d), d # c PROVE FALSE
      BY <3>1, <3>4 DEF xim_client_free
    <3>5. conn' = conn \/ _xim_server_in \/ \E d \in Client : Connect(d) \/ xim_client_free(d)
      BY <1>1 DEF Next, Serve, _xim_client_in, vars, clientVars, connVars, loopVars, Leave, Send,
         epoll_wait, fd_read_data, fd_read_error, _xim_client_handle_msg, ReturnToLoop
    <3>6. QED
      BY <3>2, <3>3, <3>4, <3>5
  <2>3. serving # c /\ Room(c) = 0
    BY <2>2, ClientAssumption DEF xim_client_free, Dispatch
  <2>4. Complete(c) = {}
    BY <2>1, <2>3 DEF Drained
  <2>5. /\ base[c] \in Nat /\ received[c] \in Nat /\ RxSize \in Nat /\ RxSize > 0
        /\ received[c] <= Written(c) /\ Written(c) \in Nat
    <3>1. Written(c) \in Nat
      BY <2>0, <2>1, WrittenType
    <3>2. base[c] \in Nat /\ received[c] \in Nat
      BY <2>1 DEF Types
    <3>3. RxSize \in Nat /\ RxSize > 0
      BY SizeAssumption
    <3>4. QED
      BY <2>1, <3>1, <3>2, <3>3 DEF Buffered
  <2>6. rxbuf_len(c) = RxSize /\ base[c] # Written(c)
    BY <2>3, <2>5 DEF Room, rxbuf_len
  <2> DEFINE n == Len(handled[c]) + 1
  <2>7. n \in 1 .. Len(sent[c])
    <3>1. CASE n <= Len(sent[c])
      BY <2>1, <3>1, InRange
    <3>2. CASE ~(n <= Len(sent[c]))
      <4>1. Len(handled[c]) = Len(sent[c])
        BY <2>1, <3>2, InRange DEF InStep
      <4>2. QED
        BY <2>1, <2>6, <4>1, WrittenIsStart DEF InStep
    <3>3. QED
      BY <3>1, <3>2
  <2>8. n \in AtFront(c)
    BY <2>0, <2>1, <2>7, AtFrontOfBuffer
  <2>9. /\ WellFramed(sent[c][n].msg) /\ Frame(sent[c][n].msg) <= RxSize
        /\ Frame(sent[c][n].msg) \in Nat /\ HeaderLen <= Frame(sent[c][n].msg)
    <3>1. n \in DOMAIN sent[c]
      BY <2>8 DEF AtFront
    <3>2. QED
      BY <2>0, <2>1, <2>7, <3>1, EntryFacts DEF Plays
  <2>10. n \in Complete(c)
    <3>1. ~need_more_data(rxbuf_len(c), Frame(sent[c][n].msg))
      BY <2>5, <2>6, <2>9 DEF need_more_data, HeaderLen
    <3>2. ~Undecodable(sent[c][n].msg)
      BY <2>9 DEF WellFramed, Undecodable
    <3>3. QED
      BY <2>8, <3>1, <3>2 DEF Complete
  <2>11. QED
    BY <2>4, <2>10
<1>2. IInv /\ [Next]_vars => [\A c \in Client : Kept(c)]_vars
  BY <1>1
<1>3. QED
  BY <1>2, Invariant, PTL DEF Spec, DroppedOnlyIfGone

\* The process dies only of the client it is serving, and only if that client
\* left or sent a message that its decoder mismeasures, whatever any client sends
\* and however it arrives.
THEOREM CulpritsOnly == Spec => DiesOnlyOfCulprits
<1> DEFINE Culprit == \E c \in Client : Attended(c) /\ (peer[c] # "open" \/ ~ InTune(c))
           Excused == ~ crashed /\ crashed' => Culprit
<1>1. ASSUME IInv, [Next]_vars PROVE Excused
  <2> SUFFICES ASSUME ~ crashed, crashed' PROVE Culprit
    OBVIOUS
  <2>0. Sized
    BY MessagesSized
  <2>1. Types /\ Events /\ \A c \in Client : Stream(c)
    BY <1>1 DEF IInv
  <2>2. ASSUME NEW c \in Client, xim_client_free(c) PROVE Culprit
    <3>1. PICK e \in batch : e.fd = c /\ crashed' \in IF e.hup THEN BOOLEAN ELSE {FALSE}
      BY <2>2 DEF xim_client_free
    <3>2. e.hup
      BY <3>1
    <3>3. conn[c] = "accepted" /\ peer[c] \in {"reset", "dead"}
      BY <2>1, <3>1, <3>2 DEF Events
    <3>4. conn'[c] = "freed"
      BY <2>1, <2>2 DEF xim_client_free, Types
    <3>5. QED
      BY <3>3, <3>4 DEF Attended
  <2>3. ASSUME NEW c \in Client, _xim_client_handle_msg(c) PROVE Culprit
    <3>1. serving = c /\ conn[c] = "accepted"
      BY <2>1, <2>3 DEF _xim_client_handle_msg, Events
    <3>2. PICK n \in Complete(c) :
            base' = [base EXCEPT ![c] = @ + xim_msg_decode(sent[c][n].msg)]
      BY <2>3 DEF _xim_client_handle_msg
    <3>3. ASSUME InTune(c) PROVE peer[c] # "open"
      <4>1. /\ xim_msg_decode(sent[c][n].msg) = Frame(sent[c][n].msg)
            /\ Frame(sent[c][n].msg) \in Nat
            /\ base[c] + Frame(sent[c][n].msg) <= received[c]
        BY <2>0, <2>1, <3>3, CompleteMessage
      <4>2. /\ base'[c] = base[c] + Frame(sent[c][n].msg)
            /\ base[c] \in Nat /\ received[c] \in Nat
        BY <2>1, <3>2, <4>1 DEF Types
      <4>3. ~(base'[c] > received[c])
        BY <4>1, <4>2
      <4>4. QED
        BY <2>3, <4>3 DEF _xim_client_handle_msg
    <3>4. QED
      BY <3>1, <3>3 DEF Attended
  <2>4. \/ crashed' = crashed
        \/ \E c \in Client : xim_client_free(c) \/ _xim_client_handle_msg(c)
    BY <1>1 DEF Next, Serve, _xim_client_in, vars, clientVars, connVars, loopVars, Connect, Leave,
       Send, epoll_wait, _xim_server_in, fd_read_data, fd_read_error, ReturnToLoop
  <2>5. QED
    BY <2>2, <2>3, <2>4
<1>2. IInv /\ [Next]_vars => [Excused]_vars
  BY <1>1
<1>3. QED
  BY <1>2, Invariant, PTL DEF Spec, DiesOnlyOfCulprits

-----------------------------------------------------------------------------
(* The mailbox *)

Texts(s) == [n \in DOMAIN s |-> s[n].msg]

LEMMA AppendTexts ==
  ASSUME NEW s \in Seq(Entry), NEW e \in Entry
  PROVE  Texts(Append(s, e)) = Append(Texts(s), e.msg)
<1>1. DOMAIN s = 1 .. Len(s) /\ Len(s) \in Nat
  OBVIOUS
<1>2. e.msg \in Messages /\ \A n \in 1 .. Len(s) : s[n].msg \in Messages
  <2>1. \A n \in 1 .. Len(s) : s[n] \in Entry
    OBVIOUS
  <2>2. QED
    BY <2>1 DEF Entry
<1> DEFINE t == Append(s, e)
           lhs == Texts(t)
           msgs == Texts(s)
           rhs == Append(msgs, e.msg)
<1>3. msgs \in Seq(Messages) /\ Len(msgs) = Len(s)
  <2>1. msgs = [n \in 1 .. Len(s) |-> s[n].msg]
    BY <1>1 DEF Texts
  <2>2. msgs \in [1 .. Len(s) -> Messages]
    BY <1>2, <2>1
  <2>3. QED
    BY <1>1, <2>2
<1>4. /\ t \in Seq(Entry) /\ Len(t) = Len(s) + 1 /\ DOMAIN t = 1 .. Len(s) + 1
      /\ \A n \in 1 .. Len(s) : t[n] = s[n]
      /\ t[Len(s) + 1] = e
  BY <1>1
<1>5. /\ rhs \in Seq(Messages) /\ DOMAIN rhs = 1 .. Len(s) + 1
      /\ \A n \in 1 .. Len(s) : rhs[n] = msgs[n]
      /\ rhs[Len(s) + 1] = e.msg
  <2> HIDE DEF msgs
  <2>1. QED
    BY <1>1, <1>2, <1>3
<1>6. \A n \in 1 .. Len(s) : msgs[n] = s[n].msg
  BY <1>1 DEF Texts
<1>7. lhs = [n \in 1 .. Len(s) + 1 |-> t[n].msg]
  BY <1>4 DEF Texts
<1> HIDE DEF t, lhs, rhs, msgs
<1>8. \A n \in 1 .. Len(s) + 1 : lhs[n] = rhs[n]
  <2> TAKE n \in 1 .. Len(s) + 1
  <2>1. n \in 1 .. Len(s) \/ n = Len(s) + 1
    BY <1>1
  <2>2. QED
    BY <1>4, <1>5, <1>6, <1>7, <2>1
<1>9. rhs = [n \in 1 .. Len(s) + 1 |-> rhs[n]]
  BY <1>5
<1>10. QED
  BY <1>7, <1>8, <1>9 DEF t, lhs, rhs, msgs

\* A step of the server or of a client posts a message, takes the next one, or
\* concerns no message at all.
LEMMA MailStep == ASSUME Framed, Sized, IInv, [Next]_vars PROVE [Mail!Next]_(Mail!vars)
<1>1. Types /\ \A c \in Client : Stream(c) /\ Contiguous(sent[c]) /\ InTune(c) /\ Flow(c)
  BY AllInTune DEF IInv, Stream
<1>2. \A c \in Client : Posted[c] = Texts(sent[c]) /\ Posted'[c] = Texts(sent'[c])
  BY DEF Posted, Texts
<1>3. CASE sent' = sent /\ handled' = handled
  BY <1>3 DEF Posted, Mail!vars
<1>4. ASSUME NEW c \in Client, NEW m \in Messages, Send(c, m) PROVE Mail!Post(c, m)
  <2> DEFINE e == [msg |-> m, start |-> Written(c)]
  <2>1. sent[c] \in Seq(Entry) /\ e \in Entry
    BY <1>1, WrittenType DEF Contiguous, Entry
  <2>2. /\ sent'[c] = Append(sent[c], e)
        /\ \A d \in Client \ {c} : sent'[d] = sent[d]
    BY <1>1, <1>4 DEF Send, Types
  <2>3. Texts(sent'[c]) = Append(Texts(sent[c]), m)
    BY <2>1, <2>2, AppendTexts
  <2>4. Posted' = [Posted EXCEPT ![c] = Append(@, m)]
    <3>1. \A d \in Client : Posted'[d] = IF d = c THEN Append(Posted[c], m) ELSE Posted[d]
      BY <1>2, <2>2, <2>3
    <3>2. Posted = [d \in Client |-> Posted[d]] /\ Posted' = [d \in Client |-> Posted'[d]]
      BY DEF Posted
    <3> HIDE DEF Posted
    <3>3. QED
      BY <3>1, <3>2
  <2>5. handled' = handled
    BY <1>4 DEF Send, connVars
  <2>6. QED
    BY <2>4, <2>5 DEF Mail!Post
<1>5. ASSUME NEW c \in Client, _xim_client_handle_msg(c) PROVE Mail!Take(c)
  <2>1. PICK n \in Complete(c) : handled' = [handled EXCEPT ![c] = Append(@, sent[c][n].msg)]
    BY <1>5 DEF _xim_client_handle_msg
  <2>2. n = Len(handled[c]) + 1 /\ n \in 1 .. Len(sent[c])
    BY <1>1, CompleteMessage
  <2>3. sent[c] \in Seq(Entry) /\ Len(handled[c]) \in Nat
    BY <1>1 DEF Contiguous, Flow, InStep
  <2>4. Len(Posted[c]) = Len(sent[c]) /\ Posted[c][n] = sent[c][n].msg
    <3>1. Posted[c] = [k \in 1 .. Len(sent[c]) |-> sent[c][k].msg] /\ Len(sent[c]) \in Nat
      BY <2>3 DEF Posted
    <3>2. QED
      BY <2>2, <3>1
  <2>5. Posted' = Posted
    BY <1>5 DEF _xim_client_handle_msg, Posted
  <2>6. QED
    BY <2>1, <2>2, <2>3, <2>4, <2>5 DEF Mail!Take
<1>6. \/ sent' = sent /\ handled' = handled
      \/ \E c \in Client : \/ \E m \in Messages : Send(c, m)
                           \/ _xim_client_handle_msg(c)
  BY DEF Next, Serve, _xim_client_in, vars, clientVars, connVars, loopVars, Connect, Leave,
     epoll_wait, _xim_server_in, fd_read_data, fd_read_error, xim_client_free, ReturnToLoop
<1>7. QED
  BY <1>3, <1>4, <1>5, <1>6 DEF Mail!Next

\* Every connection is a mailbox: nothing is lost, repeated, reordered or mixed
\* up with what other clients sent.
THEOREM Refinement == ASSUME Framed PROVE Spec => ImplementsMailbox
<1>1. Init => Mail!Init
  <2> SUFFICES ASSUME Init PROVE Mail!Init
    OBVIOUS
  <2>1. ASSUME NEW c \in Client PROVE Posted[c] = <<>>
    <3>1. sent[c] = <<>> /\ DOMAIN sent[c] = {}
      BY DEF Init
    <3>2. Posted[c] = [n \in {} |-> sent[c][n].msg]
      BY <3>1 DEF Posted
    <3>3. QED
      BY <3>2
  <2>2. Posted = [c \in Client |-> <<>>]
    BY <2>1 DEF Posted
  <2>3. QED
    BY <2>2 DEF Init, Mail!Init
<1>2. IInv /\ [Next]_vars => [Mail!Next]_(Mail!vars)
  BY MailStep, MessagesSized
<1>3. QED
  BY <1>1, <1>2, Invariant, PTL DEF Spec, ImplementsMailbox, Mail!Spec

-----------------------------------------------------------------------------
(* What the server writes: the lengths of messages, for texts and names of *)
(* any length and for any room in the buffer of xim_client_send().         *)

Multiple(n) == \E q \in Nat : n = 4 * q

LEMMA PaddedMultiple == ASSUME NEW n \in Nat PROVE Padded(n) \in Nat /\ Multiple(Padded(n)) /\ n <= Padded(n)
<1> DEFINE q == n \div 4
           r == n % 4
<1>1. r \in 0 .. 3
  OBVIOUS
<1>2. q \in Nat /\ n = 4 * q + r
  OBVIOUS
<1>3. Padded(n) = n + ((4 - r) % 4)
  BY DEF Padded, PAD
<1> HIDE DEF q, r
<1>4. CASE r = 0
  BY <1>2, <1>3, <1>4 DEF Multiple
<1>5. CASE r \in 1 .. 3
  <2>1. (4 - r) % 4 = 4 - r
    BY <1>5
  <2>2. Padded(n) = 4 * (q + 1) /\ n <= 4 * (q + 1)
    BY <1>2, <1>3, <1>5, <2>1
  <2>3. q + 1 \in Nat /\ 4 * (q + 1) \in Nat
    BY <1>2
  <2>4. QED
    BY <2>2, <2>3 DEF Multiple
<1>6. QED
  BY <1>1, <1>4, <1>5

-----------------------------------------------------------------------------
(* Elements of lists of parts *)

\* Names of attributes and values of attributes fill up to a multiple of four,
\* so that the next one begins at one (ximtypes.c).
THEOREM AttributesMultiple ==
  ASSUME NEW len \in Nat, NEW size \in Nat
  PROVE  /\ encode_ATTR(len, size) >= 0 => Multiple(encode_ATTR(len, size))
         /\ encode_ATTRIBUTE(len, size) >= 0 => Multiple(encode_ATTRIBUTE(len, size))
<1>1. /\ Padded(4 + 2 + len) \in Nat /\ Multiple(Padded(4 + 2 + len))
      /\ Padded(4 + len) \in Nat /\ Multiple(Padded(4 + len))
  BY PaddedMultiple
<1>2. QED
  BY <1>1 DEF encode_ATTR, encode_ATTRIBUTE, Fitted, EMSGSIZE

\* The name of an extension never does: whatever its length, it ends two bytes
\* behind a multiple of four.
THEOREM ExtensionNeverMultiple ==
  ASSUME NEW len \in Nat, NEW size \in Nat, encode_EXT(len, size) >= 0
  PROVE  ~ Multiple(encode_EXT(len, size))
<1>1. Padded(2 + len) \in Nat /\ Multiple(Padded(2 + len))
  BY PaddedMultiple
<1>2. encode_EXT(len, size) = 2 + Padded(2 + len)
  BY <1>1 DEF encode_EXT, encode_STRING, Fitted, EMSGSIZE
<1>3. PICK q \in Nat : Padded(2 + len) = 4 * q
  BY <1>1 DEF Multiple
<1>4. ASSUME NEW p \in Nat, 2 + 4 * q = 4 * p PROVE FALSE
  BY <1>4
<1>5. QED
  BY <1>2, <1>3, <1>4 DEF Multiple

-----------------------------------------------------------------------------
(* Messages without lists *)

\* A payload of a multiple of four is announced as it is.
LEMMA MultipleKeepsStep ==
  ASSUME NEW m, NEW size \in HeaderLen .. TxSize,
         NEW len \in Nat, len <= size,
         encode_payload(m, size - HeaderLen) = len, Multiple(len)
  PROVE  KeepsStep(m, size)
<1>1. PICK q \in Nat : len = 4 * q
  BY DEF Multiple
<1>2. size \in Nat /\ ~ (size < HeaderLen) /\ len >= 0
  BY DEF HeaderLen, TxSize
<1>3. xim_msg_encode(m, size) = HeaderLen + len
  BY <1>2 DEF xim_msg_encode
<1>4. q <= 256
  BY <1>1 DEF TxSize, HeaderLen
<1>5. len \div 4 = q /\ q % 65536 = q
  BY <1>1, <1>4
<1>6. Announced(m, size) = HeaderLen + 4 * q
  BY <1>5 DEF Announced
<1>7. QED
  BY <1>1, <1>3, <1>6 DEF KeepsStep

LEMMA RefusedKeepsStep ==
  ASSUME NEW m, NEW size \in Nat,
         size < HeaderLen \/ encode_payload(m, size - HeaderLen) = EMSGSIZE
  PROVE  KeepsStep(m, size)
BY DEF KeepsStep, xim_msg_encode, EMSGSIZE, EFAULT, ENOSYS

LEMMA FittedKeepsStep ==
  ASSUME NEW m, NEW size \in HeaderLen .. TxSize,
         NEW len \in Nat, Multiple(len),
         encode_payload(m, size - HeaderLen) = Fitted(len, size - HeaderLen)
  PROVE  KeepsStep(m, size)
<1>1. size \in Nat /\ size - HeaderLen \in Nat
  BY DEF HeaderLen, TxSize
<1>2. CASE size - HeaderLen < len
  BY <1>1, <1>2, RefusedKeepsStep DEF Fitted
<1>3. CASE ~ (size - HeaderLen < len)
  <2>1. encode_payload(m, size - HeaderLen) = len /\ len <= size
    BY <1>1, <1>3 DEF Fitted, HeaderLen
  <2>2. QED  BY <2>1, MultipleKeepsStep
<1>4. QED
  BY <1>2, <1>3

\* Every message without a list is written as it is announced or not at all,
\* whatever the length of its text and whatever room there is: no commit, no
\* error and no answer puts a client out of step.
THEOREM WithoutListsKeepStep ==
  ASSUME NEW m, m.type \in FixedReplies \cup TextReplies, m.text \in Nat,
         NEW size \in 0 .. TxSize
  PROVE  KeepsStep(m, size)
<1>1. CASE size < HeaderLen
  BY <1>1, RefusedKeepsStep
<1>2. CASE ~ (size < HeaderLen)
  <2> DEFINE room == size - HeaderLen
  <2>1. size \in HeaderLen .. TxSize /\ room \in Nat
    BY <1>2 DEF HeaderLen, TxSize
  <2>2. Multiple(0) /\ Multiple(4) /\ Multiple(8) /\ Multiple(12) /\ Multiple(40)
    <3>1. 0 = 4 * 0 /\ 4 = 4 * 1 /\ 8 = 4 * 2 /\ 12 = 4 * 3 /\ 40 = 4 * 10
      OBVIOUS
    <3>2. QED
      BY <3>1 DEF Multiple
  <2>3. CASE m.type \in FixedReplies
    <3>1. \E len \in {0, 4, 8, 12, 40} : encode_payload(m, room) = Fitted(len, room)
      BY <2>1, <2>3 DEF FixedReplies, encode_payload, Fitted, EMSGSIZE,
         encode_XIM_CONNECT_REPLY, encode_XIM_CLOSE_REPLY,
         encode_XIM_ENCODING_NEGOTIATION_REPLY, encode_XIM_SET_IM_VALUES_REPLY,
         encode_XIM_SET_IC_VALUES_REPLY, encode_XIM_CREATE_IC_REPLY,
         encode_XIM_DESTROY_IC_REPLY, encode_XIM_SYNC_REPLY,
         encode_XIM_FORWARD_EVENT, encode_XIM_SET_EVENT_MASK
    <3> HIDE DEF room
    <3>2. PICK len \in {0, 4, 8, 12, 40} : encode_payload(m, room) = Fitted(len, room)
      BY <3>1
    <3>3. len \in Nat /\ Multiple(len)
      BY <2>2
    <3>4. QED
      BY <2>1, <3>2, <3>3, FittedKeepsStep DEF room
  <2>4. CASE m.type \in TextReplies
    <3> DEFINE len == CASE m.type = "ERROR"          -> 12 + m.text
                        [] m.type = "RESET_IC_REPLY" -> 6 + m.text
                        [] m.type = "COMMIT"         -> CommitLen(m)
    <3>1. len \in Nat
      BY <2>4 DEF TextReplies, CommitLen, encode_COMPOUND_TEXT
    <3>2. encode_payload(m, room) = Fitted(Padded(len), room)
      BY <2>4 DEF TextReplies, encode_payload, encode_XIM_ERROR,
         encode_XIM_RESET_IC_REPLY, encode_XIM_COMMIT
    <3> HIDE DEF len, room
    <3>3. Padded(len) \in Nat /\ Multiple(Padded(len))
      BY <3>1, PaddedMultiple
    <3>4. QED
      BY <2>1, <3>2, <3>3, FittedKeepsStep DEF room
  <2>5. QED
    BY <2>3, <2>4
<1>3. QED
  BY <1>1, <1>2

-----------------------------------------------------------------------------
(* Messages with lists *)

\* An element fits into the room and is c bytes longer than a multiple of four.
ElementFits(e, c, room) ==
  /\ e \in Int
  /\ e >= 0 => e <= room /\ \E q \in Nat : e = 4 * q + c

\* What a list used after one more element, or the error of an element.
Grown(v, u, c, size) ==
  /\ v \in Int
  /\ u < 0 => v = u
  /\ u >= 0 /\ v >= 0 => v <= size /\ \E q \in Nat : v = u + 4 * q + c

\* What a list used in all.
ListUsed(r, lens, from, c, size) ==
  /\ r \in Int
  /\ r >= 0 => /\ r <= size \/ r = from
               /\ \E q \in Nat : r = from + 4 * q + c * Len(lens)

LEMMA ListOfMultiples ==
  ASSUME NEW r, NEW lens \in Seq(Nat), NEW from \in Nat, NEW size, r >= 0,
         ListUsed(r, lens, from, 0, size)
  PROVE  \E q \in Nat : r = from + 4 * q
<1> DEFINE n == Len(lens)
<1>1. n \in Nat
  OBVIOUS
<1> HIDE DEF n
<1>2. PICK q \in Nat : r = from + 4 * q + 0 * n
  BY DEF ListUsed, n
<1> QED
  BY <1>1, <1>2

LEMMA NamesElement ==
  ASSUME NEW len \in Nat, NEW room \in Int PROVE ElementFits(encode_ATTR(len, room), 0, room)
<1>1. Padded(4 + 2 + len) \in Nat /\ Multiple(Padded(4 + 2 + len))
  BY PaddedMultiple
<1>2. QED
  BY <1>1 DEF encode_ATTR, Fitted, EMSGSIZE, ElementFits, Multiple

LEMMA ValuesElement ==
  ASSUME NEW len \in Nat, NEW room \in Int PROVE ElementFits(encode_ATTRIBUTE(len, room), 0, room)
<1>1. Padded(4 + len) \in Nat /\ Multiple(Padded(4 + len))
  BY PaddedMultiple
<1>2. QED
  BY <1>1 DEF encode_ATTRIBUTE, Fitted, EMSGSIZE, ElementFits, Multiple

LEMMA ExtensionsElement ==
  ASSUME NEW len \in Nat, NEW room \in Int PROVE ElementFits(encode_EXT(len, room), 2, room)
<1>1. Padded(2 + len) \in Nat /\ Multiple(Padded(2 + len))
  BY PaddedMultiple
<1>2. QED
  BY <1>1 DEF encode_EXT, encode_STRING, Fitted, EMSGSIZE, ElementFits, Multiple

\* From element to element.
LEMMA GrownListUsed ==
  ASSUME NEW lens \in Seq(Nat), NEW from \in Nat, NEW c \in {0, 2}, NEW size \in Int,
         NEW u, u[0] = from,
         \A k \in 1 .. Len(lens) : u[k - 1] \in Int => Grown(u[k], u[k - 1], c, size)
  PROVE  ListUsed(u[Len(lens)], lens, from, c, size)
<1> DEFINE n == Len(lens)
           Used(k) == /\ u[k] \in Int
                      /\ u[k] >= 0 => /\ u[k] <= size \/ u[k] = from
                                      /\ \E q \in Nat : u[k] = from + 4 * q + c * k
           P == {k \in Nat : k <= n => Used(k)}
<1>1. n \in Nat
  OBVIOUS
<1>2. 0 \in P
  <2>1. from = from + 4 * 0 + c * 0 /\ 0 \in Nat
    OBVIOUS
  <2>2. Used(0)
    BY <2>1
  <2> HIDE DEF Used
  <2> QED
    BY <2>1, <2>2
<1>3. ASSUME NEW k \in Nat, k \in P PROVE k + 1 \in P
  <2>1. CASE k + 1 <= n
    <3>1. k + 1 \in 1 .. n /\ (k + 1) - 1 = k /\ k <= n
      BY <1>1, <2>1
    <3>2. Used(k)
      BY <1>3, <3>1
    <3> DEFINE a == u[k]
               b == u[k + 1]
    <3>3. Grown(b, a, c, size)
      BY <3>1, <3>2
    <3>4. a \in Int /\ (a >= 0 => \E q \in Nat : a = from + 4 * q + c * k)
      BY <3>2
    <3> HIDE DEF a, b
    <3>5. b \in Int /\ (b >= 0 => a >= 0 /\ b <= size)
      BY <3>3, <3>4 DEF Grown
    <3>6. ASSUME b >= 0 PROVE \E q \in Nat : b = from + 4 * q + c * (k + 1)
      <4>1. PICK q \in Nat : a = from + 4 * q + c * k
        BY <3>4, <3>5, <3>6
      <4>2. PICK r \in Nat : b = a + 4 * r + c
        BY <3>3, <3>5, <3>6 DEF Grown
      <4>3. q + r \in Nat
        OBVIOUS
      <4>4. c * (k + 1) = c * k + c
        <5>1. CASE c = 0
          BY <5>1
        <5>2. CASE c = 2
          BY <5>2
        <5> QED
          BY <5>1, <5>2
      <4>5. c * k \in Nat
        OBVIOUS
      <4>6. b = from + 4 * (q + r) + c * (k + 1)
        BY <4>1, <4>2, <4>4, <4>5
      <4> QED
        BY <4>3, <4>6
    <3>7. Used(k + 1)
      BY <3>5, <3>6 DEF b
    <3> QED
      BY <3>7
  <2> QED
    BY <2>1
<1> HIDE DEF P
<1>4. Nat \subseteq P
  BY <1>2, <1>3, NatInduct
<1> QED
  BY <1>1, <1>4 DEF P, ListUsed

LEMMA NamesLength ==
  ASSUME NEW lens \in Seq(Nat), NEW from \in Nat, NEW size \in Int
  PROVE  ListUsed(EncodeList(encode_ATTR, lens, from, size), lens, from, 0, size)
<1> DEFINE n == Len(lens)
           Elem(k, u) == encode_ATTR(lens[k], size - u)
           Grow(k, u) == IF u < 0 THEN u
                         ELSE LET e == Elem(k, u) IN IF e < 0 THEN e ELSE u + e
           step == [x \in Nat \X Int |-> IF x[1] \in 1 .. n THEN Grow(x[1], x[2]) ELSE 0]
           U == CHOOSE v : v = [k \in 0 .. n |-> IF k = 0 THEN from ELSE Grow(k, v[k - 1])]
<1>1. n \in Nat /\ \A k \in 1 .. n : lens[k] \in Nat
  OBVIOUS
<1>2. EncodeList(encode_ATTR, lens, from, size) = U[n]
  BY Zenon DEF EncodeList
<1>3. ASSUME NEW k \in 1 .. n, NEW u \in Int PROVE ElementFits(Elem(k, u), 0, size - u)
  <2>1. lens[k] \in Nat /\ size - u \in Int
    BY <1>1
  <2> QED
    BY <2>1, NamesElement
<1> HIDE DEF n, Elem
<1>4. ASSUME NEW k \in 1 .. n, NEW u \in Int PROVE Grow(k, u) \in Int
  <2>1. Elem(k, u) \in Int
    BY <1>3, <1>4 DEF ElementFits
  <2> QED
    BY <1>4, <2>1
<1> HIDE DEF Grow
<1>5. Stepwise(Int, from, step, n)
  <2>1. step \in [Nat \X Int -> Int]
    BY <1>4
  <2>2. from \in Int
    OBVIOUS
  <2> HIDE DEF step
  <2> QED
    BY <1>1, <2>1, <2>2, RecursionExists
<1>6. PICK w \in [0 .. n -> Int] : w[0] = from /\ \A k \in 1 .. n : w[k] = step[<<k, w[k - 1]>>]
  BY <1>5 DEF Stepwise
<1>7. \A k \in 1 .. n : w[k] = Grow(k, w[k - 1])
  <2> TAKE k \in 1 .. n
  <2>1. k - 1 \in 0 .. n /\ k \in Nat
    BY <1>1
  <2>2. w[k - 1] \in Int
    BY <1>6, <2>1
  <2>3. step[<<k, w[k - 1]>>] = Grow(k, w[k - 1])
    BY <2>1, <2>2
  <2> QED
    BY <1>6, <2>3
<1> HIDE DEF step
<1>8. w = [k \in 0 .. n |-> IF k = 0 THEN from ELSE Grow(k, w[k - 1])]
  <2>1. \A k \in 0 .. n : w[k] = IF k = 0 THEN from ELSE Grow(k, w[k - 1])
    BY <1>6, <1>7
  <2>2. w = [k \in 0 .. n |-> w[k]]
    BY <1>6
  <2> QED
    BY <2>1, <2>2
<1>9. U = [k \in 0 .. n |-> IF k = 0 THEN from ELSE Grow(k, U[k - 1])]
  BY <1>8
<1> HIDE DEF U
<1>10. \A k \in 0 .. n : U[k] = IF k = 0 THEN from ELSE Grow(k, U[k - 1])
  BY <1>9, Zenon
<1>11. U[0] = from
  BY <1>1, <1>10
<1>12. \A k \in 1 .. n : U[k - 1] \in Int => Grown(U[k], U[k - 1], 0, size)
  <2> TAKE k \in 1 .. n
  <2> HAVE U[k - 1] \in Int
  <2> DEFINE u == U[k - 1]
  <2>1. k \in 0 .. n /\ k # 0
    BY <1>1
  <2>2. U[k] = Grow(k, u)
    BY <1>10, <2>1
  <2>3. ElementFits(Elem(k, u), 0, size - u)
    BY <1>3
  <2> HIDE DEF u
  <2>4. u \in Int
    BY DEF u
  <2>5. Grown(U[k], u, 0, size)
    BY <2>2, <2>3, <2>4 DEF Grow, ElementFits, Grown
  <2> QED
    BY <2>5 DEF u
<1>13. ListUsed(U[n], lens, from, 0, size)
  BY <1>1, <1>11, <1>12, GrownListUsed DEF n
<1> QED
  BY <1>2, <1>13

LEMMA ValuesLength ==
  ASSUME NEW lens \in Seq(Nat), NEW from \in Nat, NEW size \in Int
  PROVE  ListUsed(EncodeList(encode_ATTRIBUTE, lens, from, size), lens, from, 0, size)
<1> DEFINE n == Len(lens)
           Elem(k, u) == encode_ATTRIBUTE(lens[k], size - u)
           Grow(k, u) == IF u < 0 THEN u
                         ELSE LET e == Elem(k, u) IN IF e < 0 THEN e ELSE u + e
           step == [x \in Nat \X Int |-> IF x[1] \in 1 .. n THEN Grow(x[1], x[2]) ELSE 0]
           U == CHOOSE v : v = [k \in 0 .. n |-> IF k = 0 THEN from ELSE Grow(k, v[k - 1])]
<1>1. n \in Nat /\ \A k \in 1 .. n : lens[k] \in Nat
  OBVIOUS
<1>2. EncodeList(encode_ATTRIBUTE, lens, from, size) = U[n]
  BY Zenon DEF EncodeList
<1>3. ASSUME NEW k \in 1 .. n, NEW u \in Int PROVE ElementFits(Elem(k, u), 0, size - u)
  <2>1. lens[k] \in Nat /\ size - u \in Int
    BY <1>1
  <2> QED
    BY <2>1, ValuesElement
<1> HIDE DEF n, Elem
<1>4. ASSUME NEW k \in 1 .. n, NEW u \in Int PROVE Grow(k, u) \in Int
  <2>1. Elem(k, u) \in Int
    BY <1>3, <1>4 DEF ElementFits
  <2> QED
    BY <1>4, <2>1
<1> HIDE DEF Grow
<1>5. Stepwise(Int, from, step, n)
  <2>1. step \in [Nat \X Int -> Int]
    BY <1>4
  <2>2. from \in Int
    OBVIOUS
  <2> HIDE DEF step
  <2> QED
    BY <1>1, <2>1, <2>2, RecursionExists
<1>6. PICK w \in [0 .. n -> Int] : w[0] = from /\ \A k \in 1 .. n : w[k] = step[<<k, w[k - 1]>>]
  BY <1>5 DEF Stepwise
<1>7. \A k \in 1 .. n : w[k] = Grow(k, w[k - 1])
  <2> TAKE k \in 1 .. n
  <2>1. k - 1 \in 0 .. n /\ k \in Nat
    BY <1>1
  <2>2. w[k - 1] \in Int
    BY <1>6, <2>1
  <2>3. step[<<k, w[k - 1]>>] = Grow(k, w[k - 1])
    BY <2>1, <2>2
  <2> QED
    BY <1>6, <2>3
<1> HIDE DEF step
<1>8. w = [k \in 0 .. n |-> IF k = 0 THEN from ELSE Grow(k, w[k - 1])]
  <2>1. \A k \in 0 .. n : w[k] = IF k = 0 THEN from ELSE Grow(k, w[k - 1])
    BY <1>6, <1>7
  <2>2. w = [k \in 0 .. n |-> w[k]]
    BY <1>6
  <2> QED
    BY <2>1, <2>2
<1>9. U = [k \in 0 .. n |-> IF k = 0 THEN from ELSE Grow(k, U[k - 1])]
  BY <1>8
<1> HIDE DEF U
<1>10. \A k \in 0 .. n : U[k] = IF k = 0 THEN from ELSE Grow(k, U[k - 1])
  BY <1>9, Zenon
<1>11. U[0] = from
  BY <1>1, <1>10
<1>12. \A k \in 1 .. n : U[k - 1] \in Int => Grown(U[k], U[k - 1], 0, size)
  <2> TAKE k \in 1 .. n
  <2> HAVE U[k - 1] \in Int
  <2> DEFINE u == U[k - 1]
  <2>1. k \in 0 .. n /\ k # 0
    BY <1>1
  <2>2. U[k] = Grow(k, u)
    BY <1>10, <2>1
  <2>3. ElementFits(Elem(k, u), 0, size - u)
    BY <1>3
  <2> HIDE DEF u
  <2>4. u \in Int
    BY DEF u
  <2>5. Grown(U[k], u, 0, size)
    BY <2>2, <2>3, <2>4 DEF Grow, ElementFits, Grown
  <2> QED
    BY <2>5 DEF u
<1>13. ListUsed(U[n], lens, from, 0, size)
  BY <1>1, <1>11, <1>12, GrownListUsed DEF n
<1> QED
  BY <1>2, <1>13

LEMMA ExtensionsLength ==
  ASSUME NEW lens \in Seq(Nat), NEW from \in Nat, NEW size \in Int
  PROVE  ListUsed(EncodeList(encode_EXT, lens, from, size), lens, from, 2, size)
<1> DEFINE n == Len(lens)
           Elem(k, u) == encode_EXT(lens[k], size - u)
           Grow(k, u) == IF u < 0 THEN u
                         ELSE LET e == Elem(k, u) IN IF e < 0 THEN e ELSE u + e
           step == [x \in Nat \X Int |-> IF x[1] \in 1 .. n THEN Grow(x[1], x[2]) ELSE 0]
           U == CHOOSE v : v = [k \in 0 .. n |-> IF k = 0 THEN from ELSE Grow(k, v[k - 1])]
<1>1. n \in Nat /\ \A k \in 1 .. n : lens[k] \in Nat
  OBVIOUS
<1>2. EncodeList(encode_EXT, lens, from, size) = U[n]
  BY Zenon DEF EncodeList
<1>3. ASSUME NEW k \in 1 .. n, NEW u \in Int PROVE ElementFits(Elem(k, u), 2, size - u)
  <2>1. lens[k] \in Nat /\ size - u \in Int
    BY <1>1
  <2> QED
    BY <2>1, ExtensionsElement
<1> HIDE DEF n, Elem
<1>4. ASSUME NEW k \in 1 .. n, NEW u \in Int PROVE Grow(k, u) \in Int
  <2>1. Elem(k, u) \in Int
    BY <1>3, <1>4 DEF ElementFits
  <2> QED
    BY <1>4, <2>1
<1> HIDE DEF Grow
<1>5. Stepwise(Int, from, step, n)
  <2>1. step \in [Nat \X Int -> Int]
    BY <1>4
  <2>2. from \in Int
    OBVIOUS
  <2> HIDE DEF step
  <2> QED
    BY <1>1, <2>1, <2>2, RecursionExists
<1>6. PICK w \in [0 .. n -> Int] : w[0] = from /\ \A k \in 1 .. n : w[k] = step[<<k, w[k - 1]>>]
  BY <1>5 DEF Stepwise
<1>7. \A k \in 1 .. n : w[k] = Grow(k, w[k - 1])
  <2> TAKE k \in 1 .. n
  <2>1. k - 1 \in 0 .. n /\ k \in Nat
    BY <1>1
  <2>2. w[k - 1] \in Int
    BY <1>6, <2>1
  <2>3. step[<<k, w[k - 1]>>] = Grow(k, w[k - 1])
    BY <2>1, <2>2
  <2> QED
    BY <1>6, <2>3
<1> HIDE DEF step
<1>8. w = [k \in 0 .. n |-> IF k = 0 THEN from ELSE Grow(k, w[k - 1])]
  <2>1. \A k \in 0 .. n : w[k] = IF k = 0 THEN from ELSE Grow(k, w[k - 1])
    BY <1>6, <1>7
  <2>2. w = [k \in 0 .. n |-> w[k]]
    BY <1>6
  <2> QED
    BY <2>1, <2>2
<1>9. U = [k \in 0 .. n |-> IF k = 0 THEN from ELSE Grow(k, U[k - 1])]
  BY <1>8
<1> HIDE DEF U
<1>10. \A k \in 0 .. n : U[k] = IF k = 0 THEN from ELSE Grow(k, U[k - 1])
  BY <1>9, Zenon
<1>11. U[0] = from
  BY <1>1, <1>10
<1>12. \A k \in 1 .. n : U[k - 1] \in Int => Grown(U[k], U[k - 1], 2, size)
  <2> TAKE k \in 1 .. n
  <2> HAVE U[k - 1] \in Int
  <2> DEFINE u == U[k - 1]
  <2>1. k \in 0 .. n /\ k # 0
    BY <1>1
  <2>2. U[k] = Grow(k, u)
    BY <1>10, <2>1
  <2>3. ElementFits(Elem(k, u), 2, size - u)
    BY <1>3
  <2> HIDE DEF u
  <2>4. u \in Int
    BY DEF u
  <2>5. Grown(U[k], u, 2, size)
    BY <2>2, <2>3, <2>4 DEF Grow, ElementFits, Grown
  <2> QED
    BY <2>5 DEF u
<1>13. ListUsed(U[n], lens, from, 2, size)
  BY <1>1, <1>11, <1>12, GrownListUsed DEF n
<1> QED
  BY <1>2, <1>13

LEMMA FailedIsRefused ==
  ASSUME NEW m, NEW size \in Nat, NEW len \in Int, len < 0,
         encode_payload(m, size - HeaderLen) = len
  PROVE  xim_msg_encode(m, size) < 0
BY DEF xim_msg_encode, EMSGSIZE, EFAULT, ENOSYS

\* A payload two bytes behind a multiple of four is announced without them.
LEMMA TwoBytesBehind ==
  ASSUME NEW m, NEW size \in HeaderLen .. TxSize,
         NEW q \in Nat, 4 * q + 2 <= size,
         encode_payload(m, size - HeaderLen) = 4 * q + 2
  PROVE  xim_msg_encode(m, size) = Announced(m, size) + 2
<1> DEFINE len == 4 * q + 2
<1>1. size \in Nat /\ ~ (size < HeaderLen) /\ len >= 0
  BY DEF HeaderLen, TxSize
<1>2. xim_msg_encode(m, size) = HeaderLen + len
  BY <1>1 DEF xim_msg_encode
<1>3. q <= 256
  BY DEF TxSize, HeaderLen
<1>4. len \div 4 = q /\ q % 65536 = q
  BY <1>3
<1>5. Announced(m, size) = HeaderLen + 4 * q
  BY <1>4 DEF Announced
<1> QED
  BY <1>2, <1>5 DEF HeaderLen

\* Whatever the server writes, with lists of any number of names and values of
\* any length, is read by the client as it was meant or not written at all, but
\* for the two messages that OutOfStep names: those always put it two bytes off.
THEOREM RepliesAreRead ==
  ASSUME NEW m \in OutMessages, NEW size \in 0 .. TxSize
  PROVE  ReadAsMeant(m, size)
<1> DEFINE room == size - HeaderLen
           len == encode_payload(m, room)
<1>1. /\ m.type \in FixedReplies \cup TextReplies \cup ListReplies /\ m.text \in Nat
      /\ m.parts \in Seq(Nat) /\ m.more \in Seq(Nat)
      /\ size \in Nat
  BY DEF OutMessages
<1>2. CASE m.type \in FixedReplies \cup TextReplies
  <2>1. ~ OutOfStep(m)
    BY <1>2 DEF OutOfStep, FixedReplies, TextReplies
  <2>2. KeepsStep(m, size)
    BY <1>1, <1>2, WithoutListsKeepStep
  <2> QED
    BY <2>1, <2>2 DEF ReadAsMeant
<1>3. CASE xim_msg_encode(m, size) < 0
  BY <1>3 DEF ReadAsMeant, KeepsStep
<1>4. CASE size < HeaderLen
  <2>1. xim_msg_encode(m, size) < 0
    BY <1>4 DEF xim_msg_encode, EMSGSIZE
  <2> QED
    BY <1>3, <2>1
<1>5. CASE ~ (size < HeaderLen) /\ m.type \in ListReplies
  <2>1. size \in HeaderLen .. TxSize /\ room \in Nat /\ room <= size /\ room + 4 = size
    BY <1>1, <1>5 DEF HeaderLen, TxSize
  <2>2. ASSUME len \in Int, len < 0 PROVE ReadAsMeant(m, size)
    BY <1>1, <1>3, <2>2, FailedIsRefused
  <2>3. ASSUME NEW q \in Nat, len = 4 * q, len <= size, ~ OutOfStep(m)
        PROVE  ReadAsMeant(m, size)
    <3>1. len \in Nat /\ Multiple(len)
      BY <2>3 DEF Multiple
    <3>2. KeepsStep(m, size)
      BY <2>1, <2>3, <3>1, MultipleKeepsStep
    <3> QED
      BY <2>3, <3>2 DEF ReadAsMeant
  <2>4. ASSUME NEW q \in Nat, len = 4 * q + 2, len <= size, OutOfStep(m)
        PROVE  ReadAsMeant(m, size)
    BY <2>1, <2>4, TwoBytesBehind DEF ReadAsMeant
  <2>5. CASE m.type = "OPEN_REPLY"
    <3> DEFINE a == EncodeList(encode_ATTR, m.parts, 4, room)
               b == EncodeList(encode_ATTR, m.more, a + 4, room)
    <3>1. NamesLen(m.parts) \in Nat /\ NamesLen(m.more) \in Nat
      BY <1>1, ListLenType DEF NamesLen
    <3>2. len = IF room < 8 + NamesLen(m.parts) + NamesLen(m.more) THEN EMSGSIZE
                ELSE IF a < 0 THEN a ELSE b
      BY <2>5 DEF encode_payload, encode_XIM_OPEN_REPLY
    <3>3. ListUsed(a, m.parts, 4, 0, room)
      BY <1>1, <2>1, NamesLength
    <3>4. a \in Int /\ (a >= 0 => a + 4 \in Nat)
      BY <3>3 DEF ListUsed
    <3>5. a >= 0 => ListUsed(b, m.more, a + 4, 0, room)
      BY <1>1, <2>1, <3>4, NamesLength
    <3> HIDE DEF a, b, len, room
    <3>6. CASE len \in Int /\ len < 0
      BY <2>2, <3>6
    <3>7. CASE ~ (len \in Int /\ len < 0)
      <4>1. ~ (room < 8 + NamesLen(m.parts) + NamesLen(m.more)) /\ ~ (a < 0) /\ len = b
        BY <3>2, <3>4, <3>7 DEF EMSGSIZE
      <4>2. ListUsed(b, m.more, a + 4, 0, room)
        BY <3>4, <3>5, <4>1
      <4>3. b \in Int /\ b >= 0
        BY <3>7, <4>1, <4>2 DEF ListUsed
      <4>4. a >= 0
        BY <3>4, <4>1
      <4>5. PICK q \in Nat : a = 4 + 4 * q
        BY <1>1, <3>3, <4>4, ListOfMultiples
      <4>6. PICK p \in Nat : b = a + 4 + 4 * p
        <5>1. a + 4 \in Nat
          BY <3>4, <4>4
        <5> QED
          BY <1>1, <4>2, <4>3, <5>1, ListOfMultiples
      <4>7. b = 4 * (q + p + 2) /\ q + p + 2 \in Nat
        BY <4>4, <4>5, <4>6
      <4>8. a <= room \/ a = 4
        BY <3>3, <4>4 DEF ListUsed
      <4>9. b <= room \/ b = a + 4
        BY <4>2, <4>3 DEF ListUsed
      <4>10. b <= size
        BY <2>1, <3>1, <3>4, <4>1, <4>3, <4>8, <4>9
      <4>11. ~ OutOfStep(m)
        BY <2>5 DEF OutOfStep
      <4> QED
        BY <2>3, <4>1, <4>7, <4>10, <4>11
    <3> QED
      BY <3>6, <3>7
  <2>6. CASE m.type = "GET_IM_VALUES_REPLY" \/ m.type = "GET_IC_VALUES_REPLY"
    <3> DEFINE header == IF m.type = "GET_IM_VALUES_REPLY" THEN 4 ELSE 6
               a == EncodeList(encode_ATTRIBUTE, m.parts, header, room)
    <3>1. AttributesLen(m.parts) \in Nat
      BY <1>1, ListLenType DEF AttributesLen
    <3>2. len = IF room < header + AttributesLen(m.parts) THEN EMSGSIZE ELSE a
      BY <2>6 DEF encode_payload, encode_XIM_GET_IM_VALUES_REPLY, encode_XIM_GET_IC_VALUES_REPLY,
         EncodeValues
    <3>3. header \in {4, 6} /\ (header = 6 <=> OutOfStep(m))
      <4>1. CASE m.type = "GET_IM_VALUES_REPLY"
        BY <4>1 DEF OutOfStep
      <4>2. CASE m.type = "GET_IC_VALUES_REPLY"
        BY <4>2 DEF OutOfStep
      <4> QED
        BY <2>6, <4>1, <4>2
    <3> HIDE DEF header
    <3>4. ListUsed(a, m.parts, header, 0, room)
      BY <1>1, <2>1, <3>3, ValuesLength
    <3> HIDE DEF a, len, room
    <3>5. CASE len \in Int /\ len < 0
      BY <2>2, <3>5
    <3>6. CASE ~ (len \in Int /\ len < 0)
      <4>1. ~ (room < header + AttributesLen(m.parts)) /\ len = a
        BY <3>2, <3>6 DEF EMSGSIZE
      <4>2. a \in Int /\ a >= 0
        BY <3>4, <3>6, <4>1 DEF ListUsed
      <4>3. header \in Nat
        BY <3>3
      <4>4. PICK q \in Nat : a = header + 4 * q
        BY <1>1, <3>4, <4>2, <4>3, ListOfMultiples
      <4>5. a <= size
        BY <2>1, <3>1, <3>3, <3>4, <4>1, <4>2 DEF ListUsed
      <4>6. q + 1 \in Nat
        OBVIOUS
      <4>7. CASE header = 4
        <5>1. len = 4 * (q + 1) /\ len <= size /\ ~ OutOfStep(m)
          BY <3>3, <4>1, <4>4, <4>5, <4>7
        <5> QED
          BY <2>3, <4>6, <5>1
      <4>8. CASE header = 6
        <5>1. len = 4 * (q + 1) + 2 /\ len <= size /\ OutOfStep(m)
          BY <3>3, <4>1, <4>4, <4>5, <4>8
        <5> QED
          BY <2>4, <4>6, <5>1
      <4> QED
        BY <3>3, <4>7, <4>8
    <3> QED
      BY <3>5, <3>6
  <2>7. CASE m.type = "QUERY_EXTENSION_REPLY"
    <3> DEFINE a == EncodeList(encode_EXT, m.parts, 4, room)
               k == Len(m.parts)
    <3>1. len = IF room < 4 THEN EMSGSIZE ELSE a
      BY <2>7 DEF encode_payload, encode_XIM_QUERY_EXTENSION_REPLY
    <3>2. ListUsed(a, m.parts, 4, 2, room)
      BY <1>1, <2>1, ExtensionsLength
    <3>3. k \in Nat
      BY <1>1
    <3>4. OutOfStep(m) <=> k % 2 = 1
      BY <2>7 DEF OutOfStep
    <3>5. a >= 0 => \E q \in Nat : a = 4 + 4 * q + 2 * k
      BY <3>2 DEF ListUsed
    <3> HIDE DEF a, k, len, room
    <3>6. CASE len \in Int /\ len < 0
      BY <2>2, <3>6
    <3>7. CASE ~ (len \in Int /\ len < 0)
      <4>1. ~ (room < 4) /\ len = a
        BY <3>1, <3>7 DEF EMSGSIZE
      <4>2. a \in Int /\ a >= 0
        BY <3>2, <3>7, <4>1 DEF ListUsed
      <4>3. a <= size
        BY <2>1, <3>2, <4>1, <4>2 DEF ListUsed
      <4>4. PICK q \in Nat : a = 4 + 4 * q + 2 * k
        BY <3>5, <4>2
      <4> DEFINE h == k \div 2
      <4>5. h \in Nat /\ (k = 2 * h \/ k = 2 * h + 1) /\ k % 2 = k - 2 * h
        BY <3>3
      <4> HIDE DEF h
      <4>6. q + h + 1 \in Nat
        BY <4>5
      <4>7. CASE k = 2 * h
        <5>1. len = 4 * (q + h + 1) /\ len <= size
          BY <4>1, <4>3, <4>4, <4>5, <4>7
        <5>2. ~ OutOfStep(m)
          BY <3>4, <4>5, <4>7
        <5> QED
          BY <2>3, <4>6, <5>1, <5>2
      <4>8. CASE k = 2 * h + 1
        <5>1. len = 4 * (q + h + 1) + 2 /\ len <= size
          BY <4>1, <4>3, <4>4, <4>5, <4>8
        <5>2. OutOfStep(m)
          BY <3>4, <4>5, <4>8
        <5> QED
          BY <2>4, <4>6, <5>1, <5>2
      <4> QED
        BY <4>5, <4>7, <4>8
    <3> QED
      BY <3>6, <3>7
  <2> QED
    BY <1>5, <2>5, <2>6, <2>7 DEF ListReplies
<1> QED
  BY <1>1, <1>2, <1>4, <1>5

\* Clients read what the server writes as it was meant.
THEOREM ClientsAlwaysKeepStep == Spec => []ClientsKeepStep
<1>1. AllReadAsMeant
  BY RepliesAssumption, RepliesAreRead DEF AllReadAsMeant
<1>2. ClientsKeepStep
  BY <1>1 DEF ClientsKeepStep
<1>3. QED  BY <1>2, PTL

=============================================================================
