---------------------------- MODULE LexerProofs ----------------------------
(***************************************************************************)
(* Proofs about the lexer: for any files, any size of the buffer and any   *)
(* sizes of the pieces in which read() hands a file out.                   *)
(***************************************************************************)
EXTENDS Lexer, SequenceTheorems, WellFoundedInduction, TLAPS

-----------------------------------------------------------------------------
(* Recursion *)

\* Induction over the numbers, for a set of numbers.
LEMMA NatInduct ==
  ASSUME NEW P, 0 \in P, \A n \in Nat : n \in P => n + 1 \in P
  PROVE  Nat \subseteq P
<1> SUFFICES ASSUME Nat \ P # {} PROVE FALSE
  OBVIOUS
<1> DEFINE Rest == Nat \ P
<1>1. PICK m \in Rest : \A k \in Rest : <<k, m>> \notin OpToRel(<, Nat)
  BY NatLessThanWellFounded, WFMin
<1>2. m \in Nat /\ m # 0 /\ m - 1 \in Nat
  OBVIOUS
<1>3. OpToRel(<, Nat) = {ss \in Nat \X Nat : ss[1] < ss[2]}
  BY Zenon DEF OpToRel
<1>4. <<m - 1, m>> \in {ss \in Nat \X Nat : ss[1] < ss[2]}
  BY <1>2
<1>5. m - 1 \notin Rest
  BY <1>1, <1>3, <1>4
<1>6. m - 1 \in P /\ m - 1 + 1 = m
  BY <1>2, <1>5
<1> QED
  BY <1>2, <1>6

\* A function on 0 .. n is defined by its first value and a step.
Stepwise(X, a, step, n) ==
  \E u \in [0 .. n -> X] : u[0] = a /\ \A k \in 1 .. n : u[k] = step[<<k, u[k - 1]>>]

LEMMA RecursionExists ==
  ASSUME NEW X, NEW a \in X, NEW step \in [Nat \X X -> X], NEW n \in Nat
  PROVE  Stepwise(X, a, step, n)
<1> DEFINE Steps(u, m) == u[0] = a /\ \A k \in 1 .. m : u[k] = step[<<k, u[k - 1]>>]
           P == {m \in Nat : \E u \in [0 .. m -> X] : Steps(u, m)}
<1>1. 0 \in P
  <2>1. [i \in 0 .. 0 |-> a] \in [0 .. 0 -> X] /\ Steps([i \in 0 .. 0 |-> a], 0)
    OBVIOUS
  <2> QED
    BY <2>1
<1>2. ASSUME NEW m \in Nat, m \in P PROVE m + 1 \in P
  <2>1. PICK u \in [0 .. m -> X] : Steps(u, m)
    BY <1>2
  <2> DEFINE last == step[<<m + 1, u[m]>>]
  <2>2. u \in [0 .. m -> X] /\ u[m] \in X /\ last \in X
    BY <2>1
  <2>3. last = step[<<m + 1, u[m]>>]
    OBVIOUS
  <2> HIDE DEF last
  <2>4. PICK v : v = [i \in 0 .. m + 1 |-> IF i = m + 1 THEN last ELSE u[i]]
    OBVIOUS
  <2>5. v \in [0 .. m + 1 -> X]
    BY <2>2, <2>4
  <2>6. (\A i \in 0 .. m : v[i] = u[i]) /\ v[m + 1] = last
    BY <2>4
  <2>7. v[0] = a
    BY <2>1, <2>6
  <2>8. ASSUME NEW k \in 1 .. m + 1 PROVE v[k] = step[<<k, v[k - 1]>>]
    <3>1. CASE k = m + 1
      <4>1. k - 1 = m /\ v[m] = u[m]
        BY <2>6, <3>1
      <4> QED
        BY <2>3, <2>6, <3>1, <4>1
    <3>2. CASE k \in 1 .. m
      <4>1. v[k - 1] = u[k - 1] /\ v[k] = u[k]
        BY <2>6, <3>2
      <4> QED
        BY <2>1, <3>2, <4>1
    <3> QED
      BY <3>1, <3>2
  <2> QED
    BY <2>5, <2>7, <2>8
<1> HIDE DEF P
<1>3. Nat \subseteq P
  BY <1>1, <1>2, NatInduct
<1> QED
  BY <1>3 DEF P, Stepwise

-----------------------------------------------------------------------------
(* Characters and where they come from *)

\* The buffer is a piece of the file, and the offset is a place in it.
Reading(r) ==
  /\ r = [data |-> r.data, offset |-> r.offset, taken |-> r.taken]
  /\ r.taken \in 0 .. Len(text)
  /\ r.data \in Seq(Character)
  /\ Len(r.data) <= r.taken
  /\ Len(r.data) <= BufferSize
  /\ r.offset \in 0 .. Len(r.data)
  /\ r.data = SubSeq(text, r.taken - Len(r.data) + 1, r.taken)

LEMMA ConsumedType ==
  ASSUME NEW r, text \in Seq(Character), Reading(r)
  PROVE  Consumed(r) \in 0 .. Len(text)
BY DEF Reading, Consumed

\* A piece of the file.
PieceOf(s, m, n) ==
  /\ s \in Seq(Character) /\ Len(s) = n - m + 1
  /\ \A i \in 1 .. n - m + 1 : s[i] = text[m + i - 1]

LEMMA PiecesOfText ==
  ASSUME text \in Seq(Character), NEW m \in 1 .. Len(text) + 1, NEW n \in m - 1 .. Len(text)
  PROVE  PieceOf(SubSeq(text, m, n), m, n)
<1>1. m \in Int /\ n \in Int /\ (IF m <= n THEN n - m + 1 ELSE 0) = n - m + 1
  OBVIOUS
<1>2. \A i \in m .. n : text[i] \in Character
  <2> TAKE i \in m .. n
  <2>1. i \in 1 .. Len(text)
    OBVIOUS
  <2> QED
    BY <2>1, ElementOfSeq
<1>3. /\ SubSeq(text, m, n) \in Seq(Character)
      /\ Len(SubSeq(text, m, n)) = IF m <= n THEN n - m + 1 ELSE 0
      /\ \A i \in 1 .. n - m + 1 : SubSeq(text, m, n)[i] = text[m + i - 1]
  BY <1>1, <1>2, SubSeqProperties, SMTT(40)
<1> QED
  BY <1>1, <1>3 DEF PieceOf

\* What read() returns is the next piece of the file.
LEMMA FilledEffect ==
  ASSUME NEW r, text \in Seq(Character), Reading(r), UsedUp(r), NEW b \in Filled(r)
  PROVE  /\ Reading(b) /\ Consumed(b) = Consumed(r) /\ b.offset = 0
         /\ b.data = <<>> => Consumed(r) = Len(text)
<1> DEFINE left == Len(text) - r.taken
           most == IF left < BufferSize THEN left ELSE BufferSize
<1>1. /\ Len(r.data) \in Nat /\ Len(text) \in Nat /\ r.taken \in 0 .. Len(text)
      /\ r.offset \in 0 .. Len(r.data) /\ r.offset >= Len(r.data)
  BY DEF Reading, UsedUp
<1>2. BufferSize \in Nat \ {0} /\ left \in Nat /\ Consumed(r) = r.taken /\ r.taken \in Nat
  BY <1>1, BufferAssumption DEF Consumed
<1>3. PICK k \in (IF left = 0 THEN {0} ELSE 1 .. most) :
        b = [data |-> SubSeq(text, r.taken + 1, r.taken + k),
             offset |-> 0, taken |-> r.taken + k]
  BY DEF Filled
<1>4. k \in 0 .. left /\ k <= BufferSize /\ (k = 0 <=> left = 0)
  BY <1>2, <1>3
<1> DEFINE s == SubSeq(text, r.taken + 1, r.taken + k)
<1>5. PieceOf(s, r.taken + 1, r.taken + k)
  <2>1. /\ r.taken + 1 \in 1 .. Len(text) + 1
        /\ r.taken + k \in (r.taken + 1) - 1 .. Len(text)
    BY <1>1, <1>2, <1>4
  <2> QED
    BY <2>1, PiecesOfText
<1>6. s \in Seq(Character) /\ Len(s) = k
  <2>1. (r.taken + k) - (r.taken + 1) + 1 = k
    BY <1>2, <1>4
  <2> HIDE DEF s
  <2> QED
    BY <1>5, <2>1 DEF PieceOf
<1>7. b = [data |-> s, offset |-> 0, taken |-> r.taken + k]
  BY <1>3
<1>8. s = SubSeq(text, (r.taken + k) - Len(s) + 1, r.taken + k)
  <2>1. (r.taken + k) - Len(s) + 1 = r.taken + 1
    BY <1>2, <1>4, <1>6
  <2> QED
    BY <2>1
<1> HIDE DEF s
<1>9. /\ b.data = s /\ b.offset = 0 /\ b.taken = r.taken + k
      /\ b = [data |-> b.data, offset |-> b.offset, taken |-> b.taken]
  BY <1>7
<1>10. Reading(b)
  <2>1. b.taken \in 0 .. Len(text) /\ Len(b.data) <= b.taken /\ Len(b.data) <= BufferSize
    BY <1>1, <1>2, <1>4, <1>6, <1>9
  <2>2. b.offset \in 0 .. Len(b.data)
    BY <1>4, <1>6, <1>9
  <2>3. b.data = SubSeq(text, b.taken - Len(b.data) + 1, b.taken)
    BY <1>8, <1>9
  <2> QED
    BY <1>6, <1>9, <2>1, <2>2, <2>3 DEF Reading
<1>11. Consumed(b) = Consumed(r)
  BY <1>2, <1>4, <1>6, <1>9 DEF Consumed
<1>12. b.data = <<>> => Consumed(r) = Len(text)
  <2> HAVE b.data = <<>>
  <2>1. k = 0
    BY <1>6, <1>9
  <2> QED
    BY <1>2, <1>4, <2>1
<1> QED
  BY <1>9, <1>10, <1>11, <1>12

\* The next character of the file, or that there is none.
NextChar(c) == IF c < Len(text) THEN text[c + 1] ELSE "nul"

\* A character was got from a file of which "c" characters were consumed.
Got(g, c) ==
  /\ c \in 0 .. Len(text)
  /\ g.char = NextChar(c)
  /\ Reading(g.reader)
  /\ Consumed(g.reader) = IF c < Len(text) THEN c + 1 ELSE c
  /\ c < Len(text) <=> g.reader.data # <<>>
  /\ Reading(Backstep(g.reader))
  /\ Consumed(Backstep(g.reader)) = c

\* Characters come in the order of the file, whatever read() hands out, and
\* the one that was got last can be put back.
LEMMA GetCharEffect ==
  ASSUME NEW r, text \in Seq(Character), Reading(r), NEW g \in GetChar(r)
  PROVE  Got(g, Consumed(r))
<1>1. PICK b \in (IF UsedUp(r) THEN Filled(r) ELSE {r}) :
        g = IF b.data = <<>> THEN [char |-> "nul", reader |-> b]
            ELSE [char |-> b.data[b.offset + 1], reader |-> [b EXCEPT !.offset = @ + 1]]
  BY DEF GetChar
<1> DEFINE c == Consumed(r)
<1>2. /\ Reading(b) /\ Consumed(b) = c /\ b.offset \in Nat
      /\ b.data = <<>> => c = Len(text) /\ b.offset = 0
      /\ b.data # <<>> => b.offset < Len(b.data)
  <2>1. CASE UsedUp(r)
    <3>1. b \in Filled(r)
      BY <1>1, <2>1
    <3>2. /\ Reading(b) /\ Consumed(b) = Consumed(r) /\ b.offset = 0
          /\ b.data = <<>> => Consumed(r) = Len(text)
      BY <2>1, <3>1, FilledEffect
    <3> QED
      BY <3>2 DEF Reading
  <2>2. CASE ~UsedUp(r)
    <3>1. b = r
      BY <1>1, <2>2
    <3> QED
      BY <2>2, <3>1 DEF Reading, UsedUp
  <2> QED
    BY <2>1, <2>2
<1>3. c \in 0 .. Len(text)
  BY ConsumedType
<1> HIDE DEF c
<1>4. CASE b.data = <<>>
  <2>1. g = [char |-> "nul", reader |-> b]
    BY <1>1, <1>4
  <2>2. Backstep(b) = b
    BY <1>2, <1>4 DEF Backstep
  <2> QED
    BY <1>2, <1>3, <1>4, <2>1, <2>2 DEF Got, NextChar, c
<1>5. CASE b.data # <<>>
  <2> DEFINE a == [b EXCEPT !.offset = @ + 1]
  <2>1. g = [char |-> b.data[b.offset + 1], reader |-> a]
    BY <1>1, <1>5
  <2>2. /\ b = [data |-> b.data, offset |-> b.offset, taken |-> b.taken]
        /\ b.taken \in 0 .. Len(text) /\ Len(b.data) \in Nat
        /\ Len(b.data) <= b.taken
        /\ b.data = SubSeq(text, b.taken - Len(b.data) + 1, b.taken)
    BY <1>2 DEF Reading
  <2>3. a = [data |-> b.data, offset |-> b.offset + 1, taken |-> b.taken]
    BY <2>2
  <2>4. a.data = b.data /\ a.offset = b.offset + 1 /\ a.taken = b.taken
    BY <2>3
  <2> HIDE DEF a
  <2>5. Backstep(a) = b
    <3>1. a.offset > 0 /\ a.offset - 1 = b.offset
      BY <1>2, <2>4
    <3>2. Backstep(a) = [data |-> b.data, offset |-> b.offset, taken |-> b.taken]
      BY <2>3, <2>4, <3>1 DEF Backstep
    <3> QED
      BY <2>2, <3>2
  <2>6. Reading(a)
    <3>1. /\ b.data \in Seq(Character) /\ Len(b.data) <= BufferSize
          /\ b.offset + 1 \in 0 .. Len(b.data)
      BY <1>2, <1>5, <2>2 DEF Reading
    <3> QED
      BY <2>2, <2>3, <2>4, <3>1 DEF Reading
  <2>7. c = b.taken - Len(b.data) + b.offset /\ Len(text) \in Nat
    BY <1>2 DEF Consumed
  <2>8. Consumed(a) = c + 1 /\ c < Len(text)
    <3>1. Consumed(a) = b.taken - Len(b.data) + (b.offset + 1)
      BY <2>4 DEF Consumed
    <3> QED
      BY <1>2, <1>5, <2>2, <2>7, <3>1
  <2>9. b.data[b.offset + 1] = text[c + 1]
    <3> DEFINE m == b.taken - Len(b.data) + 1
    <3>1. /\ m = b.taken - Len(b.data) + 1
          /\ b.taken \in Nat /\ Len(b.data) \in Nat /\ b.offset \in Nat
          /\ Len(b.data) <= b.taken
      BY <1>2, <2>2, <2>7
    <3> HIDE DEF m
    <3>2. /\ m \in 1 .. b.taken + 1 /\ b.taken \in Int /\ b.taken - m + 1 = Len(b.data)
          /\ m + (b.offset + 1) - 1 = c + 1
      <4> DEFINE a1 == b.taken
                 a2 == Len(b.data)
                 a3 == b.offset
      <4>1. /\ m = a1 - a2 + 1 /\ c = a1 - a2 + a3 /\ a1 \in Nat /\ a2 \in Nat
            /\ a3 \in Nat /\ a2 <= a1
        BY <2>7, <3>1
      <4> HIDE DEF a1, a2, a3
      <4>2. /\ m \in 1 .. a1 + 1 /\ a1 \in Int /\ a1 - m + 1 = a2 /\ m + (a3 + 1) - 1 = c + 1
        BY <4>1
      <4> QED
        BY <4>2 DEF a1, a2, a3
    <3>3. SubSeq(text, m, b.taken) = b.data
      BY <2>2 DEF m
    <3> HIDE DEF m
    <3>4. m \in 1 .. Len(text) + 1 /\ b.taken \in m - 1 .. Len(text)
      <4> DEFINE a1 == b.taken
                 n == Len(text)
      <4>1. a1 \in 0 .. n /\ n \in Nat /\ m \in 1 .. a1 + 1
        BY <2>2, <2>7, <3>2
      <4> HIDE DEF a1, n
      <4>2. m \in 1 .. n + 1 /\ a1 \in m - 1 .. n
        BY <4>1
      <4> QED
        BY <4>2 DEF a1, n
    <3>5. PieceOf(SubSeq(text, m, b.taken), m, b.taken)
      BY <3>4, PiecesOfText
    <3>6. b.offset + 1 \in 1 .. b.taken - m + 1
      <4>1. b.offset \in Nat /\ b.offset < Len(b.data) /\ Len(b.data) \in Nat
        BY <1>2, <1>5, <2>2
      <4> QED
        BY <3>2, <4>1
    <3>7. SubSeq(text, m, b.taken)[b.offset + 1] = text[m + (b.offset + 1) - 1]
      BY <3>5, <3>6 DEF PieceOf
    <3> QED
      BY <3>2, <3>3, <3>7
  <2>10. g.char = b.data[b.offset + 1] /\ g.reader = a
    BY <2>1
  <2> QED
    BY <1>2, <1>3, <1>5, <2>5, <2>4, <2>6, <2>8, <2>9, <2>10 DEF Got, NextChar, c
<1> QED
  BY <1>4, <1>5

-----------------------------------------------------------------------------
(* The characters of a string *)

\* The function that Unquoted picks its result from, for the span f .. k + 1.
Picked(f, k, p) ==
  p = [i \in f .. k |->
         IF i = f THEN <<>>
         ELSE IF text[i] = "backslash" /\ i + 1 < k + 1 /\ text[i + 1] = "quote"
              THEN p[i - 1] ELSE Append(p[i - 1], text[i])]

Piece(f, k) == [first |-> f, last |-> k + 1]

LEMMA PickedExists ==
  ASSUME text \in Seq(Character), NEW f \in 1 .. Len(text), NEW k \in f .. Len(text)
  PROVE  \E p : Picked(f, k, p)
<1> DEFINE n == k - f
           X == Seq(Character)
           esc == [i \in Nat |-> text[i] = "backslash" /\ i + 1 < k + 1 /\ text[i + 1] = "quote"]
           step == [x \in Nat \X X |->
                      IF x[1] \in 1 .. n
                      THEN IF esc[f + x[1]] THEN x[2] ELSE Append(x[2], text[f + x[1]])
                      ELSE x[2]]
<1>1. n \in Nat /\ <<>> \in X /\ f \in Nat /\ k \in Nat
  OBVIOUS
<1>2. ASSUME NEW j \in 1 .. n PROVE f + j \in 1 .. Len(text) /\ text[f + j] \in Character
  <2>1. f + j \in 1 .. Len(text)
    BY <1>1
  <2> QED
    BY <2>1, ElementOfSeq
<1> HIDE DEF n, esc
<1>3. step \in [Nat \X X -> X]
  <2>1. ASSUME NEW x \in Nat \X X
        PROVE  (IF x[1] \in 1 .. n
                THEN IF esc[f + x[1]] THEN x[2] ELSE Append(x[2], text[f + x[1]])
                ELSE x[2]) \in X
    <3>1. x[2] \in X
      BY <2>1
    <3>2. ASSUME x[1] \in 1 .. n PROVE Append(x[2], text[f + x[1]]) \in X
      BY <1>2, <3>1, <3>2
    <3> QED
      BY <3>1, <3>2
  <2> QED
    BY <2>1
<1>4. PICK u \in [0 .. n -> X] : u[0] = <<>> /\ \A j \in 1 .. n : u[j] = step[<<j, u[j - 1]>>]
  <2> HIDE DEF step, X
  <2>1. Stepwise(X, <<>>, step, n)
    BY <1>1, <1>3, RecursionExists
  <2> QED
    BY <2>1 DEF Stepwise
<1>5. ASSUME NEW j \in 1 .. n
      PROVE  u[j] = IF esc[f + j] THEN u[j - 1] ELSE Append(u[j - 1], text[f + j])
  <2>1. j - 1 \in 0 .. n /\ j \in Nat
    BY <1>1
  <2>2. u[j - 1] \in X
    BY <1>4, <2>1
  <2> HIDE DEF X
  <2>3. step[<<j, u[j - 1]>>] = IF esc[f + j] THEN u[j - 1] ELSE Append(u[j - 1], text[f + j])
    BY <2>1, <2>2
  <2> HIDE DEF step
  <2> QED
    BY <1>4, <2>3
<1> HIDE DEF step, X
<1>6. PICK p : p = [i \in f .. k |-> u[i - f]]
  OBVIOUS
<1>7. ASSUME NEW i \in f .. k
      PROVE  p[i] = IF i = f THEN <<>>
                    ELSE IF text[i] = "backslash" /\ i + 1 < k + 1 /\ text[i + 1] = "quote"
                         THEN p[i - 1] ELSE Append(p[i - 1], text[i])
  <2>1. CASE i = f
    BY <1>1, <1>4, <1>6, <2>1
  <2>2. CASE i # f
    <3>1. /\ i - f \in 1 .. n /\ f + (i - f) = i /\ i - 1 \in f .. k /\ i \in Nat
          /\ (i - f) - 1 = (i - 1) - f
      BY <1>1, <2>2 DEF n
    <3>2. p[i] = u[i - f] /\ p[i - 1] = u[(i - f) - 1]
      BY <1>6, <3>1
    <3>3. u[i - f] = IF esc[f + (i - f)] THEN u[(i - f) - 1]
                     ELSE Append(u[(i - f) - 1], text[f + (i - f)])
      BY <1>5, <3>1
    <3>4. esc[i] = (text[i] = "backslash" /\ i + 1 < k + 1 /\ text[i + 1] = "quote")
      BY <3>1 DEF esc
    <3> QED
      BY <2>2, <3>1, <3>2, <3>3, <3>4
  <2> QED
    BY <2>1, <2>2
<1>8. p = [i \in f .. k |-> p[i]]
  BY <1>6
<1>9. Picked(f, k, p)
  BY <1>7, <1>8 DEF Picked
<1> QED
  BY <1>9

LEMMA UnquotedPicked ==
  ASSUME text \in Seq(Character), NEW f \in 1 .. Len(text), NEW k \in f .. Len(text)
  PROVE  \E p : Picked(f, k, p) /\ Unquoted(Piece(f, k)) = p[k]
<1> DEFINE U == CHOOSE p : p = [i \in f .. (k + 1) - 1 |->
                   IF i = f THEN <<>>
                   ELSE IF text[i] = "backslash" /\ i + 1 < k + 1 /\ text[i + 1] = "quote"
                        THEN p[i - 1] ELSE Append(p[i - 1], text[i])]
<1>1. (k + 1) - 1 = k
  OBVIOUS
<1>2. Unquoted(Piece(f, k)) = U[(k + 1) - 1]
  BY ZenonT(40) DEF Unquoted, Piece
<1>3. \E p : p = [i \in f .. (k + 1) - 1 |->
                   IF i = f THEN <<>>
                   ELSE IF text[i] = "backslash" /\ i + 1 < k + 1 /\ text[i + 1] = "quote"
                        THEN p[i - 1] ELSE Append(p[i - 1], text[i])]
  <2>1. PICK p : Picked(f, k, p)
    BY PickedExists
  <2> QED
    BY <1>1, <2>1, Zenon DEF Picked
<1>4. U = [i \in f .. (k + 1) - 1 |->
                   IF i = f THEN <<>>
                   ELSE IF text[i] = "backslash" /\ i + 1 < k + 1 /\ text[i + 1] = "quote"
                        THEN U[i - 1] ELSE Append(U[i - 1], text[i])]
  BY <1>3, Zenon
<1> HIDE DEF U
<1>5. Picked(f, k, U)
  BY <1>1, <1>4, Zenon DEF Picked
<1> QED
  BY <1>1, <1>2, <1>5

Escape(k) == text[k] = "backslash" /\ text[k + 1] = "quote"

\* What is picked up to "k" does not depend on what comes after k + 1.
LEMMA PickedAgree ==
  ASSUME NEW f \in Nat, NEW k \in Nat, NEW m \in Nat, f <= k, k <= m,
         NEW p, Picked(f, k, p), NEW q, Picked(f, m, q)
  PROVE  /\ \A i \in f .. k - 1 : q[i] = p[i]
         /\ k = f \/ k = m \/ ~Escape(k) => q[k] = p[k]
<1>1. \A i \in f .. k :
        p[i] = IF i = f THEN <<>>
               ELSE IF text[i] = "backslash" /\ i + 1 < k + 1 /\ text[i + 1] = "quote"
                    THEN p[i - 1] ELSE Append(p[i - 1], text[i])
  BY Zenon DEF Picked
<1>2. \A i \in f .. m :
        q[i] = IF i = f THEN <<>>
               ELSE IF text[i] = "backslash" /\ i + 1 < m + 1 /\ text[i + 1] = "quote"
                    THEN q[i - 1] ELSE Append(q[i - 1], text[i])
  BY Zenon DEF Picked
<1>3. p[f] = <<>> /\ q[f] = <<>>
  <2>1. f \in f .. k /\ f \in f .. m
    OBVIOUS
  <2> QED
    BY <1>1, <1>2, <2>1
<1>4. ASSUME NEW i \in f + 1 .. k, q[i - 1] = p[i - 1],
             i < k \/ k = m \/ ~Escape(k)
      PROVE  q[i] = p[i]
  <2>1. i \in f .. k /\ i \in f .. m /\ i # f /\ (i + 1 < k + 1 <=> i < k) /\ (i + 1 < m + 1 <=> i < m)
    OBVIOUS
  <2>2. p[i] = IF text[i] = "backslash" /\ i + 1 < k + 1 /\ text[i + 1] = "quote"
               THEN p[i - 1] ELSE Append(p[i - 1], text[i])
    BY <1>1, <2>1
  <2>3. q[i] = IF text[i] = "backslash" /\ i + 1 < m + 1 /\ text[i + 1] = "quote"
               THEN q[i - 1] ELSE Append(q[i - 1], text[i])
    BY <1>2, <2>1
  <2>4. CASE i < k
    <3>1. i < m
      BY <2>4
    <3> QED
      BY <1>4, <2>1, <2>2, <2>3, <2>4, <3>1
  <2>5. CASE k = m
    BY <1>4, <2>2, <2>3, <2>5
  <2>6. CASE i = k /\ ~Escape(k)
    BY <1>4, <2>2, <2>3, <2>6 DEF Escape
  <2> QED
    BY <1>4, <2>4, <2>5, <2>6
<1> DEFINE P == {j \in Nat : f + j < k => q[f + j] = p[f + j]}
<1>5. 0 \in P
  BY <1>3
<1>6. ASSUME NEW j \in Nat, j \in P PROVE j + 1 \in P
  <2>1. CASE f + (j + 1) < k
    <3>1. /\ f + (j + 1) \in f + 1 .. k /\ (f + (j + 1)) - 1 = f + j /\ f + j < k
          /\ f + (j + 1) < k
      BY <2>1
    <3>2. q[(f + (j + 1)) - 1] = p[(f + (j + 1)) - 1]
      BY <1>6, <3>1
    <3>3. q[f + (j + 1)] = p[f + (j + 1)]
      BY <1>4, <3>1, <3>2
    <3> QED
      BY <3>3
  <2> QED
    BY <2>1
<1> HIDE DEF P
<1>7. Nat \subseteq P
  BY <1>5, <1>6, NatInduct
<1>8. \A i \in f .. k - 1 : q[i] = p[i]
  <2> TAKE i \in f .. k - 1
  <2>1. i - f \in Nat /\ f + (i - f) = i /\ i < k
    OBVIOUS
  <2> QED
    BY <1>7, <2>1 DEF P
<1>9. ASSUME k = f \/ k = m \/ ~Escape(k) PROVE q[k] = p[k]
  <2>1. CASE k = f
    BY <1>3, <2>1
  <2>2. CASE k # f
    <3>1. k \in f + 1 .. k /\ k - 1 \in f .. k - 1
      BY <2>2
    <3>2. q[k - 1] = p[k - 1]
      BY <1>8, <3>1
    <3> QED
      BY <1>4, <1>9, <2>2, <3>1, <3>2
  <2> QED
    BY <2>1, <2>2
<1> QED
  BY <1>8, <1>9

\* A backslash is dropped once the quote behind it is seen; every other
\* character is appended.
LEMMA UnquotedSteps ==
  ASSUME text \in Seq(Character), NEW f \in 1 .. Len(text), NEW k \in f .. Len(text) - 1
  PROVE  /\ k = f \/ ~Escape(k) =>
              Unquoted(Piece(f, k + 1)) = Append(Unquoted(Piece(f, k)), text[k + 1])
         /\ k > f /\ Escape(k) =>
              Unquoted(Piece(f, k + 1)) = Append(Unquoted(Piece(f, k - 1)), text[k + 1])
<1>1. /\ f \in Nat /\ k \in Nat /\ k + 1 \in Nat /\ k \in f .. Len(text) /\ k + 1 \in f .. Len(text)
      /\ f <= k /\ k <= k + 1 /\ f <= k + 1
  OBVIOUS
<1>2. PICK p : Picked(f, k, p) /\ Unquoted(Piece(f, k)) = p[k]
  BY <1>1, UnquotedPicked
<1>3. PICK q : Picked(f, k + 1, q) /\ Unquoted(Piece(f, k + 1)) = q[k + 1]
  BY <1>1, UnquotedPicked
<1>4. \A i \in f .. k + 1 :
        q[i] = IF i = f THEN <<>>
               ELSE IF text[i] = "backslash" /\ i + 1 < (k + 1) + 1 /\ text[i + 1] = "quote"
                    THEN q[i - 1] ELSE Append(q[i - 1], text[i])
  BY <1>3, Zenon DEF Picked
<1>5. q[k + 1] = Append(q[k], text[k + 1])
  <2>1. k + 1 \in f .. k + 1 /\ k + 1 # f /\ ~((k + 1) + 1 < (k + 1) + 1) /\ (k + 1) - 1 = k
    BY <1>1
  <2> QED
    BY <1>4, <2>1
<1>6. ASSUME k = f \/ ~Escape(k) PROVE q[k] = p[k]
  BY <1>1, <1>2, <1>3, <1>6, PickedAgree
<1>7. ASSUME k > f, Escape(k) PROVE q[k] = Unquoted(Piece(f, k - 1))
  <2>1. /\ k - 1 \in f .. Len(text) /\ k - 1 \in Nat /\ f <= k - 1 /\ k - 1 <= k + 1
        /\ (k - 1) + 1 = k
    BY <1>1, <1>7
  <2>2. PICK r : Picked(f, k - 1, r) /\ Unquoted(Piece(f, k - 1)) = r[k - 1]
    BY <2>1, UnquotedPicked
  <2>3. ~Escape(k - 1)
    BY <1>7, <2>1 DEF Escape
  <2>4. q[k - 1] = r[k - 1]
    BY <1>1, <1>3, <2>1, <2>2, <2>3, PickedAgree
  <2>5. k \in f .. k + 1 /\ k # f /\ k + 1 < (k + 1) + 1
    BY <1>1, <1>7
  <2>6. q[k] = q[k - 1]
    BY <1>4, <1>7, <2>5 DEF Escape
  <2> QED
    BY <2>2, <2>4, <2>6
<1> QED
  BY <1>2, <1>3, <1>5, <1>6, <1>7

LEMMA UnquotedBegins ==
  ASSUME text \in Seq(Character), NEW f \in 1 .. Len(text)
  PROVE  Unquoted(Piece(f, f)) = <<>>
<1>1. f \in f .. Len(text) /\ f \in f .. f
  OBVIOUS
<1>2. PICK p : Picked(f, f, p) /\ Unquoted(Piece(f, f)) = p[f]
  BY <1>1, UnquotedPicked
<1> QED
  BY <1>1, <1>2 DEF Picked

\* The backslashes at the end of the span f .. i, if any, pair up.
EvenRun(f, i) ==
  \E k \in f .. i :
    /\ text[k] # "backslash"
    /\ \A j \in k + 1 .. i : text[j] = "backslash"
    /\ (i - k) % 2 = 0

LEMMA RunBegins ==
  ASSUME NEW f \in Nat, NEW c \in Nat, f <= c, text[c] # "backslash"
  PROVE  EvenRun(f, c)
<1>1. c \in f .. c /\ (c - c) % 2 = 0 /\ \A j \in c + 1 .. c : text[j] = "backslash"
  OBVIOUS
<1> QED
  BY <1>1 DEF EvenRun

LEMMA RunGoesOn ==
  ASSUME NEW f \in Nat, NEW c \in Nat, f <= c, EvenRun(f, c),
         text[c + 1] = "backslash", text[c + 2] = "backslash"
  PROVE  EvenRun(f, c + 2)
<1>1. PICK k \in f .. c :
        /\ text[k] # "backslash"
        /\ \A j \in k + 1 .. c : text[j] = "backslash"
        /\ (c - k) % 2 = 0
  BY DEF EvenRun
<1>2. k \in f .. c + 2 /\ ((c + 2) - k) % 2 = 0
  BY <1>1
<1>3. \A j \in k + 1 .. c + 2 : text[j] = "backslash"
  <2> TAKE j \in k + 1 .. c + 2
  <2>1. j \in k + 1 .. c \/ j = c + 1 \/ j = c + 2
    BY <1>1
  <2> QED
    BY <1>1, <2>1
<1> QED
  BY <1>1, <1>2, <1>3 DEF EvenRun

LEMMA RunTurnsOdd ==
  ASSUME NEW f \in Nat, NEW c \in Nat, f <= c, EvenRun(f, c), text[c + 1] = "backslash"
  PROVE  ~EvenRun(f, c + 1)
<1> SUFFICES ASSUME EvenRun(f, c + 1) PROVE FALSE
  OBVIOUS
<1>1. PICK k \in f .. c :
        /\ text[k] # "backslash"
        /\ \A j \in k + 1 .. c : text[j] = "backslash"
        /\ (c - k) % 2 = 0
  BY DEF EvenRun
<1>2. PICK l \in f .. c + 1 :
        /\ text[l] # "backslash"
        /\ \A j \in l + 1 .. c + 1 : text[j] = "backslash"
        /\ ((c + 1) - l) % 2 = 0
  BY DEF EvenRun
<1>3. l # c + 1
  BY <1>2
<1>4. ~(k < l)
  BY <1>1, <1>2, <1>3
<1>5. ~(l < k)
  BY <1>1, <1>2
<1>6. k = l /\ c - k \in Nat
  BY <1>1, <1>2, <1>4, <1>5
<1>7. (c + 1) - l = (c - k) + 1
  BY <1>6
<1>8. ((c - k) + 1) % 2 = 0 /\ (c - k) % 2 = 0
  BY <1>1, <1>2, <1>7
<1> QED
  BY <1>6, <1>8

LEMMA ClosesRun ==
  ASSUME NEW f \in Nat, NEW i \in Nat
  PROVE  Closes(f, i) <=> i > f /\ text[i] = "quote" /\ EvenRun(f, i - 1)
BY Zenon DEF Closes, EvenRun

\* A span grows by the character behind it.
LEMMA SpanGrows ==
  ASSUME text \in Seq(Character), NEW f \in 1 .. Len(text), NEW c \in f - 1 .. Len(text) - 1
  PROVE  SubSeq(text, f, c) \o <<text[c + 1]>> = SubSeq(text, f, c + 1)
<1>1. f \in 1 .. Len(text) /\ c + 1 \in f .. Len(text) /\ (c + 1) - 1 = c
  OBVIOUS
<1>2. SubSeq(text, f, c + 1) = SubSeq(text, f, (c + 1) - 1) \o <<text[c + 1]>>
  BY <1>1, SubSeqRecursiveSecond
<1> QED
  BY <1>1, <1>2

LEMMA SpanLength ==
  ASSUME text \in Seq(Character), NEW f \in 1 .. Len(text), NEW c \in f .. Len(text)
  PROVE  SubSeq(text, f, c) # <<>> /\ SubSeq(text, f, f) = <<text[f]>>
<1>1. \A i \in f .. c : text[i] \in Character
  <2> TAKE i \in f .. c
  <2>1. i \in 1 .. Len(text)
    OBVIOUS
  <2> QED
    BY <2>1, ElementOfSeq
<1>2. f \in Int /\ c \in Int /\ f <= c
  OBVIOUS
<1>3. Len(SubSeq(text, f, c)) = c - f + 1
  BY <1>1, <1>2, SubSeqProperties
<1>4. SubSeq(text, f, c) # <<>>
  BY <1>2, <1>3
<1>5. SubSeq(text, f, f - 1) = <<>>
  BY SubSeqEmpty
<1>6. f - 1 \in f - 1 .. Len(text) - 1 /\ (f - 1) + 1 = f
  OBVIOUS
<1>7. SubSeq(text, f, f - 1) \o <<text[f]>> = SubSeq(text, f, f)
  BY <1>6, SpanGrows
<1>8. <<text[f]>> \in Seq(Character)
  BY <1>1, <1>2
<1> QED
  BY <1>4, <1>5, <1>7, <1>8, ConcatEmptySeq

-----------------------------------------------------------------------------
(* The invariant *)

Modes == {"token", "string", "escape", "integer", "prefixed", "comment",
          "whitespace", "identifier"} \union Ended

TokenSet == [kind : Kind, lexeme : Seq(Character), first : Nat, last : Nat]

Run(f, c, class) == \A i \in f .. c : text[i] \in class

\* No quote after the one at f, and up to c, ends the string.
Open(f, c) == \A k \in f + 1 .. c : ~Closes(f, k)

\* What was consumed since the token began, and what of it is in the lexeme:
\* the token began at f, the last character that was consumed is the one at c.
Scanned(m, f, c, chars) ==
  /\ f \in 1 .. Len(text) + 1
  /\ m \in {"token", "end", "closed"} => f = c + 1 /\ chars = <<>>
  /\ m \notin {"token", "end", "closed"} => f <= c
  /\ m \in {"integer", "prefixed", "comment", "whitespace", "identifier"} =>
       chars = SubSeq(text, f, c)
  /\ m = "integer" => text[f] \in {"sign", "digit"} /\ Run(f + 1, c, {"digit"})
  /\ m = "prefixed" => c = f /\ text[f] = "sign"
  /\ m = "comment" => text[f] = "hash" /\ Run(f, c, Character \ {"newline", "nul"})
  /\ m = "whitespace" => Run(f, c, {"blank"})
  /\ m = "identifier" => text[f] = "letter" /\ Run(f, c, {"letter", "digit"})
  /\ m = "string" =>
       /\ text[f] = "quote" /\ EvenRun(f, c) /\ Open(f, c)
       /\ chars = Unquoted(Piece(f, c))
       /\ chars = <<>> => c = f
  /\ m = "escape" =>
       /\ f < c /\ text[f] = "quote" /\ Open(f, c)
       /\ text[c] = "backslash" /\ EvenRun(f, c - 1)
       /\ chars = Unquoted(Piece(f, c - 1))
  /\ m = "aborted" => SubSeq(text, f, c) = <<"quote", "quote">>

\* What is said of a token once it is made.
Deserved(t) == (t.kind = "eof" => EndOfFile(t)) /\ (t.kind = "error" => NoToken(t))

TokensOK ==
  /\ tokens \in Seq(TokenSet)
  /\ \A i \in 1 .. Len(tokens) :
       /\ tokens[i].first = IF i = 1 THEN 1 ELSE tokens[i - 1].last + 1
       /\ LongestMatch(tokens[i])
       /\ Deserved(tokens[i]) \/ (mode = "closed" /\ i = Len(tokens) /\ tokens[i].kind = "error")
  /\ first = IF tokens = <<>> THEN 1 ELSE tokens[Len(tokens)].last + 1

\* Every variable has its type, the buffer is a piece of the file, the tokens
\* follow each other without a gap, each is the longest there is, and what was
\* consumed since the last one is in the lexeme.
Inv ==
  /\ text \in Text
  /\ Reading(reader)
  /\ mode \in Modes
  /\ lexeme \in Seq(Character)
  /\ TokensOK
  /\ Scanned(mode, first, Consumed(reader), lexeme)

LEMMA TextType == Inv => text \in Seq(Character)
BY TextAssumption DEF Inv

\* The file stays what it is.
LEMMA SameText ==
  ASSUME text' = text, NEW f, NEW c, NEW m, NEW chars, NEW t, NEW r
  PROVE  /\ Scanned(m, f, c, chars)' <=> Scanned(m, f, c, chars)
         /\ LongestMatch(t)' <=> LongestMatch(t)
         /\ Deserved(t)' <=> Deserved(t)
         /\ Reading(r)' <=> Reading(r)
<1>1. Scanned(m, f, c, chars)' <=> Scanned(m, f, c, chars)
  BY DEF Scanned, Run, Open, Closes, EvenRun, Unquoted, Piece
<1>2. LongestMatch(t)' <=> LongestMatch(t)
  BY DEF LongestMatch, Longest, After, Span, Closes, Unquoted
<1>3. Deserved(t)' <=> Deserved(t)
  BY DEF Deserved, EndOfFile, NoToken, Begin, RunsOut, After, Closes
<1>4. Reading(r)' <=> Reading(r)
  BY DEF Reading
<1> QED
  BY <1>1, <1>2, <1>3, <1>4

LEMMA SameTextStep ==
  ASSUME text' = text, text \in Text, Reading(reader'), mode' \in Modes,
         lexeme' \in Seq(Character), TokensOK',
         Scanned(mode', first', Consumed(reader'), lexeme')
  PROVE  Inv'
<1>1. Scanned(mode, first, Consumed(reader), lexeme)'
  <2>1. PICK m, f, c, chars : m = mode' /\ f = first' /\ c = Consumed(reader') /\ chars = lexeme'
    OBVIOUS
  <2>2. Scanned(m, f, c, chars)
    BY <2>1
  <2>3. Scanned(m, f, c, chars)'
    BY <2>2, SameText
  <2>4. Consumed(reader)' = Consumed(reader')
    BY DEF Consumed
  <2> QED
    BY <2>1, <2>3, <2>4
<1>2. Reading(reader)'
  BY DEF Reading
<1> QED
  BY <1>1, <1>2 DEF Inv, Modes

\* The scanning function gets on with its token.
LEMMA ContinueEffect ==
  ASSUME Inv, text' = text, mode \notin Ended, NEW m \in Modes \ Ended,
         NEW chars \in Seq(Character), NEW r, Reading(r), Continue(m, chars, r),
         Scanned(m, first, Consumed(r), lexeme \o chars)
  PROVE  Inv'
<1>1. /\ mode' = m /\ lexeme' = lexeme \o chars /\ reader' = r
      /\ first' = first /\ tokens' = tokens
  BY DEF Continue
<1>2. lexeme' \in Seq(Character)
  BY <1>1, ConcatProperties DEF Inv
<1>3. TokensOK'
  <2>1. ASSUME NEW i \in 1 .. Len(tokens)
        PROVE  /\ LongestMatch(tokens[i])'
               /\ Deserved(tokens[i])'
    <3>1. LongestMatch(tokens[i]) /\ Deserved(tokens[i])
      BY DEF Inv, TokensOK, Ended
    <3>2. tokens[i]' = tokens[i]
      BY <1>1
    <3> QED
      BY <3>1, <3>2, SameText
  <2> QED
    BY <1>1, <2>1 DEF Inv, TokensOK
<1> QED
  BY <1>1, <1>2, <1>3, SameTextStep DEF Inv

\* A token, or an error, is handed to the caller.
LEMMA AnswerEffect ==
  ASSUME Inv, text' = text, mode \notin Ended,
         NEW kind \in Kind, NEW chars \in Seq(Character), NEW r, Reading(r),
         NEW next \in {"token", "end", "closed"}, Answer(kind, chars, r, next),
         LongestMatch(Token(kind, chars, r)),
         Deserved(Token(kind, chars, r)) \/ (next = "closed" /\ kind = "error")
  PROVE  Inv'
<1> DEFINE t == Token(kind, chars, r)
           n == Len(tokens)
<1>1. /\ tokens' = Append(tokens, t) /\ reader' = r /\ mode' = next
      /\ lexeme' = <<>> /\ first' = Consumed(r) + 1
  BY DEF Answer
<1>2. /\ t = [kind |-> kind, lexeme |-> chars, first |-> first, last |-> Consumed(r)]
      /\ t.kind = kind /\ t.first = first /\ t.last = Consumed(r)
  BY DEF Token
<1>3. Consumed(r) \in 0 .. Len(text) /\ Len(text) \in Nat
  BY TextType, ConsumedType
<1>4. t \in TokenSet
  BY <1>2, <1>3 DEF TokenSet, Inv, Scanned
<1>5. tokens \in Seq(TokenSet) /\ n \in Nat
  BY DEF Inv, TokensOK
<1> HIDE DEF t, n
<1>6. /\ tokens' \in Seq(TokenSet) /\ Len(tokens') = n + 1 /\ tokens' # <<>>
      /\ \A i \in 1 .. n : tokens'[i] = tokens[i]
      /\ tokens'[n + 1] = t
  BY <1>1, <1>4, <1>5, AppendProperties DEF n
<1>7. ASSUME NEW i \in 1 .. n
      PROVE  /\ tokens'[i].first = IF i = 1 THEN 1 ELSE tokens'[i - 1].last + 1
             /\ LongestMatch(tokens'[i])
             /\ Deserved(tokens'[i])
  <2>1. /\ tokens[i].first = IF i = 1 THEN 1 ELSE tokens[i - 1].last + 1
        /\ LongestMatch(tokens[i]) /\ Deserved(tokens[i])
    BY DEF Inv, TokensOK, Ended, n
  <2>2. i # 1 => i - 1 \in 1 .. n
    BY <1>5
  <2> QED
    BY <1>6, <2>1, <2>2
<1>8. t.first = IF n + 1 = 1 THEN 1 ELSE tokens'[(n + 1) - 1].last + 1
  <2>1. first = IF tokens = <<>> THEN 1 ELSE tokens[n].last + 1
    BY DEF Inv, TokensOK, n
  <2>2. (tokens = <<>> <=> n = 0) /\ (n + 1) - 1 = n /\ (n # 0 => n \in 1 .. n)
    BY <1>5 DEF n
  <2> QED
    BY <1>2, <1>5, <1>6, <2>1, <2>2
<1>9. ASSUME NEW i \in 1 .. n + 1
      PROVE  /\ tokens'[i].first = IF i = 1 THEN 1 ELSE tokens'[i - 1].last + 1
             /\ LongestMatch(tokens'[i])
             /\ \/ Deserved(tokens'[i])
                \/ mode' = "closed" /\ i = n + 1 /\ tokens'[i].kind = "error"
  <2>1. CASE i \in 1 .. n
    BY <1>7, <2>1
  <2>2. CASE i = n + 1
    <3>1. tokens'[i] = t
      BY <1>6, <2>2
    <3>2. LongestMatch(t) /\ (Deserved(t) \/ (mode' = "closed" /\ t.kind = "error"))
      BY <1>1, <1>2 DEF t
    <3> QED
      BY <1>8, <2>2, <3>1, <3>2
  <2> QED
    BY <1>5, <2>1, <2>2
<1>10. TokensOK'
  <2>1. ASSUME NEW i \in 1 .. n + 1
        PROVE  /\ LongestMatch(tokens[i])' <=> LongestMatch(tokens'[i])
               /\ Deserved(tokens[i])' <=> Deserved(tokens'[i])
    <3>1. PICK u : u = tokens'[i]
      OBVIOUS
    <3> QED
      BY <3>1, SameText
  <2>2. ASSUME NEW i \in 1 .. Len(tokens')
        PROVE  /\ tokens'[i].first = IF i = 1 THEN 1 ELSE tokens'[i - 1].last + 1
               /\ LongestMatch(tokens[i])'
               /\ \/ Deserved(tokens[i])'
                  \/ mode' = "closed" /\ i = Len(tokens') /\ tokens'[i].kind = "error"
    <3>1. i \in 1 .. n + 1
      BY <1>6
    <3> QED
      BY <1>6, <1>9, <2>1, <3>1
  <2>3. first' = IF tokens' = <<>> THEN 1 ELSE tokens'[Len(tokens')].last + 1
    BY <1>1, <1>2, <1>6
  <2> QED
    BY <1>6, <2>2, <2>3 DEF TokensOK
<1>11. Scanned(next, Consumed(r) + 1, Consumed(r), <<>>)
  BY <1>3 DEF Scanned
<1>12. lexeme' \in Seq(Character) /\ mode' \in Modes
  BY <1>1 DEF Modes, Ended
<1> QED
  BY <1>1, <1>10, <1>11, <1>12, SameTextStep DEF Inv

-----------------------------------------------------------------------------
(* The steps *)

LEMMA Here ==
  ASSUME Inv, NEW g \in GetChar(reader)
  PROVE  /\ Got(g, Consumed(reader)) /\ Reading(g.reader) /\ Reading(Backstep(g.reader))
         /\ text \in Seq(Character) /\ Len(text) \in Nat
         /\ Consumed(reader) \in 0 .. Len(text) /\ Consumed(reader) \in Nat
         /\ first \in 1 .. Len(text) + 1 /\ g.char \in Character
         /\ lexeme \in Seq(Character)
         /\ Scanned(mode, first, Consumed(reader), lexeme)
         /\ g.char # "nul" =>
              /\ Consumed(reader) < Len(text)
              /\ Consumed(g.reader) = Consumed(reader) + 1
              /\ text[Consumed(reader) + 1] = g.char
<1>1. text \in Seq(Character) /\ Reading(reader)
  BY TextType DEF Inv
<1>2. Got(g, Consumed(reader))
  BY <1>1, GetCharEffect
<1>3. Consumed(reader) \in 0 .. Len(text) /\ Len(text) \in Nat
  BY <1>1, ConsumedType
<1>4. g.char \in Character
  <2>1. CASE Consumed(reader) < Len(text)
    <3>1. Consumed(reader) + 1 \in 1 .. Len(text)
      BY <1>3, <2>1
    <3> QED
      BY <1>1, <1>2, <2>1, <3>1, ElementOfSeq DEF Got, NextChar
  <2>2. CASE ~ (Consumed(reader) < Len(text))
    BY <1>2, <2>2 DEF Got, NextChar, Character
  <2> QED
    BY <2>1, <2>2
<1>5. Scanned(mode, first, Consumed(reader), lexeme) /\ lexeme \in Seq(Character)
  BY DEF Inv
<1>6. first \in 1 .. Len(text) + 1
  BY <1>5 DEF Scanned
<1>7. g.char # "nul" =>
        /\ Consumed(reader) < Len(text)
        /\ Consumed(g.reader) = Consumed(reader) + 1
        /\ text[Consumed(reader) + 1] = g.char
  BY <1>2 DEF Got, NextChar
<1> QED
  BY <1>1, <1>2, <1>3, <1>4, <1>5, <1>6, <1>7 DEF Got

LEMMA StepNextToken == Inv /\ get_next_token => Inv'
<1> SUFFICES ASSUME Inv, get_next_token PROVE Inv'
  OBVIOUS
<1> DEFINE c == Consumed(reader)
           f == c + 1
<1>1. mode = "token" /\ mode \notin Ended /\ text' = text
  BY DEF get_next_token, Ended
<1>2. PICK g \in GetChar(reader) :
       \/ /\ g.char \in {"mark", "newline"}
          /\ Answer(g.char, <<g.char>>, g.reader, "token")
       \/ /\ g.char = "nul"
          /\ Answer("eof", <<>>, g.reader, IF g.reader.data = <<>> THEN "end" ELSE "token")
       \/ g.char = "quote" /\ Continue("string", <<>>, g.reader)
       \/ g.char \in DOMAIN Starts /\ Continue(Starts[g.char], <<g.char>>, g.reader)
       \/ g.char \in {"backslash", "other"} /\ Fail(g.reader)
  BY DEF get_next_token
<1>3. /\ Got(g, c) /\ Reading(g.reader) /\ text \in Seq(Character) /\ Len(text) \in Nat
      /\ c \in 0 .. Len(text) /\ c \in Nat /\ g.char \in Character
      /\ Scanned(mode, first, c, lexeme)
      /\ g.char # "nul" => c < Len(text) /\ Consumed(g.reader) = c + 1 /\ text[c + 1] = g.char
  BY Here
<1> HIDE DEF c
<1>4. first = f /\ lexeme = <<>>
  BY <1>1, <1>3 DEF Scanned
<1>5. ASSUME g.char # "nul"
      PROVE  /\ f \in 1 .. Len(text) /\ f \in f .. Len(text) /\ text[f] = g.char
             /\ Consumed(g.reader) = f /\ f \in Nat
             /\ SubSeq(text, f, f) = <<g.char>>
             /\ <<g.char>> \in Seq(Character) /\ <<>> \o <<g.char>> = <<g.char>>
  <2>1. /\ f \in 1 .. Len(text) /\ f \in f .. Len(text) /\ text[f] = g.char
        /\ Consumed(g.reader) = f /\ f \in Nat
    BY <1>3, <1>5
  <2>2. SubSeq(text, f, f) = <<text[f]>>
    BY <1>3, <2>1, SpanLength
  <2>3. <<g.char>> \in Seq(Character)
    BY <1>3
  <2> QED
    BY <2>1, <2>2, <2>3, ConcatEmptySeq
<1>6. CASE g.char \in {"mark", "newline"} /\ Answer(g.char, <<g.char>>, g.reader, "token")
  <2> DEFINE t == Token(g.char, <<g.char>>, g.reader)
  <2>1. g.char # "nul"
    BY <1>6
  <2>2. /\ t.kind = g.char /\ t.lexeme = <<g.char>> /\ t.first = f /\ t.last = f
    BY <1>4, <1>5, <2>1 DEF Token
  <2> HIDE DEF t, f
  <2>3. LongestMatch(t)
    BY <1>5, <1>6, <2>1, <2>2 DEF LongestMatch, Span
  <2>4. Deserved(t)
    BY <1>6, <2>2 DEF Deserved
  <2>5. g.char \in Kind
    BY <1>6 DEF Kind
  <2> QED
    BY <1>1, <1>3, <1>5, <1>6, <2>1, <2>3, <2>4, <2>5, AnswerEffect DEF t
<1>7. CASE /\ g.char = "nul"
           /\ Answer("eof", <<>>, g.reader, IF g.reader.data = <<>> THEN "end" ELSE "token")
  <2> DEFINE t == Token("eof", <<>>, g.reader)
             next == IF g.reader.data = <<>> THEN "end" ELSE "token"
  <2>1. /\ t.kind = "eof" /\ t.first = f /\ t.last = Consumed(g.reader)
    BY <1>4 DEF Token
  <2>2. IF c < Len(text) THEN Consumed(g.reader) = c + 1 /\ text[c + 1] = "nul"
        ELSE Consumed(g.reader) = c /\ c = Len(text)
    BY <1>3, <1>7 DEF Got, NextChar
  <2> HIDE DEF t
  <2>3. LongestMatch(t)
    BY <2>1 DEF LongestMatch
  <2>4. EndOfFile(t)
    BY <1>3, <2>1, <2>2 DEF EndOfFile, Begin
  <2>5. Deserved(t)
    BY <2>1, <2>4 DEF Deserved
  <2>6. "eof" \in Kind /\ <<>> \in Seq(Character) /\ next \in {"token", "end", "closed"}
    BY DEF Kind
  <2>7. Answer("eof", <<>>, g.reader, next)
    BY <1>7
  <2> HIDE DEF next
  <2> QED
    BY <1>1, <1>3, <2>3, <2>5, <2>6, <2>7, AnswerEffect DEF t
<1>8. CASE g.char = "quote" /\ Continue("string", <<>>, g.reader)
  <2>1. f \in 1 .. Len(text) /\ text[f] = "quote" /\ Consumed(g.reader) = f /\ f \in Nat
    BY <1>5, <1>8
  <2>2. EvenRun(f, f)
    BY <2>1, RunBegins
  <2>3. Open(f, f)
    BY <2>1 DEF Open
  <2>4. <<>> \o <<>> = Unquoted(Piece(f, f)) /\ <<>> \in Seq(Character)
    BY <1>3, <2>1, UnquotedBegins
  <2> HIDE DEF f
  <2>5. Scanned("string", first, Consumed(g.reader), lexeme \o <<>>)
    BY <1>3, <1>4, <2>1, <2>2, <2>3, <2>4 DEF Scanned
  <2>6. "string" \in Modes \ Ended
    BY DEF Modes, Ended
  <2> QED
    BY <1>1, <1>3, <1>8, <2>4, <2>5, <2>6, ContinueEffect
<1>9. CASE g.char \in DOMAIN Starts /\ Continue(Starts[g.char], <<g.char>>, g.reader)
  <2>1. g.char \in {"digit", "sign", "hash", "blank", "letter"}
    BY <1>9 DEF Starts
  <2>2. g.char # "nul"
    BY <2>1
  <2>3. /\ f \in 1 .. Len(text) /\ f \in Nat /\ Consumed(g.reader) = f
        /\ <<>> \o <<g.char>> = SubSeq(text, f, f) /\ <<g.char>> \in Seq(Character)
        /\ text[f] = g.char
    BY <1>5, <2>2
  <2> DEFINE m == Starts[g.char]
  <2>4. \/ g.char = "digit" /\ m = "integer"
        \/ g.char = "sign" /\ m = "prefixed"
        \/ g.char = "hash" /\ m = "comment"
        \/ g.char = "blank" /\ m = "whitespace"
        \/ g.char = "letter" /\ m = "identifier"
    BY <2>1 DEF Starts
  <2>5. Continue(m, <<g.char>>, g.reader)
    BY <1>9
  <2> HIDE DEF f, m
  <2>6. \A class : text[f] \in class => Run(f, f, class) /\ Run(f + 1, f, class)
    BY <2>3 DEF Run
  <2>7. text[f] = "hash" => text[f] \in Character \ {"newline", "nul"}
    BY DEF Character
  <2>8. Run(f + 1, f, {"digit"})
    BY <2>3 DEF Run
  <2>9. Scanned(m, first, Consumed(g.reader), lexeme \o <<g.char>>)
    BY <1>3, <1>4, <2>3, <2>4, <2>6, <2>7, <2>8 DEF Scanned
  <2>10. m \in Modes \ Ended
    BY <2>4 DEF Modes, Ended
  <2> QED
    BY <1>1, <1>3, <2>3, <2>5, <2>9, <2>10, ContinueEffect
<1>10. CASE g.char \in {"backslash", "other"} /\ Fail(g.reader)
  <2> DEFINE t == Token("error", <<>>, g.reader)
  <2>1. g.char # "nul"
    BY <1>10
  <2>2. /\ t.kind = "error" /\ t.first = f /\ t.last = f
    BY <1>4, <1>5, <2>1 DEF Token
  <2> HIDE DEF t, f
  <2>3. LongestMatch(t)
    BY <2>2 DEF LongestMatch
  <2>4. NoToken(t)
    BY <1>5, <1>10, <2>1, <2>2 DEF NoToken, Begin
  <2>5. Deserved(t)
    BY <2>2, <2>4 DEF Deserved
  <2>6. "error" \in Kind /\ <<>> \in Seq(Character) /\ "token" \in {"token", "end", "closed"}
    BY DEF Kind
  <2> QED
    BY <1>1, <1>3, <1>10, <2>3, <2>5, <2>6, AnswerEffect DEF t, Fail
<1> QED
  BY <1>2, <1>6, <1>7, <1>8, <1>9, <1>10

\* A character that goes into the lexeme of a token that is a piece of the file.
LEMMA LexemeGrows ==
  ASSUME Inv, NEW g \in GetChar(reader), g.char # "nul",
         mode \in {"integer", "prefixed", "comment", "whitespace", "identifier"}
  PROVE  /\ lexeme \o <<g.char>> = SubSeq(text, first, Consumed(g.reader))
         /\ <<g.char>> \in Seq(Character)
<1> DEFINE c == Consumed(reader)
<1>1. /\ text \in Seq(Character) /\ Len(text) \in Nat /\ c < Len(text) /\ c \in Nat
      /\ Consumed(g.reader) = c + 1 /\ text[c + 1] = g.char /\ g.char \in Character
      /\ first \in 1 .. Len(text) + 1 /\ Scanned(mode, first, c, lexeme)
  BY Here
<1> HIDE DEF c
<1>2. first <= c /\ lexeme = SubSeq(text, first, c)
  BY <1>1 DEF Scanned
<1>3. first \in 1 .. Len(text) /\ c \in first - 1 .. Len(text) - 1
  BY <1>1, <1>2
<1>4. SubSeq(text, first, c) \o <<text[c + 1]>> = SubSeq(text, first, c + 1)
  BY <1>1, <1>3, SpanGrows
<1> QED
  BY <1>1, <1>2, <1>4

\* The token is the span that was scanned, and ends before the character that
\* was got last.
LEMMA EmitEffect ==
  ASSUME Inv, text' = text, NEW g \in GetChar(reader),
         NEW m \in {"integer", "comment", "whitespace", "identifier"}, mode = m,
         Emit(m, Backstep(g.reader)),
         LongestMatch(Token(m, SubSeq(text, first, Consumed(reader)), Backstep(g.reader)))
  PROVE  Inv'
<1> DEFINE c == Consumed(reader)
           t == Token(m, SubSeq(text, first, c), Backstep(g.reader))
<1>1. /\ Got(g, c) /\ Reading(Backstep(g.reader)) /\ text \in Seq(Character)
      /\ Len(text) \in Nat /\ c \in 0 .. Len(text) /\ first \in 1 .. Len(text) + 1
      /\ lexeme \in Seq(Character) /\ Scanned(mode, first, c, lexeme)
  BY Here
<1>2. first <= c /\ lexeme = SubSeq(text, first, c)
  <2> HIDE DEF c
  <2> QED
    BY <1>1 DEF Scanned
<1>3. first \in 1 .. Len(text) /\ c \in first .. Len(text)
  BY <1>1, <1>2
<1>4. lexeme # <<>>
  BY <1>1, <1>2, <1>3, SpanLength
<1>5. Answer(m, lexeme, Backstep(g.reader), "token")
  BY <1>4 DEF Emit
<1>6. LongestMatch(Token(m, lexeme, Backstep(g.reader)))
  BY <1>2
<1>7. Token(m, lexeme, Backstep(g.reader)).kind = m
  BY DEF Token
<1>8. Deserved(Token(m, lexeme, Backstep(g.reader)))
  BY <1>7 DEF Deserved
<1>9. m \in Kind /\ mode \notin Ended /\ "token" \in {"token", "end", "closed"}
  BY DEF Kind, Ended
<1> QED
  BY <1>1, <1>5, <1>6, <1>8, <1>9, AnswerEffect

LEMMA RunGrows ==
  ASSUME NEW f \in Nat, NEW c \in Nat, NEW class, Run(f, c, class), text[c + 1] \in class
  PROVE  Run(f, c + 1, class)
<1> SUFFICES ASSUME NEW i \in f .. c + 1 PROVE text[i] \in class
  BY DEF Run
<1>1. CASE i = c + 1
  BY <1>1
<1>2. CASE i \in f .. c
  BY <1>2 DEF Run
<1> QED
  BY <1>1, <1>2

\* What is known of the token that ends where the next character is left.
LEMMA EndedSpan ==
  ASSUME Inv, NEW g \in GetChar(reader), NEW m
  PROVE  LET t == Token(m, SubSeq(text, first, Consumed(reader)), Backstep(g.reader)) IN
         /\ t = [kind |-> m, lexeme |-> Span(t), first |-> first, last |-> Consumed(reader)]
         /\ After(t) = g.char
<1> DEFINE c == Consumed(reader)
           t == Token(m, SubSeq(text, first, c), Backstep(g.reader))
<1>1. Got(g, c)
  BY Here
<1> HIDE DEF c
<1>2. t = [kind |-> m, lexeme |-> SubSeq(text, first, c), first |-> first, last |-> c]
  BY <1>1 DEF Token, Got
<1>3. t.first = first /\ t.last = c
  BY <1>2
<1>4. Span(t) = SubSeq(text, first, c) /\ After(t) = g.char
  BY <1>1, <1>3 DEF Span, After, Got, NextChar
<1>5. t = [kind |-> m, lexeme |-> Span(t), first |-> first, last |-> c]
  BY <1>2, <1>4
<1> QED
  BY <1>4, <1>5 DEF c

LEMMA StepInteger == Inv /\ get_integer => Inv'
<1> SUFFICES ASSUME Inv, get_integer PROVE Inv'
  OBVIOUS
<1> DEFINE c == Consumed(reader)
<1>1. mode = "integer" /\ mode \notin Ended /\ text' = text
  BY DEF get_integer, ScanWhile, Ended
<1>2. PICK g \in GetChar(reader) :
        IF g.char \in {"digit"} THEN Continue("integer", <<g.char>>, g.reader)
        ELSE Emit("integer", Backstep(g.reader))
  BY DEF get_integer, ScanWhile
<1>3. /\ Reading(g.reader) /\ first \in 1 .. Len(text) + 1 /\ first \in Nat
      /\ c \in Nat /\ Scanned(mode, first, c, lexeme) /\ Len(text) \in Nat
      /\ g.char # "nul" => Consumed(g.reader) = c + 1 /\ text[c + 1] = g.char
  BY Here
<1> HIDE DEF c
<1>4. first <= c /\ text[first] \in {"sign", "digit"} /\ Run(first + 1, c, {"digit"})
  BY <1>1, <1>3 DEF Scanned
<1>5. CASE g.char = "digit"
  <2>1. Run(first + 1, c + 1, {"digit"})
    BY <1>3, <1>4, <1>5, RunGrows
  <2>2. Consumed(g.reader) = c + 1 /\ first <= c + 1
    BY <1>3, <1>4, <1>5
  <2>3. lexeme \o <<g.char>> = SubSeq(text, first, Consumed(g.reader))
    BY <1>1, <1>5, LexemeGrows
  <2>4. Scanned("integer", first, Consumed(g.reader), lexeme \o <<g.char>>)
    BY <1>3, <1>4, <2>1, <2>2, <2>3 DEF Scanned
  <2>5. "integer" \in Modes \ Ended /\ <<g.char>> \in Seq(Character)
    BY <1>1, <1>5, LexemeGrows DEF Modes, Ended
  <2> QED
    BY <1>1, <1>2, <1>3, <1>5, <2>4, <2>5, ContinueEffect
<1>6. CASE g.char # "digit"
  <2> DEFINE t == Token("integer", SubSeq(text, first, Consumed(reader)), Backstep(g.reader))
             u == [t EXCEPT !.first = @ + 1]
  <2>1. /\ t = [kind |-> "integer", lexeme |-> Span(t), first |-> first, last |-> c]
        /\ After(t) = g.char
    BY EndedSpan DEF c
  <2> HIDE DEF t
  <2>2. u.first = first + 1 /\ u.last = c
    BY <2>1
  <2>3. After(u) = After(t)
    BY <2>1, <2>2 DEF After
  <2>4. Longest(u, {"digit"})
    BY <1>4, <1>6, <2>1, <2>2, <2>3 DEF Longest, Run
  <2>5. LongestMatch(t)
    BY <1>4, <2>1, <2>4 DEF LongestMatch
  <2> QED
    BY <1>1, <1>2, <1>6, <2>5, EmitEffect DEF t
<1> QED
  BY <1>5, <1>6

LEMMA StepWhitespace == Inv /\ get_whitespace => Inv'
<1> SUFFICES ASSUME Inv, get_whitespace PROVE Inv'
  OBVIOUS
<1> DEFINE c == Consumed(reader)
<1>1. mode = "whitespace" /\ mode \notin Ended /\ text' = text
  BY DEF get_whitespace, ScanWhile, Ended
<1>2. PICK g \in GetChar(reader) :
        IF g.char \in {"blank"} THEN Continue("whitespace", <<g.char>>, g.reader)
        ELSE Emit("whitespace", Backstep(g.reader))
  BY DEF get_whitespace, ScanWhile
<1>3. /\ Reading(g.reader) /\ first \in 1 .. Len(text) + 1 /\ first \in Nat
      /\ c \in Nat /\ Scanned(mode, first, c, lexeme) /\ Len(text) \in Nat
      /\ g.char # "nul" => Consumed(g.reader) = c + 1 /\ text[c + 1] = g.char
  BY Here
<1> HIDE DEF c
<1>4. first <= c /\ Run(first, c, {"blank"})
  BY <1>1, <1>3 DEF Scanned
<1>5. CASE g.char = "blank"
  <2>1. Run(first, c + 1, {"blank"})
    BY <1>3, <1>4, <1>5, RunGrows
  <2>2. Consumed(g.reader) = c + 1 /\ first <= c + 1
    BY <1>3, <1>4, <1>5
  <2>3. lexeme \o <<g.char>> = SubSeq(text, first, Consumed(g.reader))
    BY <1>1, <1>5, LexemeGrows
  <2>4. Scanned("whitespace", first, Consumed(g.reader), lexeme \o <<g.char>>)
    BY <1>3, <1>4, <2>1, <2>2, <2>3 DEF Scanned
  <2>5. "whitespace" \in Modes \ Ended /\ <<g.char>> \in Seq(Character)
    BY <1>1, <1>5, LexemeGrows DEF Modes, Ended
  <2> QED
    BY <1>1, <1>2, <1>3, <1>5, <2>4, <2>5, ContinueEffect
<1>6. CASE g.char # "blank"
  <2> DEFINE t == Token("whitespace", SubSeq(text, first, Consumed(reader)), Backstep(g.reader))
  <2>1. /\ t = [kind |-> "whitespace", lexeme |-> Span(t), first |-> first, last |-> c]
        /\ After(t) = g.char
    BY EndedSpan DEF c
  <2> HIDE DEF t
  <2>2. Longest(t, {"blank"})
    BY <1>4, <1>6, <2>1 DEF Longest, Run
  <2>3. LongestMatch(t)
    BY <2>1, <2>2 DEF LongestMatch
  <2> QED
    BY <1>1, <1>2, <1>6, <2>3, EmitEffect DEF t
<1> QED
  BY <1>5, <1>6

LEMMA StepIdentifier == Inv /\ get_identifier => Inv'
<1> SUFFICES ASSUME Inv, get_identifier PROVE Inv'
  OBVIOUS
<1> DEFINE c == Consumed(reader)
           class == {"letter", "digit"}
<1>1. mode = "identifier" /\ mode \notin Ended /\ text' = text
  BY DEF get_identifier, ScanWhile, Ended
<1>2. PICK g \in GetChar(reader) :
        IF g.char \in class THEN Continue("identifier", <<g.char>>, g.reader)
        ELSE Emit("identifier", Backstep(g.reader))
  BY DEF get_identifier, ScanWhile
<1>3. /\ Reading(g.reader) /\ first \in 1 .. Len(text) + 1 /\ first \in Nat
      /\ c \in Nat /\ Scanned(mode, first, c, lexeme) /\ Len(text) \in Nat
      /\ g.char # "nul" => Consumed(g.reader) = c + 1 /\ text[c + 1] = g.char
  BY Here
<1> HIDE DEF c
<1>4. first <= c /\ text[first] = "letter" /\ Run(first, c, class)
  BY <1>1, <1>3 DEF Scanned
<1>5. CASE g.char \in class
  <2>1. g.char # "nul"
    BY <1>5
  <2>2. Run(first, c + 1, class)
    BY <1>3, <1>4, <1>5, <2>1, RunGrows
  <2>3. Consumed(g.reader) = c + 1 /\ first <= c + 1
    BY <1>3, <1>4, <2>1
  <2>4. lexeme \o <<g.char>> = SubSeq(text, first, Consumed(g.reader))
    BY <1>1, <2>1, LexemeGrows
  <2>5. Scanned("identifier", first, Consumed(g.reader), lexeme \o <<g.char>>)
    BY <1>3, <1>4, <2>2, <2>3, <2>4 DEF Scanned
  <2>6. "identifier" \in Modes \ Ended /\ <<g.char>> \in Seq(Character)
    BY <1>1, <2>1, LexemeGrows DEF Modes, Ended
  <2> QED
    BY <1>1, <1>2, <1>3, <1>5, <2>5, <2>6, ContinueEffect
<1>6. CASE g.char \notin class
  <2> DEFINE t == Token("identifier", SubSeq(text, first, Consumed(reader)), Backstep(g.reader))
  <2>1. /\ t = [kind |-> "identifier", lexeme |-> Span(t), first |-> first, last |-> c]
        /\ After(t) = g.char
    BY EndedSpan DEF c
  <2> HIDE DEF t
  <2>2. Longest(t, class)
    BY <1>4, <1>6, <2>1 DEF Longest, Run
  <2>3. LongestMatch(t)
    BY <1>4, <2>1, <2>2 DEF LongestMatch
  <2> QED
    BY <1>1, <1>2, <1>6, <2>3, EmitEffect DEF t
<1> QED
  BY <1>5, <1>6

LEMMA StepPrefixed == Inv /\ get_prefixed_integer => Inv'
<1> SUFFICES ASSUME Inv, get_prefixed_integer PROVE Inv'
  OBVIOUS
<1> DEFINE c == Consumed(reader)
<1>1. mode = "prefixed" /\ mode \notin Ended /\ text' = text
  BY DEF get_prefixed_integer, Ended
<1>2. PICK g \in GetChar(reader) :
        IF g.char = "digit" THEN Continue("integer", <<g.char>>, g.reader)
        ELSE Fail(g.reader)
  BY DEF get_prefixed_integer
<1>3. /\ Reading(g.reader) /\ first \in 1 .. Len(text) + 1 /\ first \in Nat /\ Got(g, c)
      /\ c \in 0 .. Len(text) /\ c \in Nat /\ Scanned(mode, first, c, lexeme) /\ Len(text) \in Nat
      /\ g.char # "nul" => Consumed(g.reader) = c + 1 /\ text[c + 1] = g.char
  BY Here
<1> HIDE DEF c
<1>4. first = c /\ text[first] = "sign"
  BY <1>1, <1>3 DEF Scanned
<1>5. CASE g.char = "digit"
  <2>1. /\ lexeme \o <<g.char>> = SubSeq(text, first, Consumed(g.reader))
        /\ Consumed(g.reader) = c + 1 /\ <<g.char>> \in Seq(Character)
    BY <1>1, <1>3, <1>5, LexemeGrows
  <2>2. Run(first + 1, c + 1, {"digit"})
    BY <1>3, <1>4, <1>5 DEF Run
  <2>3. first <= c + 1 /\ text[first] \in {"sign", "digit"} /\ Run(first + 1, c + 1, {"digit"})
    BY <1>3, <1>4, <2>2
  <2>4. Scanned("integer", first, Consumed(g.reader), lexeme \o <<g.char>>)
    BY <1>3, <2>1, <2>3 DEF Scanned
  <2>5. "integer" \in Modes \ Ended
    BY DEF Modes, Ended
  <2> QED
    BY <1>1, <1>2, <1>3, <1>5, <2>1, <2>4, <2>5, ContinueEffect
<1>6. CASE g.char # "digit"
  <2> DEFINE t == Token("error", <<>>, g.reader)
             u == [t EXCEPT !.last = t.first]
  <2>1. /\ t = [kind |-> "error", lexeme |-> <<>>, first |-> first, last |-> Consumed(g.reader)]
        /\ t.kind = "error" /\ t.first = first /\ t.last = Consumed(g.reader)
    BY DEF Token
  <2>2. Consumed(g.reader) \in c .. c + 1
    BY <1>3 DEF Got
  <2> HIDE DEF t
  <2>3. u.last = c /\ u.first = c
    BY <1>4, <2>1
  <2>4. After(u) # "digit"
    BY <1>3, <1>6, <2>3 DEF After, Got, NextChar
  <2>5. Begin(t) = "sign" /\ t.last + 1 - t.first <= 2
    BY <1>3, <1>4, <2>1, <2>2 DEF Begin
  <2>6. NoToken(t)
    BY <2>4, <2>5 DEF NoToken
  <2>7. LongestMatch(t) /\ Deserved(t)
    BY <2>1, <2>6 DEF LongestMatch, Deserved
  <2>8. "error" \in Kind /\ <<>> \in Seq(Character) /\ "token" \in {"token", "end", "closed"}
    BY DEF Kind
  <2>9. Answer("error", <<>>, g.reader, "token")
    BY <1>2, <1>6 DEF Fail
  <2> QED
    BY <1>1, <1>3, <2>7, <2>8, <2>9, AnswerEffect DEF t
<1> QED
  BY <1>5, <1>6

\* The file goes on to a "nul" character or ends, and the token has not.
LEMMA RunsOutHere ==
  ASSUME Inv, NEW g \in GetChar(reader), g.char = "nul", mode \notin Ended \union {"token"}
  PROVE  LET t == Token("error", <<>>, g.reader)
             c == Consumed(reader)
         IN  /\ t.kind = "error" /\ t.first = first /\ RunsOut(t) /\ first <= t.last
             /\ \/ t.last = c
                \/ t.last = c + 1 /\ text[c + 1] = "nul"
<1> DEFINE c == Consumed(reader)
           t == Token("error", <<>>, g.reader)
<1>1. /\ Got(g, c) /\ Scanned(mode, first, c, lexeme) /\ c \in Nat /\ Len(text) \in Nat
      /\ first \in 1 .. Len(text) + 1
  BY Here
<1> HIDE DEF c
<1>2. first <= c
  BY <1>1 DEF Scanned, Ended
<1>3. t.kind = "error" /\ t.first = first /\ t.last = Consumed(g.reader)
  BY DEF Token
<1>4. \/ t.last = c /\ c = Len(text)
      \/ t.last = c + 1 /\ text[c + 1] = "nul"
  BY <1>1, <1>3 DEF Got, NextChar
<1> HIDE DEF t
<1>5. RunsOut(t)
  BY <1>4 DEF RunsOut
<1> QED
  BY <1>1, <1>2, <1>3, <1>4, <1>5 DEF t, c

LEMMA FailEffect ==
  ASSUME Inv, text' = text, mode \notin Ended, NEW g \in GetChar(reader), Fail(g.reader),
         NoToken(Token("error", <<>>, g.reader))
  PROVE  Inv'
<1> DEFINE t == Token("error", <<>>, g.reader)
<1>1. t.kind = "error" /\ Reading(g.reader)
  BY Here DEF Token
<1> HIDE DEF t
<1>2. LongestMatch(t) /\ Deserved(t)
  BY <1>1 DEF LongestMatch, Deserved, t
<1>3. "error" \in Kind /\ <<>> \in Seq(Character) /\ "token" \in {"token", "end", "closed"}
  BY DEF Kind
<1>4. Answer("error", <<>>, g.reader, "token")
  BY DEF Fail
<1> QED
  BY <1>1, <1>2, <1>3, <1>4, AnswerEffect DEF t

LEMMA StepComment == Inv /\ get_comment => Inv'
<1> SUFFICES ASSUME Inv, get_comment PROVE Inv'
  OBVIOUS
<1> DEFINE c == Consumed(reader)
           class == Character \ {"newline", "nul"}
<1>1. mode = "comment" /\ mode \notin Ended /\ text' = text
  BY DEF get_comment, Ended
<1>2. PICK g \in GetChar(reader) :
        CASE g.char = "newline" -> Emit("comment", Backstep(g.reader))
          [] g.char = "nul" -> Fail(g.reader)
          [] OTHER -> Continue("comment", <<g.char>>, g.reader)
  BY DEF get_comment
<1>3. /\ Reading(g.reader) /\ first \in 1 .. Len(text) + 1 /\ first \in Nat
      /\ g.char \in Character
      /\ c \in Nat /\ Scanned(mode, first, c, lexeme) /\ Len(text) \in Nat
      /\ g.char # "nul" => Consumed(g.reader) = c + 1 /\ text[c + 1] = g.char
  BY Here
<1> HIDE DEF c, class
<1>4. first <= c /\ text[first] = "hash" /\ Run(first, c, class)
  BY <1>1, <1>3 DEF Scanned, class
<1>5. CASE g.char \notin {"newline", "nul"}
  <2>1. g.char \in class
    BY <1>3, <1>5 DEF class
  <2>2. Run(first, c + 1, class)
    BY <1>3, <1>4, <1>5, <2>1, RunGrows
  <2>3. /\ lexeme \o <<g.char>> = SubSeq(text, first, Consumed(g.reader))
        /\ Consumed(g.reader) = c + 1 /\ first <= c + 1 /\ <<g.char>> \in Seq(Character)
    BY <1>1, <1>3, <1>4, <1>5, LexemeGrows
  <2>4. Scanned("comment", first, Consumed(g.reader), lexeme \o <<g.char>>)
    BY <1>3, <1>4, <2>2, <2>3 DEF Scanned, class
  <2>5. "comment" \in Modes \ Ended
    BY DEF Modes, Ended
  <2>6. Continue("comment", <<g.char>>, g.reader)
    BY <1>2, <1>5
  <2> QED
    BY <1>1, <1>3, <2>3, <2>4, <2>5, <2>6, ContinueEffect
<1>6. CASE g.char = "newline"
  <2> DEFINE t == Token("comment", SubSeq(text, first, Consumed(reader)), Backstep(g.reader))
  <2>1. /\ t = [kind |-> "comment", lexeme |-> Span(t), first |-> first, last |-> c]
        /\ After(t) = g.char
    BY EndedSpan DEF c
  <2> HIDE DEF t
  <2>2. Longest(t, class)
    BY <1>4, <1>6, <2>1 DEF Longest, Run, class
  <2>3. LongestMatch(t)
    BY <1>4, <1>6, <2>1, <2>2 DEF LongestMatch, class
  <2>4. Emit("comment", Backstep(g.reader))
    BY <1>2, <1>6
  <2> QED
    BY <1>1, <2>3, <2>4, EmitEffect DEF t
<1>7. CASE g.char = "nul"
  <2> DEFINE t == Token("error", <<>>, g.reader)
  <2>1. /\ t.kind = "error" /\ t.first = first /\ RunsOut(t) /\ first <= t.last
        /\ \/ t.last = c
           \/ t.last = c + 1 /\ text[c + 1] = "nul"
    BY <1>1, <1>7, RunsOutHere DEF c, Ended
  <2> HIDE DEF t
  <2>2. \A k \in t.first .. t.last : text[k] # "newline"
    <3> TAKE k \in t.first .. t.last
    <3>1. k \in first .. c \/ (k = c + 1 /\ text[c + 1] = "nul")
      BY <1>3, <2>1
    <3> QED
      BY <1>4, <3>1 DEF Run, class
  <2>3. NoToken(t)
    BY <1>4, <2>1, <2>2 DEF NoToken, Begin
  <2>4. Fail(g.reader)
    BY <1>2, <1>7
  <2> QED
    BY <1>1, <2>3, <2>4, FailEffect DEF t
<1> QED
  BY <1>5, <1>6, <1>7

LEMMA Pair ==
  ASSUME NEW a, NEW b
  PROVE  <<a>> \o <<b>> = <<a, b>>
<1> DEFINE S == {a, b}
<1>1. <<a>> \in Seq(S) /\ <<b>> \in Seq(S) /\ <<a, b>> \in Seq(S)
  OBVIOUS
<1>2. Len(<<a>>) = 1 /\ Len(<<b>>) = 1 /\ Len(<<a, b>>) = 2 /\ <<a>>[1] = a /\ <<b>>[1] = b
  OBVIOUS
<1>3. <<a, b>>[1] = a /\ <<a, b>>[2] = b
  OBVIOUS
<1> DEFINE s == <<a>>
           t == <<b>>
           u == <<a, b>>
<1> HIDE DEF s, t, u, S
<1>4. /\ s \o t \in Seq(S) /\ Len(s \o t) = 2
      /\ (s \o t)[1] = a /\ (s \o t)[2] = b
  <2>1. s \in Seq(S) /\ t \in Seq(S) /\ Len(s) = 1 /\ Len(t) = 1 /\ s[1] = a /\ t[1] = b
    BY <1>1, <1>2 DEF s, t
  <2>2. /\ s \o t \in Seq(S) /\ Len(s \o t) = 1 + 1
        /\ \A i \in 1 .. 1 + 1 : (s \o t)[i] = IF i <= 1 THEN s[i] ELSE t[i - 1]
    BY <2>1, ConcatProperties
  <2> QED
    BY <2>1, <2>2
<1>5. u \in Seq(S) /\ Len(u) = 2 /\ u[1] = a /\ u[2] = b
  BY <1>1, <1>2, <1>3 DEF u
<1>6. \A i \in 1 .. Len(u) : u[i] = (s \o t)[i]
  BY <1>4, <1>5
<1>7. u = s \o t
  BY <1>4, <1>5, <1>6, SeqEqual
<1> QED
  BY <1>7 DEF s, t, u

LEMMA OpenGrows ==
  ASSUME NEW f \in Nat, NEW c \in Nat, Open(f, c), ~Closes(f, c + 1)
  PROVE  Open(f, c + 1)
<1> SUFFICES ASSUME NEW k \in f + 1 .. c + 1 PROVE ~Closes(f, k)
  BY DEF Open
<1>1. k \in f + 1 .. c \/ k = c + 1
  OBVIOUS
<1> QED
  BY <1>1 DEF Open

\* A string that runs out is no token.
LEMMA StringRunsOut ==
  ASSUME Inv, text' = text, mode \in {"string", "escape"}, NEW g \in GetChar(reader),
         g.char = "nul", Fail(g.reader)
  PROVE  Inv'
<1> DEFINE c == Consumed(reader)
           t == Token("error", <<>>, g.reader)
<1>1. mode \notin Ended /\ mode \notin Ended \union {"token"}
  BY DEF Ended
<1>2. /\ first \in 1 .. Len(text) + 1 /\ first \in Nat /\ c \in Nat
      /\ Scanned(mode, first, c, lexeme) /\ Len(text) \in Nat
  BY Here
<1>3. /\ t.kind = "error" /\ t.first = first /\ RunsOut(t) /\ first <= t.last
      /\ \/ t.last = c
         \/ t.last = c + 1 /\ text[c + 1] = "nul"
  BY <1>1, RunsOutHere
<1> HIDE DEF c, t
<1>4. text[first] = "quote" /\ Open(first, c)
  BY <1>2 DEF Scanned
<1>5. \A k \in t.first + 1 .. t.last : ~Closes(t.first, k)
  <2> TAKE k \in t.first + 1 .. t.last
  <2>1. k \in first + 1 .. c \/ (k = c + 1 /\ text[c + 1] = "nul")
    BY <1>2, <1>3
  <2> QED
    BY <1>3, <1>4, <2>1 DEF Open, Closes
<1>6. NoToken(t)
  BY <1>3, <1>4, <1>5 DEF NoToken, Begin
<1> QED
  BY <1>1, <1>6, FailEffect DEF t

LEMMA StepString == Inv /\ get_string => Inv'
<1> SUFFICES ASSUME Inv, get_string PROVE Inv'
  OBVIOUS
<1> DEFINE c == Consumed(reader)
           f == first
<1>1. mode = "string" /\ mode \notin Ended /\ text' = text
  BY DEF get_string, Ended
<1>2. PICK g \in GetChar(reader) :
        CASE g.char = "nul" -> Fail(g.reader)
          [] g.char = "backslash" -> Continue("escape", <<>>, g.reader)
          [] g.char = "quote" -> Emit("string", g.reader)
          [] OTHER -> Continue("string", <<g.char>>, g.reader)
  BY DEF get_string
<1>3. /\ Reading(g.reader) /\ f \in 1 .. Len(text) + 1 /\ f \in Nat
      /\ g.char \in Character /\ text \in Seq(Character) /\ lexeme \in Seq(Character)
      /\ c \in Nat /\ Scanned(mode, f, c, lexeme) /\ Len(text) \in Nat
      /\ g.char # "nul" => c < Len(text) /\ Consumed(g.reader) = c + 1 /\ text[c + 1] = g.char
  BY Here
<1> HIDE DEF c, f
<1>4. /\ f <= c /\ text[f] = "quote" /\ EvenRun(f, c) /\ Open(f, c)
      /\ lexeme = Unquoted(Piece(f, c)) /\ (lexeme = <<>> => c = f)
  BY <1>1, <1>3 DEF Scanned
<1>5. CASE g.char = "nul"
  <2>1. Fail(g.reader)
    BY <1>2, <1>5
  <2> QED
    BY <1>1, <1>5, <2>1, StringRunsOut
<1>6. CASE g.char = "backslash"
  <2>1. Continue("escape", <<>>, g.reader)
    BY <1>2, <1>6
  <2>2. ~Closes(f, c + 1)
    BY <1>3, <1>6 DEF Closes
  <2>3. Open(f, c + 1)
    BY <1>3, <1>4, <2>2, OpenGrows
  <2>4. lexeme \o <<>> = lexeme /\ <<>> \in Seq(Character)
    BY <1>3, ConcatEmptySeq
  <2>5. (c + 1) - 1 = c /\ f < c + 1 /\ f <= c + 1
    BY <1>3, <1>4
  <2>6. Scanned("escape", f, c + 1, lexeme)
    BY <1>3, <1>4, <1>6, <2>3, <2>5 DEF Scanned
  <2>7. "escape" \in Modes \ Ended
    BY DEF Modes, Ended
  <2> QED
    BY <1>1, <1>3, <1>6, <2>1, <2>4, <2>6, <2>7, ContinueEffect DEF f
<1>7. CASE g.char = "quote"
  <2>1. Emit("string", g.reader)
    BY <1>2, <1>7
  <2>2. CASE lexeme # <<>>
    <3> DEFINE t == Token("string", lexeme, g.reader)
    <3>1. Answer("string", lexeme, g.reader, "token")
      BY <2>1, <2>2 DEF Emit
    <3>2. t.kind = "string" /\ t.lexeme = lexeme /\ t.first = f /\ t.last = c + 1
      BY <1>3, <1>7 DEF Token, f
    <3>3. Unquoted(t) = Unquoted(Piece(f, c))
      <4>1. Piece(f, c).first = t.first /\ Piece(f, c).last = t.last
        BY <3>2 DEF Piece
      <4> HIDE DEF t
      <4> QED
        BY <4>1 DEF Unquoted
    <3> HIDE DEF t
    <3>4. Closes(f, c + 1)
      <4>1. c + 1 \in Nat /\ c + 1 > f /\ (c + 1) - 1 = c /\ text[c + 1] = "quote"
        BY <1>3, <1>4, <1>7
      <4> QED
        BY <1>3, <1>4, <4>1, ClosesRun
    <3>5. \A k \in t.first + 1 .. t.last - 1 : ~Closes(t.first, k)
      BY <1>3, <1>4, <3>2 DEF Open
    <3>6. LongestMatch(t) /\ Deserved(t)
      BY <1>4, <3>2, <3>3, <3>4, <3>5 DEF LongestMatch, Deserved
    <3>7. "string" \in Kind /\ "token" \in {"token", "end", "closed"}
      BY DEF Kind
    <3> QED
      BY <1>1, <1>3, <3>1, <3>6, <3>7, AnswerEffect DEF t
  <2>3. CASE lexeme = <<>>
    <3>1. /\ mode' = "aborted" /\ reader' = g.reader /\ lexeme' = lexeme
          /\ first' = first /\ tokens' = tokens
      BY <2>1, <2>3 DEF Emit
    <3>2. TokensOK'
      <4>1. ASSUME NEW i \in 1 .. Len(tokens)
            PROVE  /\ LongestMatch(tokens[i])'
                   /\ Deserved(tokens[i])'
        <5>1. LongestMatch(tokens[i]) /\ Deserved(tokens[i])
          BY <1>1 DEF Inv, TokensOK, Ended
        <5>2. tokens[i]' = tokens[i]
          BY <3>1
        <5> QED
          BY <1>1, <5>1, <5>2, SameText
      <4> QED
        BY <3>1, <4>1 DEF Inv, TokensOK
    <3>3. c = f /\ f \in 1 .. Len(text) /\ c \in f - 1 .. Len(text) - 1 /\ c \in f .. Len(text)
      BY <1>3, <1>4, <1>7, <2>3
    <3>4. SubSeq(text, f, c) = <<"quote">>
      BY <1>3, <1>4, <3>3, SpanLength
    <3>5. SubSeq(text, f, c) \o <<text[c + 1]>> = SubSeq(text, f, c + 1)
      BY <1>3, <3>3, SpanGrows
    <3>6. SubSeq(text, f, c + 1) = <<"quote", "quote">>
      BY <1>3, <1>7, <3>4, <3>5, Pair
    <3>7. Scanned("aborted", f, c + 1, lexeme)
      BY <1>3, <1>4, <3>6 DEF Scanned
    <3>8. "aborted" \in Modes /\ Consumed(g.reader) = c + 1
      BY <1>3, <1>7 DEF Modes, Ended
    <3> QED
      BY <1>1, <1>3, <3>1, <3>2, <3>7, <3>8, SameTextStep DEF Inv, f
  <2> QED
    BY <2>2, <2>3
<1>8. CASE g.char \notin {"nul", "backslash", "quote"}
  <2>1. Continue("string", <<g.char>>, g.reader)
    BY <1>2, <1>8
  <2>2. ~Closes(f, c + 1) /\ c + 1 \in Nat /\ f <= c + 1 /\ text[c + 1] # "backslash"
    BY <1>3, <1>4, <1>8 DEF Closes
  <2>3. Open(f, c + 1) /\ EvenRun(f, c + 1)
    BY <1>3, <1>4, <2>2, OpenGrows, RunBegins
  <2>4. ~Escape(c) /\ c \in f .. Len(text) - 1 /\ f \in 1 .. Len(text)
    BY <1>3, <1>4, <1>8 DEF Escape
  <2>5. Unquoted(Piece(f, c + 1)) = Append(lexeme, g.char)
    BY <1>3, <1>4, <1>8, <2>4, UnquotedSteps
  <2>6. /\ Append(lexeme, g.char) = lexeme \o <<g.char>> /\ Append(lexeme, g.char) # <<>>
        /\ <<g.char>> \in Seq(Character)
    BY <1>3, AppendProperties, AppendIsConcat
  <2>7. Scanned("string", f, c + 1, lexeme \o <<g.char>>)
    BY <1>3, <1>4, <2>2, <2>3, <2>5, <2>6 DEF Scanned
  <2>8. "string" \in Modes \ Ended
    BY DEF Modes, Ended
  <2> QED
    BY <1>1, <1>3, <1>8, <2>1, <2>6, <2>7, <2>8, ContinueEffect DEF f
<1> QED
  BY <1>5, <1>6, <1>7, <1>8

LEMMA StepEscape == Inv /\ get_string_escape => Inv'
<1> SUFFICES ASSUME Inv, get_string_escape PROVE Inv'
  OBVIOUS
<1> DEFINE c == Consumed(reader)
           f == first
<1>1. mode = "escape" /\ mode \notin Ended /\ text' = text
  BY DEF get_string_escape, Ended
<1>2. PICK g \in GetChar(reader) :
        CASE g.char = "nul" -> Fail(g.reader)
          [] g.char = "quote" -> Continue("string", <<"quote">>, g.reader)
          [] OTHER -> Continue("string", <<"backslash", g.char>>, g.reader)
  BY DEF get_string_escape
<1>3. /\ Reading(g.reader) /\ f \in 1 .. Len(text) + 1 /\ f \in Nat
      /\ g.char \in Character /\ text \in Seq(Character) /\ lexeme \in Seq(Character)
      /\ c \in Nat /\ Scanned(mode, f, c, lexeme) /\ Len(text) \in Nat
      /\ g.char # "nul" => c < Len(text) /\ Consumed(g.reader) = c + 1 /\ text[c + 1] = g.char
  BY Here
<1> HIDE DEF c, f
<1>4. /\ f < c /\ text[f] = "quote" /\ Open(f, c) /\ text[c] = "backslash" /\ EvenRun(f, c - 1)
      /\ lexeme = Unquoted(Piece(f, c - 1))
  BY <1>1, <1>3 DEF Scanned
<1>5. /\ c - 1 \in Nat /\ f <= c - 1 /\ (c - 1) + 1 = c /\ (c - 1) + 2 = c + 1
      /\ c + 1 \in Nat /\ f <= c + 1 /\ (c + 1) - 1 = c /\ c > f
  BY <1>3, <1>4
<1>6. CASE g.char = "nul"
  <2>1. Fail(g.reader)
    BY <1>2, <1>6
  <2> QED
    BY <1>1, <1>6, <2>1, StringRunsOut
<1>7. CASE g.char = "quote"
  <2>1. Continue("string", <<"quote">>, g.reader)
    BY <1>2, <1>7
  <2>2. ~EvenRun(f, c)
    BY <1>3, <1>4, <1>5, RunTurnsOdd
  <2>3. ~Closes(f, c + 1)
    BY <1>3, <1>5, <2>2, ClosesRun
  <2>4. text[c + 1] # "backslash"
    BY <1>3, <1>7
  <2>5. Open(f, c + 1) /\ EvenRun(f, c + 1)
    BY <1>3, <1>4, <1>5, <2>3, <2>4, OpenGrows, RunBegins
  <2>6. Escape(c) /\ c \in f .. Len(text) - 1 /\ f \in 1 .. Len(text)
    BY <1>3, <1>4, <1>7 DEF Escape
  <2>7. Unquoted(Piece(f, c + 1)) = Append(lexeme, g.char)
    BY <1>3, <1>4, <1>5, <1>7, <2>6, UnquotedSteps
  <2>8. /\ Append(lexeme, g.char) = lexeme \o <<g.char>> /\ Append(lexeme, g.char) # <<>>
        /\ <<"quote">> \in Seq(Character)
    BY <1>3, <1>7, AppendProperties, AppendIsConcat
  <2>9. Scanned("string", f, c + 1, lexeme \o <<"quote">>)
    BY <1>3, <1>4, <1>5, <1>7, <2>5, <2>7, <2>8 DEF Scanned
  <2>10. "string" \in Modes \ Ended
    BY DEF Modes, Ended
  <2> QED
    BY <1>1, <1>3, <1>7, <2>1, <2>8, <2>9, <2>10, ContinueEffect DEF f
<1>8. CASE g.char \notin {"nul", "quote"}
  <2>1. Continue("string", <<"backslash", g.char>>, g.reader)
    BY <1>2, <1>8
  <2>2. ~Closes(f, c + 1)
    BY <1>3, <1>8 DEF Closes
  <2>3. Open(f, c + 1)
    BY <1>3, <1>4, <2>2, OpenGrows
  <2>4. EvenRun(f, c + 1)
    <3>1. CASE g.char = "backslash"
      <4>1. text[(c - 1) + 1] = "backslash" /\ text[(c - 1) + 2] = "backslash"
        BY <1>3, <1>4, <1>5, <3>1
      <4>2. EvenRun(f, (c - 1) + 2)
        BY <1>3, <1>4, <1>5, <4>1, RunGoesOn
      <4> QED
        BY <1>5, <4>2
    <3>2. CASE g.char # "backslash"
      <4>1. text[c + 1] # "backslash"
        BY <1>3, <1>8, <3>2
      <4> QED
        BY <1>3, <1>5, <4>1, RunBegins
    <3> QED
      BY <3>1, <3>2
  <2>5. /\ ~Escape(c) /\ c \in f .. Len(text) - 1 /\ f \in 1 .. Len(text)
        /\ ~Escape(c - 1) /\ c - 1 \in f .. Len(text) - 1
    BY <1>3, <1>4, <1>5, <1>8 DEF Escape
  <2>6. Unquoted(Piece(f, c)) = Append(lexeme, "backslash")
    BY <1>3, <1>4, <1>5, <2>5, UnquotedSteps
  <2>7. Unquoted(Piece(f, c + 1)) = Append(Append(lexeme, "backslash"), g.char)
    BY <1>3, <1>8, <2>5, <2>6, UnquotedSteps
  <2>8. "backslash" \in Character
    BY DEF Character
  <2>9. /\ Append(Append(lexeme, "backslash"), g.char) = lexeme \o <<"backslash", g.char>>
        /\ Append(Append(lexeme, "backslash"), g.char) # <<>>
        /\ <<"backslash", g.char>> \in Seq(Character)
    <3> DEFINE a == Append(lexeme, "backslash")
    <3>1. a \in Seq(Character) /\ a = lexeme \o <<"backslash">>
      BY <1>3, <2>8, AppendProperties, AppendIsConcat
    <3>2. Append(a, g.char) = a \o <<g.char>> /\ Append(a, g.char) # <<>>
      <4>1. PICK e \in Character : e = g.char
        BY <1>3
      <4> HIDE DEF a
      <4>2. Append(a, e) = a \o <<e>> /\ Append(a, e) # <<>>
        BY <3>1, <4>1, AppendProperties, AppendIsConcat
      <4> QED
        BY <4>1, <4>2
    <3>3. <<"backslash">> \in Seq(Character) /\ <<g.char>> \in Seq(Character)
      BY <1>3, <2>8
    <3>4. (lexeme \o <<"backslash">>) \o <<g.char>> = lexeme \o (<<"backslash">> \o <<g.char>>)
      BY <1>3, <3>3, ConcatAssociative
    <3>5. <<"backslash">> \o <<g.char>> = <<"backslash", g.char>>
      BY Pair
    <3>6. <<"backslash", g.char>> \in Seq(Character)
      BY <1>3, <2>8
    <3> QED
      BY <3>1, <3>2, <3>4, <3>5, <3>6
  <2>10. Scanned("string", f, c + 1, lexeme \o <<"backslash", g.char>>)
    BY <1>3, <1>4, <1>5, <2>3, <2>4, <2>7, <2>9 DEF Scanned
  <2>11. "string" \in Modes \ Ended
    BY DEF Modes, Ended
  <2> QED
    BY <1>1, <1>3, <1>8, <2>1, <2>9, <2>10, <2>11, ContinueEffect DEF f
<1> QED
  BY <1>6, <1>7, <1>8

LEMMA StepReadFails == Inv /\ read_fails => Inv'
<1> SUFFICES ASSUME Inv, read_fails PROVE Inv'
  OBVIOUS
<1> DEFINE t == Token("error", <<>>, reader)
<1>1. mode \notin Ended /\ text' = text /\ Answer("error", <<>>, reader, "closed")
  BY DEF read_fails
<1>2. LongestMatch(t)
  <2>1. t.kind = "error"
    BY DEF Token
  <2> HIDE DEF t
  <2> QED
    BY <2>1 DEF LongestMatch
<1>3. "error" \in Kind /\ <<>> \in Seq(Character) /\ "closed" \in {"token", "end", "closed"}
  BY DEF Kind
<1>4. Reading(reader)
  BY DEF Inv
<1> QED
  BY <1>1, <1>2, <1>3, <1>4, AnswerEffect

-----------------------------------------------------------------------------
(* Theorems *)

LEMMA InitInv == Init => Inv
<1> SUFFICES ASSUME Init PROVE Inv
  OBVIOUS
<1>1. text \in Seq(Character) /\ text \in Text /\ Len(text) \in Nat
  BY TextAssumption DEF Init
<1>2. /\ reader = [data |-> <<>>, offset |-> 0, taken |-> 0]
      /\ reader.data = <<>> /\ reader.offset = 0 /\ reader.taken = 0
  BY DEF Init
<1>3. Reading(reader)
  <2>1. SubSeq(text, 1, 0) = <<>>
    BY SubSeqEmpty
  <2>2. Len(<<>>) = 0 /\ <<>> \in Seq(Character)
    OBVIOUS
  <2>3. reader.taken - Len(reader.data) + 1 = 1
    BY <1>2, <2>2
  <2> QED
    BY <1>1, <1>2, <2>1, <2>2, <2>3, BufferAssumption DEF Reading
<1>4. Consumed(reader) = 0
  BY <1>2 DEF Consumed
<1>5. tokens = <<>> /\ first = 1 /\ mode = "token" /\ lexeme = <<>>
  BY DEF Init
<1>6. TokensOK
  BY <1>5 DEF TokensOK
<1>7. Scanned(mode, first, 0, lexeme)
  BY <1>1, <1>5 DEF Scanned
<1> QED
  BY <1>1, <1>3, <1>4, <1>5, <1>6, <1>7 DEF Inv, Modes

LEMMA NextInv == Inv /\ [Next]_vars => Inv'
<1> SUFFICES ASSUME Inv, [Next]_vars PROVE Inv'
  OBVIOUS
<1>1. CASE UNCHANGED vars
  <2>1. /\ text' = text /\ reader' = reader /\ mode' = mode /\ lexeme' = lexeme
        /\ first' = first /\ tokens' = tokens
    BY <1>1 DEF vars
  <2>2. ASSUME NEW i \in 1 .. Len(tokens)
        PROVE  /\ LongestMatch(tokens[i])' <=> LongestMatch(tokens[i])
               /\ Deserved(tokens[i])' <=> Deserved(tokens[i])
    <3>1. tokens[i]' = tokens[i]
      BY <2>1
    <3> QED
      BY <2>1, <3>1, SameText
  <2>3. TokensOK'
    BY <2>1, <2>2 DEF Inv, TokensOK
  <2> QED
    BY <2>1, <2>3, SameTextStep DEF Inv
<1>2. CASE Next
  BY <1>2, StepNextToken, StepString, StepEscape, StepInteger, StepPrefixed, StepComment,
     StepWhitespace, StepIdentifier, StepReadFails DEF Next, Scan
<1> QED
  BY <1>1, <1>2

\* The invariant above holds of the lexer in every state.
LEMMA AlwaysInv == Spec => []Inv
BY InitInv, NextInv, PTL DEF Spec

\* Every variable keeps its type, and the buffer is always the piece of the
\* file that was read last: no offset leaves it (_lexer_get_char,
\* _lexer_backstep).
THEOREM LexerTypeOK == Spec => []TypeOK
<1>1. Inv => TypeOK
  <2> SUFFICES ASSUME Inv PROVE TypeOK
    OBVIOUS
  <2>1. first \in 1 .. Len(text) + 1
    BY DEF Inv, Scanned
  <2>2. ASSUME NEW i \in 1 .. Len(tokens) PROVE tokens[i].kind \in Kind
    <3>1. tokens[i] \in TokenSet
      BY ElementOfSeq DEF Inv, TokensOK
    <3> QED
      BY <3>1 DEF TokenSet
  <2> QED
    BY <2>1, <2>2 DEF Inv, TypeOK, Reading, Modes
<1> QED
  BY <1>1, AlwaysInv, PTL

\* Every token is the longest piece of the file that has its form and its
\* lexeme is that piece: for every file, every size of the buffer and every
\* size of the reads, and whatever was put back (_get_next_token).
THEOREM EveryTokenIsLongest == Spec => []TokensAreLongestMatches
<1>1. Inv => TokensAreLongestMatches
  BY DEF Inv, TokensOK, TokensAreLongestMatches
<1> QED
  BY <1>1, AlwaysInv, PTL

\* Where no token came out none was to be had, no character is skipped, and
\* the process only dies on an empty string (_get_next_token and the
\* assertions of the functions that it calls).
THEOREM EveryErrorIsDeserved == Spec => []ErrorsAreDeserved
<1>1. Inv => ErrorsAreDeserved
  BY DEF Inv, TokensOK, Deserved, Scanned, ErrorsAreDeserved, ErrorSpans, OnlyEmptyStringAborts
<1> QED
  BY <1>1, AlwaysInv, PTL

=============================================================================
