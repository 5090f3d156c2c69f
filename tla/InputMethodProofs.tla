------------------------- MODULE InputMethodProofs -------------------------
(***************************************************************************)
(* Lemmas about the operators of Segment and Preedit: what the functions   *)
(* of segment.c do to the input, the candidates and the selection, that    *)
(* every function of preedit.c keeps the cursor inside the text and leaves *)
(* at most the candidates of the cursor's segment to be looked up, and     *)
(* what the functions do to the text, the segments' inputs joined.         *)
(*                                                                         *)
(* Then, for any number of contexts, any keymap, any dictionary and any    *)
(* limit on the length of a segment: between two key events every context  *)
(* has a good preedit, and an input method that is off changes none.       *)
(***************************************************************************)
EXTENDS InputMethod, SequenceTheorems, ListProofs

-----------------------------------------------------------------------------
(* Inserting into and removing from a sequence *)

\* Removing one element keeps the others in order.
RemovedAt(S, s, n) ==
  /\ RemoveAt(s, n) \in Seq(S)
  /\ Len(RemoveAt(s, n)) = Len(s) - 1
  /\ \A j \in 1 .. Len(s) - 1 : RemoveAt(s, n)[j] = IF j < n THEN s[j] ELSE s[j + 1]

LEMMA RemoveAtProperties ==
  ASSUME NEW S, NEW s \in Seq(S), NEW n \in 1 .. Len(s)
  PROVE  RemovedAt(S, s, n)
<1> DEFINE front == SubSeq(s, 1, n - 1)
           back  == SubSeq(s, n + 1, Len(s))
<1>1. Len(s) \in Nat /\ \A j \in 1 .. Len(s) : s[j] \in S
  BY LenProperties, ElementOfSeq
<1>2. /\ front \in Seq(S)
      /\ Len(front) = n - 1
      /\ \A j \in 1 .. n - 1 : front[j] = s[j]
  <2>1. \A j \in 1 .. n - 1 : s[j] \in S  BY <1>1
  <2>2. n - 1 \in Int /\ 1 \in Int  OBVIOUS
  <2>3. QED  BY <2>1, <2>2, SubSeqProperties
<1>3. /\ back \in Seq(S)
      /\ Len(back) = Len(s) - n
      /\ \A j \in 1 .. Len(s) - n : back[j] = s[n + j]
  <2>1. \A j \in n + 1 .. Len(s) : s[j] \in S  BY <1>1
  <2>2. n + 1 \in Int /\ Len(s) \in Int  BY <1>1
  <2>3. QED  BY <2>1, <2>2, <1>1, SubSeqProperties
<1> HIDE DEF front, back
<1>4. /\ front \o back \in Seq(S)
      /\ Len(front \o back) = Len(front) + Len(back)
      /\ \A j \in 1 .. Len(front) + Len(back) :
           (front \o back)[j] = IF j <= Len(front) THEN front[j] ELSE back[j - Len(front)]
  BY <1>2, <1>3, ConcatProperties
<1>5. RemoveAt(s, n) = front \o back
  BY DEF RemoveAt, front, back
<1>6. ASSUME NEW j \in 1 .. Len(s) - 1
      PROVE  RemoveAt(s, n)[j] = IF j < n THEN s[j] ELSE s[j + 1]
  BY <1>1, <1>2, <1>3, <1>4, <1>5, <1>6
<1>7. RemoveAt(s, n) \in Seq(S)
  BY <1>4, <1>5
<1>8. Len(RemoveAt(s, n)) = Len(s) - 1
  <2>1. Len(RemoveAt(s, n)) = Len(front) + Len(back)  BY <1>4, <1>5
  <2>2. Len(front) + Len(back) = (n - 1) + (Len(s) - n)  BY <1>2, <1>3
  <2>3. (n - 1) + (Len(s) - n) = Len(s) - 1  BY <1>1
  <2>4. QED  BY <2>1, <2>2, <2>3
<1>9. QED  BY <1>6, <1>7, <1>8 DEF RemovedAt

LEMMA RemoveAtLength ==
  ASSUME NEW S, NEW s \in Seq(S), NEW n \in 1 .. Len(s)
  PROVE  RemoveAt(s, n) \in Seq(S) /\ Len(RemoveAt(s, n)) = Len(s) - 1
<1>1. RemovedAt(S, s, n)  BY RemoveAtProperties
<1>2. QED  BY <1>1 DEF RemovedAt

\* Inserting one element at position n moves the ones from n on by one.
Inserted(S, s, n, e) ==
  /\ InsertAt(s, n, e) \in Seq(S)
  /\ Len(InsertAt(s, n, e)) = Len(s) + 1
  /\ \A j \in 1 .. n - 1 : InsertAt(s, n, e)[j] = s[j]
  /\ InsertAt(s, n, e)[n] = e
  /\ \A j \in n + 1 .. Len(s) + 1 : InsertAt(s, n, e)[j] = s[j - 1]

LEMMA InsertAtProperties ==
  ASSUME NEW S, NEW s \in Seq(S), NEW n \in 1 .. Len(s) + 1, NEW e \in S
  PROVE  Inserted(S, s, n, e)
<1> DEFINE front == SubSeq(s, 1, n - 1)
           back  == SubSeq(s, n, Len(s))
           head  == front \o <<e>>
<1>1. Len(s) \in Nat /\ \A j \in 1 .. Len(s) : s[j] \in S
  BY LenProperties, ElementOfSeq
<1>2. /\ front \in Seq(S)
      /\ Len(front) = n - 1
      /\ \A j \in 1 .. n - 1 : front[j] = s[j]
  <2>1. \A j \in 1 .. n - 1 : s[j] \in S  BY <1>1
  <2>2. n - 1 \in Int /\ 1 \in Int  OBVIOUS
  <2>3. QED  BY <2>1, <2>2, SubSeqProperties
<1>3. /\ back \in Seq(S)
      /\ Len(back) = Len(s) - n + 1
      /\ \A j \in 1 .. Len(s) - n + 1 : back[j] = s[n + j - 1]
  <2>1. \A j \in n .. Len(s) : s[j] \in S  BY <1>1
  <2>2. n \in Int /\ Len(s) \in Int  BY <1>1
  <2>3. QED  BY <2>1, <2>2, <1>1, SubSeqProperties
<1> HIDE DEF front, back
<1>4. <<e>> \in Seq(S) /\ Len(<<e>>) = 1 /\ <<e>>[1] = e
  OBVIOUS
<1>5. /\ head \in Seq(S)
      /\ Len(head) = n
      /\ \A j \in 1 .. n : head[j] = IF j < n THEN s[j] ELSE e
  <2>1. /\ head \in Seq(S)
        /\ Len(head) = Len(front) + Len(<<e>>)
        /\ \A j \in 1 .. Len(front) + Len(<<e>>) :
             head[j] = IF j <= Len(front) THEN front[j] ELSE <<e>>[j - Len(front)]
    BY <1>2, <1>4, ConcatProperties
  <2>2. ASSUME NEW j \in 1 .. n  PROVE head[j] = IF j < n THEN s[j] ELSE e
    <3>1. CASE j < n  BY <3>1, <2>1, <1>2, <1>4
    <3>2. CASE j = n  BY <3>2, <2>1, <1>2, <1>4
    <3>3. n \in Nat  BY <1>1
    <3>4. j < n \/ j = n  BY <3>3
    <3>5. QED  BY <3>1, <3>2, <3>4
  <2>3. Len(head) = n  BY <2>1, <1>2, <1>4
  <2>4. QED  BY <2>1, <2>2, <2>3
<1> HIDE DEF head
<1>6. /\ head \o back \in Seq(S)
      /\ Len(head \o back) = Len(head) + Len(back)
      /\ \A j \in 1 .. Len(head) + Len(back) :
           (head \o back)[j] = IF j <= Len(head) THEN head[j] ELSE back[j - Len(head)]
  BY <1>3, <1>5, ConcatProperties
<1>7. InsertAt(s, n, e) = head \o back
  BY DEF InsertAt, head, front, back
<1>8. ASSUME NEW j \in 1 .. Len(s) + 1
      PROVE  InsertAt(s, n, e)[j] = IF j < n THEN s[j] ELSE IF j = n THEN e ELSE s[j - 1]
  BY <1>1, <1>3, <1>5, <1>6, <1>7, <1>8
<1>9. InsertAt(s, n, e) \in Seq(S)
  BY <1>6, <1>7
<1>10. Len(InsertAt(s, n, e)) = Len(s) + 1
  BY <1>1, <1>3, <1>5, <1>6, <1>7
<1>11. n \in 1 .. Len(s) + 1 /\ Len(s) \in Nat
  BY <1>1
<1>12. InsertAt(s, n, e)[n] = e
  BY <1>8, <1>11
<1>13. \A j \in 1 .. n - 1 : InsertAt(s, n, e)[j] = s[j]
  BY <1>8, <1>11
<1>14. \A j \in n + 1 .. Len(s) + 1 : InsertAt(s, n, e)[j] = s[j - 1]
  BY <1>8, <1>11
<1>15. QED  BY <1>9, <1>10, <1>12, <1>13, <1>14 DEF Inserted

LEMMA InsertAtLength ==
  ASSUME NEW S, NEW s \in Seq(S), NEW n \in 1 .. Len(s) + 1, NEW e \in S
  PROVE  InsertAt(s, n, e) \in Seq(S) /\ Len(InsertAt(s, n, e)) = Len(s) + 1
<1>1. Inserted(S, s, n, e)  BY InsertAtProperties
<1>2. QED  BY <1>1 DEF Inserted

-----------------------------------------------------------------------------
(* The functions of segment.c *)

\* A segment whose input fits; its candidates may be those of an older input.
Bounded(s) == s \in SegmentType /\ Len(s.input) <= MaxLen

\* The dictionaries answer every input that fits into a segment.
LEMMA SuggestType ==
  ASSUME NEW input \in Seq(Char), input # <<>>, Len(input) <= MaxLen
  PROVE  Suggest(input) \in Seq(Value)
<1>1. Len(input) \in 1 .. MaxLen /\ input \in [1 .. Len(input) -> Char]
  BY LenProperties, EmptySeq, MaxLenAssumption
<1>2. QED  BY <1>1, SuggestAssumption

\* The position that is kept is a position of the list.
LEMMA LastPositionType ==
  ASSUME NEW cands \in Seq(Value), NEW v
  PROVE  LastPosition(cands, v) \subseteq 1 .. Len(cands)
BY DEF LastPosition

LEMMA UpdateCandidatesFresh ==
  ASSUME NEW s, Bounded(s)
  PROVE  /\ segment_update_candidates(s) \in SegmentType
         /\ FreshSegment(segment_update_candidates(s))
         /\ segment_update_candidates(s).input = s.input
<1> DEFINE cands == IF s.input = <<>> THEN <<>> ELSE Suggest(s.input)
           kept  == IF HasSelection(s) THEN LastPosition(cands, SelectedValue(s)) ELSE {}
           sel   == IF kept = {} THEN -1 ELSE (CHOOSE i \in kept : TRUE) - 1
<1>1. s \in SegmentType /\ s.input \in Seq(Char) /\ Len(s.input) <= MaxLen
  BY DEF Bounded, SegmentType
<1>2. cands \in Seq(Value)
  BY <1>1, SuggestType
<1>3. kept \subseteq 1 .. Len(cands)
  BY <1>2, LastPositionType
<1>4. segment_update_candidates(s) = [s EXCEPT !.candidates = cands, !.selection = sel]
  BY DEF segment_update_candidates, segment_set_candidates
<1> HIDE DEF cands, kept
<1>5. Len(cands) \in Nat
  BY <1>2, LenProperties
<1>6. sel \in -1 .. Len(cands) - 1
  <2>1. CASE kept = {}  BY <2>1, <1>5
  <2>2. CASE kept # {}
    <3> DEFINE k == CHOOSE i \in kept : TRUE
    <3>1. k \in kept  BY <2>2
    <3>2. sel = k - 1  BY <2>2
    <3> HIDE DEF k, sel
    <3>3. k \in 1 .. Len(cands)  BY <3>1, <1>3
    <3>4. QED  BY <3>2, <3>3, <1>5
  <2>3. QED  BY <2>1, <2>2
<1> HIDE DEF sel
<1>7. sel \in Int
  BY <1>5, <1>6
<1>8. /\ segment_update_candidates(s).input = s.input
      /\ segment_update_candidates(s).candidates = cands
      /\ segment_update_candidates(s).selection = sel
      /\ segment_update_candidates(s) \in SegmentType
  BY <1>1, <1>2, <1>4, <1>7 DEF SegmentType
<1>9. FreshSegment(segment_update_candidates(s))
  BY <1>1, <1>6, <1>8 DEF FreshSegment, cands
<1>10. QED  BY <1>8, <1>9

LEMMA EraseBounded ==
  ASSUME NEW s, Bounded(s), NEW pos \in 0 .. Len(s.input)
  PROVE  LET r == segment_erase(s, pos)
         IN  /\ Bounded(r.seg)
             /\ r.err < 0 => r.seg = s
             /\ r.err >= 0 => /\ pos < Len(s.input)
                              /\ Len(r.seg.input) = Len(s.input) - 1
<1>1. s \in SegmentType /\ s.input \in Seq(Char) /\ Len(s.input) \in Nat
  BY LenProperties DEF Bounded, SegmentType
<1>2. CASE pos >= Len(s.input)
  BY <1>1, <1>2 DEF segment_erase, EOVERFLOW
<1>3. CASE pos < Len(s.input)
  <2> DEFINE rest == RemoveAt(s.input, pos + 1)
  <2>1. pos + 1 \in 1 .. Len(s.input)
    BY <1>1, <1>3
  <2>2. rest \in Seq(Char) /\ Len(rest) = Len(s.input) - 1
    BY <1>1, <2>1, RemoveAtLength
  <2>3. segment_erase(s, pos) = [err |-> 0, seg |-> [s EXCEPT !.input = rest]]
    BY <1>1, <1>3 DEF segment_erase
  <2> HIDE DEF rest
  <2>4. [s EXCEPT !.input = rest] \in SegmentType /\ [s EXCEPT !.input = rest].input = rest
    BY <1>1, <2>2 DEF SegmentType
  <2> DEFINE t == [s EXCEPT !.input = rest]
  <2>5. Bounded(t) /\ Len(t.input) = Len(s.input) - 1
    BY <2>2, <2>4, <1>1, MaxLenAssumption DEF Bounded
  <2>6. segment_erase(s, pos).err = 0 /\ segment_erase(s, pos).seg = t
    BY <2>3
  <2> HIDE DEF t
  <2>7. QED  BY <1>3, <2>5, <2>6
<1>4. QED  BY <1>1, <1>2, <1>3

LEMMA InsertBounded ==
  ASSUME NEW s, Bounded(s), NEW chr \in Char, NEW pos \in 0 .. Len(s.input)
  PROVE  LET r == segment_insert(s, chr, pos)
         IN  /\ Bounded(r.seg)
             /\ r.err \in Int
             /\ r.err < 0 => r.seg = s
             /\ r.err = 0 => Len(r.seg.input) = Len(s.input)
             /\ r.err > 0 => Len(r.seg.input) = Len(s.input) + 1
<1>1. s \in SegmentType /\ s.input \in Seq(Char) /\ Len(s.input) \in Nat /\ MaxLen \in Nat
  BY LenProperties, MaxLenAssumption DEF Bounded, SegmentType
<1> DEFINE c == CombinedAt(s, chr, pos)
<1>2. CASE Len(s.input) >= MaxLen
  BY <1>1, <1>2 DEF segment_insert, EMSGSIZE
<1>3. CASE Len(s.input) < MaxLen /\ c # CharInvalid
  <2> DEFINE new == ReplaceAt(s.input, pos, c)
  <2>1. pos \in 1 .. Len(s.input) /\ c = Combine(s.input[pos], chr)
    BY <1>1, <1>3 DEF CombinedAt
  <2>2. c \in Char
    BY <1>1, <1>3, <2>1, ElementOfSeq, CharAssumption
  <2> HIDE DEF c
  <2>3. new \in Seq(Char) /\ Len(new) = Len(s.input)
    BY <1>1, <2>1, <2>2, ExceptSeq DEF ReplaceAt
  <2>4. segment_insert(s, chr, pos) = [err |-> 0, seg |-> [s EXCEPT !.input = new]]
    BY <1>1, <1>3 DEF segment_insert, c
  <2> HIDE DEF new
  <2>5. [s EXCEPT !.input = new] \in SegmentType /\ [s EXCEPT !.input = new].input = new
    BY <1>1, <2>3 DEF SegmentType
  <2> DEFINE t == [s EXCEPT !.input = new]
  <2>6. Bounded(t) /\ Len(t.input) = Len(s.input)
    BY <2>3, <2>5, <1>1 DEF Bounded
  <2>7. segment_insert(s, chr, pos).err = 0 /\ segment_insert(s, chr, pos).seg = t
    BY <2>4
  <2> HIDE DEF t
  <2>8. QED  BY <2>6, <2>7
<1>4. CASE Len(s.input) < MaxLen /\ c = CharInvalid
  <2> DEFINE new == InsertAt(s.input, pos + 1, chr)
  <2>1. pos + 1 \in 1 .. Len(s.input) + 1
    BY <1>1
  <2>2. new \in Seq(Char) /\ Len(new) = Len(s.input) + 1
    BY <1>1, <2>1, InsertAtLength
  <2>3. segment_insert(s, chr, pos) = [err |-> 1, seg |-> [s EXCEPT !.input = new]]
    BY <1>1, <1>4 DEF segment_insert
  <2> HIDE DEF new
  <2>4. [s EXCEPT !.input = new] \in SegmentType /\ [s EXCEPT !.input = new].input = new
    BY <1>1, <2>2 DEF SegmentType
  <2> DEFINE t == [s EXCEPT !.input = new]
  <2>5. Bounded(t) /\ Len(t.input) = Len(s.input) + 1
    BY <2>2, <2>4, <1>1, <1>4 DEF Bounded
  <2>6. segment_insert(s, chr, pos).err = 1 /\ segment_insert(s, chr, pos).seg = t
    BY <2>3
  <2> HIDE DEF t
  <2>7. QED  BY <2>5, <2>6
<1>5. QED  BY <1>1, <1>2, <1>3, <1>4

\* Moving or setting the selection keeps a fresh segment fresh.
LEMMA MoveCandidateFresh ==
  ASSUME NEW s \in SegmentType, FreshSegment(s), NEW dir \in Int
  PROVE  LET r == segment_move_candidate(s, dir)
         IN  r.seg \in SegmentType /\ FreshSegment(r.seg) /\ r.seg.input = s.input
<1>1. CASE s.candidates = <<>>
  BY <1>1 DEF segment_move_candidate
<1>2. CASE s.candidates # <<>>
  <2> DEFINE sel == (s.selection + dir) % Len(s.candidates)
  <2>1. s.candidates \in Seq(Value) /\ s.selection \in Int
    BY DEF SegmentType
  <2>2. Len(s.candidates) \in Nat \ {0}
    BY <1>2, <2>1, EmptySeq
  <2>3. sel \in 0 .. Len(s.candidates) - 1
    BY <2>1, <2>2
  <2>4. segment_move_candidate(s, dir).seg = [s EXCEPT !.selection = sel]
    BY <1>2 DEF segment_move_candidate
  <2> HIDE DEF sel
  <2>5. QED  BY <2>2, <2>3, <2>4 DEF SegmentType, FreshSegment
<1>3. QED  BY <1>1, <1>2

LEMMA SelectCandidateFresh ==
  ASSUME NEW s \in SegmentType, FreshSegment(s), NEW n \in Int
  PROVE  LET r == segment_select_candidate(s, n)
         IN  r.seg \in SegmentType /\ FreshSegment(r.seg) /\ r.seg.input = s.input
<1>1. Len(s.candidates) \in Nat
  BY LenProperties DEF SegmentType
<1>2. QED
  BY <1>1, SMTT(40) DEF segment_select_candidate, SegmentType, FreshSegment

LEMMA NewSegmentFresh ==
  /\ segment_new \in SegmentType /\ FreshSegment(segment_new)
  /\ \A s : segment_clear(s) \in SegmentType /\ FreshSegment(segment_clear(s))
BY MaxLenAssumption DEF segment_new, segment_clear, SegmentType, FreshSegment

-----------------------------------------------------------------------------
(* The preedit *)

\* A preedit between two key events.
Good(p) ==
  /\ p \in PreeditType
  /\ CursorInPreedit(p)
  /\ \A i \in DOMAIN p.segments : FreshSegment(p.segments[i])

\* A preedit whose current segment was edited: its candidates may be stale.
Draft(p) ==
  /\ p \in PreeditType
  /\ CursorInPreedit(p)
  /\ Len(Current(p).input) <= MaxLen
  /\ \A i \in DOMAIN p.segments : i # p.cursor.segment => FreshSegment(p.segments[i])

-----------------------------------------------------------------------------

\* The facts about lengths and types that every proof below starts from.
LEMMA PreeditFacts ==
  ASSUME NEW p, p \in PreeditType, CursorInPreedit(p)
  PROVE  /\ p.segments \in Seq(SegmentType)
         /\ NumSegments(p) \in Nat \ {0}
         /\ DOMAIN p.segments = 1 .. NumSegments(p)
         /\ p.cursor.segment \in 1 .. NumSegments(p)
         /\ p.cursor.offset \in 0 .. SegLen(p, p.cursor.segment)
         /\ p.cursor \in CursorType
         /\ Current(p) \in SegmentType
         /\ \A i \in 1 .. NumSegments(p) :
              p.segments[i] \in SegmentType /\ SegLen(p, i) \in Nat
<1>1. p.segments \in Seq(SegmentType) /\ p.cursor \in CursorType
  BY DEF PreeditType
<1>2. NumSegments(p) \in Nat \ {0} /\ DOMAIN p.segments = 1 .. NumSegments(p)
  BY <1>1, LenProperties DEF CursorInPreedit, NumSegments
<1>3. \A i \in 1 .. NumSegments(p) : p.segments[i] \in SegmentType
  BY <1>1, ElementOfSeq DEF NumSegments
<1>4. \A i \in 1 .. NumSegments(p) : SegLen(p, i) \in Nat
  BY <1>3, LenProperties DEF SegLen, SegmentType
<1>5. QED  BY <1>1, <1>2, <1>3, <1>4 DEF CursorInPreedit, Current

\* A good preedit is a draft that needs no lookup.
LEMMA GoodIsDraft ==
  ASSUME NEW p, Good(p)
  PROVE  Draft(p) /\ Bounded(Current(p)) /\ FreshSegment(Current(p))
<1>1. p \in PreeditType /\ CursorInPreedit(p)  BY DEF Good
<1>2. FreshSegment(Current(p))
  BY <1>1, PreeditFacts DEF Good, Current
<1>3. QED
  BY <1>1, <1>2, PreeditFacts DEF Good, Draft, Bounded, FreshSegment

\* Putting the cursor at an existing place changes nothing else.
LEMMA AtGood ==
  ASSUME NEW p, Good(p),
         NEW k \in 1 .. NumSegments(p), NEW o \in 0 .. SegLen(p, k)
  PROVE  Good(At(p, k, o)) /\ At(p, k, o).segments = p.segments
<1>1. p \in PreeditType /\ CursorInPreedit(p)  BY DEF Good
<1>2. NumSegments(p) \in Nat \ {0} /\ SegLen(p, k) \in Nat
  BY <1>1, PreeditFacts
<1>3. /\ At(p, k, o).segments = p.segments
      /\ At(p, k, o).cursor = [segment |-> k, offset |-> o]
      /\ At(p, k, o) \in PreeditType
  BY <1>1, <1>2 DEF At, PreeditType, CursorType
<1>4. CursorInPreedit(At(p, k, o))
  BY <1>2, <1>3 DEF CursorInPreedit, NumSegments, SegLen
<1>5. QED  BY <1>3, <1>4 DEF Good

\* The cursor keys move within the text and leave the segments alone.
LEMMA MoveGood ==
  ASSUME NEW p, Good(p), NEW dir \in Directions
  PROVE  Good(preedit_move(p, dir)) /\ preedit_move(p, dir).segments = p.segments
<1>1. p \in PreeditType /\ CursorInPreedit(p)  BY DEF Good
<1> DEFINE n == NumSegments(p)
           c == p.cursor.segment
<1>2. /\ n \in Nat \ {0}
      /\ c \in 1 .. n
      /\ p.cursor.offset \in 0 .. SegLen(p, c)
      /\ \A i \in 1 .. n : SegLen(p, i) \in Nat
  BY <1>1, PreeditFacts
<1> HIDE DEF n, c
<1>3. \A k \in 1 .. n : Good(EndOf(p, k)) /\ EndOf(p, k).segments = p.segments
  BY <1>2, AtGood DEF EndOf, n
<1>4. \A k \in 1 .. n : Good(At(p, k, 0)) /\ At(p, k, 0).segments = p.segments
  BY <1>2, AtGood DEF n
<1>5. Good(MoveRight(p)) /\ MoveRight(p).segments = p.segments
  <2>1. CASE p.cursor.offset < SegLen(p, c)
    BY <2>1, <1>2, AtGood DEF MoveRight, n, c
  <2>2. CASE ~ (p.cursor.offset < SegLen(p, c)) /\ NextNonEmpty(p) = {}
    BY <2>2, <1>2, <1>3 DEF MoveRight, End, n, c
  <2>3. CASE ~ (p.cursor.offset < SegLen(p, c)) /\ NextNonEmpty(p) # {}
    <3> DEFINE k == CHOOSE k \in NextNonEmpty(p) : TRUE
    <3>1. k \in NextNonEmpty(p)  BY <2>3
    <3>2. MoveRight(p) = At(p, k, 1)  BY <2>3 DEF MoveRight, c
    <3> HIDE DEF k
    <3>3. k \in 1 .. n /\ SegLen(p, k) > 0
      BY <3>1, <1>2 DEF NextNonEmpty, n, c
    <3>4. 1 \in 0 .. SegLen(p, k)  BY <3>3, <1>2
    <3>5. QED  BY <3>2, <3>3, <3>4, AtGood DEF n
  <2>4. QED  BY <2>1, <2>2, <2>3
<1>6. Good(MoveLeft(p)) /\ MoveLeft(p).segments = p.segments
  <2>1. CASE p.cursor.offset > 0
    <3>1. p.cursor.offset - 1 \in 0 .. SegLen(p, c)  BY <2>1, <1>2
    <3>2. QED  BY <2>1, <3>1, <1>2, AtGood DEF MoveLeft, n, c
  <2>2. CASE ~ (p.cursor.offset > 0) /\ PrevNonEmpty(p) = {}
    BY <2>2, <1>2, <1>4 DEF MoveLeft, Home
  <2>3. CASE ~ (p.cursor.offset > 0) /\ PrevNonEmpty(p) # {}
    <3> DEFINE k == CHOOSE k \in PrevNonEmpty(p) : TRUE
    <3>1. k \in PrevNonEmpty(p)  BY <2>3
    <3>2. MoveLeft(p) = At(p, k, SegLen(p, k) - 1)  BY <2>3 DEF MoveLeft
    <3> HIDE DEF k
    <3>3. k \in 1 .. n /\ SegLen(p, k) > 0
      BY <3>1, <1>2 DEF PrevNonEmpty, n, c
    <3>4. SegLen(p, k) - 1 \in 0 .. SegLen(p, k)  BY <3>3, <1>2
    <3>5. QED  BY <3>2, <3>3, <3>4, AtGood DEF n
  <2>4. QED  BY <2>1, <2>2, <2>3
<1>7. PrevSegmentIndex(p) \in 1 .. n /\ NextSegmentIndex(p) \in 1 .. n
  BY <1>2 DEF PrevSegmentIndex, NextSegmentIndex, n, c
<1>8. 1 \in 1 .. n /\ n \in 1 .. n
  BY <1>2
<1>9. CASE dir = "left"   BY <1>9, <1>6 DEF preedit_move
<1>10. CASE dir = "right"  BY <1>10, <1>5 DEF preedit_move
<1>11. CASE dir = "prev_segment"  BY <1>11, <1>3, <1>7 DEF preedit_move
<1>12. CASE dir = "next_segment"  BY <1>12, <1>4, <1>7 DEF preedit_move
<1>13. CASE dir = "home"  BY <1>13, <1>4, <1>8 DEF preedit_move, Home
<1>14. CASE dir = "end"   BY <1>14, <1>3, <1>8 DEF preedit_move, End, n
<1>15. CASE dir = "stay"  BY <1>15 DEF preedit_move
<1>16. QED
  BY <1>9, <1>10, <1>11, <1>12, <1>13, <1>14, <1>15 DEF Directions

-----------------------------------------------------------------------------
(* Editing *)

\* Replacing the cursor's segment by a bounded one that the cursor still
\* stands in gives a draft.
LEMMA SetCurrentDraft ==
  ASSUME NEW p, Draft(p), NEW t, Bounded(t), p.cursor.offset <= Len(t.input)
  PROVE  LET q == SetCurrent(p, t)
         IN  /\ Draft(q)
             /\ NumSegments(q) = NumSegments(p)
             /\ q.cursor = p.cursor
             /\ Current(q) = t
             /\ FreshSegment(t) => Good(q)
<1> DEFINE q == SetCurrent(p, t)
           c == p.cursor.segment
           segs == [p.segments EXCEPT ![c] = t]
<1>1. p \in PreeditType /\ CursorInPreedit(p)  BY DEF Draft
<1>2. t \in SegmentType /\ t.input \in Seq(Char) /\ Len(t.input) <= MaxLen
  BY DEF Bounded, SegmentType
<1>3. /\ c \in 1 .. Len(p.segments)
      /\ p.segments \in Seq(SegmentType)
      /\ DOMAIN p.segments = 1 .. Len(p.segments)
      /\ Len(p.segments) \in Nat \ {0}
      /\ p.cursor.offset \in Nat
  BY <1>1, PreeditFacts DEF NumSegments, CursorType
<1>4. /\ segs \in Seq(SegmentType)
      /\ Len(segs) = Len(p.segments)
      /\ segs[c] = t
      /\ \A i \in 1 .. Len(p.segments) : i # c => segs[i] = p.segments[i]
  BY <1>2, <1>3, ExceptSeq
<1>5. DOMAIN segs = 1 .. Len(segs)
  BY <1>4, LenProperties
<1>6. q.segments = segs /\ q.cursor = p.cursor /\ q \in PreeditType
  BY <1>1, <1>4 DEF SetCurrent, PreeditType
<1> HIDE DEF q, segs
<1>7. Len(t.input) \in Nat
  BY <1>2, LenProperties
<1>8. CursorInPreedit(q)
  BY <1>3, <1>4, <1>6, <1>7 DEF CursorInPreedit, NumSegments, SegLen
<1>9. Current(q) = t
  BY <1>4, <1>6 DEF Current
<1>10. \A i \in DOMAIN q.segments : i # q.cursor.segment => FreshSegment(q.segments[i])
  BY <1>3, <1>4, <1>5, <1>6 DEF Draft
<1>11. FreshSegment(t) => \A i \in DOMAIN q.segments : FreshSegment(q.segments[i])
  BY <1>4, <1>6, <1>10
<1>12. Draft(q) /\ (FreshSegment(t) => Good(q))
  BY <1>2, <1>6, <1>8, <1>9, <1>10, <1>11 DEF Draft, Good
<1>13. NumSegments(q) = NumSegments(p)
  BY <1>4, <1>6 DEF NumSegments
<1>14. QED  BY <1>6, <1>9, <1>12, <1>13 DEF q

\* Looking the candidates up makes a draft good again.
LEMMA UpdateGood ==
  ASSUME NEW p, Draft(p)
  PROVE  Good(preedit_update_candidates(p))
<1> DEFINE t == segment_update_candidates(Current(p))
<1>1. p \in PreeditType /\ CursorInPreedit(p) /\ Len(Current(p).input) <= MaxLen
  BY DEF Draft
<1>2. Bounded(Current(p)) /\ p.cursor.offset <= Len(Current(p).input)
  BY <1>1, PreeditFacts DEF Bounded, SegLen, Current
<1>3. t \in SegmentType /\ FreshSegment(t) /\ t.input = Current(p).input
  BY <1>2, UpdateCandidatesFresh
<1> HIDE DEF t
<1>4. Good(SetCurrent(p, t))
  BY <1>1, <1>2, <1>3, SetCurrentDraft DEF Bounded
<1>5. QED  BY <1>4 DEF preedit_update_candidates, t

\* Removing the cursor's segment, stale or not, leaves a good preedit.
LEMMA RemoveSegmentGood ==
  ASSUME NEW p, Draft(p), NumSegments(p) > 1
  PROVE  Good(preedit_remove_segment(p))
<1> DEFINE c == p.cursor.segment
           segs == RemoveAt(p.segments, c)
           q == [p EXCEPT !.segments = segs]
           n == Len(p.segments)
<1>1. p \in PreeditType /\ CursorInPreedit(p)  BY DEF Draft
<1>2. /\ c \in 1 .. n
      /\ p.segments \in Seq(SegmentType)
      /\ DOMAIN p.segments = 1 .. n
      /\ n \in Nat /\ n > 1
  BY <1>1, PreeditFacts DEF NumSegments
<1>3. /\ segs \in Seq(SegmentType)
      /\ Len(segs) = n - 1
      /\ \A j \in 1 .. n - 1 : segs[j] = IF j < c THEN p.segments[j] ELSE p.segments[j + 1]
  <2>1. RemovedAt(SegmentType, p.segments, c)
    BY <1>2, RemoveAtProperties
  <2>2. QED  BY <2>1 DEF RemovedAt
<1>4. DOMAIN segs = 1 .. n - 1
  BY <1>3, LenProperties
<1> HIDE DEF segs
<1>5. q.segments = segs /\ q.cursor = p.cursor /\ q \in PreeditType
  BY <1>1, <1>3 DEF PreeditType
<1>6. preedit_remove_segment(p) =
        IF c > n - 1 THEN At(q, n - 1, SegLen(q, n - 1)) ELSE At(q, c, 0)
  BY <1>3, <1>5 DEF preedit_remove_segment, End, EndOf, NumSegments, segs
<1>7. ASSUME NEW i \in 1 .. n - 1  PROVE FreshSegment(segs[i])
  <2>1. CASE i < c  BY <2>1, <1>2, <1>3, <1>7, SMTT(40) DEF Draft
  <2>2. CASE ~ (i < c)
    <3>1. i + 1 \in 1 .. n /\ i + 1 # c  BY <2>2, <1>2
    <3>2. QED  BY <2>2, <3>1, <1>2, <1>3, SMTT(40) DEF Draft
  <2>3. QED  BY <2>1, <2>2
<1>8. ASSUME NEW i \in 1 .. n - 1  PROVE SegLen(q, i) \in Nat
  <2>1. segs[i] \in SegmentType  BY <1>3, <1>8, ElementOfSeq
  <2>2. segs[i].input \in Seq(Char)  BY <2>1 DEF SegmentType
  <2>3. QED  BY <2>2, <1>5, LenProperties DEF SegLen
<1> HIDE DEF q
<1>9. ASSUME NEW k \in 1 .. n - 1, NEW o \in 0 .. SegLen(q, k)
      PROVE  Good(At(q, k, o))
  <2>1. /\ At(q, k, o).segments = segs
        /\ At(q, k, o).cursor = [segment |-> k, offset |-> o]
        /\ At(q, k, o) \in PreeditType
    BY <1>2, <1>5, <1>8, <1>9 DEF At, PreeditType, CursorType
  <2>2. CursorInPreedit(At(q, k, o))
    BY <2>1, <1>2, <1>3, <1>5, <1>9 DEF CursorInPreedit, NumSegments, SegLen
  <2>3. QED  BY <2>1, <2>2, <1>4, <1>7 DEF Good
<1>10. n - 1 \in 1 .. n - 1 /\ (~ (c > n - 1) => c \in 1 .. n - 1)
  BY <1>2
<1>11. CASE c > n - 1
  BY <1>11, <1>6, <1>8, <1>9, <1>10
<1>12. CASE ~ (c > n - 1)
  BY <1>12, <1>6, <1>8, <1>9, <1>10
<1>13. QED  BY <1>11, <1>12

\* Backspace and Delete leave a good preedit when they fail, and when they
\* succeed one in which only the current segment waits for its candidates.
LEMMA EraseDraft ==
  ASSUME NEW p, Good(p), NEW dir \in Directions
  PROVE  LET r == preedit_erase(p, dir)
         IN  (r.err # 0 => Good(r.preedit)) /\ Draft(r.preedit)
<1> DEFINE m == preedit_move(p, dir)
           r == segment_erase(Current(m), m.cursor.offset)
           e == SetCurrent(m, r.seg)
<1>1. Good(m) /\ m.segments = p.segments
  BY MoveGood
<1>2. Draft(m) /\ Bounded(Current(m))
  BY <1>1, GoodIsDraft
<1>3. m.cursor.offset \in 0 .. Len(Current(m).input)
  BY <1>1, PreeditFacts DEF Good, SegLen, Current
<1>4. /\ Bounded(r.seg)
      /\ r.err >= 0 => /\ m.cursor.offset < Len(Current(m).input)
                       /\ Len(r.seg.input) = Len(Current(m).input) - 1
  BY <1>2, <1>3, EraseBounded
<1>5. r.err \in {EOVERFLOW, 0}
  BY DEF segment_erase
<1>6. Len(Current(m).input) \in Nat
  BY <1>2, LenProperties DEF Bounded, SegmentType
<1> HIDE DEF m, r
<1>7. CASE r.err < 0
  <2>1. preedit_erase(p, dir).preedit = m
    BY <1>7 DEF preedit_erase, m, r
  <2>2. QED  BY <2>1, <1>1, <1>2
<1>8. CASE ~ (r.err < 0)
  <2>1. r.err = 0  BY <1>5, <1>8 DEF EOVERFLOW
  <2>2. m.cursor.offset <= Len(r.seg.input)
    BY <2>1, <1>3, <1>4, <1>6
  <2>3. Draft(e) /\ NumSegments(e) = NumSegments(m)
    BY <2>2, <1>2, <1>4, SetCurrentDraft
  <2>4. NumSegments(m) = NumSegments(p)
    BY <1>1 DEF NumSegments
  <2> HIDE DEF e
  <2>5. /\ preedit_erase(p, dir).err = 0
        /\ preedit_erase(p, dir).preedit =
             IF r.seg.input = <<>> /\ NumSegments(p) > 1
             THEN preedit_remove_segment(e) ELSE e
    BY <1>8 DEF preedit_erase, m, r, e
  <2>6. NumSegments(p) > 1 => Draft(preedit_remove_segment(e))
    BY <2>3, <2>4, RemoveSegmentGood, GoodIsDraft
  <2>7. QED  BY <2>3, <2>5, <2>6
<1>9. QED  BY <1>7, <1>8

\* Where the elements are after an insertion.
LEMMA InsertedElements ==
  ASSUME NEW S, NEW t \in Seq(S), NEW k \in 1 .. Len(t) + 1, NEW e \in S
  PROVE  /\ \A j \in 1 .. k - 1 : InsertAt(t, k, e)[j] = t[j]
         /\ InsertAt(t, k, e)[k] = e
         /\ \A j \in k + 1 .. Len(t) + 1 : InsertAt(t, k, e)[j] = t[j - 1]
<1>1. Inserted(S, t, k, e)  BY InsertAtProperties
<1>2. QED  BY <1>1 DEF Inserted

\* Adding an empty segment behind the cursor's changes no other.
LEMMA InsertSegmentGood ==
  ASSUME NEW p, Good(p)
  PROVE  LET q == preedit_insert_segment(p)
         IN  /\ Good(q)
             /\ q.cursor = p.cursor
             /\ NumSegments(q) = NumSegments(p) + 1
             /\ SegLen(q, p.cursor.segment + 1) = 0
             /\ p.cursor.segment + 1 \in 1 .. NumSegments(q)
<1> DEFINE c == p.cursor.segment
           k == c + 1
           t == p.segments
           n == Len(t)
           e == segment_new
           segs == InsertAt(t, k, e)
           q == [p EXCEPT !.segments = segs]
<1>1. p \in PreeditType /\ CursorInPreedit(p)  BY DEF Good
<1>2. /\ c \in 1 .. n
      /\ t \in Seq(SegmentType)
      /\ DOMAIN t = 1 .. n
      /\ n \in Nat
      /\ p.cursor.offset \in 0 .. SegLen(p, c)
      /\ \A i \in 1 .. n : FreshSegment(t[i])
  BY <1>1, PreeditFacts DEF NumSegments, Good
<1>3. k = c + 1 /\ k \in 1 .. n + 1 /\ c \in 1 .. k - 1
  BY <1>2
<1>4. e \in SegmentType /\ FreshSegment(e) /\ e.input = <<>>
  BY NewSegmentFresh DEF segment_new
<1>5. q = preedit_insert_segment(p)
  BY DEF preedit_insert_segment
<1>6. n = Len(t) /\ t = p.segments
  OBVIOUS
<1> HIDE DEF c, k, e, t, n
<1>7. segs \in Seq(SegmentType) /\ Len(segs) = n + 1
  BY <1>6, <1>2, <1>3, <1>4, InsertAtLength
<1>8. /\ \A j \in 1 .. k - 1 : segs[j] = t[j]
      /\ segs[k] = e
      /\ \A j \in k + 1 .. n + 1 : segs[j] = t[j - 1]
  <2>1. t \in Seq(SegmentType) /\ k \in 1 .. Len(t) + 1 /\ e \in SegmentType
    BY <1>6, <1>2, <1>3, <1>4
  <2>2. QED  BY <2>1, <1>6, InsertedElements
<1>9. DOMAIN segs = 1 .. n + 1
  BY <1>7, LenProperties
<1> HIDE DEF segs
<1>10. q.segments = segs /\ q.cursor = p.cursor /\ q \in PreeditType
  BY <1>1, <1>7 DEF PreeditType
<1>11. ASSUME NEW i \in 1 .. n + 1  PROVE FreshSegment(segs[i])
  <2>1. CASE i \in 1 .. k - 1
    <3>1. i \in 1 .. n  BY <2>1, <1>2, <1>3
    <3>2. QED  BY <3>1, <2>1, <1>2, <1>8
  <2>2. CASE i = k
    BY <2>2, <1>4, <1>8
  <2>3. CASE i \in k + 1 .. n + 1
    <3>1. i - 1 \in 1 .. n  BY <2>3, <1>2, <1>3
    <3>2. QED  BY <3>1, <2>3, <1>2, <1>8
  <2>4. i \in 1 .. k - 1 \/ i = k \/ i \in k + 1 .. n + 1  BY <1>2, <1>3
  <2>5. QED  BY <2>1, <2>2, <2>3, <2>4
<1> HIDE DEF q
<1>12. segs[c] = t[c]
  BY <1>3, <1>8
<1>13. SegLen(q, k) = 0
  BY <1>4, <1>8, <1>10 DEF SegLen
<1>14. c \in 1 .. n + 1
  BY <1>2
<1>15. CursorInPreedit(q)
  BY <1>6, <1>2, <1>7, <1>10, <1>12, <1>14 DEF CursorInPreedit, NumSegments, SegLen, c
<1>16. Good(q)
  BY <1>9, <1>10, <1>11, <1>15 DEF Good
<1>17. NumSegments(q) = NumSegments(p) + 1 /\ k \in 1 .. NumSegments(q)
  BY <1>6, <1>3, <1>7, <1>10 DEF NumSegments
<1>18. QED  BY <1>5, <1>10, <1>13, <1>16, <1>17 DEF c, k

\* Typing a character: as for erasing.
LEMMA InsertDraft ==
  ASSUME NEW p, Good(p), NEW chr \in Char
  PROVE  LET r == preedit_insert(p, chr)
         IN  (r.err # 0 => Good(r.preedit)) /\ Draft(r.preedit)
<1> DEFINE s == insert_segment_if_needed(p, chr)
           r == segment_insert(Current(s), chr, s.cursor.offset)
           e == SetCurrent(s, r.seg)
<1>1. Good(s)
  <2>1. CASE NeedsSegment(p, chr)
    BY <2>1, InsertSegmentGood, AtGood DEF insert_segment_if_needed
  <2>2. CASE ~ NeedsSegment(p, chr)
    BY <2>2 DEF insert_segment_if_needed
  <2>3. QED  BY <2>1, <2>2
<1>2. Draft(s) /\ Bounded(Current(s))
  BY <1>1, GoodIsDraft
<1>3. s.cursor.offset \in 0 .. Len(Current(s).input)
  BY <1>1, PreeditFacts DEF Good, SegLen, Current
<1>4. /\ Bounded(r.seg)
      /\ r.err \in Int
      /\ r.err = 0 => Len(r.seg.input) = Len(Current(s).input)
      /\ r.err > 0 => Len(r.seg.input) = Len(Current(s).input) + 1
  BY <1>2, <1>3, InsertBounded
<1>5. Len(Current(s).input) \in Nat
  BY <1>2, LenProperties DEF Bounded, SegmentType
<1> HIDE DEF s, r
<1>6. CASE r.err < 0
  <2>1. preedit_insert(p, chr).preedit = s
    BY <1>6 DEF preedit_insert, s, r
  <2>2. QED  BY <2>1, <1>1, <1>2
<1>7. CASE ~ (r.err < 0)
  <2>1. s.cursor.offset <= Len(r.seg.input)
    BY <1>3, <1>4, <1>5, <1>7
  <2>2. Draft(e) /\ e.cursor = s.cursor /\ Current(e) = r.seg
    BY <2>1, <1>2, <1>4, SetCurrentDraft
  <2> HIDE DEF e
  <2>3. /\ preedit_insert(p, chr).err = 0
        /\ preedit_insert(p, chr).preedit = IF r.err > 0 THEN MoveRight(e) ELSE e
    BY <1>7 DEF preedit_insert, s, r, e
  <2>4. ASSUME r.err > 0  PROVE Draft(MoveRight(e))
    <3>1. e.cursor.offset < Len(Current(e).input)
      BY <2>2, <2>4, <1>3, <1>4, <1>5
    <3> DEFINE q == At(e, e.cursor.segment, e.cursor.offset + 1)
    <3>2. MoveRight(e) = q
      BY <3>1 DEF MoveRight, SegLen, Current
    <3>3. e \in PreeditType /\ CursorInPreedit(e)
      BY <2>2 DEF Draft
    <3>4. /\ q.segments = e.segments
          /\ q.cursor = [segment |-> e.cursor.segment, offset |-> e.cursor.offset + 1]
          /\ q \in PreeditType
      BY <3>3, PreeditFacts DEF At, PreeditType, CursorType
    <3> HIDE DEF q
    <3>5. CursorInPreedit(q) /\ Current(q) = Current(e)
      BY <3>1, <3>3, <3>4, PreeditFacts, SMTT(40) DEF CursorInPreedit, NumSegments, SegLen, Current
    <3>6. QED  BY <3>2, <3>4, <3>5, <2>2 DEF Draft
  <2>5. QED  BY <2>2, <2>3, <2>4, <1>4
<1>8. QED  BY <1>6, <1>7

\* Walking through the candidates, or picking one by its number.
LEMMA CandidateGood ==
  ASSUME NEW p, Good(p), NEW n \in Int
  PROVE  /\ Good(preedit_move_candidate(p, n).preedit)
         /\ Good(preedit_select_candidate(p, n).preedit)
<1>1. Draft(p) /\ Bounded(Current(p)) /\ FreshSegment(Current(p))
  BY GoodIsDraft
<1>2. p.cursor.offset <= Len(Current(p).input)
  BY PreeditFacts DEF Good, SegLen, Current
<1>3. ASSUME NEW t \in SegmentType, FreshSegment(t), t.input = Current(p).input
      PROVE  Good(SetCurrent(p, t))
  BY <1>1, <1>2, <1>3, SetCurrentDraft DEF Bounded
<1>4. Current(p) \in SegmentType
  BY <1>1 DEF Bounded
<1>5. QED
  BY <1>1, <1>3, <1>4, MoveCandidateFresh, SelectCandidateFresh
     DEF preedit_move_candidate, preedit_select_candidate

\* A new preedit, and a cleared one, have one empty segment.
LEMMA OneEmptySegmentGood ==
  ASSUME NEW t \in SegmentType, FreshSegment(t), t.input = <<>>
  PROVE  Good([segments |-> <<t>>, cursor |-> [segment |-> 1, offset |-> 0]])
<1> DEFINE q == [segments |-> <<t>>, cursor |-> [segment |-> 1, offset |-> 0]]
<1>1. q \in PreeditType
  BY DEF PreeditType, CursorType
<1>2. Len(q.segments) = 1 /\ DOMAIN q.segments = 1 .. 1 /\ q.segments[1] = t
  OBVIOUS
<1>3. CursorInPreedit(q)
  BY <1>2 DEF CursorInPreedit, NumSegments, SegLen
<1>4. \A i \in DOMAIN q.segments : FreshSegment(q.segments[i])
  BY <1>2
<1>5. QED  BY <1>1, <1>3, <1>4 DEF Good

LEMMA NewAndClearGood ==
  Good(preedit_new) /\ \A p : Good(preedit_clear(p))
<1>1. Good(preedit_new)
  BY OneEmptySegmentGood, NewSegmentFresh DEF preedit_new, segment_new
<1>2. ASSUME NEW p  PROVE Good(preedit_clear(p))
  <2> DEFINE t == segment_clear(p.segments[1])
  <2>1. t \in SegmentType /\ FreshSegment(t)
    BY NewSegmentFresh
  <2>2. t.input = <<>>
    BY DEF segment_clear
  <2> HIDE DEF t
  <2>3. QED  BY <2>1, <2>2, OneEmptySegmentGood DEF preedit_clear, t
<1>3. QED  BY <1>1, <1>2

-----------------------------------------------------------------------------
(* Joining sequences *)

\* What the recursive function of Concat is.
Joining(u, f, n) == u = [i \in 0 .. n |-> IF i = 0 THEN <<>> ELSE u[i - 1] \o f[i]]

LEMMA JoinsExists == ASSUME NEW f PROVE \A n \in Nat : \E u : Joining(u, f, n)
<1> DEFINE P == {n \in Nat : \E u : Joining(u, f, n)}
<1>1. 0 \in P
  <2>1. Joining([i \in 0 .. 0 |-> <<>>], f, 0)
    BY DEF Joining
  <2> QED
    BY <2>1
<1>2. ASSUME NEW n \in Nat, n \in P PROVE n + 1 \in P
  <2>1. PICK u : Joining(u, f, n)
    BY <1>2
  <2> DEFINE last == u[n] \o f[n + 1]
  <2> HIDE DEF last
  <2>2. PICK v : v = [i \in 0 .. n + 1 |-> IF i = n + 1 THEN last ELSE u[i]]
    OBVIOUS
  <2>3. \A i \in 0 .. n : v[i] = u[i] /\ u[i] = IF i = 0 THEN <<>> ELSE u[i - 1] \o f[i]
    <3>1. \A i \in 0 .. n : v[i] = u[i]
      BY <2>2
    <3>2. \A i \in 0 .. n : u[i] = IF i = 0 THEN <<>> ELSE u[i - 1] \o f[i]
      BY <2>1, Zenon DEF Joining
    <3> QED
      BY <3>1, <3>2
  <2>4. v[n + 1] = u[n] \o f[n + 1]
    <3>1. v[n + 1] = last
      BY <2>2
    <3> QED
      BY <3>1 DEF last
  <2>5. ASSUME NEW i \in 0 .. n + 1
        PROVE  v[i] = IF i = 0 THEN <<>> ELSE v[i - 1] \o f[i]
    <3>1. CASE i \in 0 .. n
      <4>1. CASE i = 0
        BY <2>3, <3>1, <4>1
      <4>2. CASE i # 0
        <5>1. v[i - 1] = u[i - 1]
          BY <2>3, <3>1, <4>2
        <5>2. v[i] = u[i - 1] \o f[i]
          BY <2>3, <3>1, <4>2, Zenon
        <5> QED
          BY <4>2, <5>1, <5>2
      <4> QED
        BY <4>1, <4>2
    <3>2. CASE i = n + 1
      <4>1. n \in 0 .. n /\ i - 1 = n /\ i # 0
        BY <3>2
      <4>2. v[n] = u[n]
        BY <2>3, <4>1
      <4> QED
        BY <2>4, <3>2, <4>1, <4>2
    <3> QED
      BY <3>1, <3>2
  <2>6. v = [i \in 0 .. n + 1 |-> v[i]]
    BY <2>2
  <2>7. Joining(v, f, n + 1)
    BY <2>5, <2>6 DEF Joining
  <2> QED
    BY <2>7
<1> HIDE DEF P
<1>3. Nat \subseteq P
  BY <1>1, <1>2, NatInduct
<1> QED
  BY <1>3 DEF P

LEMMA ConcatJoins ==
  ASSUME NEW f, NEW n \in Nat PROVE \E u : Joining(u, f, n) /\ Concat(f, n) = u[n]
<1> DEFINE U == CHOOSE u : u = [i \in 0 .. n |-> IF i = 0 THEN <<>> ELSE u[i - 1] \o f[i]]
<1>1. Concat(f, n) = U[n]
  BY DEF Concat
<1>2. \E u : u = [i \in 0 .. n |-> IF i = 0 THEN <<>> ELSE u[i - 1] \o f[i]]
  BY JoinsExists DEF Joining
<1>3. U = [i \in 0 .. n |-> IF i = 0 THEN <<>> ELSE U[i - 1] \o f[i]]
  BY <1>2
<1> HIDE DEF U
<1>4. Joining(U, f, n)
  BY <1>3 DEF Joining
<1> QED
  BY <1>1, <1>4

LEMMA JoinsStep ==
  ASSUME NEW u, NEW f, NEW n \in Nat, Joining(u, f, n)
  PROVE  u[0] = <<>> /\ \A i \in 1 .. n : u[i] = u[i - 1] \o f[i]
<1>1. \A i \in 0 .. n : u[i] = IF i = 0 THEN <<>> ELSE u[i - 1] \o f[i]
  BY Zenon DEF Joining
<1>2. 0 \in 0 .. n
  OBVIOUS
<1>3. ASSUME NEW i \in 1 .. n PROVE u[i] = u[i - 1] \o f[i]
  <2>1. i \in 0 .. n
    OBVIOUS
  <2>2. i # 0
    OBVIOUS
  <2>3. u[i] = IF i = 0 THEN <<>> ELSE u[i - 1] \o f[i]
    BY <1>1, <2>1, Zenon
  <2> QED
    BY <2>2, <2>3, Zenon
<1> QED
  BY <1>1, <1>2, <1>3, Zenon

LEMMA ConcatZero == ASSUME NEW f PROVE Concat(f, 0) = <<>>
<1>1. PICK u : Joining(u, f, 0) /\ Concat(f, 0) = u[0]
  BY ConcatJoins
<1> QED
  BY <1>1 DEF Joining

\* Functions that agree up to n are joined alike.
LEMMA ConcatStep ==
  ASSUME NEW f, NEW g, NEW n \in Nat, \A i \in 1 .. n : f[i] = g[i]
  PROVE  Concat(g, n + 1) = Concat(f, n) \o g[n + 1]
<1>1. PICK u : Joining(u, f, n) /\ Concat(f, n) = u[n]
  BY ConcatJoins
<1>2. PICK v : Joining(v, g, n + 1) /\ Concat(g, n + 1) = v[n + 1]
  BY ConcatJoins
<1>3. u[0] = <<>> /\ \A i \in 1 .. n : u[i] = u[i - 1] \o f[i]
  BY <1>1, JoinsStep
<1>4. v[0] = <<>> /\ \A i \in 1 .. n + 1 : v[i] = v[i - 1] \o g[i]
  <2>1. n + 1 \in Nat
    OBVIOUS
  <2> QED
    BY <1>2, <2>1, JoinsStep, Zenon
<1> DEFINE P == {i \in Nat : i <= n => u[i] = v[i]}
<1>5. 0 \in P
  BY <1>3, <1>4
<1>6. ASSUME NEW i \in Nat, i \in P PROVE i + 1 \in P
  <2> SUFFICES ASSUME i + 1 <= n PROVE u[i + 1] = v[i + 1]
    OBVIOUS
  <2>1. i + 1 \in 1 .. n
    OBVIOUS
  <2>2. i + 1 \in 1 .. n + 1
    OBVIOUS
  <2>3. u[i + 1] = u[(i + 1) - 1] \o f[i + 1]
    BY <1>3, <2>1, Zenon
  <2>4. v[i + 1] = v[(i + 1) - 1] \o g[i + 1]
    BY <1>4, <2>2, Zenon
  <2>5. (i + 1) - 1 = i
    OBVIOUS
  <2>6. u[i] = v[i] /\ f[i + 1] = g[i + 1]
    BY <1>6, <2>1
  <2> QED
    BY <2>3, <2>4, <2>5, <2>6
<1> HIDE DEF P
<1>7. n \in P
  BY <1>5, <1>6, NatInduct
<1>8. u[n] = v[n]
  BY <1>7 DEF P
<1>9. v[n + 1] = v[n] \o g[n + 1]
  <2>1. n + 1 \in 1 .. n + 1
    OBVIOUS
  <2>2. v[n + 1] = v[(n + 1) - 1] \o g[n + 1]
    BY <1>4, <2>1, Zenon
  <2>3. (n + 1) - 1 = n
    OBVIOUS
  <2> QED
    BY <2>2, <2>3
<1> QED
  BY <1>1, <1>2, <1>8, <1>9

LEMMA ConcatAgree ==
  ASSUME NEW f, NEW g, NEW n \in Nat, \A i \in 1 .. n : f[i] = g[i]
  PROVE  Concat(f, n) = Concat(g, n)
<1>1. CASE n = 0
  BY <1>1, ConcatZero
<1>2. CASE n # 0
  <2>1. n - 1 \in Nat /\ n - 1 + 1 = n /\ n \in 1 .. n /\ \A i \in 1 .. n - 1 : i \in 1 .. n
    BY <1>2
  <2>2. Concat(f, n) = Concat(f, n - 1) \o f[n] /\ Concat(g, n) = Concat(f, n - 1) \o g[n]
    <3>1. Concat(f, n - 1 + 1) = Concat(f, n - 1) \o f[n - 1 + 1]
      BY <2>1, ConcatStep
    <3>2. Concat(g, n - 1 + 1) = Concat(f, n - 1) \o g[n - 1 + 1]
      BY <2>1, ConcatStep
    <3> QED
      BY <2>1, <3>1, <3>2
  <2> QED
    BY <2>1, <2>2
<1> QED
  BY <1>1, <1>2

LEMMA ConcatType ==
  ASSUME NEW S, NEW f, NEW m \in Nat, \A i \in 1 .. m : f[i] \in Seq(S)
  PROVE  \A n \in 0 .. m : Concat(f, n) \in Seq(S)
<1> DEFINE P == {n \in Nat : n <= m => Concat(f, n) \in Seq(S)}
<1>1. 0 \in P
  <2>1. Concat(f, 0) \in Seq(S)
    BY ConcatZero, EmptySeq
  <2> QED
    BY <2>1
<1>2. ASSUME NEW n \in Nat, n \in P PROVE n + 1 \in P
  <2> SUFFICES ASSUME n + 1 <= m PROVE Concat(f, n + 1) \in Seq(S)
    OBVIOUS
  <2>1. Concat(f, n) \in Seq(S) /\ f[n + 1] \in Seq(S)
    BY <1>2
  <2>2. Concat(f, n + 1) = Concat(f, n) \o f[n + 1]
    BY ConcatStep
  <2> QED
    BY <2>1, <2>2, ConcatProperties
<1> HIDE DEF P
<1>3. Nat \subseteq P
  BY <1>1, <1>2, NatInduct
<1> QED
  BY <1>3 DEF P

LEMMA ConcatNext ==
  ASSUME NEW f, NEW n \in Nat PROVE Concat(f, n + 1) = Concat(f, n) \o f[n + 1]
BY ConcatStep

\* Two functions that differ in one place only.
SameElsewhere(f, g, n, k) == \A i \in 1 .. n : i # k => g[i] = f[i]

JoinedAround(S, f, g, n, k) ==
  \E r \in Seq(S) : /\ Concat(f, n) = (Concat(f, k - 1) \o f[k]) \o r
                    /\ Concat(g, n) = (Concat(f, k - 1) \o g[k]) \o r

LEMMA ConcatAround ==
  ASSUME NEW S, NEW n \in Nat, NEW f \in [1 .. n -> Seq(S)], NEW g \in [1 .. n -> Seq(S)],
         NEW k \in 1 .. n, SameElsewhere(f, g, n, k)
  PROVE  JoinedAround(S, f, g, n, k)
<1> DEFINE b == Concat(f, k - 1)
           Split(m, r) == /\ Concat(f, m) = (b \o f[k]) \o r
                          /\ Concat(g, m) = (b \o g[k]) \o r
           P == {m \in Nat : k + m <= n => \E r \in Seq(S) : Split(k + m, r)}
<1>1. k \in Nat /\ k - 1 \in Nat /\ k - 1 \in 0 .. n /\ (k - 1) + 1 = k
  OBVIOUS
<1>2. b \in Seq(S) /\ f[k] \in Seq(S) /\ g[k] \in Seq(S)
  BY <1>1, ConcatType
<1>3. Concat(g, k - 1) = b
  <2>1. \A i \in 1 .. k - 1 : f[i] = g[i]
    BY DEF SameElsewhere
  <2> QED
    BY <1>1, <2>1, ConcatAgree
<1>4. Concat(f, k) = b \o f[k] /\ Concat(g, k) = b \o g[k]
  <2>1. Concat(f, (k - 1) + 1) = b \o f[(k - 1) + 1]
    BY <1>1, ConcatNext
  <2>2. Concat(g, (k - 1) + 1) = b \o g[(k - 1) + 1]
    BY <1>1, <1>3, ConcatNext
  <2> QED
    BY <1>1, <2>1, <2>2
<1> HIDE DEF b
<1>5. 0 \in P
  <2>1. b \o f[k] \in Seq(S) /\ b \o g[k] \in Seq(S)
    BY <1>2, ConcatProperties
  <2>2. Split(k, <<>>)
    BY <1>4, <2>1, ConcatEmptySeq
  <2>3. <<>> \in Seq(S) /\ k + 0 = k
    BY EmptySeq
  <2> HIDE DEF Split
  <2>4. \E r \in Seq(S) : Split(k + 0, r)
    BY <2>2, <2>3
  <2> QED
    BY <2>4
<1>6. ASSUME NEW m \in Nat, m \in P PROVE m + 1 \in P
  <2> HIDE DEF Split
  <2> SUFFICES ASSUME k + (m + 1) <= n PROVE \E r \in Seq(S) : Split(k + (m + 1), r)
    OBVIOUS
  <2>1. k + m \in Nat /\ k + m <= n /\ k + (m + 1) = (k + m) + 1 /\ (k + m) + 1 \in 1 .. n
    BY <1>1
  <2>2. PICK r \in Seq(S) : Split(k + m, r)
    BY <1>6, <2>1
  <2> DEFINE x == f[(k + m) + 1]
  <2>3. x \in Seq(S) /\ g[(k + m) + 1] = x
    BY <2>1 DEF SameElsewhere
  <2>4. /\ Concat(f, (k + m) + 1) = Concat(f, k + m) \o x
        /\ Concat(g, (k + m) + 1) = Concat(g, k + m) \o g[(k + m) + 1]
    BY <2>1, ConcatNext
  <2> HIDE DEF x
  <2>5. b \o f[k] \in Seq(S) /\ b \o g[k] \in Seq(S) /\ r \o x \in Seq(S)
    BY <1>2, <2>3, ConcatProperties
  <2>6. \A y \in Seq(S) : (y \o r) \o x = y \o (r \o x)
    <3> SUFFICES ASSUME NEW y \in Seq(S) PROVE (y \o r) \o x = y \o (r \o x)
      OBVIOUS
    <3>1. r \in Seq(S) /\ x \in Seq(S)
      BY <2>2, <2>3
    <3> QED
      BY <3>1, ConcatAssociative, SMTT(40)
  <2>7. Split((k + m) + 1, r \o x)
    BY <2>2, <2>3, <2>4, <2>5, <2>6 DEF Split
  <2> QED
    BY <2>1, <2>5, <2>7
<1>7. n - k \in P /\ k + (n - k) = n /\ n - k \in Nat
  <2> HIDE DEF P
  <2>1. Nat \subseteq P
    BY <1>5, <1>6, NatInduct
  <2> QED
    BY <1>1, <2>1
<1>8. \E r \in Seq(S) : Split(n, r)
  <2> HIDE DEF Split
  <2>1. k + (n - k) <= n
    BY <1>7
  <2>2. \E r \in Seq(S) : Split(k + (n - k), r)
    BY <1>7, <2>1
  <2> QED
    BY <1>7, <2>2
<1> QED
  BY <1>8 DEF b, JoinedAround

LEMMA ConcatSplit ==
  ASSUME NEW S, NEW n \in Nat, NEW f \in [1 .. n -> Seq(S)], NEW k \in 1 .. n
  PROVE  \E r \in Seq(S) : Concat(f, n) = (Concat(f, k - 1) \o f[k]) \o r
<1>1. SameElsewhere(f, f, n, k)
  BY DEF SameElsewhere
<1>2. JoinedAround(S, f, f, n, k)
  BY <1>1, ConcatAround
<1> QED
  BY <1>2 DEF JoinedAround

\* Empty sequences add nothing.
NothingFrom(f, a, b) == \A i \in a + 1 .. b : f[i] = <<>>

LEMMA ConcatSkip ==
  ASSUME NEW S, NEW n \in Nat, NEW f \in [1 .. n -> Seq(S)], NEW a \in 0 .. n, NEW b \in a .. n,
         NothingFrom(f, a, b)
  PROVE  Concat(f, b) = Concat(f, a)
<1> DEFINE P == {m \in Nat : a + m <= b => Concat(f, a + m) = Concat(f, a)}
<1>1. 0 \in P
  OBVIOUS
<1>2. ASSUME NEW m \in Nat, m \in P PROVE m + 1 \in P
  <2> SUFFICES ASSUME a + (m + 1) <= b PROVE Concat(f, a + (m + 1)) = Concat(f, a)
    OBVIOUS
  <2>1. a + m \in Nat /\ a + (m + 1) = (a + m) + 1 /\ (a + m) + 1 \in a + 1 .. b
    OBVIOUS
  <2>2. Concat(f, (a + m) + 1) = Concat(f, a + m) \o <<>>
    BY <2>1, ConcatNext DEF NothingFrom
  <2>3. Concat(f, a + m) = Concat(f, a)
    BY <1>2
  <2>4. Concat(f, a) \in Seq(S)
    BY ConcatType
  <2> QED
    BY <2>1, <2>2, <2>3, <2>4, ConcatEmptySeq
<1> HIDE DEF P
<1>3. b - a \in P /\ b - a \in Nat /\ a + (b - a) = b
  <2>1. Nat \subseteq P
    BY <1>1, <1>2, NatInduct
  <2> QED
    BY <2>1
<1> QED
  BY <1>3 DEF P

\* Nor does one that is put between others.
LEMMA ConcatInsertEmpty ==
  ASSUME NEW S, NEW n \in Nat, NEW f \in [1 .. n -> Seq(S)], NEW g, NEW k \in 0 .. n,
         \A i \in 1 .. k : g[i] = f[i],
         g[k + 1] = <<>>,
         \A i \in k + 1 .. n : g[i + 1] = f[i]
  PROVE  Concat(g, n + 1) = Concat(f, n)
<1> DEFINE P == {m \in Nat : k + m <= n => Concat(g, (k + m) + 1) = Concat(f, k + m)}
<1>1. 0 \in P
  <2>1. k \in Nat
    OBVIOUS
  <2>2. Concat(g, k + 1) = Concat(g, k) \o <<>>
    BY <2>1, ConcatNext
  <2>3. Concat(g, k) = Concat(f, k)
    BY ConcatAgree
  <2>4. Concat(f, k) \in Seq(S)
    BY ConcatType
  <2>5. Concat(g, k + 1) = Concat(f, k)
    BY <2>2, <2>3, <2>4, ConcatEmptySeq
  <2>6. k + 0 = k
    OBVIOUS
  <2> QED
    BY <2>5, <2>6
<1>2. ASSUME NEW m \in Nat, m \in P PROVE m + 1 \in P
  <2> SUFFICES ASSUME k + (m + 1) <= n
               PROVE  Concat(g, (k + (m + 1)) + 1) = Concat(f, k + (m + 1))
    OBVIOUS
  <2> DEFINE i == (k + m) + 1
  <2>1. k + m \in Nat /\ i \in Nat /\ k + (m + 1) = i /\ i \in k + 1 .. n
    OBVIOUS
  <2>2. Concat(f, i) = Concat(f, k + m) \o f[i]
    BY <2>1, ConcatNext
  <2>3. Concat(g, i) = Concat(f, k + m)
    BY <1>2
  <2> HIDE DEF i
  <2>4. Concat(g, i + 1) = Concat(g, i) \o g[i + 1]
    BY <2>1, ConcatNext
  <2>5. g[i + 1] = f[i]
    BY <2>1
  <2> QED
    BY <2>1, <2>2, <2>3, <2>4, <2>5
<1> HIDE DEF P
<1>3. n - k \in P /\ n - k \in Nat /\ k + (n - k) = n
  <2>1. Nat \subseteq P
    BY <1>1, <1>2, NatInduct
  <2> QED
    BY <2>1
<1> QED
  BY <1>3 DEF P

-----------------------------------------------------------------------------
(* Editing a part of a text *)

\* The characters of three texts joined.
JoinedThree(S, t, b, x, r) ==
  /\ t \in Seq(S)
  /\ Len(t) = Len(b) + Len(x) + Len(r)
  /\ \A i \in 1 .. Len(b) : t[i] = b[i]
  /\ \A i \in 1 .. Len(x) : t[Len(b) + i] = x[i]
  /\ \A i \in 1 .. Len(r) : t[Len(b) + Len(x) + i] = r[i]

LEMMA Triple ==
  ASSUME NEW S, NEW b \in Seq(S), NEW x \in Seq(S), NEW r \in Seq(S)
  PROVE  JoinedThree(S, (b \o x) \o r, b, x, r)
<1> DEFINE y == b \o x
<1>1. /\ y \in Seq(S) /\ Len(y) = Len(b) + Len(x)
      /\ \A i \in 1 .. Len(b) + Len(x) : y[i] = IF i <= Len(b) THEN b[i] ELSE x[i - Len(b)]
  BY ConcatProperties
<1>2. Len(b) \in Nat /\ Len(x) \in Nat /\ Len(r) \in Nat
  BY LenProperties
<1> HIDE DEF y
<1>3. /\ y \o r \in Seq(S) /\ Len(y \o r) = Len(y) + Len(r)
      /\ \A i \in 1 .. Len(y) + Len(r) :
           (y \o r)[i] = IF i <= Len(y) THEN y[i] ELSE r[i - Len(y)]
  <2>1. y \in Seq(S)
    BY <1>1
  <2> QED
    BY <2>1, ConcatProperties
<1>4. ASSUME NEW i \in 1 .. Len(b) PROVE (y \o r)[i] = b[i]
  <2>1. i \in 1 .. Len(b) + Len(x) /\ i \in 1 .. Len(y) + Len(r) /\ i <= Len(y) /\ i <= Len(b)
    BY <1>1, <1>2
  <2> QED
    BY <1>1, <1>3, <2>1
<1>5. ASSUME NEW i \in 1 .. Len(x) PROVE (y \o r)[Len(b) + i] = x[i]
  <2>1. /\ Len(b) + i \in 1 .. Len(b) + Len(x) /\ Len(b) + i \in 1 .. Len(y) + Len(r)
        /\ Len(b) + i <= Len(y) /\ ~ (Len(b) + i <= Len(b)) /\ (Len(b) + i) - Len(b) = i
    BY <1>1, <1>2
  <2> QED
    BY <1>1, <1>3, <2>1
<1>6. ASSUME NEW i \in 1 .. Len(r) PROVE (y \o r)[Len(b) + Len(x) + i] = r[i]
  <2>1. /\ Len(y) + i \in 1 .. Len(y) + Len(r)
        /\ ~ (Len(y) + i <= Len(y)) /\ (Len(y) + i) - Len(y) = i
    BY <1>1, <1>2
  <2> QED
    BY <1>1, <1>3, <2>1
<1> QED
  BY <1>1, <1>2, <1>3, <1>4, <1>5, <1>6 DEF y, JoinedThree

\* A place in three texts joined is in one of them.
LEMMA Thirds ==
  ASSUME NEW b \in Nat, NEW x \in Nat, NEW r \in Nat, NEW i \in 1 .. b + x + r
  PROVE  \/ i \in 1 .. b
         \/ i - b \in 1 .. x /\ i = b + (i - b)
         \/ i - b - x \in 1 .. r /\ i = b + x + (i - b - x)
OBVIOUS

LEMMA TripleEqual ==
  ASSUME NEW S, NEW t \in Seq(S), NEW b \in Seq(S), NEW x \in Seq(S), NEW r \in Seq(S),
         Len(t) = Len(b) + Len(x) + Len(r),
         \A i \in 1 .. Len(b) : t[i] = b[i],
         \A i \in 1 .. Len(x) : t[Len(b) + i] = x[i],
         \A i \in 1 .. Len(r) : t[Len(b) + Len(x) + i] = r[i]
  PROVE  t = (b \o x) \o r
<1> DEFINE s == (b \o x) \o r
<1>1. /\ s \in Seq(S)
      /\ Len(s) = Len(b) + Len(x) + Len(r)
      /\ \A i \in 1 .. Len(b) : s[i] = b[i]
      /\ \A i \in 1 .. Len(x) : s[Len(b) + i] = x[i]
      /\ \A i \in 1 .. Len(r) : s[Len(b) + Len(x) + i] = r[i]
  <2>1. JoinedThree(S, s, b, x, r)
    BY Triple
  <2> HIDE DEF s
  <2> QED
    BY <2>1, Zenon DEF JoinedThree
<1>2. Len(b) \in Nat /\ Len(x) \in Nat /\ Len(r) \in Nat
  BY LenProperties
<1> HIDE DEF s
<1>3. ASSUME NEW i \in 1 .. Len(t) PROVE t[i] = s[i]
  <2>1. CASE i \in 1 .. Len(b)
    BY <1>1, <2>1
  <2>2. CASE i - Len(b) \in 1 .. Len(x) /\ i = Len(b) + (i - Len(b))
    BY <1>1, <2>2, ZenonT(40)
  <2>3. CASE /\ i - Len(b) - Len(x) \in 1 .. Len(r)
             /\ i = Len(b) + Len(x) + (i - Len(b) - Len(x))
    BY <1>1, <2>3, ZenonT(40)
  <2> QED
    BY <1>2, <2>1, <2>2, <2>3, Thirds
<1>4. t = s
  BY <1>1, <1>3, SeqEqual
<1> QED
  BY <1>4 DEF s

InsertsWithin(b, x, r, o, c) ==
  InsertAt((b \o x) \o r, Len(b) + o, c) = (b \o InsertAt(x, o, c)) \o r

LEMMA InsertWithin ==
  ASSUME NEW S, NEW b \in Seq(S), NEW x \in Seq(S), NEW r \in Seq(S),
         NEW o \in 1 .. Len(x) + 1, NEW c \in S
  PROVE  InsertsWithin(b, x, r, o, c)
<1>0. Inserted(S, x, o, c)
  BY InsertAtProperties
<1> DEFINE t == (b \o x) \o r
           y == InsertAt(x, o, c)
           n == Len(b) + o
           u == InsertAt(t, n, c)
<1>1. Len(b) \in Nat /\ Len(x) \in Nat /\ Len(r) \in Nat /\ o \in Nat
  BY LenProperties
<1>2. /\ t \in Seq(S)
      /\ Len(t) = Len(b) + Len(x) + Len(r)
      /\ \A i \in 1 .. Len(b) : t[i] = b[i]
      /\ \A i \in 1 .. Len(x) : t[Len(b) + i] = x[i]
      /\ \A i \in 1 .. Len(r) : t[Len(b) + Len(x) + i] = r[i]
  <2>1. JoinedThree(S, t, b, x, r)
    BY Triple
  <2> HIDE DEF t
  <2> QED
    BY <2>1, Zenon DEF JoinedThree
<1> HIDE DEF t
<1>3. /\ y \in Seq(S) /\ Len(y) = Len(x) + 1
      /\ \A j \in 1 .. o - 1 : y[j] = x[j]
      /\ y[o] = c
      /\ \A j \in o + 1 .. Len(x) + 1 : y[j] = x[j - 1]
  BY <1>0 DEF Inserted
<1>4. n \in 1 .. Len(t) + 1 /\ n \in Nat
  BY <1>1, <1>2
<1>5. /\ u \in Seq(S) /\ Len(u) = Len(t) + 1
      /\ \A j \in 1 .. n - 1 : u[j] = t[j]
      /\ u[n] = c
      /\ \A j \in n + 1 .. Len(t) + 1 : u[j] = t[j - 1]
  <2>1. t \in Seq(S)
    BY <1>2
  <2> HIDE DEF n
  <2>2. Inserted(S, t, n, c)
    BY <2>1, <1>4, InsertAtProperties
  <2> QED
    BY <2>2 DEF Inserted
<1> HIDE DEF y, u
<1>6. Len(u) = Len(b) + Len(y) + Len(r)
  BY <1>1, <1>2, <1>3, <1>5
<1>7. ASSUME NEW i \in 1 .. Len(b) PROVE u[i] = b[i]
  <2>1. i \in 1 .. n - 1
    BY <1>1
  <2> QED
    BY <1>2, <1>5, <2>1
<1>8. ASSUME NEW i \in 1 .. Len(y) PROVE u[Len(b) + i] = y[i]
  <2>1. CASE i \in 1 .. o - 1
    <3>1. Len(b) + i \in 1 .. n - 1 /\ i \in 1 .. Len(x)
      BY <1>1, <2>1
    <3> QED
      BY <1>2, <1>3, <1>5, <2>1, <3>1
  <2>2. CASE i = o
    BY <1>3, <1>5, <2>2, <1>1
  <2>3. CASE i \in o + 1 .. Len(x) + 1
    <3>1. /\ Len(b) + i \in n + 1 .. Len(t) + 1 /\ i - 1 \in 1 .. Len(x)
          /\ (Len(b) + i) - 1 = Len(b) + (i - 1)
      BY <1>1, <1>2, <2>3
    <3>2. u[Len(b) + i] = t[Len(b) + (i - 1)]
      BY <1>5, <3>1
    <3> QED
      BY <1>2, <1>3, <2>3, <3>1, <3>2
  <2> QED
    BY <1>1, <1>3, <2>1, <2>2, <2>3
<1>9. ASSUME NEW i \in 1 .. Len(r) PROVE u[Len(b) + Len(y) + i] = r[i]
  <2>1. /\ Len(b) + Len(y) + i \in n + 1 .. Len(t) + 1
        /\ (Len(b) + Len(y) + i) - 1 = Len(b) + Len(x) + i
    BY <1>1, <1>2, <1>3
  <2>2. u[Len(b) + Len(y) + i] = t[Len(b) + Len(x) + i]
    BY <1>5, <2>1
  <2> QED
    BY <1>2, <2>2
<1>10. u = (b \o y) \o r
  <2>1. y \in Seq(S) /\ u \in Seq(S)
    BY <1>3, <1>5
  <2> QED
    BY <2>1, <1>6, <1>7, <1>8, <1>9, TripleEqual, ZenonT(40)
<1> QED
  BY <1>10 DEF u, y, t, InsertsWithin

RemovesWithin(b, x, r, o) ==
  RemoveAt((b \o x) \o r, Len(b) + o) = (b \o RemoveAt(x, o)) \o r

LEMMA RemoveWithin ==
  ASSUME NEW S, NEW b \in Seq(S), NEW x \in Seq(S), NEW r \in Seq(S), NEW o \in 1 .. Len(x)
  PROVE  RemovesWithin(b, x, r, o)
<1> DEFINE t == (b \o x) \o r
           y == RemoveAt(x, o)
           n == Len(b) + o
           u == RemoveAt(t, n)
<1>1. Len(b) \in Nat /\ Len(x) \in Nat /\ Len(r) \in Nat /\ o \in Nat
  BY LenProperties
<1>2. /\ t \in Seq(S)
      /\ Len(t) = Len(b) + Len(x) + Len(r)
      /\ \A i \in 1 .. Len(b) : t[i] = b[i]
      /\ \A i \in 1 .. Len(x) : t[Len(b) + i] = x[i]
      /\ \A i \in 1 .. Len(r) : t[Len(b) + Len(x) + i] = r[i]
  <2>1. JoinedThree(S, t, b, x, r)
    BY Triple
  <2> HIDE DEF t
  <2> QED
    BY <2>1, Zenon DEF JoinedThree
<1> HIDE DEF t
<1>3. /\ y \in Seq(S) /\ Len(y) = Len(x) - 1
      /\ \A j \in 1 .. Len(x) - 1 : y[j] = IF j < o THEN x[j] ELSE x[j + 1]
  <2>1. RemovedAt(S, x, o)
    BY RemoveAtProperties
  <2> QED
    BY <2>1 DEF RemovedAt
<1>4. n \in 1 .. Len(t) /\ n \in Nat
  BY <1>1, <1>2
<1>5. /\ u \in Seq(S) /\ Len(u) = Len(t) - 1
      /\ \A j \in 1 .. Len(t) - 1 : u[j] = IF j < n THEN t[j] ELSE t[j + 1]
  <2> HIDE DEF n
  <2>1. RemovedAt(S, t, n)
    BY <1>2, <1>4, RemoveAtProperties
  <2> QED
    BY <2>1 DEF RemovedAt
<1> HIDE DEF y, u
<1>6. Len(u) = Len(b) + Len(y) + Len(r)
  BY <1>1, <1>2, <1>3, <1>5
<1>7. ASSUME NEW i \in 1 .. Len(b) PROVE u[i] = b[i]
  <2>1. i \in 1 .. Len(t) - 1 /\ i < n
    BY <1>1, <1>2
  <2> QED
    BY <1>2, <1>5, <2>1
<1>8. ASSUME NEW i \in 1 .. Len(y) PROVE u[Len(b) + i] = y[i]
  <2>1. i \in 1 .. Len(x) - 1 /\ Len(b) + i \in 1 .. Len(t) - 1
    BY <1>1, <1>2, <1>3
  <2>2. CASE i < o
    <3>1. Len(b) + i < n /\ i \in 1 .. Len(x)
      BY <1>1, <2>1, <2>2
    <3> QED
      BY <1>2, <1>3, <1>5, <2>1, <2>2, <3>1
  <2>3. CASE ~ (i < o)
    <3>1. ~ (Len(b) + i < n) /\ i + 1 \in 1 .. Len(x) /\ (Len(b) + i) + 1 = Len(b) + (i + 1)
      BY <1>1, <2>1, <2>3
    <3>2. u[Len(b) + i] = t[Len(b) + (i + 1)]
      BY <1>5, <2>1, <3>1
    <3> QED
      BY <1>2, <1>3, <2>1, <2>3, <3>1, <3>2
  <2> QED
    BY <2>2, <2>3
<1>9. ASSUME NEW i \in 1 .. Len(r) PROVE u[Len(b) + Len(y) + i] = r[i]
  <2>1. /\ Len(b) + Len(y) + i \in 1 .. Len(t) - 1
        /\ ~ (Len(b) + Len(y) + i < n)
        /\ (Len(b) + Len(y) + i) + 1 = Len(b) + Len(x) + i
    BY <1>1, <1>2, <1>3
  <2>2. u[Len(b) + Len(y) + i] = t[Len(b) + Len(x) + i]
    BY <1>5, <2>1
  <2> QED
    BY <1>2, <2>2
<1>10. u = (b \o y) \o r
  <2>1. y \in Seq(S) /\ u \in Seq(S)
    BY <1>3, <1>5
  <2> QED
    BY <2>1, <1>6, <1>7, <1>8, <1>9, TripleEqual, ZenonT(40)
<1> QED
  BY <1>10 DEF u, y, t, RemovesWithin

ReplacesWithin(b, x, r, o, c) ==
  ReplaceAt((b \o x) \o r, Len(b) + o, c) = (b \o ReplaceAt(x, o, c)) \o r

LEMMA ReplaceWithin ==
  ASSUME NEW S, NEW b \in Seq(S), NEW x \in Seq(S), NEW r \in Seq(S),
         NEW o \in 1 .. Len(x), NEW c \in S
  PROVE  ReplacesWithin(b, x, r, o, c)
<1> DEFINE t == (b \o x) \o r
           y == [x EXCEPT ![o] = c]
           n == Len(b) + o
           u == [t EXCEPT ![n] = c]
<1>1. Len(b) \in Nat /\ Len(x) \in Nat /\ Len(r) \in Nat /\ o \in Nat
  BY LenProperties
<1>2. /\ t \in Seq(S)
      /\ Len(t) = Len(b) + Len(x) + Len(r)
      /\ \A i \in 1 .. Len(b) : t[i] = b[i]
      /\ \A i \in 1 .. Len(x) : t[Len(b) + i] = x[i]
      /\ \A i \in 1 .. Len(r) : t[Len(b) + Len(x) + i] = r[i]
  <2>1. JoinedThree(S, t, b, x, r)
    BY Triple
  <2> HIDE DEF t
  <2> QED
    BY <2>1, Zenon DEF JoinedThree
<1> HIDE DEF t
<1>3. y \in Seq(S) /\ Len(y) = Len(x) /\ \A j \in 1 .. Len(x) : y[j] = IF j = o THEN c ELSE x[j]
  BY ExceptSeq
<1>4. n \in 1 .. Len(t) /\ n \in Nat
  BY <1>1, <1>2
<1>5. u \in Seq(S) /\ Len(u) = Len(t) /\ \A j \in 1 .. Len(t) : u[j] = IF j = n THEN c ELSE t[j]
  <2>1. t \in Seq(S)
    BY <1>2
  <2> HIDE DEF n
  <2> QED
    BY <2>1, <1>4, ExceptSeq
<1> HIDE DEF y, u
<1>6. Len(u) = Len(b) + Len(y) + Len(r)
  BY <1>1, <1>2, <1>3, <1>5
<1>7. ASSUME NEW i \in 1 .. Len(b) PROVE u[i] = b[i]
  <2>1. i \in 1 .. Len(t) /\ i # n
    BY <1>1, <1>2
  <2> QED
    BY <1>2, <1>5, <2>1
<1>8. ASSUME NEW i \in 1 .. Len(y) PROVE u[Len(b) + i] = y[i]
  <2>1. i \in 1 .. Len(x) /\ i \in Nat
    BY <1>1, <1>3
  <2>2. Len(b) + i \in 1 .. Len(t)
    BY <1>1, <1>2, <2>1
  <2>3. Len(b) + i = n <=> i = o
    BY <1>1, <2>1, SMTT(40)
  <2> QED
    BY <1>2, <1>3, <1>5, <2>1, <2>2, <2>3
<1>9. ASSUME NEW i \in 1 .. Len(r) PROVE u[Len(b) + Len(y) + i] = r[i]
  <2>1. /\ Len(b) + Len(y) + i \in 1 .. Len(t) /\ Len(b) + Len(y) + i # n
        /\ Len(y) = Len(x)
    BY <1>1, <1>2, <1>3
  <2> QED
    BY <1>2, <1>5, <2>1
<1>10. u = (b \o y) \o r
  <2>1. y \in Seq(S) /\ u \in Seq(S)
    BY <1>3, <1>5
  <2> QED
    BY <2>1, <1>6, <1>7, <1>8, <1>9, TripleEqual, ZenonT(40)
<1> QED
  BY <1>10 DEF u, y, t, ReplaceAt, ReplacesWithin

-----------------------------------------------------------------------------
(* The text of a preedit *)

Placed(p) == p \in PreeditType /\ CursorInPreedit(p)

Inputs(p) == [i \in 1 .. NumSegments(p) |-> p.segments[i].input]

\* The text in front of segment k.
Ahead(p, k) == Concat(Inputs(p), k - 1)

LEMMA LineFacts ==
  ASSUME NEW p, Placed(p)
  PROVE  /\ NumSegments(p) \in Nat \ {0}
         /\ \A i \in 1 .. NumSegments(p) :
              /\ Inputs(p)[i] = p.segments[i].input
              /\ p.segments[i].input \in Seq(Char)
              /\ Len(p.segments[i].input) = SegLen(p, i)
              /\ SegLen(p, i) \in Nat
         /\ preedit_get_input(p) = Concat(Inputs(p), NumSegments(p))
         /\ preedit_get_input(p) \in Seq(Char)
         /\ CursorPos(p) = Len(Ahead(p, p.cursor.segment)) + p.cursor.offset
<1>1. /\ NumSegments(p) \in Nat \ {0}
      /\ \A i \in 1 .. NumSegments(p) : p.segments[i] \in SegmentType /\ SegLen(p, i) \in Nat
  BY PreeditFacts DEF Placed
<1>2. \A i \in 1 .. NumSegments(p) : /\ Inputs(p)[i] = p.segments[i].input
                                     /\ p.segments[i].input \in Seq(Char)
  BY <1>1 DEF Inputs, SegmentType
<1>3. preedit_get_input(p) = Concat(Inputs(p), NumSegments(p))
  BY DEF preedit_get_input, Inputs
<1>4. preedit_get_input(p) \in Seq(Char)
  <2> DEFINE n == NumSegments(p)
             f == Inputs(p)
  <2>1. n \in Nat /\ n \in 0 .. n /\ \A i \in 1 .. n : f[i] \in Seq(Char)
    BY <1>1, <1>2
  <2> HIDE DEF n, f
  <2>2. Concat(f, n) \in Seq(Char)
    BY <2>1, ConcatType
  <2> QED
    BY <1>3, <2>2 DEF n, f
<1>5. CursorPos(p) = Len(Ahead(p, p.cursor.segment)) + p.cursor.offset
  BY DEF CursorPos, Ahead, Inputs
<1> QED
  BY <1>1, <1>2, <1>3, <1>4, <1>5 DEF SegLen

LEMMA AheadFacts ==
  ASSUME NEW p, Placed(p)
  PROVE  /\ \A k \in 1 .. NumSegments(p) + 1 : Ahead(p, k) \in Seq(Char) /\ Len(Ahead(p, k)) \in Nat
         /\ Ahead(p, 1) = <<>>
         /\ \A k \in 1 .. NumSegments(p) :
              /\ Ahead(p, k + 1) = Ahead(p, k) \o p.segments[k].input
              /\ Len(Ahead(p, k + 1)) = Len(Ahead(p, k)) + SegLen(p, k)
              /\ Len(Ahead(p, k)) + SegLen(p, k) <= Len(preedit_get_input(p))
         /\ Ahead(p, NumSegments(p) + 1) = preedit_get_input(p)
<1> DEFINE n == NumSegments(p)
           f == Inputs(p)
<1>1. /\ n \in Nat \ {0}
      /\ \A i \in 1 .. n : f[i] = p.segments[i].input /\ f[i] \in Seq(Char)
                           /\ Len(f[i]) = SegLen(p, i) /\ SegLen(p, i) \in Nat
      /\ preedit_get_input(p) = Concat(f, n)
  BY LineFacts
<1> HIDE DEF n, f
<1>2. ASSUME NEW k \in 1 .. n + 1 PROVE Ahead(p, k) \in Seq(Char) /\ Len(Ahead(p, k)) \in Nat
  <2>1. k - 1 \in 0 .. n
    BY <1>1
  <2>2. Concat(f, k - 1) \in Seq(Char)
    BY <1>1, <2>1, ConcatType
  <2> QED
    BY <2>2, LenProperties DEF Ahead, f
<1>3. Ahead(p, 1) = <<>>
  <2>1. 1 - 1 = 0
    OBVIOUS
  <2> QED
    BY <2>1, ConcatZero DEF Ahead
<1>4. Ahead(p, n + 1) = preedit_get_input(p)
  <2>1. (n + 1) - 1 = n
    BY <1>1
  <2> QED
    BY <1>1, <2>1 DEF Ahead, f
<1>5. ASSUME NEW k \in 1 .. n
      PROVE  /\ Ahead(p, k + 1) = Ahead(p, k) \o p.segments[k].input
             /\ Len(Ahead(p, k + 1)) = Len(Ahead(p, k)) + SegLen(p, k)
             /\ Len(Ahead(p, k)) + SegLen(p, k) <= Len(preedit_get_input(p))
  <2>1. k - 1 \in Nat /\ (k - 1) + 1 = k /\ (k + 1) - 1 = k /\ k \in 1 .. n + 1
    BY <1>1
  <2>2. Concat(f, (k - 1) + 1) = Concat(f, k - 1) \o f[(k - 1) + 1]
    BY <2>1, ConcatNext
  <2>3. Ahead(p, k + 1) = Ahead(p, k) \o f[k]
    BY <2>1, <2>2 DEF Ahead, f
  <2>4. /\ f[k] = p.segments[k].input /\ f[k] \in Seq(Char)
        /\ Len(f[k]) = SegLen(p, k) /\ SegLen(p, k) \in Nat
    BY <1>1
  <2>5. Ahead(p, k) \in Seq(Char) /\ Len(Ahead(p, k)) \in Nat
    BY <1>2, <2>1
  <2>6. Len(Ahead(p, k + 1)) = Len(Ahead(p, k)) + SegLen(p, k)
    <3>1. PICK a \in Seq(Char) : a = Ahead(p, k)
      BY <2>5
    <3>2. PICK b \in Seq(Char) : b = f[k]
      BY <2>4
    <3>3. Len(a \o b) = Len(a) + Len(b)
      BY <3>1, <3>2, ConcatProperties
    <3> QED
      BY <2>3, <2>4, <3>1, <3>2, <3>3, Zenon
  <2>7. PICK r \in Seq(Char) : Concat(f, n) = (Concat(f, k - 1) \o f[k]) \o r
    <3>1. n \in Nat
      BY <1>1
    <3>2. f \in [1 .. n -> Seq(Char)]
      BY <1>1, LineFacts DEF f, Inputs, n
    <3> QED
      BY <3>1, <3>2, ConcatSplit, ZenonT(40)
  <2>8. Concat(f, n) = (Ahead(p, k) \o f[k]) \o r
    BY <2>7 DEF Ahead, f
  <2> DEFINE a == Ahead(p, k)
             x == f[k]
  <2>9. a \in Seq(Char) /\ x \in Seq(Char) /\ r \in Seq(Char)
    BY <2>4, <2>5, <2>7
  <2>10. Concat(f, n) = (a \o x) \o r
    BY <2>8
  <2> HIDE DEF a, x
  <2>11. Len(Concat(f, n)) = Len(a) + Len(x) + Len(r) /\ Len(r) \in Nat
    BY <2>9, <2>10, Triple, LenProperties DEF JoinedThree
  <2>12. Len(Concat(f, n)) = Len(Ahead(p, k)) + Len(f[k]) + Len(r) /\ Len(r) \in Nat
    BY <2>11 DEF a, x
  <2>13. Len(Ahead(p, k)) + SegLen(p, k) <= Len(preedit_get_input(p))
    BY <1>1, <2>4, <2>5, <2>12
  <2> QED
    BY <2>3, <2>4, <2>6, <2>13
<1> QED
  BY <1>2, <1>3, <1>4, <1>5 DEF n

\* Segments without text in between do not count.
LEMMA AheadSkip ==
  ASSUME NEW p, Placed(p), NEW a \in 1 .. NumSegments(p) + 1, NEW b \in a .. NumSegments(p) + 1,
         \A i \in a .. b - 1 : SegLen(p, i) = 0
  PROVE  Ahead(p, b) = Ahead(p, a)
<1> DEFINE n == NumSegments(p)
           f == Inputs(p)
<1>1. /\ n \in Nat \ {0}
      /\ \A i \in 1 .. n : f[i] \in Seq(Char) /\ Len(f[i]) = SegLen(p, i)
  BY LineFacts
<1> HIDE DEF n, f
<1>2. a - 1 \in 0 .. n /\ b - 1 \in a - 1 .. n /\ (a - 1) + 1 = a
  BY <1>1 DEF n
<1>3. \A i \in a .. b - 1 : f[i] = <<>>
  <2> SUFFICES ASSUME NEW i \in a .. b - 1 PROVE f[i] = <<>>
    OBVIOUS
  <2>1. i \in 1 .. n
    BY <1>1 DEF n
  <2>2. f[i] \in Seq(Char) /\ Len(f[i]) = 0
    BY <1>1, <2>1
  <2> QED
    BY <2>2, EmptySeq
<1>4. Concat(f, b - 1) = Concat(f, a - 1)
  <2>1. \A i \in (a - 1) + 1 .. b - 1 : f[i] = <<>>
    BY <1>2, <1>3
  <2>2. n \in Nat
    BY <1>1
  <2>3. f \in [1 .. n -> Seq(Char)]
    BY <1>1, LineFacts DEF f, Inputs, n
  <2> DEFINE lo == a - 1
             hi == b - 1
  <2>4. lo \in 0 .. n
    BY <1>2
  <2>5. hi \in lo .. n
    BY <1>2
  <2>6. NothingFrom(f, lo, hi)
    BY <2>1 DEF NothingFrom
  <2> HIDE DEF lo, hi
  <2>7. Concat(f, hi) = Concat(f, lo)
    BY <2>2, <2>3, <2>4, <2>5, <2>6, ConcatSkip
  <2> QED
    BY <2>7 DEF lo, hi
<1> QED
  BY <1>4 DEF Ahead, f

\* Where the cursor is put, the text stays.
LEMMA AtPos ==
  ASSUME NEW p, Placed(p), NEW k \in 1 .. NumSegments(p), NEW o \in 0 .. SegLen(p, k)
  PROVE  LET q == At(p, k, o)
         IN  /\ Placed(q)
             /\ q.segments = p.segments
             /\ q.cursor = [segment |-> k, offset |-> o]
             /\ preedit_get_input(q) = preedit_get_input(p)
             /\ CursorPos(q) = Len(Ahead(p, k)) + o
             /\ CursorPos(q) \in 0 .. Len(preedit_get_input(p))
<1> DEFINE q == At(p, k, o)
<1>1. /\ NumSegments(p) \in Nat \ {0} /\ SegLen(p, k) \in Nat
      /\ Len(Ahead(p, k)) \in Nat
      /\ Len(Ahead(p, k)) + SegLen(p, k) <= Len(preedit_get_input(p))
      /\ preedit_get_input(p) \in Seq(Char)
  BY LineFacts, AheadFacts
<1>2. /\ q.segments = p.segments
      /\ q.cursor = [segment |-> k, offset |-> o]
      /\ q \in PreeditType
  BY <1>1 DEF At, Placed, PreeditType, CursorType
<1> HIDE DEF q
<1>3. CursorInPreedit(q)
  BY <1>1, <1>2 DEF CursorInPreedit, NumSegments, SegLen
<1>4. Inputs(q) = Inputs(p) /\ preedit_get_input(q) = preedit_get_input(p)
  BY <1>2 DEF Inputs, NumSegments, preedit_get_input
<1>5. CursorPos(q) = Len(Ahead(p, k)) + o
  <2>1. Placed(q)
    BY <1>2, <1>3 DEF Placed
  <2>2. CursorPos(q) = Len(Ahead(q, q.cursor.segment)) + q.cursor.offset
    BY <2>1, LineFacts
  <2>3. Ahead(q, k) = Ahead(p, k) /\ q.cursor.segment = k /\ q.cursor.offset = o
    BY <1>2, <1>4 DEF Ahead
  <2> QED
    BY <2>2, <2>3
<1>6. CursorPos(q) \in 0 .. Len(preedit_get_input(p))
  BY <1>1, <1>5, LenProperties
<1> QED
  BY <1>2, <1>3, <1>4, <1>5, <1>6 DEF q, Placed

-----------------------------------------------------------------------------
(* The arrow keys *)

\* Without a character behind the cursor's segment all segments there are
\* empty, and so in front of it.
LEMMA NothingBehind ==
  ASSUME NEW p, Placed(p), NextNonEmpty(p) = {}
  PROVE  \A i \in p.cursor.segment + 1 .. NumSegments(p) : SegLen(p, i) = 0
<1> DEFINE c == p.cursor.segment
           n == NumSegments(p)
           P == {m \in Nat : \A i \in c + 1 .. c + m : i <= n => SegLen(p, i) = 0}
<1>1. n \in Nat /\ c \in 1 .. n /\ \A i \in 1 .. n : SegLen(p, i) \in Nat
  BY PreeditFacts DEF Placed
<1>2. 0 \in P
  BY <1>1
<1>3. ASSUME NEW m \in Nat, m \in P PROVE m + 1 \in P
  <2> DEFINE k == c + (m + 1)
  <2>1. k \in Nat /\ k >= c + 1 /\ k - 1 = c + m
    BY <1>1
  <2>2. \A i \in c + 1 .. k - 1 : i <= n => SegLen(p, i) = 0
    BY <1>3, <2>1
  <2>3. k <= n => SegLen(p, k) = 0
    <3> SUFFICES ASSUME k <= n, SegLen(p, k) > 0 PROVE FALSE
      BY <1>1, <2>1
    <3>1. k \in c + 1 .. n /\ \A i \in c + 1 .. k - 1 : SegLen(p, i) = 0
      BY <1>1, <2>1, <2>2
    <3> HIDE DEF k
    <3> QED
      BY <3>1 DEF NextNonEmpty
  <2>4. \A i \in c + 1 .. k : i \in c + 1 .. k - 1 \/ i = k
    BY <2>1
  <2> QED
    BY <2>2, <2>3, <2>4
<1>4. n \in P
  <2> HIDE DEF P
  <2> QED
    BY <1>1, <1>2, <1>3, NatInduct
<1> QED
  BY <1>1, <1>4

LEMMA NothingAhead ==
  ASSUME NEW p, Placed(p), PrevNonEmpty(p) = {}
  PROVE  \A i \in 1 .. p.cursor.segment - 1 : SegLen(p, i) = 0
<1> DEFINE c == p.cursor.segment
           n == NumSegments(p)
           P == {m \in Nat : \A i \in c - m .. c - 1 : i >= 1 => SegLen(p, i) = 0}
<1>1. n \in Nat /\ c \in 1 .. n /\ \A i \in 1 .. n : SegLen(p, i) \in Nat
  BY PreeditFacts DEF Placed
<1>2. 0 \in P
  BY <1>1
<1>3. ASSUME NEW m \in Nat, m \in P PROVE m + 1 \in P
  <2> DEFINE k == c - (m + 1)
  <2>1. k \in Int /\ k <= c - 1 /\ k + 1 = c - m
    BY <1>1
  <2>2. \A i \in k + 1 .. c - 1 : i >= 1 => SegLen(p, i) = 0
    BY <1>3, <2>1
  <2>3. k >= 1 => SegLen(p, k) = 0
    <3> SUFFICES ASSUME k >= 1, SegLen(p, k) > 0 PROVE FALSE
      BY <1>1, <2>1
    <3>1. k \in 1 .. c - 1 /\ \A i \in k + 1 .. c - 1 : SegLen(p, i) = 0
      BY <1>1, <2>1, <2>2
    <3> HIDE DEF k
    <3> QED
      BY <3>1 DEF PrevNonEmpty
  <2>4. \A i \in k .. c - 1 : i \in k + 1 .. c - 1 \/ i = k
    BY <2>1
  <2> QED
    BY <2>2, <2>3, <2>4
<1>4. c \in P
  <2> HIDE DEF P
  <2> QED
    BY <1>1, <1>2, <1>3, NatInduct
<1> QED
  BY <1>1, <1>4

\* The right arrow advances by one character, and stops at the end.
LEMMA RightEffect ==
  ASSUME NEW p, Placed(p)
  PROVE  LET q == MoveRight(p)
         IN  /\ Placed(q)
             /\ q.segments = p.segments
             /\ preedit_get_input(q) = preedit_get_input(p)
             /\ CursorPos(q) = IF CursorPos(p) < Len(preedit_get_input(p))
                               THEN CursorPos(p) + 1 ELSE CursorPos(p)
<1> DEFINE n == NumSegments(p)
           c == p.cursor.segment
           o == p.cursor.offset
           len == Len(preedit_get_input(p))
           A(k) == Len(Ahead(p, k))
<1>1. /\ n \in Nat \ {0} /\ c \in 1 .. n /\ o \in 0 .. SegLen(p, c) /\ o \in Nat
      /\ \A i \in 1 .. n : SegLen(p, i) \in Nat
  BY PreeditFacts DEF Placed
<1>2. /\ \A k \in 1 .. n + 1 : A(k) \in Nat
      /\ \A k \in 1 .. n : A(k + 1) = A(k) + SegLen(p, k) /\ A(k) + SegLen(p, k) <= len
      /\ A(n + 1) = len
  BY AheadFacts
<1>3. CursorPos(p) = A(c) + o
  BY LineFacts
<1>4. len \in Nat
  BY LineFacts, LenProperties
<1>5. ASSUME NEW k \in 1 .. n, NEW i \in 0 .. SegLen(p, k), MoveRight(p) = At(p, k, i),
             A(k) + i = IF A(c) + o < len THEN A(c) + o + 1 ELSE A(c) + o
      PROVE  LET q == MoveRight(p)
             IN  /\ Placed(q)
                 /\ q.segments = p.segments
                 /\ preedit_get_input(q) = preedit_get_input(p)
                 /\ CursorPos(q) = IF CursorPos(p) < len THEN CursorPos(p) + 1 ELSE CursorPos(p)
  <2> HIDE DEF A, len
  <2> DEFINE q == MoveRight(p)
  <2>1. q = At(p, k, i)
    BY <1>5
  <2>2. /\ Placed(q)
        /\ q.segments = p.segments
        /\ preedit_get_input(q) = preedit_get_input(p)
        /\ CursorPos(q) = A(k) + i
    <3> HIDE DEF q
    <3> QED
      BY <2>1, AtPos DEF A
  <2> HIDE DEF q
  <2>3. CursorPos(q) = IF CursorPos(p) < len THEN CursorPos(p) + 1 ELSE CursorPos(p)
    <3>1. A(k) + i = IF A(c) + o < len THEN A(c) + o + 1 ELSE A(c) + o
      BY <1>5
    <3>2. CursorPos(q) = A(k) + i
      BY <2>2
    <3> QED
      BY <1>3, <3>1, <3>2
  <2> QED
    BY <2>2, <2>3 DEF q
<1> HIDE DEF A, len
<1>6. CASE o < SegLen(p, c)
  <2>1. c \in 1 .. n /\ o + 1 \in 0 .. SegLen(p, c) /\ MoveRight(p) = At(p, c, o + 1)
    BY <1>1, <1>6 DEF MoveRight
  <2>2. A(c) \in Nat /\ A(c) + SegLen(p, c) <= len
    BY <1>1, <1>2
  <2>3. A(c) + (o + 1) = IF A(c) + o < len THEN A(c) + o + 1 ELSE A(c) + o
    BY <1>1, <1>4, <1>6, <2>2
  <2> QED
    BY <1>5, <2>1, <2>3 DEF len
<1>7. CASE ~ (o < SegLen(p, c))
  <2>1. o = SegLen(p, c) /\ A(c + 1) = A(c) + o /\ A(c) \in Nat /\ c + 1 \in 1 .. n + 1
    BY <1>1, <1>2, <1>7
  <2>2. CASE NextNonEmpty(p) = {}
    <3>1. MoveRight(p) = At(p, n, SegLen(p, n))
      BY <1>7, <2>2 DEF MoveRight, End, EndOf
    <3>2. n \in 1 .. n /\ SegLen(p, n) \in 0 .. SegLen(p, n) /\ SegLen(p, n) \in Nat /\ A(n) \in Nat
      BY <1>1, <1>2
    <3>3. \A i \in c + 1 .. (n + 1) - 1 : SegLen(p, i) = 0
      BY <2>2, <1>1, NothingBehind
    <3>4. n + 1 \in c + 1 .. n + 1
      BY <1>1
    <3>5. Ahead(p, n + 1) = Ahead(p, c + 1)
      BY <2>1, <3>3, <3>4, AheadSkip
    <3>6. A(n) + SegLen(p, n) = len /\ A(c) + o = len
      BY <1>2, <2>1, <3>2, <3>5 DEF A
    <3>7. A(n) + SegLen(p, n) = IF A(c) + o < len THEN A(c) + o + 1 ELSE A(c) + o
      BY <1>4, <3>6
    <3> QED
      BY <1>5, <3>1, <3>2, <3>7 DEF len
  <2>3. CASE NextNonEmpty(p) # {}
    <3>1. PICK k \in NextNonEmpty(p) : MoveRight(p) = At(p, k, 1)
      BY <1>7, <2>3, Zenon DEF MoveRight
    <3>2. k \in c + 1 .. n /\ SegLen(p, k) > 0 /\ \A j \in c + 1 .. k - 1 : SegLen(p, j) = 0
      BY <3>1 DEF NextNonEmpty
    <3>3. k \in 1 .. n /\ 1 \in 0 .. SegLen(p, k) /\ k \in c + 1 .. n + 1 /\ SegLen(p, k) \in Nat
      BY <1>1, <3>2
    <3>4. Ahead(p, k) = Ahead(p, c + 1)
      BY <2>1, <3>2, <3>3, AheadSkip
    <3>5. A(k) = A(c) + o /\ A(k) + SegLen(p, k) <= len
      BY <1>2, <2>1, <3>3, <3>4 DEF A
    <3>6. A(k) + 1 = IF A(c) + o < len THEN A(c) + o + 1 ELSE A(c) + o
      BY <1>1, <1>4, <2>1, <3>2, <3>3, <3>5
    <3> QED
      BY <1>5, <3>1, <3>3, <3>6 DEF len
  <2> QED
    BY <2>2, <2>3
<1> QED
  BY <1>6, <1>7 DEF len

\* The left arrow goes back by one character, and ends in front of one.
LEMMA LeftEffect ==
  ASSUME NEW p, Placed(p)
  PROVE  LET q == MoveLeft(p)
         IN  /\ Placed(q)
             /\ q.segments = p.segments
             /\ preedit_get_input(q) = preedit_get_input(p)
             /\ CursorPos(q) = IF CursorPos(p) > 0 THEN CursorPos(p) - 1 ELSE 0
             /\ CursorPos(p) > 0 => q.cursor.offset < SegLen(q, q.cursor.segment)
<1> DEFINE n == NumSegments(p)
           c == p.cursor.segment
           o == p.cursor.offset
           A(k) == Len(Ahead(p, k))
<1>1. /\ n \in Nat \ {0} /\ c \in 1 .. n /\ o \in 0 .. SegLen(p, c) /\ o \in Nat
      /\ \A i \in 1 .. n : SegLen(p, i) \in Nat
  BY PreeditFacts DEF Placed
<1>2. /\ \A k \in 1 .. n + 1 : A(k) \in Nat
      /\ \A k \in 1 .. n : A(k + 1) = A(k) + SegLen(p, k)
      /\ A(1) = 0
  BY AheadFacts
<1>3. CursorPos(p) = A(c) + o
  BY LineFacts
<1>4. ASSUME NEW k \in 1 .. n, NEW i \in 0 .. SegLen(p, k), MoveLeft(p) = At(p, k, i),
             A(k) + i = IF A(c) + o > 0 THEN A(c) + o - 1 ELSE 0,
             A(c) + o > 0 => i < SegLen(p, k)
      PROVE  LET q == MoveLeft(p)
             IN  /\ Placed(q)
                 /\ q.segments = p.segments
                 /\ preedit_get_input(q) = preedit_get_input(p)
                 /\ CursorPos(q) = IF CursorPos(p) > 0 THEN CursorPos(p) - 1 ELSE 0
                 /\ CursorPos(p) > 0 => q.cursor.offset < SegLen(q, q.cursor.segment)
  <2> HIDE DEF A
  <2> DEFINE q == MoveLeft(p)
  <2>1. /\ Placed(q)
        /\ q.segments = p.segments
        /\ q.cursor = [segment |-> k, offset |-> i]
        /\ preedit_get_input(q) = preedit_get_input(p)
        /\ CursorPos(q) = A(k) + i
    BY <1>4, AtPos DEF A
  <2> HIDE DEF q
  <2>2. SegLen(q, q.cursor.segment) = SegLen(p, k) /\ q.cursor.offset = i
    BY <2>1 DEF SegLen
  <2>3. CursorPos(p) > 0 => q.cursor.offset < SegLen(q, q.cursor.segment)
    BY <1>3, <1>4, <2>2
  <2>4. CursorPos(q) = IF CursorPos(p) > 0 THEN CursorPos(p) - 1 ELSE 0
    <3>1. A(k) + i = IF A(c) + o > 0 THEN A(c) + o - 1 ELSE 0
      BY <1>4
    <3>2. CursorPos(q) = A(k) + i
      BY <2>1
    <3>3. A(c) \in Nat /\ A(k) \in Nat
      BY <1>1, <1>2
    <3> QED
      BY <1>1, <1>3, <3>1, <3>2, <3>3
  <2> QED
    BY <2>1, <2>3, <2>4 DEF q
<1> HIDE DEF A
<1>5. CASE o > 0
  <2>1. o - 1 \in 0 .. SegLen(p, c) /\ MoveLeft(p) = At(p, c, o - 1)
    BY <1>1, <1>5 DEF MoveLeft
  <2>2. A(c) \in Nat /\ SegLen(p, c) \in Nat /\ c \in 1 .. n
    BY <1>1, <1>2
  <2>3. A(c) + (o - 1) = IF A(c) + o > 0 THEN A(c) + o - 1 ELSE 0
    BY <1>1, <1>5, <2>2
  <2>4. o - 1 < SegLen(p, c)
    BY <1>1, <1>5, <2>2
  <2> QED
    BY <1>4, <2>1, <2>2, <2>3, <2>4
<1>6. CASE ~ (o > 0)
  <2>1. o = 0 /\ A(c) \in Nat /\ c \in 1 .. n + 1 /\ 1 \in 1 .. n /\ 1 \in 1 .. n + 1
    BY <1>1, <1>2, <1>6
  <2>2. CASE PrevNonEmpty(p) = {}
    <3>1. MoveLeft(p) = At(p, 1, 0)
      BY <1>6, <2>2 DEF MoveLeft, Home
    <3>2. 0 \in 0 .. SegLen(p, 1)
      BY <1>1, <2>1
    <3>3. \A i \in 1 .. c - 1 : SegLen(p, i) = 0
      BY <2>2, NothingAhead
    <3>4. c \in 1 .. n + 1
      BY <1>1
    <3>5. Ahead(p, c) = Ahead(p, 1)
      BY <2>1, <3>3, <3>4, AheadSkip
    <3>6. A(c) + o = 0
      BY <1>2, <2>1, <3>5 DEF A
    <3>7. A(1) + 0 = IF A(c) + o > 0 THEN A(c) + o - 1 ELSE 0
      BY <1>2, <3>6
    <3>8. ~ (A(c) + o > 0)
      BY <3>6
    <3> QED
      BY <1>4, <2>1, <3>1, <3>2, <3>7, <3>8
  <2>3. CASE PrevNonEmpty(p) # {}
    <3>1. PICK k \in PrevNonEmpty(p) : MoveLeft(p) = At(p, k, SegLen(p, k) - 1)
      BY <1>6, <2>3, Zenon DEF MoveLeft
    <3>2. k \in 1 .. c - 1 /\ SegLen(p, k) > 0 /\ \A j \in k + 1 .. c - 1 : SegLen(p, j) = 0
      BY <3>1 DEF PrevNonEmpty
    <3>3. /\ k \in 1 .. n /\ SegLen(p, k) \in Nat /\ SegLen(p, k) - 1 \in 0 .. SegLen(p, k)
          /\ k + 1 \in 1 .. n + 1 /\ c \in k + 1 .. n + 1
      BY <1>1, <3>2
    <3>4. Ahead(p, c) = Ahead(p, k + 1)
      BY <3>2, <3>3, AheadSkip
    <3>5. A(c) = A(k) + SegLen(p, k) /\ A(k) \in Nat
      BY <1>2, <3>3, <3>4 DEF A
    <3>6. A(k) + (SegLen(p, k) - 1) = IF A(c) + o > 0 THEN A(c) + o - 1 ELSE 0
      BY <2>1, <3>2, <3>3, <3>5
    <3>7. SegLen(p, k) - 1 < SegLen(p, k)
      BY <3>3
    <3> QED
      BY <1>4, <3>1, <3>3, <3>6, <3>7
  <2> QED
    BY <2>2, <2>3
<1> QED
  BY <1>5, <1>6

\* The cursor is a position in the text.
LEMMA PosInLine ==
  ASSUME NEW p, Placed(p)
  PROVE  /\ CursorPos(p) \in 0 .. Len(preedit_get_input(p))
         /\ CursorPos(p) \in Nat
         /\ Len(preedit_get_input(p)) \in Nat
<1> DEFINE c == p.cursor.segment
<1>1. /\ NumSegments(p) \in Nat \ {0} /\ c \in 1 .. NumSegments(p)
      /\ p.cursor.offset \in 0 .. SegLen(p, c) /\ SegLen(p, c) \in Nat
  BY PreeditFacts DEF Placed
<1> HIDE DEF c
<1>2. c \in 1 .. NumSegments(p) + 1
  BY <1>1
<1>3. Len(Ahead(p, c)) \in Nat /\ Len(Ahead(p, c)) + SegLen(p, c) <= Len(preedit_get_input(p))
  BY <1>1, <1>2, AheadFacts
<1>4. CursorPos(p) = Len(Ahead(p, c)) + p.cursor.offset
  BY LineFacts DEF c
<1>5. Len(preedit_get_input(p)) \in Nat
  BY LineFacts, LenProperties
<1> QED
  BY <1>1, <1>3, <1>4, <1>5

\* The text is that of the segments.
LEMMA SameSegments ==
  ASSUME NEW p, NEW q, q.segments = p.segments
  PROVE  preedit_get_input(q) = preedit_get_input(p)
BY DEF preedit_get_input, NumSegments

\* Every movement leaves the text alone and the cursor in it.
LEMMA MoveEffect ==
  ASSUME NEW p, Good(p), NEW dir \in Directions
  PROVE  LET q == preedit_move(p, dir)
         IN  /\ preedit_get_input(q) = preedit_get_input(p)
             /\ CursorPos(q) \in 0 .. Len(preedit_get_input(p))
<1> DEFINE q == preedit_move(p, dir)
<1>1. Good(q) /\ q.segments = p.segments
  BY MoveGood
<1> HIDE DEF q
<1>2. Placed(q)
  BY <1>1 DEF Good, Placed
<1>3. preedit_get_input(q) = preedit_get_input(p)
  BY <1>1, SameSegments
<1> QED
  BY <1>2, <1>3, PosInLine DEF q

-----------------------------------------------------------------------------
(* Editing one segment *)

\* All segments but the k-th have the same text in p and in q.
SameButOne(p, q, k) ==
  /\ NumSegments(q) = NumSegments(p)
  /\ \A i \in 1 .. NumSegments(p) : i # k => q.segments[i].input = p.segments[i].input

\* The text in front of segment k, that of the segment, and what follows it.
CutAt(p, q, k, r) ==
  /\ preedit_get_input(p) = (Ahead(p, k) \o p.segments[k].input) \o r
  /\ preedit_get_input(q) = (Ahead(p, k) \o q.segments[k].input) \o r

LEMMA EditSegment ==
  ASSUME NEW p, NEW q, Placed(p), Placed(q), NEW k \in 1 .. NumSegments(p), SameButOne(p, q, k)
  PROVE  /\ Ahead(q, k) = Ahead(p, k)
         /\ \E r \in Seq(Char) : CutAt(p, q, k, r)
<1> DEFINE n == NumSegments(p)
           f == Inputs(p)
           g == Inputs(q)
<1>1. /\ n \in Nat
      /\ \A i \in 1 .. n : f[i] = p.segments[i].input /\ f[i] \in Seq(Char)
      /\ preedit_get_input(p) = Concat(f, n)
  BY LineFacts
<1>2. /\ \A i \in 1 .. n : g[i] = q.segments[i].input /\ g[i] \in Seq(Char)
      /\ preedit_get_input(q) = Concat(g, n)
  BY LineFacts DEF SameButOne
<1>3. f \in [1 .. n -> Seq(Char)]
  BY <1>1 DEF Inputs
<1>4. g \in [1 .. n -> Seq(Char)]
  BY <1>2 DEF Inputs, SameButOne
<1> HIDE DEF n, f, g
<1>5. k \in 1 .. n
  BY DEF n
<1>6. SameElsewhere(f, g, n, k)
  BY <1>1, <1>2 DEF SameElsewhere, SameButOne, n
<1>7. JoinedAround(Char, f, g, n, k)
  BY <1>1, <1>3, <1>4, <1>5, <1>6, ConcatAround
<1>8. PICK r \in Seq(Char) : /\ Concat(f, n) = (Concat(f, k - 1) \o f[k]) \o r
                             /\ Concat(g, n) = (Concat(f, k - 1) \o g[k]) \o r
  BY <1>7 DEF JoinedAround
<1>9. CutAt(p, q, k, r)
  BY <1>1, <1>2, <1>5, <1>8 DEF CutAt, Ahead, f
<1>10. Ahead(q, k) = Ahead(p, k)
  <2>1. k - 1 \in Nat
    BY <1>1, <1>5
  <2>2. \A i \in 1 .. k - 1 : g[i] = f[i]
    BY <1>1, <1>5, <1>6 DEF SameElsewhere
  <2>3. Concat(g, k - 1) = Concat(f, k - 1)
    BY <2>1, <2>2, ConcatAgree
  <2> QED
    BY <2>3 DEF Ahead, f, g
<1> QED
  BY <1>8, <1>9, <1>10

\* A character put into a segment is put into the text.
LEMMA InsertedText ==
  ASSUME NEW p, NEW q, Placed(p), Placed(q), NEW k \in 1 .. NumSegments(p), SameButOne(p, q, k),
         NEW o \in 1 .. SegLen(p, k) + 1, NEW chr \in Char,
         q.segments[k].input = InsertAt(p.segments[k].input, o, chr)
  PROVE  preedit_get_input(q) = InsertAt(preedit_get_input(p), Len(Ahead(p, k)) + o, chr)
<1>1. PICK r \in Seq(Char) : CutAt(p, q, k, r)
  BY EditSegment
<1> DEFINE a == Ahead(p, k)
           x == p.segments[k].input
<1>2. a \in Seq(Char)
  <2>1. k \in 1 .. NumSegments(p) + 1
    BY LineFacts
  <2> QED
    BY <2>1, AheadFacts
<1>3. x \in Seq(Char) /\ SegLen(p, k) = Len(x)
  BY LineFacts
<1> HIDE DEF a, x
<1>4. r \in Seq(Char)
  BY <1>1
<1>5. o \in 1 .. Len(x) + 1
  BY <1>3
<1>6. InsertsWithin(a, x, r, o, chr)
  BY <1>2, <1>3, <1>4, <1>5, InsertWithin
<1> QED
  BY <1>1, <1>6 DEF CutAt, a, x, InsertsWithin

\* A character taken out of a segment is taken out of the text.
LEMMA RemovedText ==
  ASSUME NEW p, NEW q, Placed(p), Placed(q), NEW k \in 1 .. NumSegments(p), SameButOne(p, q, k),
         NEW o \in 1 .. SegLen(p, k),
         q.segments[k].input = RemoveAt(p.segments[k].input, o)
  PROVE  preedit_get_input(q) = RemoveAt(preedit_get_input(p), Len(Ahead(p, k)) + o)
<1>1. PICK r \in Seq(Char) : CutAt(p, q, k, r)
  BY EditSegment
<1> DEFINE a == Ahead(p, k)
           x == p.segments[k].input
<1>2. a \in Seq(Char)
  <2>1. k \in 1 .. NumSegments(p) + 1
    BY LineFacts
  <2> QED
    BY <2>1, AheadFacts
<1>3. x \in Seq(Char) /\ SegLen(p, k) = Len(x)
  BY LineFacts
<1> HIDE DEF a, x
<1>4. r \in Seq(Char)
  BY <1>1
<1>5. o \in 1 .. Len(x)
  BY <1>3
<1>6. RemovesWithin(a, x, r, o)
  BY <1>2, <1>3, <1>4, <1>5, RemoveWithin
<1> QED
  BY <1>1, <1>6 DEF CutAt, a, x, RemovesWithin

\* A character changed in a segment is changed in the text.
LEMMA ReplacedText ==
  ASSUME NEW p, NEW q, Placed(p), Placed(q), NEW k \in 1 .. NumSegments(p), SameButOne(p, q, k),
         NEW o \in 1 .. SegLen(p, k), NEW chr \in Char,
         q.segments[k].input = ReplaceAt(p.segments[k].input, o, chr)
  PROVE  /\ preedit_get_input(q) = ReplaceAt(preedit_get_input(p), Len(Ahead(p, k)) + o, chr)
         /\ preedit_get_input(p)[Len(Ahead(p, k)) + o] = p.segments[k].input[o]
<1>1. PICK r \in Seq(Char) : CutAt(p, q, k, r)
  BY EditSegment
<1> DEFINE a == Ahead(p, k)
           x == p.segments[k].input
<1>2. a \in Seq(Char)
  <2>1. k \in 1 .. NumSegments(p) + 1
    BY LineFacts
  <2> QED
    BY <2>1, AheadFacts
<1>3. x \in Seq(Char) /\ SegLen(p, k) = Len(x)
  BY LineFacts
<1> HIDE DEF a, x
<1>4. r \in Seq(Char)
  BY <1>1
<1>5. o \in 1 .. Len(x)
  BY <1>3
<1>6. ReplacesWithin(a, x, r, o, chr)
  BY <1>2, <1>3, <1>4, <1>5, ReplaceWithin
<1>7. ((a \o x) \o r)[Len(a) + o] = x[o]
  BY <1>2, <1>3, <1>4, <1>5, Triple DEF JoinedThree
<1> QED
  BY <1>1, <1>6, <1>7 DEF CutAt, a, x, ReplacesWithin

-----------------------------------------------------------------------------
(* Adding and removing an empty segment *)

\* q is p with an empty segment behind the k-th.
Widened(p, q, k) ==
  /\ NumSegments(q) = NumSegments(p) + 1
  /\ \A i \in 1 .. k : q.segments[i].input = p.segments[i].input
  /\ q.segments[k + 1].input = <<>>
  /\ \A i \in k + 1 .. NumSegments(p) : q.segments[i + 1].input = p.segments[i].input

LEMMA WidenedText ==
  ASSUME NEW p, NEW q, Placed(p), Placed(q), NEW k \in 0 .. NumSegments(p), Widened(p, q, k)
  PROVE  /\ preedit_get_input(q) = preedit_get_input(p)
         /\ \A j \in 1 .. k + 1 : Ahead(q, j) = Ahead(p, j)
<1> DEFINE n == NumSegments(p)
           f == Inputs(p)
           g == Inputs(q)
<1>1. /\ n \in Nat
      /\ \A i \in 1 .. n : f[i] = p.segments[i].input /\ f[i] \in Seq(Char)
      /\ preedit_get_input(p) = Concat(f, n)
  BY LineFacts
<1>2. /\ \A i \in 1 .. n + 1 : g[i] = q.segments[i].input
      /\ preedit_get_input(q) = Concat(g, n + 1)
  BY LineFacts DEF Widened
<1>3. f \in [1 .. n -> Seq(Char)]
  BY <1>1 DEF Inputs
<1> HIDE DEF n, f, g
<1>4. k \in 0 .. n
  BY DEF n
<1>5. \A i \in 1 .. k : g[i] = f[i]
  BY <1>1, <1>2, <1>4 DEF Widened
<1>6. g[k + 1] = <<>>
  BY <1>1, <1>2, <1>4 DEF Widened
<1>7. \A i \in k + 1 .. n : g[i + 1] = f[i]
  <2> SUFFICES ASSUME NEW i \in k + 1 .. n PROVE g[i + 1] = f[i]
    OBVIOUS
  <2>1. i \in 1 .. n /\ i + 1 \in 1 .. n + 1
    BY <1>1, <1>4
  <2>2. g[i + 1] = q.segments[i + 1].input /\ f[i] = p.segments[i].input
    BY <1>1, <1>2, <2>1
  <2> QED
    BY <2>2 DEF Widened, n
<1>8. Concat(g, n + 1) = Concat(f, n)
  BY <1>1, <1>3, <1>4, <1>5, <1>6, <1>7, ConcatInsertEmpty
<1>9. ASSUME NEW j \in 1 .. k + 1 PROVE Ahead(q, j) = Ahead(p, j)
  <2>1. j - 1 \in Nat /\ \A i \in 1 .. j - 1 : g[i] = f[i]
    BY <1>4, <1>5
  <2>2. Concat(g, j - 1) = Concat(f, j - 1)
    BY <2>1, ConcatAgree
  <2> QED
    BY <2>2 DEF Ahead, f, g
<1> QED
  BY <1>1, <1>2, <1>8, <1>9

-----------------------------------------------------------------------------
(* The segments an operation leaves *)

\* Replacing the cursor's segment.
LEMMA SetCurrentShape ==
  ASSUME NEW p, Placed(p), NEW t \in SegmentType, p.cursor.offset <= Len(t.input)
  PROVE  LET q == SetCurrent(p, t)
             c == p.cursor.segment
         IN  /\ Placed(q)
             /\ q.cursor = p.cursor
             /\ NumSegments(q) = NumSegments(p)
             /\ q.segments[c] = t
             /\ \A i \in 1 .. NumSegments(p) : i # c => q.segments[i] = p.segments[i]
<1> DEFINE q == SetCurrent(p, t)
           c == p.cursor.segment
           n == NumSegments(p)
           segs == [p.segments EXCEPT ![c] = t]
<1>1. /\ p.segments \in Seq(SegmentType) /\ n = Len(p.segments) /\ n \in Nat \ {0}
      /\ c \in 1 .. n /\ p.cursor.offset \in Nat /\ p.cursor \in CursorType
  BY PreeditFacts DEF Placed, NumSegments, CursorType
<1>2. /\ segs \in Seq(SegmentType)
      /\ Len(segs) = n
      /\ segs[c] = t
      /\ \A i \in 1 .. n : i # c => segs[i] = p.segments[i]
  BY <1>1, ExceptSeq
<1>3. q.segments = segs /\ q.cursor = p.cursor /\ q \in PreeditType
  BY <1>1, <1>2 DEF SetCurrent, PreeditType, Placed
<1> HIDE DEF q, segs, n
<1>4. Len(t.input) \in Nat
  BY LenProperties DEF SegmentType
<1>5. CursorInPreedit(q)
  BY <1>1, <1>2, <1>3, <1>4 DEF CursorInPreedit, NumSegments, SegLen
<1> QED
  BY <1>2, <1>3, <1>5 DEF Placed, NumSegments, q, n

\* Removing the cursor's segment.
LEMMA RemoveSegmentShape ==
  ASSUME NEW p, Placed(p), NumSegments(p) > 1
  PROVE  LET q == preedit_remove_segment(p)
             c == p.cursor.segment
         IN  /\ Placed(q)
             /\ NumSegments(q) = NumSegments(p) - 1
             /\ \A i \in 1 .. c - 1 : q.segments[i] = p.segments[i]
             /\ \A i \in c + 1 .. NumSegments(p) : q.segments[i - 1] = p.segments[i]
             /\ \/ c <= NumSegments(q) /\ q.cursor = [segment |-> c, offset |-> 0]
                \/ /\ c = NumSegments(p)
                   /\ q.cursor = [segment |-> c - 1, offset |-> SegLen(q, c - 1)]
<1> DEFINE n == NumSegments(p)
           c == p.cursor.segment
           segs == RemoveAt(p.segments, c)
           b == [p EXCEPT !.segments = segs]
           q == preedit_remove_segment(p)
<1>1. /\ p.segments \in Seq(SegmentType) /\ n = Len(p.segments) /\ n \in Nat /\ n > 1
      /\ c \in 1 .. n
  BY PreeditFacts DEF Placed, NumSegments
<1>2. /\ segs \in Seq(SegmentType)
      /\ Len(segs) = n - 1
      /\ \A j \in 1 .. n - 1 : segs[j] = IF j < c THEN p.segments[j] ELSE p.segments[j + 1]
  <2> DEFINE s == p.segments
  <2>1. s \in Seq(SegmentType) /\ c \in 1 .. Len(s) /\ n = Len(s)
    BY <1>1
  <2> HIDE DEF s, n, c
  <2>2. RemovedAt(SegmentType, s, c)
    BY <2>1, RemoveAtProperties
  <2>3. /\ RemoveAt(s, c) \in Seq(SegmentType) /\ Len(RemoveAt(s, c)) = Len(s) - 1
        /\ \A j \in 1 .. Len(s) - 1 : RemoveAt(s, c)[j] = IF j < c THEN s[j] ELSE s[j + 1]
    BY <2>2 DEF RemovedAt
  <2> QED
    BY <2>1, <2>3 DEF s
<1>3. b.segments = segs /\ b.cursor = p.cursor /\ b \in PreeditType
  BY <1>2 DEF Placed, PreeditType
<1>4. q = IF c > NumSegments(b) THEN End(b) ELSE At(b, c, 0)
  <2>1. q = IF b.cursor.segment > NumSegments(b) THEN End(b) ELSE At(b, b.cursor.segment, 0)
    BY Zenon DEF preedit_remove_segment
  <2> HIDE DEF b, q
  <2> QED
    BY <1>3, <2>1
<1> HIDE DEF segs, b, q, n
<1>5. NumSegments(b) = n - 1
  BY <1>2, <1>3 DEF NumSegments
<1>6. ASSUME NEW i \in 1 .. n - 1 PROVE SegLen(b, i) \in Nat
  <2>1. segs[i] \in SegmentType
    BY <1>2, ElementOfSeq
  <2> QED
    BY <1>3, <2>1, LenProperties DEF SegLen, SegmentType
<1>7. ASSUME NEW k \in 1 .. n - 1, NEW o \in 0 .. SegLen(b, k), q = At(b, k, o)
      PROVE  /\ Placed(q)
             /\ q.segments = segs
             /\ q.cursor = [segment |-> k, offset |-> o]
             /\ SegLen(q, k) = SegLen(b, k)
  <2>1. /\ q.segments = segs
        /\ q.cursor = [segment |-> k, offset |-> o]
        /\ q \in PreeditType
    BY <1>1, <1>3, <1>6, <1>7 DEF At, PreeditType, CursorType
  <2>2. CursorInPreedit(q)
    BY <1>1, <1>2, <1>3, <1>7, <2>1 DEF CursorInPreedit, NumSegments, SegLen
  <2> QED
    BY <1>3, <2>1, <2>2 DEF Placed, SegLen
<1>8. ASSUME q.segments = segs
      PROVE  /\ NumSegments(q) = n - 1
             /\ \A i \in 1 .. c - 1 : q.segments[i] = p.segments[i]
             /\ \A i \in c + 1 .. n : q.segments[i - 1] = p.segments[i]
  <2>1. \A i \in 1 .. c - 1 : i \in 1 .. n - 1 /\ i < c
    BY <1>1
  <2>2. \A i \in c + 1 .. n : i - 1 \in 1 .. n - 1 /\ ~ (i - 1 < c) /\ (i - 1) + 1 = i
    BY <1>1
  <2> QED
    BY <1>2, <1>8, <2>1, <2>2 DEF NumSegments
<1>9. CASE c > NumSegments(b)
  <2>1. c = n /\ c - 1 \in 1 .. n - 1
    BY <1>1, <1>5, <1>9
  <2>2. SegLen(b, c - 1) \in 0 .. SegLen(b, c - 1)
    BY <1>6, <2>1
  <2>3. q = At(b, c - 1, SegLen(b, c - 1))
    BY <1>4, <1>5, <1>9, <2>1 DEF End, EndOf
  <2>4. /\ Placed(q)
        /\ q.segments = segs
        /\ q.cursor = [segment |-> c - 1, offset |-> SegLen(b, c - 1)]
        /\ SegLen(q, c - 1) = SegLen(b, c - 1)
    BY <1>7, <2>1, <2>2, <2>3
  <2> QED
    BY <1>8, <2>1, <2>4 DEF q, n
<1>10. CASE ~ (c > NumSegments(b))
  <2>1. c \in 1 .. n - 1 /\ 0 \in 0 .. SegLen(b, c) /\ c <= n - 1
    BY <1>1, <1>5, <1>6, <1>10
  <2>2. q = At(b, c, 0)
    BY <1>4, <1>10
  <2>3. /\ Placed(q)
        /\ q.segments = segs
        /\ q.cursor = [segment |-> c, offset |-> 0]
    BY <1>7, <2>1, <2>2
  <2> QED
    BY <1>8, <2>1, <2>3 DEF q, n
<1> QED
  BY <1>9, <1>10

\* Adding an empty segment behind the cursor's.
LEMMA InsertSegmentShape ==
  ASSUME NEW p, Placed(p)
  PROVE  LET q == preedit_insert_segment(p)
             c == p.cursor.segment
         IN  /\ Placed(q)
             /\ q.cursor = p.cursor
             /\ NumSegments(q) = NumSegments(p) + 1
             /\ \A i \in 1 .. c : q.segments[i] = p.segments[i]
             /\ q.segments[c + 1] = segment_new
             /\ \A i \in c + 1 .. NumSegments(p) : q.segments[i + 1] = p.segments[i]
<1> DEFINE n == NumSegments(p)
           c == p.cursor.segment
           k == c + 1
           t == p.segments
           e == segment_new
           segs == InsertAt(t, k, e)
           q == preedit_insert_segment(p)
<1>1. /\ t \in Seq(SegmentType) /\ n = Len(t) /\ n \in Nat
      /\ c \in 1 .. n /\ p.cursor.offset \in 0 .. SegLen(p, c)
  BY PreeditFacts DEF Placed, NumSegments
<1>2. e \in SegmentType
  BY NewSegmentFresh
<1>3. k \in 1 .. n + 1 /\ k = c + 1
  BY <1>1
<1>4. q = [p EXCEPT !.segments = segs]
  BY DEF preedit_insert_segment
<1> HIDE DEF n, k, t, e, q
<1>5. segs \in Seq(SegmentType) /\ Len(segs) = n + 1
  BY <1>1, <1>2, <1>3, InsertAtLength
<1>6. /\ \A j \in 1 .. k - 1 : segs[j] = t[j]
      /\ segs[k] = e
      /\ \A j \in k + 1 .. n + 1 : segs[j] = t[j - 1]
  <2>1. Inserted(SegmentType, t, k, e)
    BY <1>1, <1>2, <1>3, InsertAtProperties
  <2> QED
    BY <1>1, <2>1 DEF Inserted
<1> HIDE DEF segs
<1>7. q.segments = segs /\ q.cursor = p.cursor /\ q \in PreeditType
  BY <1>4, <1>5 DEF Placed, PreeditType
<1>8. \A i \in 1 .. c : q.segments[i] = p.segments[i]
  BY <1>1, <1>3, <1>6, <1>7 DEF t
<1>9. q.segments[c + 1] = segment_new
  BY <1>3, <1>6, <1>7 DEF e
<1>10. ASSUME NEW i \in c + 1 .. n PROVE q.segments[i + 1] = p.segments[i]
  <2>1. i + 1 \in k + 1 .. n + 1 /\ (i + 1) - 1 = i
    BY <1>1, <1>3
  <2> QED
    BY <1>6, <1>7, <2>1 DEF t
<1>11. NumSegments(q) = n + 1
  BY <1>5, <1>7 DEF NumSegments
<1>12. CursorInPreedit(q)
  BY <1>1, <1>7, <1>8, <1>11, SMTT(40) DEF CursorInPreedit, SegLen
<1> QED
  BY <1>7, <1>8, <1>9, <1>10, <1>11, <1>12 DEF q, n, Placed

-----------------------------------------------------------------------------
(* The text they leave *)

LEMMA SetCurrentText ==
  ASSUME NEW p, Placed(p), NEW t \in SegmentType, p.cursor.offset <= Len(t.input)
  PROVE  LET q == SetCurrent(p, t)
             c == p.cursor.segment
         IN  /\ SameButOne(p, q, c)
             /\ Ahead(q, c) = Ahead(p, c)
             /\ CursorPos(q) = CursorPos(p)
             /\ t.input = Current(p).input => preedit_get_input(q) = preedit_get_input(p)
<1> DEFINE q == SetCurrent(p, t)
           c == p.cursor.segment
<1>1. /\ Placed(q)
      /\ q.cursor = p.cursor
      /\ NumSegments(q) = NumSegments(p)
      /\ q.segments[c] = t
      /\ \A i \in 1 .. NumSegments(p) : i # c => q.segments[i] = p.segments[i]
  BY SetCurrentShape
<1>2. c \in 1 .. NumSegments(p)
  BY PreeditFacts DEF Placed
<1> HIDE DEF q
<1>3. SameButOne(p, q, c)
  BY <1>1 DEF SameButOne
<1> HIDE DEF c
<1>4. Ahead(q, c) = Ahead(p, c)
  BY <1>1, <1>2, <1>3, EditSegment
<1>5. CursorPos(q) = CursorPos(p)
  BY <1>1, <1>4, LineFacts DEF c
<1>6. ASSUME t.input = Current(p).input PROVE preedit_get_input(q) = preedit_get_input(p)
  <2>1. \A i \in 1 .. NumSegments(p) : q.segments[i].input = p.segments[i].input
    BY <1>1, <1>6 DEF Current, c
  <2>2. [i \in 1 .. NumSegments(q) |-> q.segments[i].input] =
        [i \in 1 .. NumSegments(p) |-> p.segments[i].input]
    BY <1>1, <2>1
  <2> QED
    BY <1>1, <2>2 DEF preedit_get_input
<1> QED
  BY <1>3, <1>4, <1>5, <1>6 DEF q, c

\* The lookup of candidates changes no text.
LEMMA UpdateEffect ==
  ASSUME NEW p, Draft(p)
  PROVE  LET q == preedit_update_candidates(p)
         IN  /\ preedit_get_input(q) = preedit_get_input(p)
             /\ CursorPos(q) = CursorPos(p)
<1> DEFINE t == segment_update_candidates(Current(p))
<1>1. Placed(p) /\ Bounded(Current(p)) /\ p.cursor.offset <= Len(Current(p).input)
  BY PreeditFacts DEF Draft, Placed, Bounded, SegLen, Current
<1>2. t \in SegmentType /\ t.input = Current(p).input
  BY <1>1, UpdateCandidatesFresh
<1> HIDE DEF t
<1>3. p.cursor.offset <= Len(t.input)
  BY <1>1, <1>2
<1> QED
  BY <1>1, <1>2, <1>3, SetCurrentText DEF preedit_update_candidates, t

\* Nor does the removal of an empty segment, and the cursor stays where it is.
LEMMA RemoveSegmentText ==
  ASSUME NEW p, Placed(p), NumSegments(p) > 1, Current(p).input = <<>>
  PROVE  LET q == preedit_remove_segment(p)
         IN  /\ preedit_get_input(q) = preedit_get_input(p)
             /\ CursorPos(q) = CursorPos(p)
<1> DEFINE n == NumSegments(p)
           c == p.cursor.segment
           q == preedit_remove_segment(p)
<1>1. n \in Nat /\ n > 1 /\ c \in 1 .. n /\ p.cursor.offset \in 0 .. SegLen(p, c)
  BY PreeditFacts DEF Placed
<1>2. p.segments[c].input = <<>> /\ SegLen(p, c) = 0 /\ p.cursor.offset = 0
  BY <1>1 DEF Current, SegLen
<1>3. /\ Placed(q)
      /\ NumSegments(q) = n - 1
      /\ \A i \in 1 .. c - 1 : q.segments[i] = p.segments[i]
      /\ \A i \in c + 1 .. n : q.segments[i - 1] = p.segments[i]
      /\ \/ c <= NumSegments(q) /\ q.cursor = [segment |-> c, offset |-> 0]
         \/ /\ c = n
            /\ q.cursor = [segment |-> c - 1, offset |-> SegLen(q, c - 1)]
  BY RemoveSegmentShape
<1> HIDE DEF q, n, c
<1> DEFINE k == c - 1
<1>4. k \in 0 .. n - 1 /\ k + 1 = c /\ c \in 1 .. k + 1
  BY <1>1
<1>5. \A i \in c .. n - 1 : i + 1 \in c + 1 .. n /\ (i + 1) - 1 = i
  BY <1>1
<1> HIDE DEF k
<1>6. Widened(q, p, k)
  <2>1. \A i \in 1 .. k : p.segments[i].input = q.segments[i].input
    BY <1>3, <1>4 DEF k
  <2>2. p.segments[k + 1].input = <<>>
    BY <1>2, <1>4
  <2>3. \A i \in k + 1 .. n - 1 : p.segments[i + 1].input = q.segments[i].input
    <3> SUFFICES ASSUME NEW i \in c .. n - 1
                 PROVE  p.segments[i + 1].input = q.segments[i].input
      BY <1>4
    <3>1. i + 1 \in c + 1 .. n /\ (i + 1) - 1 = i
      BY <1>5
    <3>2. q.segments[(i + 1) - 1] = p.segments[i + 1]
      BY <1>3, <3>1, Zenon
    <3> QED
      BY <3>1, <3>2
  <2>4. n = (n - 1) + 1
    BY <1>1
  <2> QED
    BY <1>3, <2>1, <2>2, <2>3, <2>4 DEF Widened, n
<1>7. k \in 0 .. NumSegments(q)
  BY <1>3, <1>4
<1>8. /\ preedit_get_input(p) = preedit_get_input(q)
      /\ \A j \in 1 .. k + 1 : Ahead(p, j) = Ahead(q, j)
  BY <1>3, <1>6, <1>7, WidenedText
<1>9. CursorPos(p) = Len(Ahead(p, c)) /\ Len(Ahead(p, c)) \in Nat
  <2>1. CursorPos(p) = Len(Ahead(p, c)) + p.cursor.offset
    BY LineFacts DEF c
  <2>2. c \in 1 .. NumSegments(p) + 1
    BY <1>1 DEF n
  <2>3. Len(Ahead(p, c)) \in Nat
    BY <2>2, AheadFacts
  <2> QED
    BY <1>2, <2>1, <2>3
<1>10. CursorPos(q) = Len(Ahead(q, q.cursor.segment)) + q.cursor.offset
  BY <1>3, LineFacts
<1>11. ASSUME q.cursor = [segment |-> c, offset |-> 0]
       PROVE  CursorPos(q) = CursorPos(p)
  BY <1>4, <1>8, <1>9, <1>10, <1>11
<1>12. ASSUME c = n, q.cursor = [segment |-> c - 1, offset |-> SegLen(q, c - 1)]
       PROVE  CursorPos(q) = CursorPos(p)
  <2>1. k \in 1 .. NumSegments(q) /\ q.cursor.segment = k /\ q.cursor.offset = SegLen(q, k)
    BY <1>1, <1>3, <1>4, <1>12 DEF k
  <2>2. Len(Ahead(q, k + 1)) = Len(Ahead(q, k)) + SegLen(q, k)
    BY <1>3, <2>1, AheadFacts
  <2>3. Ahead(p, c) = Ahead(q, k + 1)
    BY <1>4, <1>8
  <2> QED
    BY <1>9, <1>10, <2>1, <2>2, <2>3
<1>13. CursorPos(q) = CursorPos(p)
  BY <1>3, <1>11, <1>12
<1> QED
  BY <1>8, <1>13 DEF q

-----------------------------------------------------------------------------
(* Erasing *)

\* What segment_erase() does to the input.
LEMMA EraseInput ==
  ASSUME NEW s, Bounded(s), NEW pos \in 0 .. Len(s.input)
  PROVE  LET r == segment_erase(s, pos)
         IN  /\ r.seg \in SegmentType
             /\ r.err = 0 <=> pos < Len(s.input)
             /\ r.err = 0 \/ r.err < 0
             /\ r.err = 0 => /\ r.seg.input = RemoveAt(s.input, pos + 1)
                             /\ Len(r.seg.input) = Len(s.input) - 1
                             /\ r.seg.candidates = s.candidates
                             /\ r.seg.selection = s.selection
<1>1. s \in SegmentType /\ s.input \in Seq(Char) /\ Len(s.input) \in Nat
  BY LenProperties DEF Bounded, SegmentType
<1>2. CASE pos < Len(s.input)
  <2>1. pos + 1 \in 1 .. Len(s.input) /\ ~ (pos < 0 \/ pos >= Len(s.input))
    BY <1>1, <1>2
  <2>2. RemoveAt(s.input, pos + 1) \in Seq(Char) /\ Len(RemoveAt(s.input, pos + 1)) = Len(s.input) - 1
    <3> DEFINE n == pos + 1
    <3>1. n \in 1 .. Len(s.input)
      BY <2>1
    <3> HIDE DEF n
    <3>2. RemoveAt(s.input, n) \in Seq(Char) /\ Len(RemoveAt(s.input, n)) = Len(s.input) - 1
      BY <1>1, <3>1, RemoveAtLength
    <3> QED
      BY <3>2 DEF n
  <2>3. segment_erase(s, pos) = [err |-> 0, seg |-> [s EXCEPT !.input = RemoveAt(@, pos + 1)]]
    BY <2>1 DEF segment_erase
  <2> QED
    BY <1>1, <1>2, <2>2, <2>3 DEF SegmentType
<1>3. CASE ~ (pos < Len(s.input))
  <2>1. segment_erase(s, pos) = [err |-> EOVERFLOW, seg |-> s]
    BY <1>1, <1>3 DEF segment_erase
  <2>2. EOVERFLOW < 0 /\ EOVERFLOW # 0
    BY DEF EOVERFLOW
  <2> QED
    BY <1>1, <1>3, <2>1, <2>2
<1> QED
  BY <1>2, <1>3

\* Segment i was edited; it keeps its candidates and its selection.
OneEdited(p, q, i) ==
  /\ i \in 1 .. NumSegments(p)
  /\ NumSegments(q) = NumSegments(p)
  /\ \A j \in 1 .. NumSegments(p) : j # i => q.segments[j] = p.segments[j]
  /\ q.segments[i].candidates = p.segments[i].candidates
  /\ q.segments[i].selection = p.segments[i].selection

\* Segment i was removed.
OneRemoved(p, q, i) ==
  /\ i \in 1 .. NumSegments(p)
  /\ NumSegments(q) = NumSegments(p) - 1
  /\ \A j \in 1 .. i - 1 : q.segments[j] = p.segments[j]
  /\ \A j \in i + 1 .. NumSegments(p) : q.segments[j - 1] = p.segments[j]

\* A segment without candidates follows segment i.
OneAdded(p, q, i) ==
  /\ i \in 1 .. NumSegments(p)
  /\ NumSegments(q) = NumSegments(p) + 1
  /\ \A j \in 1 .. i : q.segments[j] = p.segments[j]
  /\ q.segments[i + 1].candidates = <<>>
  /\ \A j \in i + 1 .. NumSegments(p) : q.segments[j + 1] = p.segments[j]

\* An erasure takes the character behind the cursor, and fails only when its
\* segment has none there.
LEMMA EraseEffect ==
  ASSUME NEW p, Good(p), NEW dir \in Directions
  PROVE  LET m == preedit_move(p, dir)
             r == preedit_erase(p, dir)
         IN  /\ r.err = 0 \/ r.err < 0
             /\ r.err = 0 <=> m.cursor.offset < SegLen(m, m.cursor.segment)
             /\ r.err < 0 => r.preedit = m
             /\ r.err = 0 => /\ CursorPos(m) < Len(preedit_get_input(p))
                             /\ preedit_get_input(r.preedit) =
                                  RemoveAt(preedit_get_input(p), CursorPos(m) + 1)
                             /\ CursorPos(r.preedit) = CursorPos(m)
                             /\ \/ /\ OneEdited(p, r.preedit, m.cursor.segment)
                                   /\ r.preedit.cursor.segment = m.cursor.segment
                                \/ /\ OneRemoved(p, r.preedit, m.cursor.segment)
                                   /\ NumSegments(p) > 1
<1> DEFINE m == preedit_move(p, dir)
           c == m.cursor.segment
           o == m.cursor.offset
           s == Current(m)
           x == segment_erase(s, o)
           e == SetCurrent(m, x.seg)
           r == preedit_erase(p, dir)
<1>1. Good(m) /\ m.segments = p.segments
  BY MoveGood
<1>2. r = IF x.err < 0
          THEN [err |-> x.err, preedit |-> m]
          ELSE [err |-> 0, preedit |-> IF x.seg.input = <<>> /\ NumSegments(p) > 1
                                       THEN preedit_remove_segment(e) ELSE e]
  BY Zenon DEF preedit_erase
<1> HIDE DEF m
<1>3. Placed(m) /\ Bounded(s)
  BY <1>1, GoodIsDraft DEF Good, Placed
<1>4. /\ NumSegments(m) = NumSegments(p) /\ NumSegments(p) \in Nat /\ c \in 1 .. NumSegments(m)
      /\ s = m.segments[c] /\ o \in 0 .. SegLen(m, c) /\ SegLen(m, c) = Len(s.input)
      /\ SegLen(m, c) \in Nat
      /\ preedit_get_input(m) = preedit_get_input(p)
  <2>1. NumSegments(m) = NumSegments(p)
    BY <1>1 DEF NumSegments
  <2> QED
    BY <1>1, <1>3, <2>1, PreeditFacts, SameSegments DEF Placed, Current, SegLen
<1> HIDE DEF s, o
<1>5. /\ x.seg \in SegmentType
      /\ x.err = 0 <=> o < Len(s.input)
      /\ x.err = 0 \/ x.err < 0
      /\ x.err = 0 => /\ x.seg.input = RemoveAt(s.input, o + 1)
                      /\ Len(x.seg.input) = Len(s.input) - 1
                      /\ x.seg.candidates = s.candidates
                      /\ x.seg.selection = s.selection
  BY <1>3, <1>4, EraseInput
<1> HIDE DEF x, e, r
<1>6. CASE x.err # 0
  <2>1. x.err < 0 /\ r.err = x.err /\ r.preedit = m
    BY <1>2, <1>5, <1>6
  <2> QED
    BY <1>4, <1>5, <1>6, <2>1 DEF r, m, o
<1>7. CASE x.err = 0
  <2>1. o < Len(s.input) /\ ~ (x.err < 0) /\ o <= Len(x.seg.input)
    BY <1>4, <1>5, <1>7, SMTT(40)
  <2>2. /\ r.err = 0
        /\ r.preedit = IF x.seg.input = <<>> /\ NumSegments(p) > 1
                       THEN preedit_remove_segment(e) ELSE e
    BY <1>2, <2>1
  <2>3. m.cursor.offset <= Len(x.seg.input)
    BY <2>1 DEF o
  <2>4. /\ Placed(e)
        /\ e.cursor = m.cursor
        /\ NumSegments(e) = NumSegments(m)
        /\ e.segments[c] = x.seg
        /\ \A i \in 1 .. NumSegments(m) : i # c => e.segments[i] = m.segments[i]
    BY <1>3, <1>5, <2>3, SetCurrentShape DEF e
  <2>5. SameButOne(m, e, c) /\ CursorPos(e) = CursorPos(m)
    BY <1>3, <1>5, <2>3, SetCurrentText DEF e
  <2>6. CursorPos(m) = Len(Ahead(m, c)) + o
    BY <1>3, LineFacts DEF o
  <2>7. Len(Ahead(m, c)) \in Nat /\ Len(Ahead(m, c)) + SegLen(m, c) <= Len(preedit_get_input(m))
    <3>1. c \in 1 .. NumSegments(m) + 1
      BY <1>4
    <3> QED
      BY <1>3, <1>4, <3>1, AheadFacts
  <2>8. CursorPos(m) < Len(preedit_get_input(p))
    <3> DEFINE a   == Len(Ahead(m, c))
               len == Len(preedit_get_input(m))
    <3>1. len \in Nat
      BY <1>3, PosInLine
    <3>2. a \in Nat /\ a + SegLen(m, c) <= len /\ CursorPos(m) = a + o
      BY <2>6, <2>7
    <3>3. o < SegLen(m, c) /\ SegLen(m, c) \in Nat /\ o \in Nat
      BY <1>4, <2>1
    <3>4. len = Len(preedit_get_input(p))
      BY <1>4
    <3> HIDE DEF a, len
    <3>5. CursorPos(m) < len
      BY <3>1, <3>2, <3>3
    <3> QED
      BY <3>4, <3>5
  <2>9. preedit_get_input(e) = RemoveAt(preedit_get_input(p), CursorPos(m) + 1)
    <3> DEFINE k == o + 1
    <3>1. k \in 1 .. SegLen(m, c) /\ e.segments[c].input = RemoveAt(m.segments[c].input, k)
      BY <1>4, <1>5, <1>7, <2>1, <2>4, SMTT(40)
    <3>2. Len(Ahead(m, c)) + k = CursorPos(m) + 1
      BY <1>4, <2>6, <2>7
    <3> HIDE DEF k, c
    <3>3. preedit_get_input(e) = RemoveAt(preedit_get_input(m), Len(Ahead(m, c)) + k)
      BY <1>3, <1>4, <2>4, <2>5, <3>1, RemovedText
    <3> QED
      BY <1>4, <3>2, <3>3
  <2>10. OneEdited(p, e, c)
    BY <1>1, <1>4, <1>5, <1>7, <2>4 DEF OneEdited
  <2>11. CASE ~ (x.seg.input = <<>> /\ NumSegments(p) > 1)
    <3>1. r.preedit = e /\ e.cursor.segment = c
      BY <2>2, <2>4, <2>11
    <3> QED
      BY <1>4, <2>1, <2>2, <2>5, <2>8, <2>9, <2>10, <3>1 DEF r, m, o
  <2>12. CASE x.seg.input = <<>> /\ NumSegments(p) > 1
    <3> DEFINE q == preedit_remove_segment(e)
    <3>1. r.preedit = q
      BY <2>2, <2>12
    <3>2. NumSegments(e) > 1 /\ e.cursor.segment = c /\ Current(e).input = <<>>
      BY <1>4, <2>4, <2>12 DEF Current
    <3>3. preedit_get_input(q) = preedit_get_input(e) /\ CursorPos(q) = CursorPos(e)
      BY <2>4, <3>2, RemoveSegmentText
    <3>4. /\ NumSegments(q) = NumSegments(e) - 1
          /\ \A i \in 1 .. c - 1 : q.segments[i] = e.segments[i]
          /\ \A i \in c + 1 .. NumSegments(e) : q.segments[i - 1] = e.segments[i]
      BY <2>4, <3>2, RemoveSegmentShape, ZenonT(40)
    <3> HIDE DEF q
    <3>5. OneRemoved(p, q, c)
      <4>1. \A i \in 1 .. c - 1 : i \in 1 .. NumSegments(m) /\ i # c
        BY <1>4
      <4>2. \A i \in c + 1 .. NumSegments(m) : i \in 1 .. NumSegments(m) /\ i # c
        BY <1>4
      <4> QED
        BY <1>1, <1>4, <2>4, <3>4, <4>1, <4>2 DEF OneRemoved
    <3> QED
      BY <1>4, <2>1, <2>2, <2>5, <2>8, <2>9, <2>12, <3>1, <3>3, <3>5 DEF r, m, o
  <2> QED
    BY <2>11, <2>12
<1> QED
  BY <1>6, <1>7

-----------------------------------------------------------------------------
(* Typing *)

\* What segment_insert() does to the input.
LEMMA InsertInput ==
  ASSUME NEW s, Bounded(s), NEW chr \in Char, NEW pos \in 0 .. Len(s.input)
  PROVE  LET r == segment_insert(s, chr, pos)
         IN  /\ r.seg \in SegmentType
             /\ \/ r.err < 0
                \/ /\ r.err = 0
                   /\ pos > 0
                   /\ Combine(s.input[pos], chr) \in Char
                   /\ r.seg.input = ReplaceAt(s.input, pos, Combine(s.input[pos], chr))
                   /\ Len(r.seg.input) = Len(s.input)
                   /\ r.seg.candidates = s.candidates
                   /\ r.seg.selection = s.selection
                \/ /\ r.err = 1
                   /\ r.seg.input = InsertAt(s.input, pos + 1, chr)
                   /\ Len(r.seg.input) = Len(s.input) + 1
                   /\ r.seg.candidates = s.candidates
                   /\ r.seg.selection = s.selection
<1> DEFINE r == segment_insert(s, chr, pos)
           merged == Combine(s.input[pos], chr)
<1>1. s \in SegmentType /\ s.input \in Seq(Char) /\ Len(s.input) \in Nat
  BY LenProperties DEF Bounded, SegmentType
<1>2. /\ r.seg \in SegmentType
      /\ r.err = 0 => Len(r.seg.input) = Len(s.input)
      /\ r.err > 0 => Len(r.seg.input) = Len(s.input) + 1
  BY InsertBounded DEF Bounded
<1> HIDE DEF r
<1>3. CASE Len(s.input) >= MaxLen
  <2>1. r = [err |-> EMSGSIZE, seg |-> s]
    BY <1>3 DEF segment_insert, r
  <2>2. r.err < 0
    BY <2>1 DEF EMSGSIZE
  <2> QED
    BY <1>2, <2>2 DEF r
<1>4. CASE ~ (Len(s.input) >= MaxLen) /\ CombinedAt(s, chr, pos) # CharInvalid
  <2>1. pos > 0 /\ CombinedAt(s, chr, pos) = merged
    BY <1>4 DEF CombinedAt
  <2>2. s.input[pos] \in Char
    <3>1. pos \in 1 .. Len(s.input)
      BY <2>1
    <3> QED
      BY <1>1, <3>1, ElementOfSeq
  <2>3. merged \in Char
    BY <1>4, <2>1, <2>2, CharAssumption
  <2>4. r = [err |-> 0, seg |-> [s EXCEPT !.input = ReplaceAt(@, pos, merged)]]
    BY <1>4, <2>1 DEF segment_insert, r
  <2> HIDE DEF merged
  <2>5. /\ r.err = 0 /\ r.seg.input = ReplaceAt(s.input, pos, merged)
        /\ r.seg.candidates = s.candidates /\ r.seg.selection = s.selection
    BY <1>1, <2>4 DEF SegmentType
  <2> QED
    BY <1>2, <2>1, <2>3, <2>5 DEF r, merged
<1>5. CASE ~ (Len(s.input) >= MaxLen) /\ ~ (CombinedAt(s, chr, pos) # CharInvalid)
  <2>1. r = [err |-> 1, seg |-> [s EXCEPT !.input = InsertAt(@, pos + 1, chr)]]
    BY <1>5 DEF segment_insert, r
  <2>2. /\ r.err = 1 /\ r.seg.input = InsertAt(s.input, pos + 1, chr)
        /\ r.seg.candidates = s.candidates /\ r.seg.selection = s.selection
    BY <1>1, <2>1 DEF SegmentType
  <2> QED
    BY <1>2, <2>2 DEF r
<1> QED
  BY <1>3, <1>4, <1>5

\* A new segment is made behind the cursor's; the cursor enters it.
LEMMA SplitEffect ==
  ASSUME NEW p, Good(p), NEW chr \in Char
  PROVE  LET s == insert_segment_if_needed(p, chr)
             c == p.cursor.segment
         IN  /\ Good(s)
             /\ preedit_get_input(s) = preedit_get_input(p)
             /\ CursorPos(s) \in CursorPos(p) .. Len(preedit_get_input(p))
             /\ \/ s = p
                \/ /\ OneAdded(p, s, c)
                   /\ s.cursor = [segment |-> c + 1, offset |-> 0]
                   /\ s.segments[c + 1] = segment_new
<1> DEFINE s == insert_segment_if_needed(p, chr)
           c == p.cursor.segment
           n == NumSegments(p)
           q == preedit_insert_segment(p)
<1>1. Placed(p)
  BY DEF Good, Placed
<1>2. CASE ~ NeedsSegment(p, chr)
  <2>1. s = p
    BY <1>2 DEF insert_segment_if_needed
  <2>2. CursorPos(p) \in CursorPos(p) .. Len(preedit_get_input(p))
    BY <1>1, PosInLine
  <2> QED
    BY <2>1, <2>2
<1>3. CASE NeedsSegment(p, chr)
  <2>1. s = At(q, c + 1, 0)
    BY <1>3 DEF insert_segment_if_needed
  <2>2. /\ Placed(q)
        /\ q.cursor = p.cursor
        /\ NumSegments(q) = n + 1
        /\ \A i \in 1 .. c : q.segments[i] = p.segments[i]
        /\ q.segments[c + 1] = segment_new
        /\ \A i \in c + 1 .. n : q.segments[i + 1] = p.segments[i]
    BY <1>1, InsertSegmentShape
  <2>3. Good(q) /\ c + 1 \in 1 .. NumSegments(q) /\ SegLen(q, c + 1) = 0
    BY InsertSegmentGood
  <2>4. /\ c \in 1 .. n /\ n \in Nat /\ p.cursor.offset \in 0 .. SegLen(p, c)
        /\ SegLen(p, c) \in Nat
    BY <1>1, PreeditFacts DEF Placed
  <2> HIDE DEF q, s, c, n
  <2> DEFINE k == c + 1
  <2>5. /\ Placed(s) /\ s.segments = q.segments
        /\ s.cursor = [segment |-> k, offset |-> 0]
        /\ preedit_get_input(s) = preedit_get_input(q)
        /\ CursorPos(s) = Len(Ahead(q, k)) + 0
    <3>1. k \in 1 .. NumSegments(q) /\ 0 \in 0 .. SegLen(q, k)
      BY <2>3
    <3> HIDE DEF k
    <3> QED
      BY <2>1, <2>2, <3>1, AtPos DEF k
  <2>6. Good(s)
    BY <2>3, <2>5, AtGood, <2>1
  <2>7. OneAdded(p, s, c)
    BY <2>2, <2>4, <2>5 DEF OneAdded, NumSegments, segment_new, n
  <2>8. Widened(p, q, c)
    BY <2>2, <2>4 DEF Widened, segment_new, n
  <2>9. /\ preedit_get_input(q) = preedit_get_input(p)
        /\ Ahead(q, k) = Ahead(p, k)
    <3>1. c \in 0 .. NumSegments(p) /\ k \in 1 .. c + 1
      BY <2>4 DEF n
    <3> QED
      BY <1>1, <2>2, <2>8, <3>1, WidenedText
  <2>10. CursorPos(s) \in CursorPos(p) .. Len(preedit_get_input(p))
    <3>1. CursorPos(p) = Len(Ahead(p, c)) + p.cursor.offset
      BY <1>1, LineFacts DEF c
    <3>2. /\ Len(Ahead(p, k)) = Len(Ahead(p, c)) + SegLen(p, c)
          /\ Len(Ahead(p, c)) + SegLen(p, c) <= Len(preedit_get_input(p))
      BY <1>1, <2>4, AheadFacts DEF n
    <3>3. Len(Ahead(p, c)) \in Nat
      <4>1. c \in 1 .. NumSegments(p) + 1
        BY <2>4 DEF n
      <4> QED
        BY <1>1, <4>1, AheadFacts
    <3>4. CursorPos(s) = Len(Ahead(p, c)) + SegLen(p, c)
      BY <2>4, <2>5, <2>9, <3>2, <3>3
    <3>5. Len(preedit_get_input(p)) \in Nat
      BY <1>1, PosInLine
    <3> QED
      BY <2>4, <3>1, <3>2, <3>3, <3>4, <3>5
  <2> QED
    BY <2>2, <2>5, <2>6, <2>7, <2>9, <2>10 DEF s, c
<1> QED
  BY <1>2, <1>3

\* A character typed into an existing place of the text, or merged with the
\* one in front of the cursor.
Typed(p, q, chr) ==
  \E at \in CursorPos(p) .. Len(preedit_get_input(p)) :
    /\ preedit_get_input(q) = InsertAt(preedit_get_input(p), at + 1, chr)
    /\ CursorPos(q) = at + 1

Merged(p, q, chr) ==
  LET merged == Combine(preedit_get_input(p)[CursorPos(p)], chr)
  IN  /\ CursorPos(p) > 0
      /\ merged \in Char
      /\ preedit_get_input(q) = ReplaceAt(preedit_get_input(p), CursorPos(p), merged)
      /\ CursorPos(q) = CursorPos(p)

\* A character goes into the segment as segment_insert() says.
LEMMA InsertEffect ==
  ASSUME NEW p, Good(p), NEW chr \in Char
  PROVE  LET r == preedit_insert(p, chr)
             c == p.cursor.segment
         IN  /\ r.err = 0 \/ r.err < 0
             /\ r.err < 0 => r.preedit = p
             /\ r.err = 0 => /\ Typed(p, r.preedit, chr) \/ Merged(p, r.preedit, chr)
                             /\ \/ OneEdited(p, r.preedit, c) /\ r.preedit.cursor.segment = c
                                \/ OneAdded(p, r.preedit, c) /\ r.preedit.cursor.segment = c + 1
<1> DEFINE c == p.cursor.segment
           s == insert_segment_if_needed(p, chr)
           k == s.cursor.segment
           o == s.cursor.offset
           t == Current(s)
           x == segment_insert(t, chr, o)
           e == SetCurrent(s, x.seg)
           r == preedit_insert(p, chr)
           line == preedit_get_input(p)
<1>1. /\ Good(s)
      /\ preedit_get_input(s) = line
      /\ CursorPos(s) \in CursorPos(p) .. Len(line)
      /\ \/ s = p
         \/ /\ OneAdded(p, s, c)
            /\ s.cursor = [segment |-> c + 1, offset |-> 0]
            /\ s.segments[c + 1] = segment_new
  BY SplitEffect
<1>2. r = IF x.err < 0
          THEN [err |-> x.err, preedit |-> s]
          ELSE [err |-> 0, preedit |-> IF x.err > 0 THEN MoveRight(e) ELSE e]
  BY Zenon DEF preedit_insert
<1> HIDE DEF s, line
<1>3. Placed(s) /\ Bounded(t)
  BY <1>1, GoodIsDraft DEF Good, Placed
<1>4. /\ k \in 1 .. NumSegments(s) /\ NumSegments(s) \in Nat
      /\ t = s.segments[k] /\ o \in 0 .. Len(t.input) /\ SegLen(s, k) = Len(t.input)
      /\ Len(t.input) \in Nat
  BY <1>3, PreeditFacts DEF Placed, Current, SegLen
<1> HIDE DEF t, o, k
<1>5. /\ x.seg \in SegmentType
      /\ \/ x.err < 0
         \/ /\ x.err = 0
            /\ o > 0
            /\ Combine(t.input[o], chr) \in Char
            /\ x.seg.input = ReplaceAt(t.input, o, Combine(t.input[o], chr))
            /\ Len(x.seg.input) = Len(t.input)
            /\ x.seg.candidates = t.candidates
            /\ x.seg.selection = t.selection
         \/ /\ x.err = 1
            /\ x.seg.input = InsertAt(t.input, o + 1, chr)
            /\ Len(x.seg.input) = Len(t.input) + 1
            /\ x.seg.candidates = t.candidates
            /\ x.seg.selection = t.selection
  BY <1>3, <1>4, InsertInput, SMTT(40)
<1>6. x.err < 0 => s = p
  <2> SUFFICES ASSUME x.err < 0, s # p PROVE FALSE
    OBVIOUS
  <2>1. o = 0 /\ Len(t.input) = 0
    BY <1>1, <1>4 DEF o, t, k, segment_new
  <2>2. x.err = 1
    BY <2>1, MaxLenAssumption DEF segment_insert, CombinedAt
  <2> QED
    BY <2>2
<1> HIDE DEF x, r, e
<1>7. CASE x.err < 0
  <2>1. r.err < 0 /\ r.preedit = p
    BY <1>2, <1>6, <1>7
  <2> QED
    BY <2>1 DEF r
<1>8. CASE ~ (x.err < 0)
  <2>1. o <= Len(x.seg.input) /\ x.err \in {0, 1} /\ ~ (x.err < 0)
        /\ x.seg.candidates = t.candidates /\ x.seg.selection = t.selection
    <3>1. /\ x.err = 0 \/ x.err = 1
          /\ Len(x.seg.input) = Len(t.input) \/ Len(x.seg.input) = Len(t.input) + 1
          /\ x.seg.candidates = t.candidates /\ x.seg.selection = t.selection
      BY <1>5, <1>8, Zenon
    <3>2. o <= Len(x.seg.input)
      BY <1>4, <3>1
    <3>3. x.err \in {0, 1} /\ ~ (x.err < 0)
      BY <3>1
    <3> QED
      BY <3>1, <3>2, <3>3
  <2>2. s.cursor.offset <= Len(x.seg.input)
    BY <2>1 DEF o
  <2>3. /\ Placed(e)
        /\ e.cursor = s.cursor
        /\ NumSegments(e) = NumSegments(s)
        /\ e.segments[k] = x.seg
        /\ \A i \in 1 .. NumSegments(s) : i # k => e.segments[i] = s.segments[i]
    BY <1>3, <1>5, <2>2, SetCurrentShape DEF e, k
  <2>4. SameButOne(s, e, k) /\ CursorPos(e) = CursorPos(s)
    BY <1>3, <1>5, <2>2, SetCurrentText DEF e, k
  <2>5. CursorPos(s) = Len(Ahead(s, k)) + o
    BY <1>3, LineFacts DEF o, k
  <2>6. Len(Ahead(s, k)) \in Nat
    <3>1. k \in 1 .. NumSegments(s) + 1
      BY <1>4
    <3> QED
      BY <1>3, <3>1, AheadFacts
  <2>7. CursorPos(p) \in Nat /\ Len(line) \in Nat /\ CursorPos(s) \in Nat
    <3>1. Placed(p)
      <4>1. Good(p)
        OBVIOUS
      <4> QED
        BY <4>1 DEF Good, Placed
    <3> QED
      BY <1>3, <3>1, PosInLine DEF line
  \* The segments, whatever is done to the cursor in them.
  <2>8. ASSUME NEW q, q.segments = e.segments, q.cursor.segment = k
        PROVE  \/ OneEdited(p, q, c) /\ q.cursor.segment = c
               \/ OneAdded(p, q, c) /\ q.cursor.segment = c + 1
    <3>1. NumSegments(q) = NumSegments(s)
      BY <2>3, <2>8 DEF NumSegments
    <3>2. CASE s = p
      <4>1. k = c
        BY <3>2 DEF k
      <4>2. OneEdited(p, q, c)
        BY <1>4, <2>1, <2>3, <2>8, <3>1, <3>2, <4>1 DEF OneEdited
      <4> QED
        BY <2>8, <4>1, <4>2
    <3>3. CASE /\ OneAdded(p, s, c)
               /\ s.cursor = [segment |-> c + 1, offset |-> 0]
               /\ s.segments[c + 1] = segment_new
      <4>1. k = c + 1 /\ c \in 1 .. NumSegments(p) /\ NumSegments(s) = NumSegments(p) + 1
        BY <3>3 DEF k, OneAdded
      <4>2. NumSegments(p) \in Int
        BY <1>4, PreeditFacts DEF Good
      <4>3. q.segments[c + 1].candidates = <<>>
        BY <2>1, <2>3, <2>8, <3>3, <1>4, <4>1 DEF segment_new
      <4>4. \A j \in 1 .. c : j \in 1 .. NumSegments(s) /\ j # k
        BY <4>1, <4>2
      <4>5. \A j \in c + 1 .. NumSegments(p) : j + 1 \in 1 .. NumSegments(s) /\ j + 1 # k
        BY <4>1, <4>2
      <4>6. \A j \in 1 .. c : q.segments[j] = p.segments[j]
        BY <2>3, <2>8, <3>3, <4>4 DEF OneAdded
      <4>7. \A j \in c + 1 .. NumSegments(p) : q.segments[j + 1] = p.segments[j]
        BY <2>3, <2>8, <3>3, <4>5 DEF OneAdded
      <4> HIDE DEF c
      <4>8. OneAdded(p, q, c)
        BY <3>1, <4>1, <4>3, <4>6, <4>7 DEF OneAdded
      <4> QED
        BY <2>8, <4>1, <4>8
    <3> QED
      BY <1>1, <3>2, <3>3
  <2>9. CASE x.err = 1
    <3>1. r.err = 0 /\ r.preedit = MoveRight(e)
      BY <1>2, <2>9
    <3>2. e.cursor.segment = k /\ e.cursor.offset = o /\ SegLen(e, k) = Len(t.input) + 1
      BY <1>5, <2>3, <2>9 DEF SegLen, k, o
    <3>3. e.cursor.offset < SegLen(e, e.cursor.segment)
      BY <1>4, <3>2
    <3> DEFINE q == MoveRight(e)
    <3>4. q.cursor.segment = k
      <4>1. q = At(e, k, e.cursor.offset + 1)
        BY <3>2, <3>3 DEF MoveRight
      <4>2. e \in [segments : Seq(SegmentType), cursor : CursorType]
        BY <2>3 DEF Placed, PreeditType
      <4> HIDE DEF q
      <4> QED
        BY <4>1, <4>2 DEF At
    <3>5. /\ Placed(q)
          /\ q.segments = e.segments
          /\ preedit_get_input(q) = preedit_get_input(e)
          /\ CursorPos(q) = IF CursorPos(e) < Len(preedit_get_input(e))
                            THEN CursorPos(e) + 1 ELSE CursorPos(e)
      BY <2>3, RightEffect
    <3> HIDE DEF q
    <3>6. preedit_get_input(e) = InsertAt(line, CursorPos(s) + 1, chr)
      <4> DEFINE i == o + 1
      <4>1. i \in 1 .. SegLen(s, k) + 1 /\ e.segments[k].input = InsertAt(s.segments[k].input, i, chr)
        BY <1>4, <1>5, <2>3, <2>9
      <4>2. Len(Ahead(s, k)) + i = CursorPos(s) + 1
        BY <1>4, <2>5, <2>6
      <4> HIDE DEF i
      <4>3. preedit_get_input(e) = InsertAt(preedit_get_input(s), Len(Ahead(s, k)) + i, chr)
        BY <1>3, <1>4, <2>3, <2>4, <4>1, InsertedText
      <4> QED
        BY <1>1, <4>2, <4>3
    <3>7. Len(preedit_get_input(e)) = Len(line) + 1
      <4> DEFINE i == CursorPos(s) + 1
      <4>1. line \in Seq(Char) /\ i \in 1 .. Len(line) + 1
        <5>1. line \in Seq(Char)
          BY <1>1, <1>3, LineFacts
        <5> QED
          BY <1>1, <2>7, <5>1
      <4> HIDE DEF i
      <4>2. Len(InsertAt(line, i, chr)) = Len(line) + 1
        BY <4>1, InsertAtLength
      <4> QED
        BY <3>6, <4>2 DEF i
    <3>8. CursorPos(q) = CursorPos(s) + 1
      <4>1. CursorPos(s) < Len(line) + 1
        BY <1>1, <2>7
      <4> QED
        BY <2>4, <3>5, <3>7, <4>1
    <3>9. Typed(p, q, chr)
      BY <1>1, <3>5, <3>6, <3>8 DEF Typed, line
    <3> QED
      BY <2>8, <3>1, <3>4, <3>5, <3>9 DEF r, q
  <2>10. CASE x.err = 0
    <3>1. r.err = 0 /\ r.preedit = e
      BY <1>2, <2>10
    <3>2. o > 0 /\ s = p
      <4>1. o > 0
        BY <1>5, <2>10
      <4>2. s # p => o = 0
        BY <1>1 DEF o
      <4> QED
        BY <4>1, <4>2
    <3> DEFINE merged == Combine(t.input[o], chr)
    <3>3. merged \in Char /\ e.segments[k].input = ReplaceAt(s.segments[k].input, o, merged)
      BY <1>4, <1>5, <2>3, <2>10
    <3>4. o \in 1 .. SegLen(s, k)
      BY <1>4, <3>2
    <3> HIDE DEF merged
    <3>5. /\ preedit_get_input(e) = ReplaceAt(preedit_get_input(s), Len(Ahead(s, k)) + o, merged)
          /\ preedit_get_input(s)[Len(Ahead(s, k)) + o] = s.segments[k].input[o]
      BY <1>3, <1>4, <2>3, <2>4, <3>3, <3>4, ReplacedText
    <3>6. merged = Combine(line[CursorPos(p)], chr)
      BY <1>1, <1>4, <2>5, <3>2, <3>5 DEF merged
    <3>7. preedit_get_input(e) = ReplaceAt(line, CursorPos(p), merged)
      BY <1>1, <2>5, <3>2, <3>5
    <3>8. CursorPos(p) > 0 /\ CursorPos(e) = CursorPos(p)
      <4>1. CursorPos(p) = Len(Ahead(s, k)) + o /\ o \in Nat
        BY <1>4, <2>5, <3>2
      <4> QED
        BY <2>4, <2>6, <3>2, <4>1
    <3>9. Merged(p, e, chr)
      BY <3>3, <3>6, <3>7, <3>8 DEF Merged, line
    <3>10. e.cursor.segment = k
      BY <2>3 DEF k
    <3> QED
      BY <2>8, <3>1, <3>9, <3>10 DEF r
  <2> QED
    BY <2>1, <2>9, <2>10
<1> QED
  BY <1>7, <1>8

-----------------------------------------------------------------------------
(* What a lookup does to the output *)

\* A list that offers a value has a last place of it.
LEMMA LastPositionExists ==
  ASSUME NEW S, NEW cands \in Seq(S), NEW v, NEW i \in 1 .. Len(cands), cands[i] = v
  PROVE  LastPosition(cands, v) # {}
<1> SUFFICES ASSUME LastPosition(cands, v) = {} PROVE FALSE
  OBVIOUS
<1> DEFINE n == Len(cands)
           P == {m \in Nat : \A j \in 1 .. n : n - m < j => cands[j] # v}
<1>1. n \in Nat
  BY LenProperties
<1>2. 0 \in P
  BY <1>1
<1>3. ASSUME NEW m \in Nat, m \in P PROVE m + 1 \in P
  <2> DEFINE k == n - m
  <2>1. k \in Int /\ n - (m + 1) = k - 1
    BY <1>1
  <2>2. \A j \in 1 .. n : k < j => cands[j] # v
    BY <1>3
  <2>3. k \in 1 .. n => cands[k] # v
    <3> SUFFICES ASSUME k \in 1 .. n, cands[k] = v PROVE FALSE
      OBVIOUS
    <3>1. \A j \in k + 1 .. n : j \in 1 .. n /\ k < j
      BY <1>1, <2>1
    <3>2. k \in LastPosition(cands, v)
      BY <2>2, <3>1 DEF LastPosition
    <3> QED
      BY <3>2
  <2>4. ASSUME NEW j \in 1 .. n, n - (m + 1) < j PROVE cands[j] # v
    <3>1. k - 1 < j /\ j \in Int
      BY <2>1, <2>4, <1>1
    <3> HIDE DEF k
    <3>2. k < j \/ j = k
      BY <2>1, <3>1
    <3> QED
      BY <2>2, <2>3, <3>2
  <2> QED
    BY <2>4
<1>4. n \in P
  <2> HIDE DEF P
  <2> QED
    BY <1>1, <1>2, <1>3, NatInduct
<1>5. n - n < i
  BY <1>1
<1> QED
  BY <1>4, <1>5

\* A lookup never makes a selection, and keeps one on its value or drops it.
LEMMA UpdateSelection ==
  ASSUME NEW s, Bounded(s), HasSelection(segment_update_candidates(s))
  PROVE  /\ HasSelection(s)
         /\ SelectedValue(segment_update_candidates(s)) = SelectedValue(s)
<1> DEFINE cands == IF s.input = <<>> THEN <<>> ELSE Suggest(s.input)
           v     == SelectedValue(s)
           kept  == IF HasSelection(s) THEN LastPosition(cands, v) ELSE {}
           t     == segment_update_candidates(s)
<1>1. s \in SegmentType
  BY DEF Bounded
<1>2. cands \in Seq(Value)
  BY <1>1, SuggestType, EmptySeq DEF Bounded, SegmentType
<1> HIDE DEF cands
<1>3. t = [s EXCEPT !.candidates = cands,
                    !.selection  = IF kept = {} THEN -1 ELSE (CHOOSE i \in kept : TRUE) - 1]
  BY Zenon DEF segment_update_candidates, segment_set_candidates, cands
<1> HIDE DEF kept, t, v
<1>4. /\ t.candidates = cands
      /\ t.selection = IF kept = {} THEN -1 ELSE (CHOOSE i \in kept : TRUE) - 1
  BY <1>1, <1>3 DEF SegmentType
<1>5. kept # {}
  BY <1>4 DEF HasSelection, t
<1>6. PICK i \in kept : t.selection = i - 1
  BY <1>4, <1>5
<1>7. HasSelection(s) /\ i \in LastPosition(cands, v)
  BY <1>6 DEF kept
<1>8. i \in 1 .. Len(cands) /\ cands[i] = v
  BY <1>7 DEF LastPosition
<1>9. Len(cands) \in Nat
  BY <1>2, LenProperties
<1>10. (i - 1) + 1 = i
  BY <1>8, <1>9
<1>11. t.candidates[t.selection + 1] = v
  BY <1>4, <1>6, <1>8, <1>10
<1> QED
  BY <1>7, <1>11 DEF SelectedValue, t, v

\* Looking up what is up to date already changes no output.
LEMMA FreshOutput ==
  ASSUME NEW s \in SegmentType, FreshSegment(s)
  PROVE  segment_get_output(segment_update_candidates(s)) = segment_get_output(s)
<1> DEFINE cands == s.candidates
           v     == SelectedValue(s)
           kept  == IF HasSelection(s) THEN LastPosition(cands, v) ELSE {}
           t     == segment_update_candidates(s)
<1>1. cands \in Seq(Value) /\ cands = (IF s.input = <<>> THEN <<>> ELSE Suggest(s.input))
  BY DEF FreshSegment, SegmentType
<1>2. t = [s EXCEPT !.candidates = cands,
                    !.selection  = IF kept = {} THEN -1 ELSE (CHOOSE i \in kept : TRUE) - 1]
  BY <1>1, Zenon DEF segment_update_candidates, segment_set_candidates
<1> HIDE DEF kept, t, v
<1>3. /\ t.candidates = cands
      /\ t.selection = IF kept = {} THEN -1 ELSE (CHOOSE i \in kept : TRUE) - 1
      /\ t.input = s.input
  BY <1>2 DEF SegmentType
<1>4. CASE ~ HasSelection(s)
  <2>1. kept = {}
    BY <1>4 DEF kept
  <2>2. ~ HasSelection(t)
    BY <1>3, <2>1 DEF HasSelection
  <2> QED
    BY <1>3, <1>4, <2>2 DEF segment_get_output, t
<1>5. CASE HasSelection(s)
  <2> DEFINE i == s.selection + 1
  <2>1. i \in 1 .. Len(cands) /\ cands[i] = v
    <3>1. s.selection \in Int /\ Len(cands) \in Nat
      BY <1>1, LenProperties DEF SegmentType
    <3> QED
      BY <1>5, <3>1 DEF HasSelection, SelectedValue, v
  <2> HIDE DEF i
  <2>2. kept = LastPosition(cands, v)
    BY <1>5 DEF kept
  <2>3. kept # {}
    BY <1>1, <2>1, <2>2, LastPositionExists
  <2>4. PICK j \in kept : t.selection = j - 1
    BY <1>3, <2>3
  <2>5. j \in 1 .. Len(cands) /\ cands[j] = v /\ Len(cands) \in Nat
    BY <1>1, <2>2, <2>4, LenProperties DEF LastPosition
  <2>6. HasSelection(t) /\ (j - 1) + 1 = j
    BY <1>3, <2>4, <2>5 DEF HasSelection
  <2>7. SelectedValue(t) = v
    BY <1>3, <2>4, <2>5, <2>6 DEF SelectedValue
  <2> QED
    BY <1>5, <2>6, <2>7 DEF segment_get_output, t, v
<1> QED
  BY <1>4, <1>5

\* The lookup concerns the cursor's segment only.
LEMMA UpdateShape ==
  ASSUME NEW p, Draft(p)
  PROVE  LET q == preedit_update_candidates(p)
             c == p.cursor.segment
         IN  /\ c \in 1 .. NumSegments(p)
             /\ NumSegments(q) = NumSegments(p)
             /\ \A j \in 1 .. NumSegments(p) : j # c => q.segments[j] = p.segments[j]
             /\ q.segments[c] = segment_update_candidates(p.segments[c])
             /\ Bounded(p.segments[c])
<1> DEFINE t == segment_update_candidates(Current(p))
           c == p.cursor.segment
<1>1. /\ Placed(p) /\ Bounded(Current(p)) /\ p.cursor.offset <= Len(Current(p).input)
      /\ c \in 1 .. NumSegments(p) /\ Current(p) = p.segments[c]
  BY PreeditFacts DEF Draft, Placed, Bounded, SegLen, Current
<1>2. t \in SegmentType /\ t.input = Current(p).input
  BY <1>1, UpdateCandidatesFresh
<1> HIDE DEF t
<1>3. p.cursor.offset <= Len(t.input)
  BY <1>1, <1>2
<1> DEFINE q == SetCurrent(p, t)
<1>4. /\ NumSegments(q) = NumSegments(p)
      /\ q.segments[c] = t
      /\ \A i \in 1 .. NumSegments(p) : i # c => q.segments[i] = p.segments[i]
  BY <1>1, <1>2, <1>3, SetCurrentShape
<1> HIDE DEF q
<1>5. preedit_update_candidates(p) = q
  BY DEF preedit_update_candidates, q, t
<1> QED
  BY <1>1, <1>4, <1>5 DEF t

-----------------------------------------------------------------------------
(* The invariant *)

\* The inductive invariant.  CursorInBounds alone is not inductive: that a
\* removal or a merge leaves the cursor in bounds depends on the types, and
\* that a failed edit leaves fresh candidates on the freshness of all others.
AllGood == \A ic \in IC : Good(preedit[ic])

IInv == TypeOK /\ AllGood

-----------------------------------------------------------------------------

\* An edit that ends in a good preedit preserves the invariant.
LEMMA EditIInv ==
  ASSUME IInv, NEW ic \in IC, NEW result,
         Good(result.preedit), result.err \in Int, Edit(ic, result)
  PROVE  IInv'
<1>1. /\ preedit' = [preedit EXCEPT ![ic] = result.preedit]
      /\ UNCHANGED <<live, lang, active>>
      /\ returned' = (result.err < 0)
  BY DEF Edit
<1>2. returned' \in BOOLEAN
  BY <1>1
<1>3. result.preedit \in PreeditType
  BY DEF Good
<1>4. preedit \in [IC -> PreeditType]
  BY DEF IInv, TypeOK
<1>5. TypeOK'
  BY <1>1, <1>2, <1>3, <1>4 DEF IInv, TypeOK
<1>6. ASSUME NEW j \in IC  PROVE Good(preedit'[j])
  BY <1>1, <1>4 DEF IInv, AllGood
<1>7. QED  BY <1>5, <1>6 DEF IInv, AllGood

\* An edit that leaves a draft when it succeeds, followed by the lookup.
LEMMA RefreshedGood ==
  ASSUME NEW result, result.err # 0 => Good(result.preedit),
         Draft(result.preedit), result.err \in Int,
         result = [err |-> result.err, preedit |-> result.preedit]
  PROVE  Good(Refreshed(result).preedit) /\ Refreshed(result).err \in Int
<1>1. CASE result.err # 0
  BY <1>1 DEF Refreshed
<1>2. CASE result.err = 0
  <2>1. Good(preedit_update_candidates(result.preedit))
    BY UpdateGood
  <2>2. /\ Refreshed(result).preedit = preedit_update_candidates(result.preedit)
        /\ Refreshed(result).err = result.err
    BY <1>2 DEF Refreshed
  <2>3. QED  BY <2>1, <2>2
<1>3. QED  BY <1>1, <1>2

\* A refused command leaves the preedit as it was.
LEMMA UnlessEmptyGood ==
  ASSUME NEW p, Good(p), NEW result, Good(result.preedit), result.err \in Int
  PROVE  Good(UnlessEmpty(p, result).preedit) /\ UnlessEmpty(p, result).err \in Int
BY DEF UnlessEmpty, ERANGE

\* The results of the edits are pairs of an error code and a preedit.
LEMMA Results ==
  ASSUME NEW p, NEW chr, NEW dir, NEW n
  PROVE  /\ preedit_insert(p, chr).err \in Int
         /\ preedit_insert(p, chr) =
              [err |-> preedit_insert(p, chr).err, preedit |-> preedit_insert(p, chr).preedit]
         /\ preedit_erase(p, dir).err \in Int
         /\ preedit_erase(p, dir) =
              [err |-> preedit_erase(p, dir).err, preedit |-> preedit_erase(p, dir).preedit]
         /\ preedit_move_candidate(p, n).err \in Int
         /\ preedit_select_candidate(p, n).err \in Int
<1>1. \A s, pos : /\ segment_insert(s, chr, pos).err \in Int
                  /\ segment_erase(s, pos).err \in Int
  BY DEF segment_insert, segment_erase, EMSGSIZE, EOVERFLOW
<1>2. /\ preedit_insert(p, chr).err \in Int
      /\ preedit_insert(p, chr) =
           [err |-> preedit_insert(p, chr).err, preedit |-> preedit_insert(p, chr).preedit]
  <2> DEFINE s == insert_segment_if_needed(p, chr)
             r == segment_insert(Current(s), chr, s.cursor.offset)
  <2>1. r.err \in Int  BY <1>1
  <2>2. CASE r.err < 0  BY <2>1, <2>2 DEF preedit_insert
  <2>3. CASE ~ (r.err < 0)  BY <2>3 DEF preedit_insert
  <2>4. QED  BY <2>2, <2>3
<1>3. /\ preedit_erase(p, dir).err \in Int
      /\ preedit_erase(p, dir) =
           [err |-> preedit_erase(p, dir).err, preedit |-> preedit_erase(p, dir).preedit]
  <2> DEFINE m == preedit_move(p, dir)
             r == segment_erase(Current(m), m.cursor.offset)
  <2>1. r.err \in Int  BY <1>1
  <2>2. CASE r.err < 0  BY <2>1, <2>2 DEF preedit_erase
  <2>3. CASE ~ (r.err < 0)  BY <2>3 DEF preedit_erase
  <2>4. QED  BY <2>2, <2>3
<1>4. preedit_move_candidate(p, n).err \in Int
  BY DEF preedit_move_candidate, segment_move_candidate, ENOENT
<1>5. preedit_select_candidate(p, n).err \in Int
  BY DEF preedit_select_candidate, segment_select_candidate, EBADSLT
<1>6. QED  BY <1>2, <1>3, <1>4, <1>5

-----------------------------------------------------------------------------

\* Creating the first segment, and every other value of Init.
LEMMA InitIInv == Init => IInv
<1>1. Good(preedit_new)  BY NewAndClearGood
<1>2. QED  BY <1>1, KeymapAssumption DEF Init, IInv, TypeOK, AllGood, Good

\* A key event in one context preserves the invariant.
LEMMA KeyIInv ==
  ASSUME IInv, NEW ic \in IC, input_method_handle_key(ic)
  PROVE  IInv'
<1> DEFINE p == preedit[ic]
<1>1. Good(p) /\ lang[ic] \in Lang
  BY DEF IInv, AllGood, TypeOK
<1> HIDE DEF p
<1>2. ASSUME NEW key \in Key, input_context_insert(ic, key)  PROVE IInv'
  <2> DEFINE chr == Keymap[lang[ic]][key]
             r == preedit_insert(p, chr)
  <2>1. chr # CharInvalid /\ Edit(ic, Refreshed(r))
    BY <1>2 DEF input_context_insert, p
  <2>2. chr \in Char
    BY <2>1, <1>1, KeymapAssumption
  <2> HIDE DEF chr
  <2>3. /\ r.err # 0 => Good(r.preedit)
        /\ Draft(r.preedit)
        /\ r.err \in Int
        /\ r = [err |-> r.err, preedit |-> r.preedit]
    BY <2>2, <1>1, InsertDraft, Results
  <2> HIDE DEF r
  <2>4. QED  BY <2>1, <2>3, RefreshedGood, EditIInv
<1>3. ASSUME NEW dir \in {"left", "stay"}, input_context_erase(ic, dir)  PROVE IInv'
  <2> DEFINE r == preedit_erase(p, dir)
  <2>1. Edit(ic, UnlessEmpty(p, Refreshed(r)))
    BY <1>3 DEF input_context_erase, p
  <2>2. dir \in Directions  BY DEF Directions
  <2>3. /\ r.err # 0 => Good(r.preedit)
        /\ Draft(r.preedit)
        /\ r.err \in Int
        /\ r = [err |-> r.err, preedit |-> r.preedit]
    BY <2>2, <1>1, EraseDraft, Results
  <2> HIDE DEF r
  <2>4. QED  BY <2>1, <2>3, <1>1, RefreshedGood, UnlessEmptyGood, EditIInv
<1>4. ASSUME NEW dir \in Directions \ {"stay"}, input_context_cursor_move(ic, dir)
      PROVE  IInv'
  <2> DEFINE r == [err |-> 0, preedit |-> preedit_move(p, dir)]
  <2>1. Edit(ic, UnlessEmpty(p, r))
    BY <1>4 DEF input_context_cursor_move, p
  <2>2. Good(r.preedit) /\ r.err \in Int
    BY <1>1, MoveGood
  <2> HIDE DEF r
  <2>3. QED  BY <2>1, <2>2, <1>1, UnlessEmptyGood, EditIInv
<1>5. ASSUME NEW dir \in {-1, 1}, input_context_move_candidate(ic, dir)  PROVE IInv'
  <2> DEFINE r == preedit_move_candidate(p, dir)
  <2>1. Edit(ic, r)
    BY <1>5 DEF input_context_move_candidate, p
  <2>2. dir \in Int
    OBVIOUS
  <2>3. Good(r.preedit) /\ r.err \in Int
    BY <2>2, <1>1, CandidateGood, Results
  <2> HIDE DEF r
  <2>4. QED  BY <2>1, <2>3, EditIInv
<1>6. ASSUME NEW n \in Position, input_context_select_candidate(ic, n)  PROVE IInv'
  <2>1. n \in Int  BY PositionAssumption
  <2>2. QED
    BY <2>1, <1>1, <1>6, CandidateGood, Results, EditIInv
       DEF input_context_select_candidate, p
<1>7. ASSUME input_context_insert_segment(ic)  PROVE IInv'
  <2> DEFINE q == preedit_insert_segment(p)
             r == [err |-> 0, preedit |-> preedit_move_segment(q)]
  <2>1. Edit(ic, r)
    BY <1>7 DEF input_context_insert_segment, p
  <2>2. Good(q)
    BY <1>1, InsertSegmentGood
  <2> HIDE DEF q
  <2>3. q \in PreeditType /\ CursorInPreedit(q)
    BY <2>2 DEF Good
  <2>4. /\ NumSegments(q) \in Nat \ {0}
        /\ q.cursor.segment \in 1 .. NumSegments(q)
        /\ \A i \in 1 .. NumSegments(q) : SegLen(q, i) \in Nat
    BY <2>3, PreeditFacts
  <2>5. NextSegmentIndex(q) \in 1 .. NumSegments(q)
    BY <2>4 DEF NextSegmentIndex
  <2>6. SegLen(q, NextSegmentIndex(q)) \in 0 .. SegLen(q, NextSegmentIndex(q))
    BY <2>4, <2>5
  <2>7. Good(preedit_move_segment(q))
    BY <2>2, <2>5, <2>6, AtGood DEF preedit_move_segment, EndOf
  <2>8. Good(r.preedit) /\ r.err \in Int
    BY <2>7
  <2> HIDE DEF r
  <2>9. QED  BY <2>1, <2>8, EditIInv
<1>8. ASSUME input_context_clear(ic)  PROVE IInv'
  <2> DEFINE r == [err |-> 0, preedit |-> preedit_clear(p)]
  <2>1. Edit(ic, r) /\ Good(r.preedit) /\ r.err \in Int
    BY <1>8, NewAndClearGood DEF input_context_clear, p
  <2> HIDE DEF r
  <2>2. QED  BY <2>1, EditIInv
<1>9. ASSUME input_context_commit(ic)  PROVE IInv'
  <2>1. /\ UNCHANGED <<live, lang, active>>
        /\ returned' \in BOOLEAN
        /\ \/ UNCHANGED preedit
           \/ preedit' = [preedit EXCEPT ![ic] = preedit_clear(@)]
    BY <1>9 DEF input_context_commit
  <2>2. Good(preedit_clear(p)) /\ preedit_clear(p) \in PreeditType
    BY NewAndClearGood DEF Good
  <2>3. preedit \in [IC -> PreeditType]
    BY DEF IInv, TypeOK
  <2>4. CASE UNCHANGED preedit
    BY <2>1, <2>4 DEF IInv, TypeOK, AllGood
  <2>5. CASE preedit' = [preedit EXCEPT ![ic] = preedit_clear(p)]
    <3>1. ASSUME NEW j \in IC  PROVE Good(preedit'[j])
      BY <2>2, <2>3, <2>5 DEF IInv, AllGood
    <3>2. QED  BY <3>1, <2>1, <2>2, <2>3, <2>5 DEF IInv, TypeOK, AllGood
  <2>6. QED  BY <2>1, <2>4, <2>5 DEF p
<1>10. ASSUME NEW l \in Lang, input_context_set_language(ic, l)  PROVE IInv'
  BY <1>10 DEF input_context_set_language, IInv, TypeOK, AllGood
<1>11. ASSUME NEW key \in Key, UnmappedKey(ic, key)  PROVE IInv'
  BY <1>11 DEF UnmappedKey, IInv, TypeOK, AllGood
<1>12. ASSUME RefusedKey(ic) \/ toggle_onoff(ic)  PROVE IInv'
  BY <1>12 DEF RefusedKey, toggle_onoff, IInv, TypeOK, AllGood
<1>13. QED
  BY <1>2, <1>3, <1>4, <1>5, <1>6, <1>7, <1>8, <1>9, <1>10, <1>11, <1>12
     DEF input_method_handle_key

\* Every step preserves the invariant.
LEMMA NextIInv == IInv /\ [Next]_vars => IInv'
<1> SUFFICES ASSUME IInv, [Next]_vars  PROVE IInv'
  OBVIOUS
<1>1. ASSUME NEW ic \in IC, input_context_new(ic)  PROVE IInv'
  BY <1>1 DEF input_context_new, IInv, TypeOK, AllGood
<1>2. ASSUME NEW ic \in IC, input_context_free(ic)  PROVE IInv'
  <2>1. /\ live' = live \ {ic}
        /\ preedit' = [preedit EXCEPT ![ic] = preedit_new]
        /\ lang' = [lang EXCEPT ![ic] = DefaultLang]
        /\ active' = active
        /\ returned' = FALSE
    BY <1>2 DEF input_context_free
  <2>2. Good(preedit_new) /\ preedit_new \in PreeditType /\ DefaultLang \in Lang
    BY NewAndClearGood, KeymapAssumption DEF Good
  <2>3. preedit \in [IC -> PreeditType] /\ lang \in [IC -> Lang]
    BY DEF IInv, TypeOK
  <2>4. ASSUME NEW j \in IC  PROVE Good(preedit'[j])
    BY <2>1, <2>2, <2>3 DEF IInv, AllGood
  <2>5. TypeOK'
    BY <2>1, <2>2, <2>3 DEF IInv, TypeOK
  <2>6. QED  BY <2>4, <2>5 DEF IInv, AllGood
<1>3. CASE UNCHANGED vars
  BY <1>3 DEF vars, IInv, TypeOK, AllGood
<1>4. QED  BY <1>1, <1>2, <1>3, KeyIInv DEF Next

\* Every reachable state has the inductive invariant.
THEOREM Invariant == Spec => []IInv
<1>1. QED  BY InitIInv, NextIInv, PTL DEF Spec

-----------------------------------------------------------------------------

\* Contexts keep their shape, whatever keys are pressed in whatever order.
THEOREM TypeCorrect == Spec => []TypeOK
<1>1. IInv => TypeOK  BY DEF IInv
<1>2. QED  BY <1>1, Invariant, PTL

\* The cursor of preedit.c always indexes an existing segment and a position
\* in it: no number of contexts, characters or segments reaches a state in
\* which segments[cursor.segment] is read out of bounds.
THEOREM CursorAlwaysInBounds == Spec => []CursorInBounds
<1>1. IInv => CursorInBounds  BY DEF IInv, AllGood, Good, CursorInBounds
<1>2. QED  BY <1>1, Invariant, PTL

\* No context ever shows candidates of an input it no longer has, or selects
\* one that is not there.
THEOREM CandidatesAlwaysFresh == Spec => []CandidatesFresh
<1>1. IInv => CandidatesFresh  BY DEF IInv, AllGood, Good, CandidatesFresh
<1>2. QED  BY <1>1, Invariant, PTL

-----------------------------------------------------------------------------
(* Action properties *)

\* While the input method is off every key is refused, and only contexts that
\* are destroyed in the same step lose their text.
THEOREM OffFreezes == Spec => OffFreezesAll
<1> DEFINE Frozen ==
      ~ active => /\ \A ic \in live \cap live' :
                       preedit'[ic] = preedit[ic] /\ lang'[ic] = lang[ic]
                  /\ live' = live => returned' \/ active'
<1>1. ASSUME IInv, Next  PROVE Frozen
  <2>1. SUFFICES ASSUME ~ active  PROVE Frozen
    OBVIOUS
  <2>2. preedit \in [IC -> PreeditType] /\ lang \in [IC -> Lang] /\ live \subseteq IC
    BY <1>1 DEF IInv, TypeOK
  <2>3. PICK ic \in IC : \/ input_context_new(ic)
                         \/ input_context_free(ic)
                         \/ input_method_handle_key(ic)
    BY <1>1 DEF Next
  <2>4. CASE input_context_new(ic)
    <3>1. preedit' = preedit /\ lang' = lang /\ live' # live
      BY <2>4 DEF input_context_new
    <3>2. QED  BY <3>1
  <2>5. CASE input_context_free(ic)
    <3>1. /\ ic \in live
          /\ live' = live \ {ic}
          /\ preedit' = [preedit EXCEPT ![ic] = preedit_new]
          /\ lang' = [lang EXCEPT ![ic] = DefaultLang]
      BY <2>5 DEF input_context_free
    <3>2. \A j \in live \cap live' : preedit'[j] = preedit[j] /\ lang'[j] = lang[j]
      BY <3>1, <2>2
    <3>3. live' # live
      BY <3>1
    <3>4. QED  BY <3>2, <3>3
  <2>6. CASE input_method_handle_key(ic)
    <3>1. \/ \E key \in Key : UnmappedKey(ic, key)
          \/ RefusedKey(ic)
          \/ toggle_onoff(ic)
      BY <2>1, <2>6
         DEF input_method_handle_key, input_context_insert, input_context_erase,
             input_context_cursor_move, input_context_move_candidate,
             input_context_select_candidate, input_context_insert_segment,
             input_context_clear, input_context_commit, input_context_set_language, Edit
    <3>2. preedit' = preedit /\ lang' = lang /\ (returned' \/ active')
      BY <2>1, <3>1 DEF UnmappedKey, RefusedKey, toggle_onoff
    <3>3. QED  BY <3>2
  <2>7. QED  BY <2>3, <2>4, <2>5, <2>6
<1>2. IInv /\ [Next]_vars => [Frozen]_vars
  BY <1>1
<1>3. QED  BY <1>2, Invariant, PTL DEF Spec, OffFreezesAll

\* Putting the current segment back where it is changes nothing.
LEMMA SetCurrentSame ==
  ASSUME NEW p, Good(p)
  PROVE  SetCurrent(p, Current(p)).segments = p.segments
<1>1. p \in PreeditType /\ CursorInPreedit(p)  BY DEF Good
<1>2. p.segments \in Seq(SegmentType)  BY <1>1, PreeditFacts
<1>3. SetCurrent(p, Current(p)).segments = [p.segments EXCEPT ![p.cursor.segment] = Current(p)]
  BY <1>1 DEF SetCurrent, PreeditType
<1>4. QED  BY <1>2, <1>3 DEF Current

\* A segment that was made for a character takes it: the code never leaves
\* an empty segment behind for a key it then returns.
LEMMA FailedInsertKeepsSegments ==
  ASSUME NEW p, Good(p), NEW chr \in Char, preedit_insert(p, chr).err < 0
  PROVE  preedit_insert(p, chr).preedit.segments = p.segments
<1> DEFINE s == insert_segment_if_needed(p, chr)
           r == segment_insert(Current(s), chr, s.cursor.offset)
<1>1. CASE ~ NeedsSegment(p, chr)
  <2>1. s = p  BY <1>1 DEF insert_segment_if_needed
  <2>2. preedit_insert(p, chr).preedit = s
    BY DEF preedit_insert
  <2>3. QED  BY <2>1, <2>2
<1>2. CASE NeedsSegment(p, chr)
  <2> DEFINE q == preedit_insert_segment(p)
             k == p.cursor.segment + 1
  <2>1. s = At(q, k, 0)  BY <1>2 DEF insert_segment_if_needed
  <2>2. Good(q) /\ SegLen(q, k) = 0 /\ k \in 1 .. NumSegments(q)
    BY InsertSegmentGood
  <2>3. q \in PreeditType
    BY <2>2 DEF Good
  <2> HIDE DEF q, k
  <2>4. s.segments = q.segments /\ s.cursor = [segment |-> k, offset |-> 0]
    BY <2>1, <2>3 DEF At, PreeditType, CursorType
  <2> HIDE DEF s
  <2>5. Len(Current(s).input) = 0 /\ s.cursor.offset = 0
    BY <2>2, <2>4 DEF Current, SegLen
  <2>6. r.err = 1
    BY <2>5, MaxLenAssumption DEF segment_insert, CombinedAt
  <2>7. preedit_insert(p, chr).err = 0
    BY <2>6 DEF preedit_insert, s
  <2>8. QED  BY <2>7
<1>3. QED  BY <1>1, <1>2

\* An edit whose key is returned keeps the segments of every context.
LEMMA ReturnedEdit ==
  ASSUME IInv, NEW ic \in IC, NEW result, Edit(ic, result), returned',
         result.err < 0 => result.preedit.segments = preedit[ic].segments
  PROVE  \A j \in IC : preedit'[j].segments = preedit[j].segments
<1>1. /\ preedit' = [preedit EXCEPT ![ic] = result.preedit]
      /\ result.err < 0
  BY DEF Edit
<1>2. preedit \in [IC -> PreeditType]
  BY DEF IInv, TypeOK
<1>3. QED  BY <1>1, <1>2

\* A refused, failed or unbound key leaves every segment as it was.
LEMMA ReturnedKey ==
  ASSUME IInv, NEW ic \in IC, input_method_handle_key(ic), returned'
  PROVE  \A j \in IC : preedit'[j].segments = preedit[j].segments
<1> DEFINE p == preedit[ic]
           Goal == \A j \in IC : preedit'[j].segments = preedit[j].segments
<1>1. Good(p) /\ lang[ic] \in Lang
  BY DEF IInv, AllGood, TypeOK
<1> HIDE DEF p
<1>2. ASSUME NEW key \in Key, input_context_insert(ic, key)  PROVE Goal
  <2> DEFINE chr == Keymap[lang[ic]][key]
             r == preedit_insert(p, chr)
  <2>1. chr # CharInvalid /\ Edit(ic, Refreshed(r))
    BY <1>2 DEF input_context_insert, p
  <2>2. chr \in Char
    BY <2>1, <1>1, KeymapAssumption
  <2> HIDE DEF chr
  <2>3. r.err < 0 => r.preedit.segments = p.segments
    BY <2>2, <1>1, FailedInsertKeepsSegments
  <2>4. r.err \in Int /\ r = [err |-> r.err, preedit |-> r.preedit]
    BY Results
  <2> HIDE DEF r
  <2>5. Refreshed(r).err < 0 => Refreshed(r).preedit.segments = p.segments
    BY <2>3, <2>4 DEF Refreshed
  <2>6. QED  BY <2>1, <2>5, ReturnedEdit DEF p
<1>3. ASSUME NEW dir \in {"left", "stay"}, input_context_erase(ic, dir)  PROVE Goal
  <2> DEFINE r == preedit_erase(p, dir)
             u == UnlessEmpty(p, Refreshed(r))
  <2>1. Edit(ic, u)
    BY <1>3 DEF input_context_erase, p
  <2>2. dir \in Directions  BY DEF Directions
  <2>3. r.err < 0 => r.preedit = preedit_move(p, dir)
    BY DEF preedit_erase, segment_erase, EOVERFLOW
  <2>4. r.err \in Int /\ r = [err |-> r.err, preedit |-> r.preedit]
    BY Results
  <2>5. r.err < 0 => r.preedit.segments = p.segments
    BY <2>2, <2>3, <1>1, MoveGood
  <2> HIDE DEF r
  <2>6. u.err < 0 => u.preedit.segments = p.segments
    BY <2>4, <2>5 DEF Refreshed, UnlessEmpty
  <2> HIDE DEF u
  <2>7. QED  BY <2>1, <2>6, ReturnedEdit DEF p
<1>4. ASSUME NEW dir \in Directions \ {"stay"}, input_context_cursor_move(ic, dir)
      PROVE  Goal
  <2> DEFINE r == [err |-> 0, preedit |-> preedit_move(p, dir)]
             u == UnlessEmpty(p, r)
  <2>1. Edit(ic, u)
    BY <1>4 DEF input_context_cursor_move, p
  <2>2. u.err < 0 => u.preedit.segments = p.segments
    BY DEF UnlessEmpty
  <2> HIDE DEF u
  <2>3. QED  BY <2>1, <2>2, ReturnedEdit DEF p
<1>5. ASSUME NEW dir \in {-1, 1}, input_context_move_candidate(ic, dir)  PROVE Goal
  <2> DEFINE r == preedit_move_candidate(p, dir)
  <2>1. Edit(ic, r)
    BY <1>5 DEF input_context_move_candidate, p
  <2>2. r.err < 0 => r.preedit = SetCurrent(p, Current(p))
    BY DEF preedit_move_candidate, segment_move_candidate
  <2>3. r.err < 0 => r.preedit.segments = p.segments
    BY <2>2, <1>1, SetCurrentSame
  <2> HIDE DEF r
  <2>4. QED  BY <2>1, <2>3, ReturnedEdit DEF p
<1>6. ASSUME NEW n \in Position, input_context_select_candidate(ic, n)  PROVE Goal
  <2> DEFINE r == preedit_select_candidate(p, n)
  <2>1. Edit(ic, r)
    BY <1>6 DEF input_context_select_candidate, p
  <2>2. r.err < 0 => r.preedit = SetCurrent(p, Current(p))
    BY DEF preedit_select_candidate, segment_select_candidate
  <2>3. r.err < 0 => r.preedit.segments = p.segments
    BY <2>2, <1>1, SetCurrentSame
  <2> HIDE DEF r
  <2>4. QED  BY <2>1, <2>3, ReturnedEdit DEF p
<1>7. ASSUME input_context_insert_segment(ic) \/ input_context_clear(ic)  PROVE Goal
  <2>1. ASSUME NEW q, Edit(ic, [err |-> 0, preedit |-> q])  PROVE FALSE
    <3> DEFINE r == [err |-> 0, preedit |-> q]
    <3>1. Edit(ic, r) /\ r.err = 0
      BY <2>1
    <3> HIDE DEF r
    <3>2. r.err < 0
      BY <3>1 DEF Edit
    <3>3. QED  BY <3>1, <3>2
  <2>2. QED
    BY <2>1, <1>7 DEF input_context_insert_segment, input_context_clear
<1>8. ASSUME input_context_commit(ic)  PROVE Goal
  BY <1>8 DEF input_context_commit
<1>9. ASSUME \/ \E l \in Lang : input_context_set_language(ic, l)
             \/ \E key \in Key : UnmappedKey(ic, key)
             \/ RefusedKey(ic)
             \/ toggle_onoff(ic)
      PROVE  Goal
  BY <1>9 DEF input_context_set_language, UnmappedKey, RefusedKey, toggle_onoff
<1>10. QED
  BY <1>2, <1>3, <1>4, <1>5, <1>6, <1>7, <1>8, <1>9 DEF input_method_handle_key

\* A key that the client gets back, and will act on itself, has changed the
\* text of no context: the user never sees one key take effect twice.
THEOREM ReturnedKeys == Spec => ReturnedKeepsText
<1> DEFINE Kept == returned' => \A ic \in live \cap live' : Text(ic)' = Text(ic)
<1>1. ASSUME IInv, Next  PROVE Kept
  <2>1. SUFFICES ASSUME returned'  PROVE Kept
    OBVIOUS
  <2>2. \A j \in IC : preedit'[j].segments = preedit[j].segments
    BY <1>1, <2>1, ReturnedKey DEF Next, input_context_new, input_context_free
  <2>3. live \subseteq IC
    BY <1>1 DEF IInv, TypeOK
  <2>4. QED
    BY <2>2, <2>3 DEF Text, preedit_get_input, NumSegments
<1>2. IInv /\ [Next]_vars => [Kept]_vars
  BY <1>1
<1>3. QED  BY <1>2, Invariant, PTL DEF Spec, ReturnedKeepsText

-----------------------------------------------------------------------------
(* What one key does to a preedit: to its text, to the output of its       *)
(* segments, and to the candidates that are selected.                      *)

\* The text changes as an editor would change it.
Erased(p, q) ==
  \E at \in 1 .. Len(preedit_get_input(p)) :
    /\ preedit_get_input(q) = RemoveAt(preedit_get_input(p), at)
    /\ CursorPos(q) = at - 1
    /\ \/ at = CursorPos(p) + 1
       \/ at = CursorPos(p)

Stays(p, q) ==
  /\ preedit_get_input(q) = preedit_get_input(p)
  /\ CursorPos(q) \in 0 .. Len(preedit_get_input(p))

Acted(p, q) ==
  \/ Stays(p, q)
  \/ Erased(p, q)
  \/ \E chr \in Char : Typed(p, q, chr) \/ Merged(p, q, chr)

Changed(p, q) == Acted(p, q) /\ OthersUntouched(p, q)

Edited(p, q) == Changed(p, q) /\ SelectedValues(q) \subseteq SelectedValues(p)

\* The segments on both sides of the i-th have the outputs they had.
LEMMA EditedUntouched ==
  ASSUME NEW p, NEW q, NumSegments(p) \in Nat, NEW i \in 1 .. NumSegments(p),
         NumSegments(q) = NumSegments(p),
         \A j \in 1 .. NumSegments(p) : j # i => SameOutput(q.segments[j], p.segments[j])
  PROVE  OthersUntouched(p, q)
<1>1. \A j \in 1 .. i - 1 : SameOutput(q.segments[j], p.segments[j])
  OBVIOUS
<1>2. ASSUME NEW j \in i + 1 .. NumSegments(p)
      PROVE  SameOutput(q.segments[j + NumSegments(q) - NumSegments(p)], p.segments[j])
  <2>1. j \in 1 .. NumSegments(p) /\ j # i /\ j + NumSegments(q) - NumSegments(p) = j
    OBVIOUS
  <2> QED
    BY <2>1
<1> QED
  BY <1>1, <1>2 DEF OthersUntouched

LEMMA AddedUntouched ==
  ASSUME NEW p, NEW q, NumSegments(p) \in Nat, NEW i \in 1 .. NumSegments(p),
         NumSegments(q) = NumSegments(p) + 1,
         \A j \in 1 .. i - 1 : SameOutput(q.segments[j], p.segments[j]),
         \A j \in i + 1 .. NumSegments(p) : SameOutput(q.segments[j + 1], p.segments[j])
  PROVE  OthersUntouched(p, q)
<1>1. ASSUME NEW j \in i + 1 .. NumSegments(p)
      PROVE  SameOutput(q.segments[j + NumSegments(q) - NumSegments(p)], p.segments[j])
  <2>1. j + NumSegments(q) - NumSegments(p) = j + 1
    OBVIOUS
  <2> QED
    BY <2>1
<1> QED
  BY <1>1 DEF OthersUntouched

LEMMA RemovedUntouched ==
  ASSUME NEW p, NEW q, NumSegments(p) \in Nat, NEW i \in 1 .. NumSegments(p),
         NumSegments(q) = NumSegments(p) - 1,
         \A j \in 1 .. i - 1 : SameOutput(q.segments[j], p.segments[j]),
         \A j \in i + 1 .. NumSegments(p) : SameOutput(q.segments[j - 1], p.segments[j])
  PROVE  OthersUntouched(p, q)
<1>1. ASSUME NEW j \in i + 1 .. NumSegments(p)
      PROVE  SameOutput(q.segments[j + NumSegments(q) - NumSegments(p)], p.segments[j])
  <2>1. j + NumSegments(q) - NumSegments(p) = j - 1
    OBVIOUS
  <2> QED
    BY <2>1
<1> QED
  BY <1>1 DEF OthersUntouched

\* Segments of which each selects what some segment selected before.
LEMMA SelectedFrom ==
  ASSUME NEW p, NEW q,
         \A j \in DOMAIN q.segments : HasSelection(q.segments[j]) =>
           \E i \in DOMAIN p.segments : /\ HasSelection(p.segments[i])
                                        /\ SelectedValue(p.segments[i]) = SelectedValue(q.segments[j])
  PROVE  SelectedValues(q) \subseteq SelectedValues(p)
BY DEF SelectedValues

\* Moving the cursor touches no segment.
LEMMA SameSegmentsEdited ==
  ASSUME NEW p, Good(p), NEW q, q.segments = p.segments
  PROVE  /\ OthersUntouched(p, q)
         /\ SelectedValues(q) = SelectedValues(p)
<1>1. NumSegments(p) \in Nat /\ 1 \in 1 .. NumSegments(p) /\ NumSegments(q) = NumSegments(p)
  BY PreeditFacts DEF Good, NumSegments
<1>2. \A j \in 1 .. NumSegments(p) : j # 1 => SameOutput(q.segments[j], p.segments[j])
  BY DEF SameOutput
<1> QED
  BY <1>1, <1>2, EditedUntouched DEF SelectedValues

LEMMA MoveEdited ==
  ASSUME NEW p, Good(p), NEW q, Good(q), q.segments = p.segments
  PROVE  Edited(p, q)
<1>1. Placed(q)
  BY DEF Good, Placed
<1>2. Stays(p, q)
  BY <1>1, SameSegments, PosInLine DEF Stays
<1> QED
  BY <1>2, SameSegmentsEdited DEF Edited, Changed, Acted

\* A lookup selects nothing that was not selected.
LEMMA LookupSelects ==
  ASSUME NEW p, Draft(p)
  PROVE  SelectedValues(preedit_update_candidates(p)) \subseteq SelectedValues(p)
<1> DEFINE q == preedit_update_candidates(p)
           c == p.cursor.segment
<1>1. /\ c \in 1 .. NumSegments(p)
      /\ NumSegments(q) = NumSegments(p)
      /\ \A j \in 1 .. NumSegments(p) : j # c => q.segments[j] = p.segments[j]
      /\ q.segments[c] = segment_update_candidates(p.segments[c])
      /\ Bounded(p.segments[c])
  BY UpdateShape
<1>2. Good(q)
  BY UpdateGood
<1> HIDE DEF q
<1>3. DOMAIN q.segments = 1 .. NumSegments(p) /\ DOMAIN p.segments = 1 .. NumSegments(p)
  BY <1>1, <1>2, PreeditFacts DEF Good, Draft
<1>4. ASSUME NEW j \in DOMAIN q.segments, HasSelection(q.segments[j])
      PROVE  \E i \in DOMAIN p.segments : /\ HasSelection(p.segments[i])
                                          /\ SelectedValue(p.segments[i]) = SelectedValue(q.segments[j])
  <2>1. CASE j # c
    BY <1>1, <1>3, <1>4, <2>1
  <2>2. CASE j = c
    <3>1. /\ HasSelection(p.segments[c])
          /\ SelectedValue(q.segments[c]) = SelectedValue(p.segments[c])
      BY <1>1, <1>4, <2>2, UpdateSelection
    <3> QED
      BY <1>1, <1>3, <2>2, <3>1
  <2> QED
    BY <2>1, <2>2
<1> QED
  BY <1>4, SelectedFrom DEF q

\* Neither does an edit.
LEMMA EditSelects ==
  ASSUME NEW p, Good(p), NEW q, Draft(q), NEW i,
         OneEdited(p, q, i) \/ OneAdded(p, q, i) \/ OneRemoved(p, q, i)
  PROVE  SelectedValues(q) \subseteq SelectedValues(p)
<1>1. /\ DOMAIN p.segments = 1 .. NumSegments(p) /\ NumSegments(p) \in Nat
      /\ DOMAIN q.segments = 1 .. NumSegments(q) /\ NumSegments(q) \in Nat
  BY PreeditFacts DEF Good, Draft
<1>2. ASSUME NEW j \in 1 .. NumSegments(q), HasSelection(q.segments[j])
      PROVE  \E k \in 1 .. NumSegments(p) :
               /\ p.segments[k].candidates = q.segments[j].candidates
               /\ p.segments[k].selection = q.segments[j].selection
  <2>1. CASE OneEdited(p, q, i)
    <3>1. j \in 1 .. NumSegments(p)
      BY <2>1 DEF OneEdited
    <3>2. CASE j = i
      BY <2>1, <3>1, <3>2 DEF OneEdited
    <3>3. CASE j # i
      BY <2>1, <3>1, <3>3 DEF OneEdited
    <3> QED
      BY <3>2, <3>3
  <2>2. CASE OneAdded(p, q, i)
    <3>1. j # i + 1
      <4> SUFFICES ASSUME j = i + 1 PROVE FALSE
        OBVIOUS
      <4>1. q.segments[j].candidates = <<>>
        BY <2>2 DEF OneAdded
      <4>2. q.segments[j].selection \in Int
        BY <1>2, PreeditFacts DEF Draft, SegmentType
      <4> QED
        BY <1>2, <4>1, <4>2 DEF HasSelection
    <3>2. CASE j <= i
      <4>1. j \in 1 .. i /\ j \in 1 .. NumSegments(p)
        BY <1>1, <2>2, <3>2 DEF OneAdded
      <4>2. q.segments[j] = p.segments[j]
        BY <2>2, <4>1 DEF OneAdded
      <4> QED
        BY <4>1, <4>2
    <3>3. CASE ~ (j <= i)
      <4> DEFINE k == j - 1
      <4>1. k \in i + 1 .. NumSegments(p) /\ k \in 1 .. NumSegments(p) /\ k + 1 = j
        BY <1>1, <2>2, <3>1, <3>3 DEF OneAdded
      <4> HIDE DEF k
      <4>2. q.segments[j] = p.segments[k]
        BY <2>2, <4>1 DEF OneAdded
      <4> QED
        BY <4>1, <4>2
    <3> QED
      BY <3>2, <3>3
  <2>3. CASE OneRemoved(p, q, i)
    <3>1. CASE j < i
      <4>1. j \in 1 .. i - 1 /\ j \in 1 .. NumSegments(p)
        BY <1>1, <2>3, <3>1 DEF OneRemoved
      <4>2. q.segments[j] = p.segments[j]
        BY <2>3, <4>1 DEF OneRemoved
      <4> QED
        BY <4>1, <4>2
    <3>2. CASE ~ (j < i)
      <4> DEFINE k == j + 1
      <4>1. k \in i + 1 .. NumSegments(p) /\ k \in 1 .. NumSegments(p) /\ k - 1 = j
        BY <1>1, <2>3, <3>2 DEF OneRemoved
      <4> HIDE DEF k
      <4>2. q.segments[j] = p.segments[k]
        BY <2>3, <4>1 DEF OneRemoved
      <4> QED
        BY <4>1, <4>2
    <3> QED
      BY <3>1, <3>2
  <2> QED
    BY <2>1, <2>2, <2>3
<1>3. ASSUME NEW j \in DOMAIN q.segments, HasSelection(q.segments[j])
      PROVE  \E k \in DOMAIN p.segments : /\ HasSelection(p.segments[k])
                                          /\ SelectedValue(p.segments[k]) = SelectedValue(q.segments[j])
  <2>1. PICK k \in 1 .. NumSegments(p) : /\ p.segments[k].candidates = q.segments[j].candidates
                                         /\ p.segments[k].selection = q.segments[j].selection
    BY <1>1, <1>2, <1>3
  <2> QED
    BY <1>1, <1>3, <2>1 DEF HasSelection, SelectedValue
<1> QED
  BY <1>3, SelectedFrom

\* Only the edited segment's output changes, also when candidates are looked
\* up afterwards: those of another segment were up to date.
LEMMA LookedUpUntouched ==
  ASSUME NEW p, Good(p), NEW e, Draft(e), NEW i,
         \/ OneEdited(p, e, i) /\ e.cursor.segment = i
         \/ OneAdded(p, e, i) /\ e.cursor.segment = i + 1
         \/ OneRemoved(p, e, i) /\ Good(e)
  PROVE  OthersUntouched(p, preedit_update_candidates(e))
<1> DEFINE q == preedit_update_candidates(e)
           c == e.cursor.segment
<1>1. /\ c \in 1 .. NumSegments(e)
      /\ NumSegments(q) = NumSegments(e)
      /\ \A j \in 1 .. NumSegments(e) : j # c => q.segments[j] = e.segments[j]
      /\ q.segments[c] = segment_update_candidates(e.segments[c])
      /\ Bounded(e.segments[c])
  BY UpdateShape
<1>2. NumSegments(p) \in Nat /\ NumSegments(e) \in Nat
  BY PreeditFacts DEF Good, Draft
<1> HIDE DEF q, c
<1>3. CASE OneEdited(p, e, i) /\ e.cursor.segment = i
  <2>1. i \in 1 .. NumSegments(p) /\ NumSegments(q) = NumSegments(p)
    BY <1>1, <1>3 DEF OneEdited
  <2>2. \A j \in 1 .. NumSegments(p) : j # i => SameOutput(q.segments[j], p.segments[j])
    BY <1>1, <1>3 DEF OneEdited, SameOutput, c
  <2>3. OthersUntouched(p, q)
    BY <1>2, <2>1, <2>2, EditedUntouched
  <2> QED
    BY <2>3 DEF q
<1>4. CASE OneAdded(p, e, i) /\ e.cursor.segment = i + 1
  <2>1. i \in 1 .. NumSegments(p) /\ NumSegments(q) = NumSegments(p) + 1
        /\ NumSegments(e) = NumSegments(p) + 1 /\ c = i + 1
    BY <1>1, <1>4 DEF OneAdded, c
  <2>2. ASSUME NEW j \in 1 .. i - 1 PROVE SameOutput(q.segments[j], p.segments[j])
    <3>1. j \in 1 .. NumSegments(e) /\ j # c /\ j \in 1 .. i
      BY <1>2, <2>1
    <3>2. q.segments[j] = p.segments[j]
      BY <1>1, <1>4, <3>1 DEF OneAdded
    <3> QED
      BY <3>2 DEF SameOutput
  <2>3. ASSUME NEW j \in i + 1 .. NumSegments(p) PROVE SameOutput(q.segments[j + 1], p.segments[j])
    <3> DEFINE k == j + 1
    <3>1. k \in 1 .. NumSegments(e) /\ k # c
      BY <1>2, <2>1
    <3> HIDE DEF k
    <3>2. q.segments[k] = e.segments[k]
      BY <1>1, <3>1
    <3>3. e.segments[k] = p.segments[j]
      BY <1>4 DEF OneAdded, k
    <3> QED
      BY <3>2, <3>3 DEF SameOutput, k
  <2>4. OthersUntouched(p, q)
    BY <1>2, <2>1, <2>2, <2>3, AddedUntouched
  <2> QED
    BY <2>4 DEF q
<1>5. CASE OneRemoved(p, e, i) /\ Good(e)
  <2>1. i \in 1 .. NumSegments(p) /\ NumSegments(q) = NumSegments(p) - 1
        /\ NumSegments(e) = NumSegments(p) - 1
    BY <1>1, <1>5 DEF OneRemoved
  <2>2. ASSUME NEW j \in 1 .. NumSegments(e) PROVE SameOutput(q.segments[j], e.segments[j])
    <3>1. CASE j # c
      BY <1>1, <3>1 DEF SameOutput
    <3>2. CASE j = c
      <4>1. e.segments[c] \in SegmentType /\ FreshSegment(e.segments[c])
        BY <1>1, <1>5, PreeditFacts DEF Good
      <4> QED
        BY <1>1, <3>2, <4>1, FreshOutput DEF SameOutput
    <3> QED
      BY <3>1, <3>2
  <2>3. ASSUME NEW j \in 1 .. i - 1 PROVE SameOutput(q.segments[j], p.segments[j])
    <3>1. j \in 1 .. NumSegments(e)
      BY <1>2, <2>1
    <3>2. e.segments[j] = p.segments[j]
      BY <1>5 DEF OneRemoved
    <3> QED
      BY <2>2, <3>1, <3>2
  <2>4. ASSUME NEW j \in i + 1 .. NumSegments(p) PROVE SameOutput(q.segments[j - 1], p.segments[j])
    <3> DEFINE k == j - 1
    <3>1. k \in 1 .. NumSegments(e)
      BY <1>2, <2>1
    <3>2. e.segments[k] = p.segments[j]
      BY <1>5 DEF OneRemoved
    <3> HIDE DEF k
    <3>3. SameOutput(q.segments[k], p.segments[j])
      BY <2>2, <3>1, <3>2
    <3> QED
      BY <3>3 DEF k
  <2>5. OthersUntouched(p, q)
    BY <1>2, <2>1, <2>3, <2>4, RemovedUntouched
  <2> QED
    BY <2>5 DEF q
<1> QED
  BY <1>3, <1>4, <1>5

\* Typing a character.
LEMMA InsertEdited ==
  ASSUME NEW p, Good(p), NEW chr \in Char
  PROVE  Edited(p, Refreshed(preedit_insert(p, chr)).preedit)
<1> DEFINE r == preedit_insert(p, chr)
           c == p.cursor.segment
           e == r.preedit
<1>1. /\ r.err = 0 \/ r.err < 0
      /\ r.err < 0 => e = p
      /\ r.err = 0 => /\ Typed(p, e, chr) \/ Merged(p, e, chr)
                      /\ \/ OneEdited(p, e, c) /\ e.cursor.segment = c
                         \/ OneAdded(p, e, c) /\ e.cursor.segment = c + 1
  BY InsertEffect
<1>2. Draft(e) /\ r = [err |-> r.err, preedit |-> e]
  BY InsertDraft, Results
<1> HIDE DEF r, e
<1>3. CASE r.err # 0
  <2>1. Refreshed(r).preedit = p
    BY <1>1, <1>2, <1>3 DEF Refreshed, e
  <2> QED
    BY <2>1, MoveEdited DEF r
<1>4. CASE r.err = 0
  <2> DEFINE q == preedit_update_candidates(e)
  <2>1. Refreshed(r).preedit = q
    BY <1>2, <1>4 DEF Refreshed, e
  <2>2. preedit_get_input(q) = preedit_get_input(e) /\ CursorPos(q) = CursorPos(e)
    BY <1>2, UpdateEffect
  <2>3. OthersUntouched(p, q)
    BY <1>1, <1>2, <1>4, LookedUpUntouched
  <2>4. SelectedValues(q) \subseteq SelectedValues(p)
    <3>1. SelectedValues(q) \subseteq SelectedValues(e)
      BY <1>2, LookupSelects
    <3>2. SelectedValues(e) \subseteq SelectedValues(p)
      BY <1>1, <1>2, <1>4, EditSelects
    <3> QED
      BY <3>1, <3>2
  <2> HIDE DEF q
  <2>5. Typed(p, q, chr) \/ Merged(p, q, chr)
    BY <1>1, <1>4, <2>2 DEF Typed, Merged
  <2> QED
    BY <2>1, <2>3, <2>4, <2>5 DEF Edited, Changed, Acted, r
<1> QED
  BY <1>3, <1>4

\* Backspace erases in front of the cursor, and at the start of the text
\* behind it; Delete erases behind it.
LEMMA EraseEdited ==
  ASSUME NEW p, Good(p), NEW dir \in {"left", "stay"}
  PROVE  Edited(p, Refreshed(preedit_erase(p, dir)).preedit)
<1> DEFINE m == preedit_move(p, dir)
           r == preedit_erase(p, dir)
           c == m.cursor.segment
           e == r.preedit
<1>1. dir \in Directions
  BY DEF Directions
<1>2. /\ r.err = 0 \/ r.err < 0
      /\ r.err < 0 => e = m
      /\ r.err = 0 => /\ CursorPos(m) < Len(preedit_get_input(p))
                      /\ preedit_get_input(e) = RemoveAt(preedit_get_input(p), CursorPos(m) + 1)
                      /\ CursorPos(e) = CursorPos(m)
                      /\ \/ OneEdited(p, e, c) /\ e.cursor.segment = c
                         \/ OneRemoved(p, e, c) /\ NumSegments(p) > 1
  BY <1>1, EraseEffect
<1>3. Draft(e) /\ (r.err = 0 => (OneRemoved(p, e, c) => Good(e))) /\ r = [err |-> r.err, preedit |-> e]
  <2>1. Draft(e) /\ r = [err |-> r.err, preedit |-> e]
    BY <1>1, EraseDraft, Results
  <2>2. \A j \in DOMAIN e.segments : OneRemoved(p, e, c) => FreshSegment(e.segments[j])
    <3> SUFFICES ASSUME NEW j \in DOMAIN e.segments, OneRemoved(p, e, c)
                 PROVE  FreshSegment(e.segments[j])
      OBVIOUS
    <3>1. DOMAIN e.segments = 1 .. NumSegments(e) /\ NumSegments(e) \in Nat
      BY <2>1, PreeditFacts DEF Draft
    <3>2. /\ DOMAIN p.segments = 1 .. NumSegments(p) /\ NumSegments(p) \in Nat
          /\ \A i \in 1 .. NumSegments(p) : FreshSegment(p.segments[i])
      BY PreeditFacts DEF Good
    <3> HIDE DEF e, c
    <3>3. CASE j < c
      <4>1. j \in 1 .. c - 1 /\ j \in 1 .. NumSegments(p)
        BY <3>1, <3>2, <3>3 DEF OneRemoved
      <4>2. e.segments[j] = p.segments[j]
        BY <4>1 DEF OneRemoved
      <4> QED
        BY <3>2, <4>1, <4>2
    <3>4. CASE ~ (j < c)
      <4> DEFINE k == j + 1
      <4>1. k \in c + 1 .. NumSegments(p) /\ k \in 1 .. NumSegments(p) /\ k - 1 = j
        BY <3>1, <3>2, <3>4 DEF OneRemoved
      <4> HIDE DEF k
      <4>2. e.segments[j] = p.segments[k]
        BY <4>1 DEF OneRemoved
      <4> QED
        BY <3>2, <4>1, <4>2
    <3> QED
      BY <3>3, <3>4
  <2> HIDE DEF e, r
  <2>3. OneRemoved(p, e, c) => Good(e)
    BY <2>1, <2>2 DEF Draft, Good
  <2> QED
    BY <2>1, <2>3
<1>4. Good(m) /\ m.segments = p.segments
  BY <1>1, MoveGood
<1>5. CursorPos(m) \in Nat /\ (CursorPos(m) = CursorPos(p) \/ CursorPos(m) + 1 = CursorPos(p))
  <2>1. Placed(p)
    BY DEF Good, Placed
  <2>2. CursorPos(p) \in Nat
    BY <2>1, PosInLine
  <2>3. CASE dir = "stay"
    <3>1. m = p
      BY <2>3 DEF preedit_move
    <3> QED
      BY <2>2, <3>1
  <2>4. CASE dir = "left"
    <3>1. m = MoveLeft(p)
      BY <2>4 DEF preedit_move
    <3>2. CursorPos(m) = IF CursorPos(p) > 0 THEN CursorPos(p) - 1 ELSE 0
      BY <2>1, <3>1, LeftEffect
    <3> HIDE DEF m
    <3> QED
      BY <2>2, <3>2
  <2> QED
    BY <2>3, <2>4
<1> HIDE DEF r, e, m, c
<1>6. CASE r.err # 0
  <2>1. Refreshed(r).preedit = m
    BY <1>2, <1>3, <1>6 DEF Refreshed, e
  <2> QED
    BY <1>4, <2>1, MoveEdited DEF r
<1>7. CASE r.err = 0
  <2> DEFINE q == preedit_update_candidates(e)
  <2>1. Refreshed(r).preedit = q
    BY <1>3, <1>7 DEF Refreshed, e
  <2>2. preedit_get_input(q) = preedit_get_input(e) /\ CursorPos(q) = CursorPos(e)
    BY <1>3, UpdateEffect
  <2>3. OthersUntouched(p, q)
    BY <1>2, <1>3, <1>7, LookedUpUntouched
  <2>4. SelectedValues(q) \subseteq SelectedValues(p)
    <3>1. SelectedValues(q) \subseteq SelectedValues(e)
      BY <1>3, LookupSelects
    <3>2. SelectedValues(e) \subseteq SelectedValues(p)
      BY <1>2, <1>3, <1>7, EditSelects
    <3> QED
      BY <3>1, <3>2
  <2> HIDE DEF q
  <2>5. Erased(p, q)
    <3> DEFINE at == CursorPos(m) + 1
    <3>1. at \in 1 .. Len(preedit_get_input(p)) /\ CursorPos(m) = at - 1
      <4>1. Placed(p)
        BY DEF Good, Placed
      <4>2. Len(preedit_get_input(p)) \in Nat /\ CursorPos(m) < Len(preedit_get_input(p))
        BY <1>2, <1>7, <4>1, PosInLine
      <4> QED
        BY <1>5, <4>2
    <3>2. at = CursorPos(p) + 1 \/ at = CursorPos(p)
      BY <1>5
    <3>3. preedit_get_input(q) = RemoveAt(preedit_get_input(p), at) /\ CursorPos(q) = CursorPos(m)
      BY <1>2, <1>7, <2>2
    <3> HIDE DEF at
    <3> QED
      BY <3>1, <3>2, <3>3 DEF Erased
  <2> QED
    BY <2>1, <2>3, <2>4, <2>5 DEF Edited, Changed, Acted, r
<1> QED
  BY <1>6, <1>7

\* A new empty segment.
LEMMA SegmentEdited ==
  ASSUME NEW p, Good(p)
  PROVE  Edited(p, preedit_move_segment(preedit_insert_segment(p)))
<1> DEFINE e == preedit_insert_segment(p)
           c == p.cursor.segment
           k == NextSegmentIndex(e)
           q == preedit_move_segment(e)
<1>1. Placed(p) /\ c \in 1 .. NumSegments(p) /\ NumSegments(p) \in Nat
  BY PreeditFacts DEF Good, Placed
<1>2. /\ Placed(e)
      /\ e.cursor = p.cursor
      /\ NumSegments(e) = NumSegments(p) + 1
      /\ \A i \in 1 .. c : e.segments[i] = p.segments[i]
      /\ e.segments[c + 1] = segment_new
      /\ \A i \in c + 1 .. NumSegments(p) : e.segments[i + 1] = p.segments[i]
  BY <1>1, InsertSegmentShape
<1>3. Good(e)
  BY InsertSegmentGood
<1> HIDE DEF e
<1>4. k \in 1 .. NumSegments(e) /\ SegLen(e, k) \in 0 .. SegLen(e, k)
  <2>1. e.cursor.segment \in 1 .. NumSegments(e) /\ NumSegments(e) \in Nat
        /\ \A i \in 1 .. NumSegments(e) : SegLen(e, i) \in Nat
    BY <1>2, PreeditFacts DEF Placed
  <2>2. k \in 1 .. NumSegments(e)
    BY <2>1 DEF NextSegmentIndex
  <2> HIDE DEF k
  <2> QED
    BY <2>1, <2>2
<1>5. q = At(e, k, SegLen(e, k))
  BY DEF preedit_move_segment, EndOf
<1> HIDE DEF k, q
<1>6. Good(q) /\ q.segments = e.segments
  BY <1>3, <1>4, <1>5, AtGood
<1>7. Placed(q)
  BY <1>6 DEF Good, Placed
<1> HIDE DEF c
<1>8. OneAdded(p, q, c)
  BY <1>1, <1>2, <1>6 DEF OneAdded, NumSegments, segment_new
<1>9. SelectedValues(q) \subseteq SelectedValues(p)
  <2>1. Draft(q)
    BY <1>6, GoodIsDraft
  <2> QED
    BY <1>8, <2>1, EditSelects
<1>10. OthersUntouched(p, q)
  <2>1. NumSegments(q) = NumSegments(p) + 1
    BY <1>8 DEF OneAdded
  <2>2. \A j \in 1 .. c - 1 : SameOutput(q.segments[j], p.segments[j])
    BY <1>1, <1>8 DEF OneAdded, SameOutput
  <2>3. \A j \in c + 1 .. NumSegments(p) : SameOutput(q.segments[j + 1], p.segments[j])
    BY <1>8, Zenon DEF OneAdded, SameOutput
  <2> QED
    BY <1>1, <2>1, <2>2, <2>3, AddedUntouched
<1>11. Stays(p, q)
  <2>1. Widened(p, e, c)
    BY <1>1, <1>2 DEF Widened, segment_new
  <2>2. c \in 0 .. NumSegments(p)
    BY <1>1
  <2>3. preedit_get_input(e) = preedit_get_input(p)
    BY <1>1, <1>2, <2>1, <2>2, WidenedText
  <2>4. preedit_get_input(q) = preedit_get_input(e)
    BY <1>6, SameSegments
  <2> QED
    BY <1>7, <2>3, <2>4, PosInLine DEF Stays
<1> QED
  BY <1>9, <1>10, <1>11 DEF Edited, Changed, Acted, q, e

\* Another candidate of the cursor's segment.
LEMMA CandidateChanged ==
  ASSUME NEW p, Good(p), NEW n \in Int
  PROVE  /\ Changed(p, preedit_move_candidate(p, n).preedit)
         /\ Changed(p, preedit_select_candidate(p, n).preedit)
<1> DEFINE s == Current(p)
           c == p.cursor.segment
<1>1. Placed(p) /\ s \in SegmentType /\ FreshSegment(s)
  BY GoodIsDraft, PreeditFacts DEF Good, Placed
<1>2. /\ c \in 1 .. NumSegments(p) /\ NumSegments(p) \in Nat
      /\ p.cursor.offset <= Len(s.input)
  BY <1>1, PreeditFacts DEF Placed, SegLen, Current
<1>3. ASSUME NEW t \in SegmentType, t.input = s.input
      PROVE  Changed(p, SetCurrent(p, t))
  <2> DEFINE q == SetCurrent(p, t)
  <2>1. p.cursor.offset <= Len(t.input)
    BY <1>2, <1>3
  <2>2. /\ Placed(q)
        /\ NumSegments(q) = NumSegments(p)
        /\ \A i \in 1 .. NumSegments(p) : i # c => q.segments[i] = p.segments[i]
    BY <1>1, <2>1, SetCurrentShape
  <2>3. preedit_get_input(q) = preedit_get_input(p)
    BY <1>1, <1>3, <2>1, SetCurrentText
  <2> HIDE DEF q
  <2>4. Stays(p, q)
    BY <2>2, <2>3, PosInLine DEF Stays
  <2>5. \A j \in 1 .. NumSegments(p) : j # c => SameOutput(q.segments[j], p.segments[j])
    BY <2>2 DEF SameOutput
  <2>6. OthersUntouched(p, q)
    BY <1>2, <2>2, <2>5, EditedUntouched
  <2> QED
    BY <2>4, <2>6 DEF Changed, Acted, q
<1> HIDE DEF s
<1>4. /\ segment_move_candidate(s, n).seg \in SegmentType
      /\ segment_move_candidate(s, n).seg.input = s.input
  BY <1>1, MoveCandidateFresh
<1>5. /\ segment_select_candidate(s, n).seg \in SegmentType
      /\ segment_select_candidate(s, n).seg.input = s.input
  BY <1>1, SelectCandidateFresh
<1> QED
  BY <1>3, <1>4, <1>5 DEF preedit_move_candidate, preedit_select_candidate, s

-----------------------------------------------------------------------------
(* What a step does to a context *)

\* Context ic gets preedit q, the others keep theirs.
Gets(ic, q) == preedit' = [preedit EXCEPT ![ic] = q]

\* A context is emptied by the user, or because its output went out.
Cleared(ic) ==
  /\ Gets(ic, preedit_clear(preedit[ic]))
  /\ \/ input_context_clear(ic)
     \/ committed' = preedit_get_output(preedit[ic])

\* Every key changes nothing, or edits the preedit of its context, or
\* empties it.
LEMMA KeyEffect ==
  ASSUME IInv, NEW ic \in IC, input_method_handle_key(ic)
  PROVE  \/ preedit' = preedit
         \/ Cleared(ic)
         \/ \E q : /\ Gets(ic, q)
                   /\ Changed(preedit[ic], q)
                   /\ \/ SelectedValues(q) \subseteq SelectedValues(preedit[ic])
                      \/ UserSelects(ic)
<1> DEFINE p == preedit[ic]
           Goal == \/ preedit' = preedit
                   \/ Cleared(ic)
                   \/ \E q : /\ Gets(ic, q)
                             /\ Changed(preedit[ic], q)
                             /\ \/ SelectedValues(q) \subseteq SelectedValues(preedit[ic])
                                \/ UserSelects(ic)
<1>1. Good(p) /\ lang[ic] \in Lang
  BY DEF IInv, AllGood, TypeOK
<1>2. ASSUME NEW result, Edit(ic, result), Edited(p, result.preedit) PROVE Goal
  BY <1>2 DEF Edit, Gets, Edited
<1>3. ASSUME NEW result, Edit(ic, result), Changed(p, result.preedit), UserSelects(ic) PROVE Goal
  BY <1>3 DEF Edit, Gets
<1> HIDE DEF p
<1>4. Edited(p, p)
  BY <1>1, MoveEdited
<1>5. ASSUME NEW key \in Key, input_context_insert(ic, key) PROVE Goal
  <2> DEFINE chr == Keymap[lang[ic]][key]
             r == Refreshed(preedit_insert(p, chr))
  <2>1. chr # CharInvalid /\ Edit(ic, r)
    BY <1>5 DEF input_context_insert, p
  <2>2. chr \in Char
    BY <2>1, <1>1, KeymapAssumption
  <2> HIDE DEF chr, Goal
  <2>3. Edited(p, r.preedit)
    BY <1>1, <2>2, InsertEdited
  <2> HIDE DEF r
  <2> QED
    BY <1>2, <2>1, <2>3
<1>6. ASSUME NEW dir \in {"left", "stay"}, input_context_erase(ic, dir) PROVE Goal
  <2> DEFINE r == Refreshed(preedit_erase(p, dir))
             u == UnlessEmpty(p, r)
  <2>1. Edit(ic, u)
    BY <1>6 DEF input_context_erase, p
  <2>2. Edited(p, r.preedit)
    BY <1>1, EraseEdited
  <2> HIDE DEF r, Goal
  <2>3. Edited(p, u.preedit)
    BY <1>4, <2>2 DEF UnlessEmpty
  <2> HIDE DEF u
  <2> QED
    BY <1>2, <2>1, <2>3
<1>7. ASSUME NEW dir \in Directions \ {"stay"}, input_context_cursor_move(ic, dir) PROVE Goal
  <2> DEFINE q == preedit_move(p, dir)
             u == UnlessEmpty(p, [err |-> 0, preedit |-> q])
  <2>1. Edit(ic, u)
    BY <1>7 DEF input_context_cursor_move, p
  <2>2. Good(q) /\ q.segments = p.segments
    BY <1>1, MoveGood
  <2> HIDE DEF q, Goal
  <2>3. Edited(p, q)
    BY <1>1, <2>2, MoveEdited
  <2>4. Edited(p, u.preedit)
    BY <1>4, <2>3 DEF UnlessEmpty
  <2> HIDE DEF u
  <2> QED
    BY <1>2, <2>1, <2>4
<1>8. ASSUME NEW dir \in {-1, 1}, input_context_move_candidate(ic, dir) PROVE Goal
  <2> DEFINE r == preedit_move_candidate(p, dir)
  <2>1. Edit(ic, r)
    BY <1>8 DEF input_context_move_candidate, p
  <2>2. dir \in Int
    OBVIOUS
  <2>3. Changed(p, r.preedit)
    BY <1>1, <2>2, CandidateChanged
  <2>4. UserSelects(ic)
    BY <1>8 DEF UserSelects
  <2> HIDE DEF r, Goal
  <2> QED
    BY <1>3, <2>1, <2>3, <2>4
<1>9. ASSUME NEW n \in Position, input_context_select_candidate(ic, n) PROVE Goal
  <2> DEFINE r == preedit_select_candidate(p, n)
  <2>1. Edit(ic, r)
    BY <1>9 DEF input_context_select_candidate, p
  <2>2. n \in Int
    BY PositionAssumption
  <2>3. Changed(p, r.preedit)
    BY <1>1, <2>2, CandidateChanged
  <2>4. UserSelects(ic)
    BY <1>9 DEF UserSelects
  <2> HIDE DEF r, Goal
  <2> QED
    BY <1>3, <2>1, <2>3, <2>4
<1>10. ASSUME input_context_insert_segment(ic) PROVE Goal
  <2> DEFINE q == preedit_move_segment(preedit_insert_segment(p))
             r == [err |-> 0, preedit |-> q]
  <2>1. Edit(ic, r)
    BY <1>10 DEF input_context_insert_segment, p
  <2>2. Edited(p, q)
    BY <1>1, SegmentEdited
  <2> HIDE DEF q, Goal
  <2>3. Edited(p, r.preedit)
    BY <2>2
  <2> HIDE DEF r
  <2> QED
    BY <1>2, <2>1, <2>3
<1>11. ASSUME input_context_clear(ic) PROVE Goal
  <2>1. Gets(ic, preedit_clear(p))
    BY <1>11 DEF input_context_clear, Edit, Gets, p
  <2> QED
    BY <1>11, <2>1 DEF Cleared, p
<1>12. ASSUME input_context_commit(ic) PROVE Goal
  BY <1>12 DEF input_context_commit, Cleared, Gets
<1>13. ASSUME \/ \E l \in Lang : input_context_set_language(ic, l)
              \/ \E key \in Key : UnmappedKey(ic, key)
              \/ RefusedKey(ic)
              \/ toggle_onoff(ic)
       PROVE  Goal
  BY <1>13 DEF input_context_set_language, UnmappedKey, RefusedKey, toggle_onoff
<1> HIDE DEF Goal
<1>14. Goal
  BY <1>5, <1>6, <1>7, <1>8, <1>9, <1>10, <1>11, <1>12, <1>13 DEF input_method_handle_key
<1> QED
  BY <1>14 DEF Goal

\* A context without text.
LEMMA EmptyText ==
  ASSUME NEW p, Good(p), NumSegments(p) = 1, p.segments[1].input = <<>>,
         p.cursor = [segment |-> 1, offset |-> 0]
  PROVE  /\ preedit_get_input(p) = <<>>
         /\ CursorPos(p) = 0
<1>1. Placed(p)
  BY DEF Good, Placed
<1>2. Ahead(p, 1) = <<>> /\ Ahead(p, 1 + 1) = Ahead(p, 1) \o p.segments[1].input
  BY <1>1, AheadFacts
<1>3. Ahead(p, NumSegments(p) + 1) = preedit_get_input(p)
  BY <1>1, AheadFacts
<1>4. preedit_get_input(p) = <<>> \o <<>>
  BY <1>2, <1>3
<1>5. preedit_get_input(p) = <<>>
  <2>1. <<>> \in Seq(Char)
    BY EmptySeq
  <2> QED
    BY <1>4, <2>1, ConcatEmptySeq
<1>6. CursorPos(p) = Len(Ahead(p, 1)) + 0
  BY <1>1, LineFacts
<1>7. CursorPos(p) = 0
  BY <1>2, <1>6, EmptySeq
<1> QED
  BY <1>5, <1>7

LEMMA NewAndClearEmpty ==
  ASSUME NEW p
  PROVE  /\ preedit_get_input(preedit_new) = <<>> /\ CursorPos(preedit_new) = 0
         /\ preedit_get_input(preedit_clear(p)) = <<>> /\ CursorPos(preedit_clear(p)) = 0
         /\ SelectedValues(preedit_new) = {} /\ SelectedValues(preedit_clear(p)) = {}
<1>1. Good(preedit_new) /\ Good(preedit_clear(p))
  BY NewAndClearGood
<1>2. /\ preedit_new.segments = <<segment_new>>
      /\ preedit_new.cursor = [segment |-> 1, offset |-> 0]
  BY DEF preedit_new
<1>3. /\ preedit_clear(p).segments = <<segment_clear(p.segments[1])>>
      /\ preedit_clear(p).cursor = [segment |-> 1, offset |-> 0]
  BY DEF preedit_clear
<1>4. ASSUME NEW q, Good(q), NEW t, q.segments = <<t>>, q.cursor = [segment |-> 1, offset |-> 0],
             t.input = <<>>, t.candidates = <<>>, t.selection \in Int
      PROVE  preedit_get_input(q) = <<>> /\ CursorPos(q) = 0 /\ SelectedValues(q) = {}
  <2>1. NumSegments(q) = 1 /\ q.segments[1] = t /\ DOMAIN q.segments = 1 .. 1
    BY <1>4 DEF NumSegments
  <2>2. preedit_get_input(q) = <<>> /\ CursorPos(q) = 0
    BY <1>4, <2>1, EmptyText
  <2>3. ~ HasSelection(t)
    BY <1>4 DEF HasSelection
  <2>4. \A j \in DOMAIN q.segments : ~ HasSelection(q.segments[j])
    BY <2>1, <2>3
  <2> QED
    BY <2>2, <2>4 DEF SelectedValues
<1> QED
  BY <1>1, <1>2, <1>3, <1>4 DEF segment_new, segment_clear

\* Every step changes the preedit of one context, if any.
LEMMA StepEffect ==
  ASSUME IInv, Next
  PROVE  \/ preedit' = preedit
         \/ \E ic \in IC :
              \/ Gets(ic, preedit_new) /\ ic \notin live'
              \/ Cleared(ic)
              \/ \E q : /\ Gets(ic, q)
                        /\ Changed(preedit[ic], q)
                        /\ \/ SelectedValues(q) \subseteq SelectedValues(preedit[ic])
                           \/ UserSelects(ic)
<1>1. PICK ic \in IC : \/ input_context_new(ic)
                       \/ input_context_free(ic)
                       \/ input_method_handle_key(ic)
  BY DEF Next
<1>2. CASE input_context_new(ic)
  BY <1>2 DEF input_context_new
<1>3. CASE input_context_free(ic)
  <2>1. Gets(ic, preedit_new) /\ ic \notin live'
    BY <1>3 DEF input_context_free, Gets
  <2> QED
    BY <2>1
<1>4. CASE input_method_handle_key(ic)
  <2>1. \/ preedit' = preedit
        \/ Cleared(ic)
        \/ \E q : /\ Gets(ic, q)
                  /\ Changed(preedit[ic], q)
                  /\ \/ SelectedValues(q) \subseteq SelectedValues(preedit[ic])
                     \/ UserSelects(ic)
    BY <1>4, KeyEffect
  <2> QED
    BY <2>1, Zenon
<1> QED
  BY <1>1, <1>2, <1>3, <1>4

-----------------------------------------------------------------------------

\* Whatever the lengths of the segments, and however many of them are empty,
\* the arrow keys move the cursor by one character of the text.
THEOREM ArrowsAlwaysMoveByOne == Spec => []ArrowsMoveByOne
<1>1. IInv => ArrowsMoveByOne
  <2> SUFFICES ASSUME IInv, NEW ic \in IC
               PROVE  LET p == preedit[ic]
                      IN  /\ CursorPos(MoveRight(p)) =
                               IF CursorPos(p) < Len(Text(ic)) THEN CursorPos(p) + 1 ELSE CursorPos(p)
                          /\ CursorPos(MoveLeft(p)) =
                               IF CursorPos(p) > 0 THEN CursorPos(p) - 1 ELSE 0
    BY DEF ArrowsMoveByOne
  <2>1. Placed(preedit[ic])
    BY DEF IInv, AllGood, Good, Placed
  <2> QED
    BY <2>1, RightEffect, LeftEffect DEF Text
<1>2. QED  BY <1>1, Invariant, PTL

\* With text in front of the cursor Backspace always finds a character.
THEOREM BackspaceAlwaysConsumed == Spec => []BackspaceConsumed
<1>1. IInv => BackspaceConsumed
  <2> SUFFICES ASSUME IInv, NEW ic \in IC, CursorPos(preedit[ic]) > 0
               PROVE  preedit_erase(preedit[ic], "left").err = 0
    BY DEF BackspaceConsumed
  <2> DEFINE p == preedit[ic]
             m == preedit_move(p, "left")
  <2>1. Good(p) /\ Placed(p) /\ "left" \in Directions
    BY DEF IInv, AllGood, Good, Placed, Directions
  <2>2. m = MoveLeft(p)
    BY DEF preedit_move
  <2>3. m.cursor.offset < SegLen(m, m.cursor.segment)
    BY <2>1, <2>2, LeftEffect
  <2>4. preedit_erase(p, "left").err = 0 <=> m.cursor.offset < SegLen(m, m.cursor.segment)
    BY <2>1, EraseEffect
  <2> QED
    BY <2>3, <2>4
<1>2. QED  BY <1>1, Invariant, PTL

\* A key changes the output of one segment of one context at most.
THEOREM OneSegmentEdited == Spec => EditsOneSegment
<1> DEFINE Untouched == \A ic \in IC : OthersUntouched(preedit[ic], preedit'[ic])
<1>1. ASSUME IInv, Next  PROVE Untouched
  <2>1. preedit \in [IC -> PreeditType] /\ \A ic \in IC : Good(preedit[ic])
    BY <1>1 DEF IInv, TypeOK, AllGood
  <2>2. \A ic \in IC : OthersUntouched(preedit[ic], preedit[ic])
    BY <2>1, SameSegmentsEdited
  <2>3. ASSUME NEW ic \in IC, NEW q, Gets(ic, q), OthersUntouched(preedit[ic], q)  PROVE Untouched
    BY <2>1, <2>2, <2>3 DEF Gets
  <2>4. ASSUME NEW ic \in IC  PROVE /\ OthersUntouched(preedit[ic], preedit_new)
                                    /\ OthersUntouched(preedit[ic], preedit_clear(preedit[ic]))
    BY DEF OthersUntouched
  <2>5. CASE preedit' = preedit
    BY <2>2, <2>5
  <2> HIDE DEF Untouched
  <2>6. QED  BY <1>1, <2>3, <2>4, <2>5, StepEffect DEF Cleared, Changed
<1>2. IInv /\ [Next]_vars => [Untouched]_vars
  BY <1>1
<1>3. QED  BY <1>2, Invariant, PTL DEF Spec, EditsOneSegment

\* No edit, cursor movement or lookup ever selects a candidate.
THEOREM OnlyUserSelects == Spec => SelectionOnlyByUser
<1> DEFINE Selects(ic) == \/ SelectedValues(preedit'[ic]) \subseteq SelectedValues(preedit[ic])
                          \/ UserSelects(ic)
           AllSelect == \A ic \in IC : Selects(ic)
<1>1. ASSUME IInv, Next  PROVE AllSelect
  <2>1. preedit \in [IC -> PreeditType]
    BY <1>1 DEF IInv, TypeOK
  <2>2. ASSUME NEW ic \in IC, NEW q, Gets(ic, q),
               SelectedValues(q) \subseteq SelectedValues(preedit[ic]) \/ UserSelects(ic)
        PROVE  AllSelect
    <3>1. \A j \in IC : j # ic => preedit'[j] = preedit[j]
      BY <2>1, <2>2 DEF Gets
    <3>2. preedit'[ic] = q
      BY <2>1, <2>2 DEF Gets
    <3> QED
      BY <2>2, <3>1, <3>2
  <2>3. ASSUME NEW ic \in IC
        PROVE  /\ SelectedValues(preedit_new) \subseteq SelectedValues(preedit[ic])
               /\ SelectedValues(preedit_clear(preedit[ic])) \subseteq SelectedValues(preedit[ic])
    BY NewAndClearEmpty
  <2>4. CASE preedit' = preedit
    BY <2>4
  <2> HIDE DEF AllSelect
  <2>5. QED  BY <1>1, <2>2, <2>3, <2>4, StepEffect DEF Cleared
<1>2. IInv /\ [Next]_vars => [AllSelect]_vars
  BY <1>1
<1>3. QED  BY <1>2, Invariant, PTL DEF Spec, SelectionOnlyByUser

\* An edit takes at most one character out of the text.
LEMMA ActedLength ==
  ASSUME NEW p, Placed(p), NEW q, Acted(p, q)
  PROVE  Len(preedit_get_input(q)) >= Len(preedit_get_input(p)) - 1
<1> DEFINE s == preedit_get_input(p)
<1>1. s \in Seq(Char) /\ Len(s) \in Nat /\ CursorPos(p) \in 0 .. Len(s)
  BY LineFacts, PosInLine
<1>2. CASE Stays(p, q)
  BY <1>1, <1>2 DEF Stays
<1>3. CASE Erased(p, q)
  <2>1. PICK at \in 1 .. Len(s) : preedit_get_input(q) = RemoveAt(s, at)
    BY <1>3 DEF Erased
  <2> HIDE DEF s
  <2>2. Len(RemoveAt(s, at)) = Len(s) - 1
    BY <1>1, <2>1, RemoveAtLength
  <2> QED
    BY <1>1, <2>1, <2>2 DEF s
<1>4. CASE \E chr \in Char : Typed(p, q, chr)
  <2>1. PICK chr \in Char : Typed(p, q, chr)
    BY <1>4
  <2>2. PICK at \in CursorPos(p) .. Len(s) : preedit_get_input(q) = InsertAt(s, at + 1, chr)
    BY <2>1 DEF Typed
  <2> DEFINE n == at + 1
  <2>3. n \in 1 .. Len(s) + 1
    BY <1>1, <2>2
  <2>4. preedit_get_input(q) = InsertAt(s, n, chr)
    BY <2>2
  <2> HIDE DEF s, n
  <2>5. Len(InsertAt(s, n, chr)) = Len(s) + 1
    BY <1>1, <2>1, <2>3, InsertAtLength
  <2> QED
    BY <1>1, <2>4, <2>5 DEF s
<1>5. CASE \E chr \in Char : Merged(p, q, chr)
  <2>1. PICK merged : preedit_get_input(q) = ReplaceAt(s, CursorPos(p), merged)
    BY <1>5 DEF Merged
  <2> HIDE DEF s
  <2>2. Len(ReplaceAt(s, CursorPos(p), merged)) = Len(s)
    BY <1>1 DEF ReplaceAt
  <2> QED
    BY <1>1, <2>1, <2>2 DEF s
<1> QED
  BY <1>2, <1>3, <1>4, <1>5 DEF Acted

\* Text leaves a context one character at a time, unless the user clears it
\* or its output goes out; a commit that fails loses none.
THEOREM NothingIsLost == Spec => NothingLost
<1> DEFINE Kept(ic) == \/ Len(Text(ic)') >= Len(Text(ic)) - 1
                       \/ input_context_clear(ic)
                       \/ committed' = preedit_get_output(preedit[ic])
           AllKept == \A ic \in live \cap live' : Kept(ic)
<1>1. ASSUME IInv, Next  PROVE AllKept
  <2>1. /\ preedit \in [IC -> PreeditType] /\ live \subseteq IC
        /\ \A ic \in IC : Good(preedit[ic])
    BY <1>1 DEF IInv, TypeOK, AllGood
  <2>2. \A ic \in IC : Placed(preedit[ic]) /\ Len(Text(ic)) \in Nat
    BY <2>1, PosInLine DEF Good, Placed, Text
  <2>3. ASSUME NEW ic \in IC, preedit'[ic] = preedit[ic]  PROVE Kept(ic)
    <3>1. Text(ic)' = Text(ic)
      BY <2>3 DEF Text, preedit_get_input, NumSegments
    <3> QED
      BY <2>2, <3>1
  <2>4. ASSUME NEW ic \in IC, NEW q, Gets(ic, q)
        PROVE  /\ preedit'[ic] = q
               /\ \A j \in IC : j # ic => preedit'[j] = preedit[j]
    BY <2>1, <2>4 DEF Gets
  <2>5. ASSUME NEW ic \in IC, NEW q, Gets(ic, q), Changed(preedit[ic], q)  PROVE Kept(ic)
    <3>1. Text(ic)' = preedit_get_input(q)
      BY <2>4, <2>5 DEF Text, preedit_get_input, NumSegments
    <3>2. Len(preedit_get_input(q)) >= Len(preedit_get_input(preedit[ic])) - 1
      BY <2>2, <2>5, ActedLength DEF Changed
    <3> QED
      BY <3>1, <3>2 DEF Text
  <2>6. ASSUME NEW ic \in IC, Cleared(ic)
        PROVE  /\ Kept(ic)
               /\ \A j \in IC : j # ic => preedit'[j] = preedit[j]
    <3>1. Kept(ic)
      BY <2>6 DEF Cleared
    <3> HIDE DEF Kept
    <3> QED
      BY <2>4, <2>6, <3>1 DEF Cleared
  <2> HIDE DEF Kept
  <2>7. ASSUME NEW ic \in IC, \A j \in IC : j # ic => preedit'[j] = preedit[j],
               Kept(ic) \/ ic \notin live'
        PROVE  AllKept
    <3>1. ASSUME NEW j \in live \cap live'  PROVE Kept(j)
      BY <2>1, <2>3, <2>7
    <3> QED
      BY <3>1
  <2>8. ASSUME preedit' = preedit  PROVE AllKept
    BY <2>1, <2>3, <2>8
  <2> HIDE DEF AllKept
  <2>9. ASSUME NEW ic \in IC, NEW q, Gets(ic, q), q = preedit_new, ic \notin live'  PROVE AllKept
    <3>1. \A j \in IC : j # ic => preedit'[j] = preedit[j]
      BY <2>4, <2>9
    <3> QED
      BY <2>7, <2>9, <3>1
  <2>10. ASSUME NEW ic \in IC, NEW q, Gets(ic, q), Changed(preedit[ic], q)  PROVE AllKept
    <3>1. \A j \in IC : j # ic => preedit'[j] = preedit[j]
      BY <2>4, <2>10
    <3> QED
      BY <2>5, <2>7, <2>10, <3>1
  <2>11. ASSUME NEW ic \in IC, Cleared(ic)  PROVE AllKept
    BY <2>6, <2>7, <2>11
  <2>12. QED  BY <1>1, <2>8, <2>9, <2>10, <2>11, StepEffect
<1>2. IInv /\ [Next]_vars => [AllKept]_vars
  BY <1>1
<1>3. QED  BY <1>2, Invariant, PTL DEF Spec, NothingLost

-----------------------------------------------------------------------------
(* The contexts implement the line editor: a refinement by the mapping     *)
(* that joins the segments of a preedit.                                   *)

\* Putting a preedit into a context puts its text and its cursor into the
\* line of the context.
LEMMA MapSet ==
  ASSUME NEW ic \in IC, NEW q, preedit \in [IC -> PreeditType], Gets(ic, q)
  PROVE  Editor!Set(ic, preedit_get_input(q), CursorPos(q))
<1>1. \A j \in IC : j # ic => preedit'[j] = preedit[j]
  BY DEF Gets
<1>2. preedit'[ic] = q
  BY DEF Gets
<1> QED
  BY <1>1, <1>2 DEF Editor!Set, Text, preedit_get_input, NumSegments, CursorPos

\* Every edit of a preedit is a key of the editor.
LEMMA ActedMaps ==
  ASSUME NEW ic \in IC, NEW q, preedit \in [IC -> PreeditType], Placed(preedit[ic]),
         Gets(ic, q), Acted(preedit[ic], q)
  PROVE  Editor!Next
<1> DEFINE p == preedit[ic]
           s == preedit_get_input(p)
           c == CursorPos(p)
           to == CursorPos(q)
<1>1. Editor!Set(ic, preedit_get_input(q), to)
  BY MapSet
<1>2. Text(ic) = s
  BY DEF Text
<1>3. s \in Seq(Char) /\ Len(s) \in Nat /\ c \in 0 .. Len(s) /\ c \in Nat
  BY LineFacts, PosInLine
<1>4. [j \in IC |-> Text(j)][ic] = s /\ [j \in IC |-> CursorPos(preedit[j])][ic] = c
  BY <1>2
<1> HIDE DEF p, s, c, to
<1>5. CASE Stays(p, q)
  <2>1. Editor!Move(ic)
    BY <1>1, <1>4, <1>5 DEF Editor!Move, Stays, to, s
  <2> QED
    BY <2>1 DEF Editor!Next
<1>6. CASE Erased(p, q)
  <2>1. PICK at \in 1 .. Len(s) :
          /\ preedit_get_input(q) = RemoveAt(s, at) /\ to = at - 1
          /\ at = c + 1 \/ at = c
    BY <1>6 DEF Erased, s, c, to
  <2>2. RemoveAt(s, at) = Editor!RemoveAt(s, at)
    BY DEF RemoveAt, Editor!RemoveAt
  <2>3. CASE at = c + 1
    <3>1. c < Len(s) /\ to = c
      BY <1>3, <2>1, <2>3
    <3>2. Editor!Delete(ic)
      BY <1>1, <1>4, <2>1, <2>2, <2>3, <3>1 DEF Editor!Delete
    <3> QED
      BY <3>2 DEF Editor!Next
  <2>4. CASE at = c
    <3>1. c > 0 /\ s # <<>>
      BY <1>3, <2>1, <2>4
    <3>2. Editor!Backspace(ic)
      BY <1>1, <1>4, <2>1, <2>2, <2>4, <3>1 DEF Editor!Backspace
    <3> QED
      BY <3>2 DEF Editor!Next
  <2> QED
    BY <2>1, <2>3, <2>4
<1>7. CASE \E chr \in Char : Typed(p, q, chr)
  <2>1. PICK chr \in Char : Typed(p, q, chr)
    BY <1>7
  <2>2. PICK at \in c .. Len(s) :
          preedit_get_input(q) = InsertAt(s, at + 1, chr) /\ to = at + 1
    BY <2>1 DEF Typed, s, c, to
  <2>3. InsertAt(s, at + 1, chr) = Editor!InsertAt(s, at + 1, chr)
    BY DEF InsertAt, Editor!InsertAt
  <2>4. Editor!Type(ic, chr)
    BY <1>1, <1>4, <2>2, <2>3 DEF Editor!Type
  <2> QED
    BY <2>1, <2>4 DEF Editor!Next
<1>8. CASE \E chr \in Char : Merged(p, q, chr)
  <2>1. PICK chr \in Char : Merged(p, q, chr)
    BY <1>8
  <2> DEFINE merged == Combine(s[c], chr)
  <2>2. /\ c > 0 /\ merged \in Char /\ to = c
        /\ preedit_get_input(q) = ReplaceAt(s, c, merged)
    BY <2>1 DEF Merged, s, c, to
  <2>3. merged # CharInvalid
    BY <2>2, CharAssumption
  <2>4. ReplaceAt(s, c, merged) = Editor!ReplaceAt(s, c, merged)
    BY DEF ReplaceAt, Editor!ReplaceAt
  <2>5. Editor!Merge(ic, chr)
    BY <1>1, <1>4, <2>2, <2>3, <2>4 DEF Editor!Merge
  <2> QED
    BY <2>1, <2>5 DEF Editor!Next
<1> QED
  BY <1>5, <1>6, <1>7, <1>8 DEF Acted, p

\* Whatever segments, candidates and key bindings do, a context behaves as
\* one line of an editor.
THEOREM ContextsAreLines == Spec => ImplementsLineEditor
<1>1. Init => Editor!Init
  <2> SUFFICES ASSUME Init  PROVE Editor!Init
    OBVIOUS
  <2>1. \A ic \in IC : Text(ic) = <<>> /\ CursorPos(preedit[ic]) = 0
    BY NewAndClearEmpty DEF Init, Text
  <2> QED
    BY <2>1 DEF Editor!Init
<1>2. ASSUME IInv, Next  PROVE Editor!Next \/ UNCHANGED Editor!vars
  <2>1. /\ preedit \in [IC -> PreeditType]
        /\ \A ic \in IC : Placed(preedit[ic])
    BY <1>2 DEF IInv, TypeOK, AllGood, Good, Placed
  <2>2. ASSUME NEW ic \in IC, NEW q, Gets(ic, q), preedit_get_input(q) = <<>>, CursorPos(q) = 0
        PROVE  Editor!Next
    <3>1. Editor!Set(ic, <<>>, 0)
      BY <2>1, <2>2, MapSet
    <3> QED
      BY <3>1 DEF Editor!Next, Editor!Empty
  <2>3. ASSUME preedit' = preedit  PROVE UNCHANGED Editor!vars
    BY <2>3 DEF Editor!vars, Text, preedit_get_input, NumSegments, CursorPos
  <2>4. ASSUME NEW ic \in IC, Gets(ic, preedit_new)  PROVE Editor!Next
    BY <2>2, <2>4, NewAndClearEmpty
  <2>5. ASSUME NEW ic \in IC, Cleared(ic)  PROVE Editor!Next
    BY <2>2, <2>5, NewAndClearEmpty DEF Cleared
  <2>6. ASSUME NEW ic \in IC, NEW q, Gets(ic, q), Changed(preedit[ic], q)  PROVE Editor!Next
    BY <2>1, <2>6, ActedMaps DEF Changed
  <2>7. QED  BY <1>2, <2>3, <2>4, <2>5, <2>6, StepEffect
<1>3. UNCHANGED vars => UNCHANGED Editor!vars
  BY DEF vars, Editor!vars, Text, preedit_get_input, NumSegments, CursorPos
<1>4. IInv /\ [Next]_vars => [Editor!Next]_(Editor!vars)
  BY <1>2, <1>3
<1>5. QED  BY <1>1, <1>4, Invariant, PTL DEF Spec, ImplementsLineEditor, Editor!Spec

=============================================================================
