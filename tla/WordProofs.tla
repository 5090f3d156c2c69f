----------------------------- MODULE WordProofs -----------------------------
(***************************************************************************)
(* Proofs about a word: for every size of the array, every alphabet and    *)
(* every way two characters may combine, the input and a cell behind it    *)
(* lie inside the array, and an array that never grew is read as exactly   *)
(* the input, so that what is looked up is what was typed; of one that     *)
(* grew, what is read begins with the input, wherever reading ends.  The   *)
(* text of the word reads back as the input.  For every dictionary and     *)
(* every table of conjugations, every word is offered and the best one     *)
(* comes first.                                                            *)
(***************************************************************************)
EXTENDS Word, ListProofs

Cell == Char \cup {CharInvalid}

USE DEF size

-----------------------------------------------------------------------------
(* The array that segment_insert writes to *)

LEMMA GrownCells ==
  ASSUME WithinArray, ~TooLong, NEW cells \in Grown
  PROVE  /\ cells \in Seq(Cell)
         /\ len + 1 < Len(cells)
         /\ size <= Len(cells) /\ Len(cells) <= SHRT_MAX
         /\ Len(cells) = INITIAL_SEGMENT_SIZE => ~Full
         /\ \A k \in 1 .. size : cells[k] = input[k]
<1>1. CASE Full
  <2>1. PICK junk \in [1 .. INITIAL_SEGMENT_SIZE -> Garbage] : cells = input \o junk
    BY <1>1 DEF Grown
  <2>2. junk \in Seq(Cell) /\ Len(junk) = INITIAL_SEGMENT_SIZE
    BY <2>1, CharsAssumption, SizeAssumption DEF Cell
  <2>3. QED
    BY <1>1, <2>1, <2>2, SizeAssumption DEF WithinArray, Cell, Full, TooLong
<1>2. CASE ~Full
  BY <1>2, SizeAssumption DEF Grown, WithinArray, Cell, Full
<1> QED
  BY <1>1, <1>2

-----------------------------------------------------------------------------
(* The invariant *)

Inv == WithinArray /\ ClearedBehind

LEMMA InitInv == BufferInit => Inv
<1> SUFFICES ASSUME BufferInit PROVE Inv
  OBVIOUS
<1>1. input \in Seq(Cell) /\ Len(input) = INITIAL_SEGMENT_SIZE
  BY SizeAssumption DEF BufferInit, Cell
<1> QED
  BY <1>1, SizeAssumption DEF Inv, WithinArray, ClearedBehind, BufferInit, Cell

LEMMA ClampedInRange == ASSUME WithinArray, NEW at \in Int PROVE Clamped(at) \in 0 .. len
  BY DEF Clamped, WithinArray

LEMMA InsertInv ==
  ASSUME Inv, NEW chr \in Char, NEW at \in Int, segment_insert(chr, at)
  PROVE  Inv'
<1> DEFINE pos == Clamped(at)
<1>1. PICK cells \in Grown :
        IF CombinedAt(cells, chr, pos) # CharInvalid
        THEN input' = [cells EXCEPT ![pos] = CombinedAt(cells, chr, pos)] /\ len' = len
        ELSE input' = Inserted(cells, chr, pos) /\ len' = len + 1
  BY DEF segment_insert
<1>2. /\ cells \in Seq(Cell) /\ len + 1 < Len(cells)
      /\ INITIAL_SEGMENT_SIZE <= Len(cells) /\ Len(cells) <= SHRT_MAX
      /\ \A k \in 1 .. size : cells[k] = input[k]
      /\ Len(cells) = INITIAL_SEGMENT_SIZE => ~Full
  BY GrownCells, SizeAssumption DEF Inv, WithinArray, segment_insert
<1>3. pos \in 0 .. len /\ len \in Nat /\ len < size
  BY ClampedInRange DEF Inv, WithinArray
<1>4. \A k \in 1 .. len : cells[k] \in Char
  BY <1>2, <1>3 DEF Inv, WithinArray
<1>5. Len(cells) = INITIAL_SEGMENT_SIZE =>
        size = INITIAL_SEGMENT_SIZE /\ \A k \in len + 1 .. Len(cells) : cells[k] = CharInvalid
  <2> SUFFICES ASSUME Len(cells) = INITIAL_SEGMENT_SIZE
               PROVE  size = INITIAL_SEGMENT_SIZE
                        /\ \A k \in len + 1 .. Len(cells) : cells[k] = CharInvalid
    OBVIOUS
  <2>1. cells = input
    BY <1>2 DEF Grown
  <2> QED
    BY <2>1 DEF Inv, ClearedBehind, NeverGrown
<1>6. CASE CombinedAt(cells, chr, pos) # CharInvalid
  <2>1. pos \in 1 .. len
    BY <1>3, <1>6 DEF CombinedAt
  <2>2. CombinedAt(cells, chr, pos) \in Char
    BY <1>4, <1>6, <2>1, CharsAssumption DEF CombinedAt
  <2>3. input' = [cells EXCEPT ![pos] = CombinedAt(cells, chr, pos)] /\ len' = len
    BY <1>1, <1>6
  <2>4. input' \in Seq(Cell) /\ Len(input') = Len(cells)
    <3>1. Len(cells) \in Nat /\ cells \in [1 .. Len(cells) -> Cell]
      BY <1>2
    <3>2. input' \in [1 .. Len(cells) -> Cell]
      BY <2>2, <2>3, <3>1 DEF Cell
    <3> QED
      BY <3>1, <3>2
  <2> QED
    BY <1>2, <1>3, <1>4, <1>5, <2>1, <2>2, <2>3, <2>4
    DEF Inv, WithinArray, ClearedBehind, NeverGrown, Cell
<1>7. CASE CombinedAt(cells, chr, pos) = CharInvalid
  <2>1. input' = Inserted(cells, chr, pos) /\ len' = len + 1
    BY <1>1, <1>7
  <2>2. \A k \in 1 .. Len(cells) : Inserted(cells, chr, pos)[k] \in Cell
    BY <1>2, <1>3 DEF Inserted, Cell
  <2>3. input' \in Seq(Cell) /\ Len(input') = Len(cells)
    <3>1. DOMAIN input' = 1 .. Len(cells) /\ Len(cells) \in Nat
      BY <1>2, <2>1 DEF Inserted
    <3>2. input' = [k \in 1 .. Len(cells) |-> input'[k]]
      BY <2>1, <3>1 DEF Inserted
    <3> QED
      BY <2>1, <2>2, <3>1, <3>2
  <2>4. \A k \in 1 .. len + 1 : input'[k] \in Char
    BY <1>2, <1>3, <1>4, <2>1 DEF Inserted
  <2>5. \A k \in len + 2 .. Len(cells) : input'[k] = cells[k]
    BY <1>2, <1>3, <2>1 DEF Inserted
  <2> QED
    BY <1>2, <1>3, <1>5, <2>1, <2>3, <2>4, <2>5
    DEF Inv, WithinArray, ClearedBehind, NeverGrown, Cell
<1> QED
  BY <1>6, <1>7

LEMMA EraseInv ==
  ASSUME Inv, NEW pos \in Int, segment_erase(pos)
  PROVE  Inv'
<1>1. len \in Nat /\ len < size /\ pos \in 0 .. len - 1 /\ len' = len - 1
  BY DEF Inv, WithinArray, segment_erase
<1>2. input \in Seq(Cell) /\ \A k \in 1 .. len : input[k] \in Char
  BY DEF Inv, WithinArray, Cell
<1>3. \A k \in 1 .. size : input'[k] \in Cell
  BY <1>1, <1>2 DEF segment_erase, Cell
<1>4. input' \in Seq(Cell) /\ Len(input') = size
  BY <1>2, <1>3 DEF segment_erase
<1>5. \A k \in 1 .. len - 1 : input'[k] \in Char
  BY <1>1, <1>2 DEF segment_erase
<1>6. \A k \in len .. size : input'[k] = IF k = len THEN CharInvalid ELSE input[k]
  BY <1>1, <1>2 DEF segment_erase
<1> QED
  BY <1>1, <1>4, <1>5, <1>6 DEF Inv, WithinArray, ClearedBehind, NeverGrown, Cell

LEMMA ClearInv == ASSUME Inv, segment_clear PROVE Inv'
<1>1. input' \in Seq(Cell) /\ Len(input') = size
  BY DEF Inv, WithinArray, segment_clear, Cell
<1> QED
  BY <1>1, SizeAssumption DEF Inv, WithinArray, ClearedBehind, segment_clear, Cell

LEMMA NextInv == Inv /\ [BufferNext]_bufferVars => Inv'
<1> SUFFICES ASSUME Inv, [BufferNext]_bufferVars PROVE Inv'
  OBVIOUS
<1>1. CASE UNCHANGED bufferVars
  BY <1>1 DEF bufferVars, Inv, WithinArray, ClearedBehind, NeverGrown
<1>2. ASSUME NEW chr \in Char, NEW at \in Int, segment_insert(chr, at) PROVE Inv'
  BY <1>2, InsertInv
<1>3. ASSUME NEW pos \in Int, segment_erase(pos) PROVE Inv'
  BY <1>3, EraseInv
<1>4. CASE segment_clear
  BY <1>4, ClearInv
<1> QED
  BY <1>1, <1>2, <1>3, <1>4 DEF BufferNext

\* No access leaves the array, and what the input holds was written
\* (segment_insert, segment_erase, _segment_grow).
THEOREM Bounds == BufferSpec => []WithinArray
<1>1. Inv => WithinArray
  BY DEF Inv
<1> QED
  BY <1>1, InitInv, NextInv, PTL DEF BufferSpec

\* Behind the input an array that never grew is CHAR_INVALID (segment_erase
\* terminates what it shortens).
THEOREM Cleared == BufferSpec => []ClearedBehind
<1>1. Inv => ClearedBehind
  BY DEF Inv
<1> QED
  BY <1>1, InitInv, NextInv, PTL DEF BufferSpec

-----------------------------------------------------------------------------
(* What aide_suggest reads *)

Ends(n) == (\A k \in 1 .. n : input[k] # CharInvalid) /\ (n < size => input[n + 1] = CharInvalid)

LEMMA KeyLengthExists ==
  ASSUME WithinArray
  PROVE  KeyLength \in 0 .. size /\ Ends(KeyLength) /\ KeyLength >= len
<1> DEFINE Zero == {k \in 1 .. size : input[k] = CharInvalid}
<1>1. size \in Nat
  BY DEF WithinArray
<1>2. \E n \in 0 .. size : Ends(n)
  <2>1. CASE Zero = {}
    BY <1>1, <2>1 DEF Ends
  <2>2. CASE Zero # {}
    <3>1. Zero \subseteq Nat
      BY <1>1
    <3>2. PICK k \in Zero : \A j \in Zero : <<j, k>> \notin OpToRel(<, Nat)
      BY <2>2, <3>1, NatLessThanWellFounded, WFMin
    <3>3. \A j \in Zero : k <= j
      <4>1. OpToRel(<, Nat) = {ss \in Nat \X Nat : ss[1] < ss[2]}
        BY Zenon DEF OpToRel
      <4>2. \A j \in Zero : <<j, k>> \notin {ss \in Nat \X Nat : ss[1] < ss[2]}
        BY <3>2, <4>1, Zenon
      <4>3. SUFFICES ASSUME NEW j \in Zero PROVE k <= j
        OBVIOUS
      <4>4. j \in Nat /\ k \in Nat /\ <<j, k>> \in Nat \X Nat
        BY <3>1, <3>2
      <4>5. ~(<<j, k>>[1] < <<j, k>>[2])
        BY <4>2, <4>4, Zenon
      <4> QED
        BY <4>4, <4>5
    <3>4. k - 1 \in 0 .. size /\ Ends(k - 1)
      BY <1>1, <3>3 DEF Ends
    <3> QED
      BY <3>4
  <2> QED
    BY <2>1, <2>2
<1>3. KeyLength \in 0 .. size /\ Ends(KeyLength)
  BY <1>2 DEF KeyLength, Ends
<1>4. KeyLength >= len
  BY <1>1, <1>3, CharsAssumption DEF Ends, WithinArray
<1> QED
  BY <1>3, <1>4

\* What aide_suggest reads are cells of the array and characters behind it.
LEMMA KeyShape ==
  ASSUME WithinArray, NEW k \in Keys
  PROVE  \E tail \in Seq(Char) :
           /\ k = SubSeq(input, 1, KeyLength) \o tail
           /\ KeyLength < size => tail = <<>>
<1>1. KeyLength \in 0 .. size /\ input \in Seq(Cell) /\ Len(input) = size
  BY KeyLengthExists DEF WithinArray, Cell
<1>2. CASE KeyLength < size
  <2>1. k = SubSeq(input, 1, KeyLength) /\ SubSeq(input, 1, KeyLength) \in Seq(Cell)
    BY <1>1, <1>2 DEF Keys
  <2>2. k = SubSeq(input, 1, KeyLength) \o <<>> /\ <<>> \in Seq(Char)
    BY <2>1
  <2> QED
    BY <1>2, <2>2
<1>3. CASE ~ (KeyLength < size)
  <2>1. PICK tail \in Behind : k = input \o tail
    BY <1>3 DEF Keys
  <2>2. tail \in Seq(Char)
    BY <2>1, CharsAssumption
  <2>3. SubSeq(input, 1, KeyLength) = input
    BY <1>1, <1>3
  <2> QED
    BY <1>3, <2>1, <2>2, <2>3
<1> QED
  BY <1>2, <1>3

\* What aide_suggest reads begins with the input, and is the input itself while
\* the array has its first size: the terminator is then where it looks for it.
LEMMA KeyOfInput ==
  ASSUME Inv, NEW k \in Keys
  PROVE  /\ k \in Seq(Cell) /\ len \in Nat /\ len <= Len(k)
         /\ SubSeq(k, 1, len) = Typed /\ (NeverGrown => k = Typed)
<1>1. KeyLength \in 0 .. size /\ Ends(KeyLength) /\ KeyLength >= len
  BY KeyLengthExists DEF Inv
<1>2. input \in Seq(Cell) /\ len \in Nat /\ len < size
  BY DEF Inv, WithinArray, Cell
<1> DEFINE head == SubSeq(input, 1, KeyLength)
<1>3. head \in Seq(Cell) /\ Len(head) = KeyLength /\ SubSeq(head, 1, len) = Typed
  BY <1>1, <1>2 DEF Typed
<1>4. PICK tail \in Seq(Char) : k = head \o tail /\ (KeyLength < size => tail = <<>>)
  BY KeyShape DEF Inv
<1>5. tail \in Seq(Cell)
  BY DEF Cell
<1>6. ASSUME NeverGrown PROVE k = Typed
  <2>1. KeyLength = len
    BY <1>1, <1>2, <1>6 DEF Inv, ClearedBehind, Ends
  <2>2. tail = <<>> /\ head = Typed
    BY <1>2, <1>4, <2>1 DEF Typed
  <2> QED
    BY <1>3, <1>4, <2>2
<1> HIDE DEF head
<1>7. k \in Seq(Cell) /\ len <= Len(k)
  BY <1>1, <1>2, <1>3, <1>4, <1>5
<1>8. SubSeq(k, 1, len) = SubSeq(head, 1, len)
  BY <1>1, <1>2, <1>3, <1>4, <1>5
<1> QED
  BY <1>2, <1>3, <1>6, <1>7, <1>8

-----------------------------------------------------------------------------
(* The word that is looked up *)

\* Once aide_suggest was called its key is what it read in the array, which is
\* not written any more.
WordInv == Inv /\ (phase \notin {"load", "ready"} => key \in Keys)

LEMMA WordInitInv == Init => WordInv
  BY InitInv DEF Init, AideInit, WordInv

LEMMA KeyUnchanged == ASSUME UNCHANGED bufferVars PROVE Keys' = Keys /\ (Inv => Inv')
  BY DEF bufferVars, Keys, KeyLength, Inv, WithinArray, ClearedBehind, NeverGrown, size

LEMMA EditInv == ASSUME WordInv, edit PROVE WordInv'
<1>1. phase' = "ready"
  BY DEF edit, aideVars
<1>2. len \in Nat
  BY DEF WordInv, Inv, WithinArray
<1>3. CASE \E chr \in Char, pos \in 0 .. len : segment_insert(chr, pos)
  BY <1>1, <1>2, <1>3, InsertInv DEF WordInv
<1>4. CASE \E pos \in 0 .. len - 1 : segment_erase(pos)
  BY <1>1, <1>2, <1>4, EraseInv DEF WordInv
<1>5. CASE segment_clear
  BY <1>1, <1>5, ClearInv DEF WordInv
<1> QED
  BY <1>3, <1>4, <1>5 DEF edit

LEMMA UpdateInv == ASSUME WordInv, segment_update_candidates PROVE WordInv'
  BY KeyUnchanged DEF segment_update_candidates, aide_suggest, WordInv

\* While the suggestions are made the key does not change, and aide_suggest
\* is never called in between.
LEMMA SuggestInv == ASSUME WordInv, suggest PROVE WordInv'
<1>1. Keys' = Keys /\ Inv'
  BY KeyUnchanged DEF suggest, WordInv
<1>2. key' = key /\ (phase \in {"load", "ready"} => phase' \in {"load", "ready"})
  BY DEF suggest, AideNext, dict_add, aide_init, trie_insert_ctable_entry, aide_unconjugate,
         lookup_conjugation, insert_suggestion, lookup_without_dictionary, parray_get_items
<1> QED
  BY <1>1, <1>2 DEF WordInv

LEMMA OutputInv ==
  ASSUME WordInv, segment_get_output \/ UNCHANGED vars PROVE WordInv'
<1>1. UNCHANGED <<aideVars, bufferVars>>
  BY DEF segment_get_output, vars
<1> QED
  BY <1>1, KeyUnchanged DEF WordInv, aideVars

LEMMA WordNextInv == WordInv /\ [Next]_vars => WordInv'
  BY EditInv, UpdateInv, SuggestInv, OutputInv DEF Next, Handle

LEMMA WordInvKey == WordInv => KeyBeginsWithInput
<1> SUFFICES ASSUME WordInv, phase \notin {"load", "ready"}
             PROVE  IsPrefix(Typed, key) /\ (NeverGrown => key = Typed)
  BY DEF KeyBeginsWithInput
<1>1. /\ key \in Seq(Cell) /\ len \in Nat /\ len <= Len(key)
      /\ SubSeq(key, 1, len) = Typed /\ (NeverGrown => key = Typed)
  BY KeyOfInput DEF WordInv
<1>2. len < size /\ input \in Seq(Cell)
  BY DEF WordInv, Inv, WithinArray, Cell
<1>3. Len(Typed) = len /\ SubSeq(Typed, 1, len) = Typed
  BY <1>1, <1>2 DEF Typed
<1> QED
  BY <1>1, <1>3 DEF IsPrefix

\* aide_suggest gets no length, but what it looks up begins with the input,
\* and is the input as long as the array was never enlarged (segment.c:428).
THEOREM LookupOfInput == Spec => []KeyBeginsWithInput
  BY WordInitInv, WordNextInv, WordInvKey, PTL DEF Spec

HIDE DEF size

-----------------------------------------------------------------------------
(* Tries *)

LEMMA ListsCollect ==
  ASSUME NEW s, NEW A, NEW f, Lists(s, A, f), NEW S
  PROVE  Lists(Collected(s, S), {c \in A : f[c] \in S}, f)
<1>1. PICK n, b : Listing(s, n, b, A, f)
  BY Zenon DEF Lists
<1>2. Shape(s, n, b, A, f)
  BY <1>1, ListsShape, Zenon
<1>3. n \in Nat /\ DOMAIN s = 1 .. n
  BY <1>2, Zenon DEF Shape
<1>4. \A k \in 1 .. n : b[k] \in A /\ s[k] = f[b[k]]
  BY <1>2, Zenon DEF Shape
<1>5. \A j, k \in 1 .. n : b[j] = b[k] => j = k
  BY <1>2, Zenon DEF Shape
<1>6. \A c \in A : \E k \in 1 .. n : b[k] = c
  BY <1>2, Zenon DEF Shape
<1>7. PICK ss : ss = [k \in DOMAIN s |-> IF s[k] \in S THEN <<s[k]>> ELSE <<>>]
  OBVIOUS
<1>8. PICK AA : AA = [k \in 1 .. n |-> IF s[k] \in S THEN {b[k]} ELSE {}]
  OBVIOUS
<1>9. ss = [k \in 1 .. n |-> ss[k]]
  BY <1>3, <1>7
<1>10. ASSUME NEW k \in 1 .. n PROVE Lists(ss[k], AA[k], f)
  <2>1. CASE s[k] \in S
    <3>1. ss[k] = <<f[b[k]]>> /\ AA[k] = {b[k]}
      BY <1>3, <1>4, <1>7, <1>8, <2>1
    <3> QED
      BY <3>1, ListsOne
  <2>2. CASE s[k] \notin S
    <3>1. ss[k] = <<>> /\ AA[k] = {}
      BY <1>3, <1>7, <1>8, <2>2
    <3> QED
      BY <3>1, ListsNone
  <2> QED
    BY <2>1, <2>2
<1>11. \A k \in 1 .. n : \A c \in AA[k] : c = b[k] /\ s[k] \in S
  BY <1>8
<1>12. \A j, k \in 1 .. n : \A c \in AA[j] : c \in AA[k] => j = k
  BY <1>5, <1>11, Zenon
<1>13. Lists(FlattenSeq(ss), UNION {AA[k] : k \in 1 .. n}, f)
  BY <1>3, <1>9, <1>10, <1>12, ListsFlatten
<1>14. UNION {AA[k] : k \in 1 .. n} = {c \in A : f[c] \in S}
  <2>1. ASSUME NEW c \in UNION {AA[k] : k \in 1 .. n} PROVE c \in A /\ f[c] \in S
    <3>1. PICK k \in 1 .. n : c \in AA[k]
      BY <2>1
    <3> QED
      BY <1>4, <1>11, <3>1
  <2>2. ASSUME NEW c \in A, f[c] \in S PROVE c \in UNION {AA[k] : k \in 1 .. n}
    <3>1. PICK k \in 1 .. n : b[k] = c
      BY <1>6
    <3>2. c \in AA[k]
      BY <1>4, <1>8, <2>2, <3>1
    <3> QED
      BY <3>2
  <2> QED
    BY <2>1, <2>2
<1>15. Collected(s, S) = FlattenSeq(ss)
  BY <1>7, Zenon DEF Collected
<1> QED
  BY <1>13, <1>14, <1>15

LEMMA TrieInsert ==
  ASSUME NEW trie, NEW A, NEW f, Lists(trie, A, f), NEW a, a \notin A,
         NEW k_, NEW v, f[a] = [node |-> k_, value |-> v]
  PROVE  Lists(trie_insert(trie, k_, v), A \union {a}, f)
<1>1. HasElements(trie, A, f)
  BY ListsElement
<1>2. DOMAIN trie = 1 .. Len(trie)
  BY <1>1, Zenon DEF HasElements
<1>3. trie \in Seq({f[c] : c \in A})
  BY ListsType
<1>4. PICK I : I = {n \in DOMAIN trie : Earlier(k_, trie[n].node)} \union {Len(trie) + 1}
  OBVIOUS
<1>5. I \subseteq 1 .. Len(trie) + 1 /\ I \subseteq Nat /\ I # {}
  BY <1>2, <1>3, <1>4
<1>6. Min(I) \in 1 .. Len(trie) + 1
  BY <1>5, SmallestOf
<1>7. Lists(InsertAt(trie, Min(I), f[a]), A \union {a}, f)
  BY <1>6, ListsInsert
<1> QED
  BY <1>4, <1>7 DEF trie_insert

LEMMA ValuesOf ==
  ASSUME NEW trie, NEW A, NEW f, Lists(trie, A, f), NEW g, \A a \in A : g[a] = f[a].value,
         NEW S
  PROVE  Lists(Values(Collected(trie, S)), {c \in A : f[c] \in S}, g)
<1>1. PICK s : s = Collected(trie, S)
  OBVIOUS
<1>2. PICK B : B = {c \in A : f[c] \in S}
  OBVIOUS
<1>3. Lists(s, B, f)
  BY <1>1, <1>2, ListsCollect
<1>4. PICK t : t = Values(s)
  OBVIOUS
<1>5. t = [k \in DOMAIN s |-> t[k]] /\ \A k \in DOMAIN s : t[k] = s[k].value
  BY <1>4 DEF Values
<1>6. \A k \in DOMAIN s : \A c \in B : s[k] = f[c] => t[k] = g[c]
  BY <1>2, <1>5
<1>7. Lists(t, B, g)
  BY <1>3, <1>5, <1>6, ListsMap
<1> QED
  BY <1>1, <1>2, <1>4, <1>7

LEMMA TrieValues ==
  ASSUME NEW trie, NEW A, NEW f, Lists(trie, A, f), NEW g, \A a \in A : g[a] = f[a].value,
         NEW k_, NEW m_
  PROVE  Lists(trie_get_values(trie, k_, m_),
               {c \in A : f[c].node = k_ \/ (m_ = "predict" /\ IsPrefix(k_, f[c].node))}, g)
<1>1. PICK S : S = {e \in ToSet(trie) : e.node = k_ \/ (m_ = "predict" /\ IsPrefix(k_, e.node))}
  OBVIOUS
<1>2. Lists(Values(Collected(trie, S)), {c \in A : f[c] \in S}, g)
  BY ValuesOf
<1>3. HasElements(trie, A, f)
  BY ListsElement
<1>4. \A c \in A : f[c] \in ToSet(trie)
  BY <1>3 DEF HasElements, ToSet
<1>5. {c \in A : f[c] \in S} =
        {c \in A : f[c].node = k_ \/ (m_ = "predict" /\ IsPrefix(k_, f[c].node))}
  BY <1>1, <1>4
<1> QED
  BY <1>1, <1>2, <1>5 DEF trie_get_values

LEMMA TrieReverseValues ==
  ASSUME NEW trie, NEW A, NEW f, Lists(trie, A, f), NEW g, \A a \in A : g[a] = f[a].value,
         NEW k_
  PROVE  Lists(trie_get_values_reverse(trie, k_), {c \in A : IsPrefix(f[c].node, Reverse(k_))}, g)
<1>1. PICK S : S = {e \in ToSet(trie) : IsPrefix(e.node, Reverse(k_))}
  OBVIOUS
<1>2. Lists(Values(Collected(trie, S)), {c \in A : f[c] \in S}, g)
  BY ValuesOf
<1>3. HasElements(trie, A, f)
  BY ListsElement
<1>4. \A c \in A : f[c] \in ToSet(trie)
  BY <1>3 DEF HasElements, ToSet
<1>5. {c \in A : f[c] \in S} = {c \in A : IsPrefix(f[c].node, Reverse(k_))}
  BY <1>1, <1>4
<1> QED
  BY <1>1, <1>2, <1>5 DEF trie_get_values_reverse

-----------------------------------------------------------------------------
(* The invariant of the search *)

\* The nodes that dict_add makes of a dictionary's entries, and
\* _conjugation_trie_init of the table's rows.
Nodes(d) == [n \in DOMAIN library[d] |-> [node |-> library[d][n].key, value |-> Entry(d, n)]]

RowNodes ==
  [r \in DOMAIN Conjugations |->
    [node |-> Reverse(Conjugations[r].match), value |-> Conjugations[r]]]

\* The r-th row's conjugation of the input; the null conjugation for 0.
ConjOf ==
  [r \in 0 .. Len(Conjugations) |->
    IF r = 0 THEN NullConjugation(key) ELSE make_conjugation(key, Conjugations[r])]

Matching ==
  {r \in 0 .. Len(Conjugations) : r = 0 \/ IsSuffix(Conjugations[r].match, key)}

\* Where the entries and the candidates are in the dictionaries.
EntryPlaces == {p \in Nat \X Nat : p[1] \in DOMAIN library /\ p[2] \in DOMAIN library[p[1]]}

Places ==
  {p \in Nat \X Nat \X Nat :
    /\ p[1] \in DOMAIN library /\ p[2] \in DOMAIN library[p[1]]
    /\ p[3] \in DOMAIN library[p[1]][p[2]].candidates}

\* The ways to read the input: a candidate, and how it is conjugated.
Ways ==
  {w \in Nat \X Nat \X Nat \X Nat :
    /\ <<w[1], w[2], w[3]>> \in Places /\ w[4] \in 0 .. Len(Conjugations)
    /\ IsWord(w[1], w[2], w[3], w[4])}

WordOf == [w \in Ways |-> Word(w[1], w[2], w[3], w[4])]

\* The words of the conjugations looked up are in the array or on their way to
\* it, each of them once, and no others.
Progress(C, F) ==
  /\ C \subseteq Matching /\ F \subseteq {w \in Ways : w[4] \notin C}
  /\ Lists(conjugations, C, ConjOf)
  /\ Lists(found, F, WordOf)
  /\ Lists(parray, {w \in Ways : w[4] \notin C} \ F, WordOf)

Loaded(d) ==
  /\ dicts[d] = [trie |-> dicts[d].trie, added |-> dicts[d].added]
  /\ dicts[d].added \in 0 .. Len(library[d])
  /\ Lists(dicts[d].trie, 1 .. dicts[d].added, Nodes(d))

Complete == \A d \in DOMAIN library : dicts[d].added = Len(library[d])

AideInv ==
  /\ library \in Library
  /\ dicts = [d \in DOMAIN library |-> dicts[d]]
  /\ \A d \in DOMAIN library : Loaded(d)
  /\ rows \in 0 .. Len(Conjugations)
  /\ Lists(ctrie, 1 .. rows, RowNodes)
  /\ phase \in {"load", "ready", "unconjugate", "lookup", "done", "crashed"}
  /\ phase # "load" => Complete
  /\ phase \in {"load", "ready", "unconjugate"} => conjugations = <<>> /\ found = <<>> /\ parray = <<>>
  /\ phase \in {"lookup", "done", "crashed"} => \E C, F : Progress(C, F)
  /\ phase = "done" => conjugations = <<>> /\ found = <<>> /\ suggestions = parray

-----------------------------------------------------------------------------
(* What the dictionaries have for a conjugation *)

LEMMA EntryTypes ==
  ASSUME library \in Library, NEW d \in DOMAIN library, NEW n \in DOMAIN library[d]
  PROVE  /\ d \in Nat /\ n \in Nat /\ library[d][n] \in EntryType
         /\ library \in Seq(Seq(EntryType))
<1>1. library \in Seq(Seq(EntryType))
  BY LibraryAssumption
<1>2. PICK Q : Q = Seq(EntryType)
  OBVIOUS
<1>3. library \in Seq(Q) /\ d \in 1 .. Len(library) /\ library[d] \in Q
  BY <1>1, <1>2
<1>4. library[d] \in Seq(EntryType)
  BY <1>2, <1>3
<1> QED
  BY <1>1, <1>3, <1>4

\* An entry in a trie still has its key, and its candidates in their places.
LEMMA EntrySays ==
  ASSUME library \in Library, NEW d \in DOMAIN library, NEW n \in DOMAIN library[d]
  PROVE  /\ Entry(d, n).key = library[d][n].key
         /\ DOMAIN Entry(d, n).candidates = DOMAIN library[d][n].candidates
         /\ \A m \in DOMAIN library[d][n].candidates :
              Entry(d, n).candidates[m] =
                [data |-> <<d, n, m>>, says |-> library[d][n].candidates[m]]
         /\ Entry(d, n).candidates =
              [m \in 1 .. Len(library[d][n].candidates) |-> Entry(d, n).candidates[m]]
         /\ DOMAIN library[d][n].candidates = 1 .. Len(library[d][n].candidates)
         /\ Len(library[d][n].candidates) \in Nat
<1>1. library[d][n] \in EntryType
  BY EntryTypes
<1>2. PICK e : e = library[d][n]
  OBVIOUS
<1>3. e \in [key : Seq(Symbol), candidates : Seq(CandidateType)]
  BY <1>1, <1>2 DEF EntryType
<1>4. PICK cs : cs = [m \in DOMAIN e.candidates |->
                       [data |-> <<d, n, m>>, says |-> e.candidates[m]]]
  OBVIOUS
<1>5. Entry(d, n) = [e EXCEPT !.candidates = cs]
  BY <1>2, <1>4, Zenon DEF Entry
<1>6. Entry(d, n).key = e.key /\ Entry(d, n).candidates = cs
  BY <1>3, <1>5
<1>7. DOMAIN e.candidates = 1 .. Len(e.candidates) /\ Len(e.candidates) \in Nat
  BY <1>3
<1>8. DOMAIN cs = DOMAIN e.candidates /\ cs = [m \in 1 .. Len(e.candidates) |-> cs[m]]
      /\ \A m \in DOMAIN e.candidates : cs[m] = [data |-> <<d, n, m>>, says |-> e.candidates[m]]
  BY <1>4, <1>7
<1> QED
  BY <1>2, <1>6, <1>7, <1>8

Hit(k_, c) == k_ = c.dict_form \/ (LookupMode(c) = "predict" /\ IsPrefix(c.dict_form, k_))

EntryAt == [p \in EntryPlaces |-> Entry(p[1], p[2])]

LEMMA EntriesFound ==
  ASSUME AideInv, Complete, NEW c
  PROVE  Lists(Entries(c), {p \in EntryPlaces : Hit(library[p[1]][p[2]].key, c)}, EntryAt)
<1>1. /\ library \in Library /\ dicts = [d \in DOMAIN library |-> dicts[d]]
      /\ \A d \in DOMAIN library : Loaded(d)
  BY Zenon DEF AideInv
<1>2. PICK N \in Nat : DOMAIN library = 1 .. N
  BY <1>1, LibraryAssumption
<1>3. PICK ss : ss = [d \in DOMAIN dicts |-> trie_get_values(dicts[d].trie, c.dict_form, LookupMode(c))]
  OBVIOUS
<1>4. DOMAIN dicts = 1 .. N
  BY <1>1, <1>2
<1>5. ss = [d \in 1 .. N |-> ss[d]]
  BY <1>3, <1>4
<1>6. PICK AA : AA = [d \in 1 .. N |-> {p \in EntryPlaces : p[1] = d /\ Hit(library[d][p[2]].key, c)}]
  OBVIOUS
<1>7. ASSUME NEW d \in 1 .. N PROVE Lists(ss[d], AA[d], EntryAt)
  <2>1. Lists(dicts[d].trie, 1 .. Len(library[d]), Nodes(d))
    BY <1>1, <1>2 DEF Loaded, Complete
  <2>2. d \in DOMAIN library /\ DOMAIN library[d] = 1 .. Len(library[d]) /\ Len(library[d]) \in Nat
    <3>1. PICK Q : Q = Seq(EntryType)
      OBVIOUS
    <3>2. library \in Seq(Q) /\ d \in DOMAIN library
      BY <1>1, <1>2, <3>1, LibraryAssumption
    <3>3. library[d] \in Seq(EntryType)
      BY <3>1, <3>2
    <3> QED
      BY <3>2, <3>3
  <2>3. PICK D : D = 1 .. Len(library[d])
    OBVIOUS
  <2>4. PICK f : f = Nodes(d)
    OBVIOUS
  <2>5. PICK g : g = [n \in D |-> Entry(d, n)]
    OBVIOUS
  <2>6. \A n \in D : f[n] = [node |-> library[d][n].key, value |-> Entry(d, n)]
    BY <2>2, <2>3, <2>4 DEF Nodes
  <2>61. ASSUME NEW n \in D PROVE f[n].node = library[d][n].key /\ f[n].value = Entry(d, n)
    <3>1. PICK k_ : k_ = library[d][n].key
      OBVIOUS
    <3>2. PICK e : e = Entry(d, n)
      OBVIOUS
    <3>3. f[n] = [node |-> k_, value |-> e]
      BY <2>6, <3>1, <3>2
    <3> QED
      BY <3>1, <3>2, <3>3
  <2>7. \A n \in D : g[n] = f[n].value
    BY <2>5, <2>61
  <2>8. PICK A : A = {n \in D : f[n].node = c.dict_form
                                  \/ (LookupMode(c) = "predict" /\ IsPrefix(c.dict_form, f[n].node))}
    OBVIOUS
  <2>9. Lists(dicts[d].trie, D, f)
    BY <2>1, <2>3, <2>4
  <2>10. Lists(trie_get_values(dicts[d].trie, c.dict_form, LookupMode(c)), A, g)
    <3>1. PICK t : t = dicts[d].trie
      OBVIOUS
    <3>2. PICK k_ : k_ = c.dict_form
      OBVIOUS
    <3>3. PICK m_ : m_ = LookupMode(c)
      OBVIOUS
    <3>4. Lists(t, D, f)
      BY <2>9, <3>1
    <3>5. Lists(trie_get_values(t, k_, m_),
                {n \in D : f[n].node = k_ \/ (m_ = "predict" /\ IsPrefix(k_, f[n].node))}, g)
      BY <2>7, <3>4, TrieValues
    <3> QED
      BY <2>8, <3>1, <3>2, <3>3, <3>5
  <2>11. \A n \in A : n \in D /\ Hit(library[d][n].key, c)
    BY <2>61, <2>8, Zenon DEF Hit
  <2>12. \A n \in D : Hit(library[d][n].key, c) => n \in A
    BY <2>61, <2>8, Zenon DEF Hit
  <2>13. PICK name : name = [n \in A |-> <<d, n>>]
    OBVIOUS
  <2>14. \A n \in A : name[n] = <<d, n>> /\ n \in Nat /\ n \in DOMAIN library[d] /\ d \in Nat
    BY <2>2, <2>3, <2>11, <2>13
  <2>15. \A n \in A : name[n] \in AA[d]
    <3> SUFFICES ASSUME NEW n \in A PROVE name[n] \in AA[d]
      OBVIOUS
    <3>1. <<d, n>> \in EntryPlaces
      BY <2>2, <2>14 DEF EntryPlaces
    <3> QED
      BY <1>6, <2>11, <2>14, <3>1
  <2>16. \A n, k \in A : name[n] = name[k] => n = k
    BY <2>14
  <2>17. ASSUME NEW p \in AA[d] PROVE \E n \in A : name[n] = p
    <3>1. p \in EntryPlaces /\ p[1] = d /\ Hit(library[d][p[2]].key, c)
      BY <1>6, <2>17
    <3>2. p = <<d, p[2]>> /\ p[2] \in D
      BY <2>2, <2>3, <3>1 DEF EntryPlaces
    <3>3. p[2] \in A
      BY <2>12, <3>1, <3>2
    <3> QED
      BY <2>14, <3>2, <3>3
  <2>18. \A n \in A : EntryAt[name[n]] = g[n]
    <3> SUFFICES ASSUME NEW n \in A PROVE EntryAt[name[n]] = g[n]
      OBVIOUS
    <3>1. <<d, n>> \in EntryPlaces
      BY <2>2, <2>14 DEF EntryPlaces
    <3> QED
      BY <2>5, <2>11, <2>14, <3>1 DEF EntryAt
  <2>19. Lists(trie_get_values(dicts[d].trie, c.dict_form, LookupMode(c)), AA[d], EntryAt)
    BY <2>10, <2>15, <2>16, <2>17, <2>18, ListsRename
  <2> QED
    BY <1>3, <1>4, <2>19
<1>8. \A j, k \in 1 .. N : \A a \in AA[j] : a \in AA[k] => j = k
  BY <1>6
<1>9. Lists(FlattenSeq(ss), UNION {AA[d] : d \in 1 .. N}, EntryAt)
  BY <1>5, <1>7, <1>8, ListsFlatten
<1>10. UNION {AA[d] : d \in 1 .. N} = {p \in EntryPlaces : Hit(library[p[1]][p[2]].key, c)}
  <2>1. ASSUME NEW p \in UNION {AA[d] : d \in 1 .. N}
        PROVE  p \in EntryPlaces /\ Hit(library[p[1]][p[2]].key, c)
    <3>1. PICK d \in 1 .. N : p \in AA[d]
      BY <2>1
    <3> QED
      BY <1>6, <3>1
  <2>2. ASSUME NEW p \in EntryPlaces, Hit(library[p[1]][p[2]].key, c)
        PROVE  p \in UNION {AA[d] : d \in 1 .. N}
    <3>1. p[1] \in 1 .. N
      BY <1>2 DEF EntryPlaces
    <3>2. p \in AA[p[1]]
      BY <1>6, <2>2, <3>1
    <3> QED
      BY <3>1, <3>2
  <2> QED
    BY <2>1, <2>2
<1> QED
  BY <1>3, <1>9, <1>10 DEF Entries

CandidateAt == [p \in Places |-> Entry(p[1], p[2]).candidates[p[3]]]

LEMMA CandidatesOf ==
  ASSUME library \in Library, NEW es, NEW P, P \subseteq EntryPlaces, Lists(es, P, EntryAt)
  PROVE  Lists(Candidates(es), {p \in Places : <<p[1], p[2]>> \in P}, CandidateAt)
<1>1. PICK n, b : Listing(es, n, b, P, EntryAt)
  BY Zenon DEF Lists
<1>2. Shape(es, n, b, P, EntryAt)
  BY <1>1, ListsShape, Zenon
<1>3. n \in Nat /\ DOMAIN es = 1 .. n
  BY <1>2, Zenon DEF Shape
<1>4. \A k \in 1 .. n : b[k] \in P /\ es[k] = EntryAt[b[k]]
  BY <1>2, Zenon DEF Shape
<1>5. \A j, k \in 1 .. n : b[j] = b[k] => j = k
  BY <1>2, Zenon DEF Shape
<1>6. \A c \in P : \E k \in 1 .. n : b[k] = c
  BY <1>2, Zenon DEF Shape
<1>7. PICK ss : ss = [k \in DOMAIN es |-> es[k].candidates]
  OBVIOUS
<1>8. ss = [k \in 1 .. n |-> ss[k]] /\ \A k \in 1 .. n : ss[k] = es[k].candidates
  BY <1>3, <1>7
<1>9. PICK AA : AA = [k \in 1 .. n |-> {p \in Places : <<p[1], p[2]>> = b[k]}]
  OBVIOUS
<1>10. ASSUME NEW k \in 1 .. n PROVE Lists(ss[k], AA[k], CandidateAt)
  <2>1. PICK d, e : b[k] = <<d, e>> /\ d \in DOMAIN library /\ e \in DOMAIN library[d] /\ d \in Nat /\ e \in Nat
    <3>1. b[k] \in EntryPlaces
      BY <1>4
    <3> QED
      BY <3>1 DEF EntryPlaces
  <2>2. es[k] = Entry(d, e)
    BY <1>4, <2>1 DEF EntryAt
  <2>3. PICK cs : cs = library[d][e].candidates
    OBVIOUS
  <2>4. PICK l \in Nat : l = Len(cs)
    BY <2>1, <2>3, EntrySays
  <2>5. /\ DOMAIN cs = 1 .. l
        /\ ss[k] = [m \in 1 .. l |-> ss[k][m]]
        /\ ss[k] = Entry(d, e).candidates
    BY <1>8, <2>1, <2>2, <2>3, <2>4, EntrySays
  <2>6. PICK f : f = [m \in 1 .. l |-> <<d, e, m>>]
    OBVIOUS
  <2>7. \A m \in 1 .. l : f[m] = <<d, e, m>> /\ m \in Nat
    BY <2>6
  <2>8. \A m \in 1 .. l : <<d, e, m>> \in Places
    BY <2>1, <2>3, <2>5, <2>7 DEF Places
  <2>9. \A m \in 1 .. l : f[m] \in AA[k]
    <3> SUFFICES ASSUME NEW m \in 1 .. l PROVE f[m] \in AA[k]
      OBVIOUS
    <3>1. PICK p : p = <<d, e, m>>
      OBVIOUS
    <3>2. p \in Places /\ <<p[1], p[2]>> = b[k] /\ f[m] = p
      BY <2>1, <2>7, <2>8, <3>1
    <3> QED
      BY <1>9, <3>2
  <2>10. f \in [1 .. l -> AA[k]]
    BY <2>6, <2>9
  <2>11. \A j, m \in 1 .. l : f[j] = f[m] => j = m
    BY <2>7
  <2>12. ASSUME NEW p \in AA[k] PROVE \E m \in 1 .. l : f[m] = p
    <3>1. p \in Places /\ p[1] = d /\ p[2] = e
      BY <1>9, <2>1, <2>12
    <3>2. p = <<d, e, p[3]>> /\ p[3] \in 1 .. l
      BY <2>3, <2>5, <3>1 DEF Places
    <3> QED
      BY <2>7, <3>2
  <2>13. \A m \in 1 .. l : ss[k][m] = CandidateAt[f[m]]
    <3> SUFFICES ASSUME NEW m \in 1 .. l PROVE ss[k][m] = CandidateAt[f[m]]
      OBVIOUS
    <3>1. PICK p : p = <<d, e, m>>
      OBVIOUS
    <3>2. p \in Places /\ p[1] = d /\ p[2] = e /\ p[3] = m
      BY <2>8, <3>1
    <3>3. CandidateAt[p] = Entry(p[1], p[2]).candidates[p[3]]
      BY <3>2 DEF CandidateAt
    <3> QED
      BY <2>5, <2>7, <3>1, <3>2, <3>3
  <2>14. ss[k] = [m \in 1 .. l |-> CandidateAt[f[m]]]
    BY <2>5, <2>13
  <2> QED
    <3>1. Listing(ss[k], l, f, AA[k], CandidateAt)
      BY <2>10, <2>11, <2>12, <2>14, Zenon DEF Listing
    <3> QED
      BY <3>1, Zenon DEF Lists
<1>11. \A j, k \in 1 .. n : \A a \in AA[j] : a \in AA[k] => j = k
  BY <1>5, <1>9
<1>12. Lists(FlattenSeq(ss), UNION {AA[k] : k \in 1 .. n}, CandidateAt)
  BY <1>3, <1>8, <1>10, <1>11, ListsFlatten
<1>13. UNION {AA[k] : k \in 1 .. n} = {p \in Places : <<p[1], p[2]>> \in P}
  <2>1. ASSUME NEW p \in UNION {AA[k] : k \in 1 .. n} PROVE p \in Places /\ <<p[1], p[2]>> \in P
    <3>1. PICK k \in 1 .. n : p \in AA[k]
      BY <2>1
    <3> QED
      BY <1>4, <1>9, <3>1
  <2>2. ASSUME NEW p \in Places, <<p[1], p[2]>> \in P PROVE p \in UNION {AA[k] : k \in 1 .. n}
    <3>1. PICK k \in 1 .. n : b[k] = <<p[1], p[2]>>
      BY <1>6, <2>2
    <3>2. p \in AA[k]
      BY <1>9, <3>1
    <3> QED
      BY <3>2
  <2> QED
    BY <2>1, <2>2
<1> QED
  BY <1>7, <1>12, <1>13 DEF Candidates

LEMMA RowTypes ==
  ASSUME NEW r \in 1 .. Len(Conjugations)
  PROVE  /\ r \in DOMAIN Conjugations
         /\ Conjugations[r].conj \in Seq(Symbol) /\ Conjugations[r].dict \in Seq(Symbol)
         /\ Conjugations[r].type \in Nat /\ Conjugations[r].match \in Seq(Symbol)
         /\ Conjugations[r].conj # <<>>
<1>1. PICK RowType : RowType =
        [conj : Seq(Symbol), dict : Seq(Symbol), type : Nat, match : Seq(Symbol)]
  OBVIOUS
<1>2. Conjugations \in Seq(RowType) /\ \A k \in DOMAIN Conjugations : Conjugations[k].conj # <<>>
  BY <1>1, ConjugationsAssumption
<1>3. r \in DOMAIN Conjugations
  BY <1>2
<1>4. Conjugations[r] \in RowType
  BY <1>2
<1> QED
  BY <1>1, <1>2, <1>3, <1>4

LEMMA CandidateTypes ==
  ASSUME library \in Library, NEW p \in Places
  PROVE  /\ p = <<p[1], p[2], p[3]>> /\ p[1] \in DOMAIN library /\ p[2] \in DOMAIN library[p[1]]
         /\ p[3] \in DOMAIN library[p[1]][p[2]].candidates
         /\ p \in Nat \X Nat \X Nat /\ <<p[1], p[2]>> \in EntryPlaces
         /\ library[p[1]][p[2]].key \in Seq(Symbol)
         /\ library[p[1]][p[2]].candidates[p[3]] \in CandidateType
         /\ CandidateAt[p] = [data |-> p, says |-> library[p[1]][p[2]].candidates[p[3]]]
<1>1. /\ p = <<p[1], p[2], p[3]>> /\ p[1] \in DOMAIN library /\ p[2] \in DOMAIN library[p[1]]
      /\ p[3] \in DOMAIN library[p[1]][p[2]].candidates
      /\ p \in Nat \X Nat \X Nat
  BY DEF Places
<1>2. <<p[1], p[2]>> \in EntryPlaces
  BY <1>1 DEF EntryPlaces
<1>3. library[p[1]][p[2]] \in EntryType
  BY <1>1, EntryTypes
<1>4. library[p[1]][p[2]].key \in Seq(Symbol) /\ library[p[1]][p[2]].candidates \in Seq(CandidateType)
  BY <1>3 DEF EntryType
<1>5. library[p[1]][p[2]].candidates[p[3]] \in CandidateType
  BY <1>1, <1>4
<1>6. CandidateAt[p] = Entry(p[1], p[2]).candidates[p[3]]
  BY DEF CandidateAt
<1>7. Entry(p[1], p[2]).candidates[p[3]] =
        [data |-> <<p[1], p[2], p[3]>>, says |-> library[p[1]][p[2]].candidates[p[3]]]
  BY <1>1, EntrySays
<1> QED
  BY <1>1, <1>2, <1>4, <1>5, <1>6, <1>7

\* What is looked up for a conjugation finds the words that are conjugated so.
LEMMA FindsWords ==
  ASSUME library \in Library, NEW T, key \in Seq(T), NEW r \in Matching, NEW p \in Places,
         NEW c, c = ConjOf[r]
  PROVE  /\ Hit(library[p[1]][p[2]].key, c) /\ candidate_fits(CandidateAt[p], c)
              <=> IsWord(p[1], p[2], p[3], r)
         /\ IsWord(p[1], p[2], p[3], r) =>
              candidate_to_suggestion(CandidateAt[p], c) = Word(p[1], p[2], p[3], r)
<1>1. PICK k_ : k_ = library[p[1]][p[2]].key
  OBVIOUS
<1>2. PICK d : d = library[p[1]][p[2]].candidates[p[3]]
  OBVIOUS
<1>3. /\ p = <<p[1], p[2], p[3]>> /\ k_ \in Seq(Symbol) /\ d \in CandidateType
      /\ CandidateAt[p] = [data |-> p, says |-> d]
  BY <1>1, <1>2, CandidateTypes
<1>4. d.value \in Seq(Letter) /\ d.type \in Nat
  BY <1>3 DEF CandidateType
<1>5. r \in 0 .. Len(Conjugations) /\ (r = 0 \/ IsSuffix(Conjugations[r].match, key))
  BY DEF Matching
<1>6. CASE r = 0
  <2>1. c = [dict_form |-> key, suffix_len |-> 0, conjugation |-> <<>>, type |-> 0]
    BY <1>5, <1>6 DEF ConjOf, NullConjugation
  <2>2. c.dict_form = key /\ c.suffix_len = 0 /\ c.conjugation = <<>> /\ c.type = 0
    BY <2>1
  <2>3. Hit(k_, c) <=> k_ = key \/ IsPrefix(key, k_)
    BY <2>2 DEF Hit, LookupMode
  <2>4. IsPrefix(key, key)
    BY DEF IsPrefix
  <2>5. Hit(k_, c) <=> IsPrefix(key, k_)
    BY <2>3, <2>4
  <2>6. IsWord(p[1], p[2], p[3], r) <=> IsPrefix(key, k_)
    BY <1>1, <1>6 DEF IsWord
  <2>7. candidate_fits(CandidateAt[p], c)
    BY <1>3, <1>4, <2>2 DEF candidate_fits, CanConjugate
  <2>8. SubSeq(d.value, 1, Len(d.value) - 0) \o <<>> = d.value
    BY <1>4
  <2>9. candidate_to_suggestion(CandidateAt[p], c)
          = [value |-> d.value, priority |-> d.priority, data |-> p]
    <3>1. CandidateAt[p].says = d /\ CandidateAt[p].data = p
      BY <1>3
    <3>2. conjugation_conjugate(d.value, c) = d.value
      BY <2>2, <2>8, Zenon DEF conjugation_conjugate
    <3> QED
      BY <3>1, <3>2, Zenon DEF candidate_to_suggestion
  <2>10. Word(p[1], p[2], p[3], r) = [value |-> d.value, priority |-> d.priority, data |-> p]
    BY <1>2, <1>3, <1>6 DEF Word
  <2> QED
    BY <1>1, <2>5, <2>6, <2>7, <2>9, <2>10
<1>7. CASE r # 0
  <2>1. r \in 1 .. Len(Conjugations)
    BY <1>5, <1>7
  <2>2. PICK row : row = Conjugations[r]
    OBVIOUS
  <2>3. row.conj \in Seq(Symbol) /\ row.dict \in Seq(Symbol) /\ row.type \in Nat /\ row.conj # <<>>
    BY <2>1, <2>2, RowTypes
  <2>4. PICK form : form = SubSeq(key, 1, Len(key) - Len(row.conj)) \o row.dict
    OBVIOUS
  <2>5. c = [dict_form |-> form, suffix_len |-> Len(row.dict),
             conjugation |-> row.conj, type |-> row.type]
    BY <1>5, <1>7, <2>2, <2>4, Zenon DEF ConjOf, make_conjugation
  <2>6. c.dict_form = form /\ c.suffix_len = Len(row.dict) /\ c.conjugation = row.conj /\ c.type = row.type
    BY <2>5
  <2>7. Hit(k_, c) <=> k_ = form
    BY <2>3, <2>6 DEF Hit, LookupMode
  <2>8. IsWord(p[1], p[2], p[3], r) <=>
          k_ = form /\ row.type \in {0, d.type} /\ Len(row.dict) <= Len(d.value)
    BY <1>1, <1>2, <1>5, <1>7, <2>2, <2>4, Zenon DEF IsWord
  <2>9. candidate_fits(CandidateAt[p], c) <=>
          row.type \in {0, d.type} /\ Len(row.dict) <= Len(d.value)
    BY <1>3, <2>6 DEF candidate_fits, CanConjugate
  <2>10. PICK v : v = SubSeq(d.value, 1, Len(d.value) - Len(row.dict)) \o row.conj
    OBVIOUS
  <2>11. candidate_to_suggestion(CandidateAt[p], c) = [value |-> v, priority |-> d.priority, data |-> p]
    <3>1. CandidateAt[p].says = d /\ CandidateAt[p].data = p
      BY <1>3
    <3>2. conjugation_conjugate(d.value, c) = v
      BY <2>6, <2>10, Zenon DEF conjugation_conjugate
    <3> QED
      BY <3>1, <3>2, Zenon DEF candidate_to_suggestion
  <2>12. Word(p[1], p[2], p[3], r) = [value |-> v, priority |-> d.priority, data |-> p]
    BY <1>2, <1>3, <1>7, <2>2, <2>10, Zenon DEF Word
  <2> QED
    BY <1>1, <2>7, <2>8, <2>9, <2>11, <2>12
<1> QED
  BY <1>6, <1>7

LEMMA SuggestionsOf ==
  ASSUME AideInv, Complete, NEW T, key \in Seq(T), NEW r \in Matching, NEW c, c = ConjOf[r]
  PROVE  Lists(entries_to_suggestions(Entries(c), c), {w \in Ways : w[4] = r}, WordOf)
<1>1. library \in Library
  BY Zenon DEF AideInv
<1>2. PICK es : es = Entries(c)
  OBVIOUS
<1>3. PICK P : P = {p \in EntryPlaces : Hit(library[p[1]][p[2]].key, c)}
  OBVIOUS
<1>4. Lists(es, P, EntryAt) /\ P \subseteq EntryPlaces
  BY <1>2, <1>3, EntriesFound
<1>5. PICK cs : cs = Candidates(es)
  OBVIOUS
<1>6. PICK B : B = {p \in Places : <<p[1], p[2]>> \in P}
  OBVIOUS
<1>7. Lists(cs, B, CandidateAt)
  BY <1>1, <1>4, <1>5, <1>6, CandidatesOf
<1>8. PICK S : S = {candidate \in ToSet(cs) : candidate_fits(candidate, c)}
  OBVIOUS
<1>9. PICK fit : fit = Collected(cs, S)
  OBVIOUS
<1>10. PICK A : A = {p \in B : CandidateAt[p] \in S}
  OBVIOUS
<1>11. Lists(fit, A, CandidateAt)
  BY <1>7, <1>9, <1>10, ListsCollect
<1>12. \A p \in B : CandidateAt[p] \in ToSet(cs)
  <2>1. HasElements(cs, B, CandidateAt)
    BY <1>7, ListsElement
  <2> QED
    BY <2>1 DEF HasElements, ToSet
<1>13. \A p \in Places : p \in A <=> IsWord(p[1], p[2], p[3], r)
  <2> SUFFICES ASSUME NEW p \in Places PROVE p \in A <=> IsWord(p[1], p[2], p[3], r)
    OBVIOUS
  <2>1. Hit(library[p[1]][p[2]].key, c) /\ candidate_fits(CandidateAt[p], c)
          <=> IsWord(p[1], p[2], p[3], r)
    BY <1>1, FindsWords
  <2>2. PICK q : q = <<p[1], p[2]>>
    OBVIOUS
  <2>3. q \in EntryPlaces /\ q[1] = p[1] /\ q[2] = p[2]
    BY <1>1, <2>2, CandidateTypes
  <2>4. q \in P <=> Hit(library[p[1]][p[2]].key, c)
    BY <1>3, <2>3
  <2>5. p \in B <=> q \in P
    BY <1>6, <2>2
  <2>6. p \in A <=> p \in B /\ candidate_fits(CandidateAt[p], c)
    BY <1>8, <1>10, <1>12
  <2> QED
    BY <2>1, <2>4, <2>5, <2>6
<1>14. A \subseteq Places
  BY <1>6, <1>10
<1>15. PICK t : t = [k \in DOMAIN fit |-> candidate_to_suggestion(fit[k], c)]
  OBVIOUS
<1>16. PICK g : g = [p \in A |-> Word(p[1], p[2], p[3], r)]
  OBVIOUS
<1>17. \A p \in A : g[p] = candidate_to_suggestion(CandidateAt[p], c)
  <2> SUFFICES ASSUME NEW p \in A PROVE g[p] = candidate_to_suggestion(CandidateAt[p], c)
    OBVIOUS
  <2>1. p \in Places /\ IsWord(p[1], p[2], p[3], r)
    BY <1>13, <1>14
  <2>2. candidate_to_suggestion(CandidateAt[p], c) = Word(p[1], p[2], p[3], r)
    BY <1>1, <2>1, FindsWords
  <2> QED
    BY <1>16, <2>2
<1>18. t = [k \in DOMAIN fit |-> t[k]] /\ \A k \in DOMAIN fit : t[k] = candidate_to_suggestion(fit[k], c)
  BY <1>15
<1>19. \A k \in DOMAIN fit : \A p \in A : fit[k] = CandidateAt[p] => t[k] = g[p]
  BY <1>17, <1>18
<1>20. Lists(t, A, g)
  BY <1>11, <1>18, <1>19, ListsMap
<1>21. PICK name : name = [p \in A |-> <<p[1], p[2], p[3], r>>]
  OBVIOUS
<1>22. \A p \in A : name[p] = <<p[1], p[2], p[3], r>>
  BY <1>21
<1>23. ASSUME NEW p \in A
       PROVE  /\ name[p] \in {w \in Ways : w[4] = r} /\ WordOf[name[p]] = g[p]
              /\ p = <<p[1], p[2], p[3]>>
  <2>1. PICK w : w = name[p]
    OBVIOUS
  <2>2. p \in Places /\ IsWord(p[1], p[2], p[3], r)
    BY <1>13, <1>14
  <2>3. p = <<p[1], p[2], p[3]>> /\ p \in Nat \X Nat \X Nat
    BY <1>1, <2>2, CandidateTypes
  <2>4. r \in 0 .. Len(Conjugations) /\ r \in Nat
    BY DEF Matching
  <2>5. w[1] = p[1] /\ w[2] = p[2] /\ w[3] = p[3] /\ w[4] = r /\ w \in Nat \X Nat \X Nat \X Nat
    <3>1. PICK d, n, m : d = p[1] /\ n = p[2] /\ m = p[3] /\ d \in Nat /\ n \in Nat /\ m \in Nat
      BY <2>3
    <3>2. w = <<d, n, m, r>>
      BY <1>22, <2>1, <3>1
    <3> QED
      BY <2>4, <3>1, <3>2
  <2>6. <<w[1], w[2], w[3]>> \in Places /\ IsWord(w[1], w[2], w[3], w[4])
    BY <2>2, <2>3, <2>5
  <2>7. w \in Ways
    BY <2>4, <2>5, <2>6 DEF Ways
  <2>8. WordOf[w] = Word(w[1], w[2], w[3], w[4])
    BY <2>7 DEF WordOf
  <2> QED
    BY <1>16, <2>1, <2>3, <2>5, <2>7, <2>8
<1>24. \A p, q \in A : name[p] = name[q] => p = q
  BY <1>22, <1>23
<1>25. ASSUME NEW w \in {w \in Ways : w[4] = r} PROVE \E p \in A : name[p] = w
  <2>1. w \in Nat \X Nat \X Nat \X Nat /\ w[4] = r
        /\ <<w[1], w[2], w[3]>> \in Places /\ IsWord(w[1], w[2], w[3], w[4])
    BY DEF Ways
  <2>2. PICK p : p = <<w[1], w[2], w[3]>>
    OBVIOUS
  <2>3. p \in A /\ p[1] = w[1] /\ p[2] = w[2] /\ p[3] = w[3]
    BY <1>13, <2>1, <2>2
  <2>4. name[p] = w
    BY <1>22, <2>1, <2>3, SMTT(40)
  <2> QED
    BY <2>3, <2>4
<1>26. PICK W : W = {w \in Ways : w[4] = r}
  OBVIOUS
<1>27. Lists(t, W, WordOf)
  BY <1>20, <1>23, <1>24, <1>25, <1>26, ListsRename
<1>28. entries_to_suggestions(es, c) = t
  BY <1>5, <1>8, <1>9, <1>15, Zenon DEF entries_to_suggestions
<1> QED
  BY <1>2, <1>26, <1>27, <1>28

-----------------------------------------------------------------------------
(* The search, step by step *)

LEMMA SameTerms ==
  ASSUME UNCHANGED <<library, key>>
  PROVE  /\ RowNodes' = RowNodes /\ ConjOf' = ConjOf /\ Matching' = Matching
         /\ Ways' = Ways /\ WordOf' = WordOf /\ \A d : Nodes(d)' = Nodes(d)
  BY DEF RowNodes, ConjOf, NullConjugation, Matching, Ways, Places, IsWord, WordOf, Word, Nodes, Entry

LEMMA SameProgress ==
  ASSUME UNCHANGED <<library, key, conjugations, found, parray>>, NEW C, NEW F
  PROVE  Progress(C, F)' <=> Progress(C, F)
  BY SameTerms DEF Progress

LEMMA SameDicts ==
  ASSUME UNCHANGED <<library, dicts>>
  PROVE  Complete' = Complete /\ \A d : Loaded(d)' <=> Loaded(d)
  BY DEF Complete, Loaded, Nodes, Entry

LEMMA SameTable ==
  ASSUME UNCHANGED <<ctrie, rows>>
  PROVE  Lists(ctrie, 1 .. rows, RowNodes)' <=> Lists(ctrie, 1 .. rows, RowNodes)
  BY DEF RowNodes

LEMMA AideInitInv == AideInit => AideInv
<1> SUFFICES ASSUME AideInit PROVE AideInv
  OBVIOUS
<1>1. library \in Library /\ dicts = [d \in DOMAIN library |-> [trie |-> <<>>, added |-> 0]]
      /\ ctrie = <<>> /\ rows = 0 /\ conjugations = <<>> /\ found = <<>> /\ parray = <<>>
      /\ phase = "load"
  BY DEF AideInit, trie_new
<1>2. ASSUME NEW d \in DOMAIN library PROVE Loaded(d)
  <2>1. dicts[d] = [trie |-> <<>>, added |-> 0]
    BY <1>1
  <2>2. dicts[d].trie = <<>> /\ dicts[d].added = 0 /\ 1 .. dicts[d].added = {}
    BY <2>1
  <2>3. Lists(dicts[d].trie, 1 .. dicts[d].added, Nodes(d))
    BY <2>2, ListsNone
  <2>4. Len(library[d]) \in Nat
    <3>1. PICK Q : Q = Seq(EntryType)
      OBVIOUS
    <3>2. library \in Seq(Q)
      BY <1>1, <3>1, LibraryAssumption
    <3>3. library[d] \in Seq(EntryType)
      BY <3>1, <3>2
    <3> QED
      BY <3>3
  <2>5. dicts[d].added \in 0 .. Len(library[d])
    BY <2>2, <2>4
  <2> QED
    BY <2>1, <2>2, <2>3, <2>5 DEF Loaded
<1>3. dicts = [d \in DOMAIN library |-> dicts[d]]
  BY <1>1
<1>4. Lists(ctrie, 1 .. rows, RowNodes)
  <2>1. 1 .. 0 = {}
    OBVIOUS
  <2> QED
    BY <1>1, <2>1, ListsNone
<1>5. rows \in 0 .. Len(Conjugations)
  BY <1>1, ConjugationsAssumption
<1> QED
  BY <1>1, <1>2, <1>3, <1>4, <1>5 DEF AideInv

\* One more entry is in the trie of its dictionary.
LEMMA DictAddInv == ASSUME AideInv, NEW d, d \in DOMAIN dicts, dict_add(d) PROVE AideInv'
<1>1. /\ library \in Library /\ dicts = [c \in DOMAIN library |-> dicts[c]]
      /\ \A c \in DOMAIN library : Loaded(c)
      /\ rows \in 0 .. Len(Conjugations)
      /\ Lists(ctrie, 1 .. rows, RowNodes)
      /\ conjugations = <<>> /\ found = <<>> /\ parray = <<>>
  BY DEF AideInv, dict_add
<1>2. phase = "load" /\ dicts[d].added < Len(library[d])
      /\ UNCHANGED <<library, ctrie, rows, key, conjugations, found, parray, suggestions, phase>>
  BY DEF dict_add
<1>3. d \in DOMAIN library
  BY <1>1
<1>4. PICK t, k : dicts[d] = [trie |-> t, added |-> k]
  BY <1>1, <1>3 DEF Loaded
<1>5. k \in 0 .. Len(library[d]) /\ k < Len(library[d]) /\ Lists(t, 1 .. k, Nodes(d))
  BY <1>1, <1>2, <1>3, <1>4 DEF Loaded
<1>6. Len(library[d]) \in Nat /\ DOMAIN library[d] = 1 .. Len(library[d])
  <2>1. PICK Q : Q = Seq(EntryType)
    OBVIOUS
  <2>2. library \in Seq(Q)
    BY <1>1, <2>1, LibraryAssumption
  <2>3. library[d] \in Seq(EntryType)
    BY <1>3, <2>1, <2>2
  <2> QED
    BY <2>3
<1>7. PICK n \in Nat : n = k + 1
  BY <1>5, <1>6
<1>8. n \in DOMAIN library[d] /\ n \notin 1 .. k /\ 1 .. n = (1 .. k) \union {n} /\ n \in 0 .. Len(library[d])
  BY <1>5, <1>6, <1>7
<1>9. PICK e : e = Entry(d, n)
  OBVIOUS
<1>10. PICK f : f = Nodes(d)
  OBVIOUS
<1>11. e.key = library[d][n].key
  BY <1>1, <1>3, <1>8, <1>9, EntrySays
<1>12. f[n] = [node |-> e.key, value |-> e]
  BY <1>8, <1>9, <1>10, <1>11 DEF Nodes
<1>13. PICK u : u = trie_insert(t, e.key, e)
  OBVIOUS
<1>14. Lists(u, 1 .. n, f)
  <2>1. Lists(t, 1 .. k, f)
    BY <1>5, <1>10
  <2>2. Lists(trie_insert(t, e.key, e), (1 .. k) \union {n}, f)
    BY <1>8, <1>12, <2>1, TrieInsert
  <2> QED
    BY <1>8, <1>13, <2>2
<1>15. dicts' = [dicts EXCEPT ![d] = [trie |-> u, added |-> n]]
  <2>1. dicts' = [dicts EXCEPT ![d].trie = trie_insert(@, e.key, e), ![d].added = @ + 1]
    BY <1>4, <1>7, <1>9 DEF dict_add
  <2>2. dicts[d].trie = t /\ dicts[d].added = k /\ d \in DOMAIN dicts
    BY <1>1, <1>3, <1>4
  <2>3. PICK ds : ds = [dicts EXCEPT ![d].trie = u]
    OBVIOUS
  <2>4. ds[d] = [trie |-> u, added |-> k] /\ DOMAIN ds = DOMAIN dicts
        /\ ds = [dicts EXCEPT ![d] = [trie |-> u, added |-> k]]
    <3>1. PICK old : old = dicts[d]
      OBVIOUS
    <3>2. [old EXCEPT !.trie = u] = [trie |-> u, added |-> k]
      BY <1>4, <3>1
    <3>3. ds = [dicts EXCEPT ![d] = [old EXCEPT !.trie = u]]
      BY <2>3, <3>1
    <3> QED
      BY <2>2, <3>2, <3>3
  <2>5. dicts' = [ds EXCEPT ![d].added = @ + 1]
    BY <1>13, <2>1, <2>2, <2>3
  <2>6. dicts' = [ds EXCEPT ![d] = [trie |-> u, added |-> n]]
    BY <1>7, <2>2, <2>4, <2>5
  <2> QED
    BY <2>4, <2>6
<1>16. /\ dicts' = [c \in DOMAIN library' |-> dicts'[c]]
       /\ dicts'[d] = [trie |-> u, added |-> n]
       /\ \A c \in DOMAIN library : c # d => dicts'[c] = dicts[c]
  BY <1>1, <1>2, <1>3, <1>15
<1>17. \A c : Nodes(c)' = Nodes(c)
  BY <1>2, SameTerms
<1>18. ASSUME NEW c \in DOMAIN library PROVE Loaded(c)'
  <2>1. CASE c = d
    BY <1>2, <1>8, <1>10, <1>14, <1>16, <1>17, <2>1 DEF Loaded
  <2>2. CASE c # d
    <3>1. dicts'[c] = dicts[c] /\ library' = library /\ Loaded(c) /\ Nodes(c)' = Nodes(c)
      BY <1>1, <1>2, <1>16, <1>17, <2>2
    <3> QED
      BY <3>1 DEF Loaded
  <2> QED
    BY <2>1, <2>2
<1>19. Lists(ctrie, 1 .. rows, RowNodes)'
  BY <1>1, <1>2, SameTable
<1> QED
  BY <1>1, <1>2, <1>16, <1>18, <1>19 DEF AideInv

LEMMA AideReadyInv == ASSUME AideInv, aide_init PROVE AideInv'
<1>1. /\ phase = "load" /\ phase' = "ready"
      /\ UNCHANGED <<library, dicts, ctrie, rows, key, conjugations, found, parray, suggestions>>
  BY DEF aide_init
<1>2. Complete
  BY DEF aide_init, AideInv, Complete
<1>3. Complete' /\ (\A d : Loaded(d)' <=> Loaded(d))
  BY <1>1, <1>2, SameDicts
<1>4. Lists(ctrie, 1 .. rows, RowNodes)' <=> Lists(ctrie, 1 .. rows, RowNodes)
  BY <1>1, SameTable
<1> QED
  BY <1>1, <1>3, <1>4 DEF AideInv

LEMMA AideCallInv == ASSUME AideInv, NEW k_, aide_suggest(k_) PROVE AideInv'
<1>1. /\ phase = "ready" /\ phase' = "unconjugate"
      /\ UNCHANGED <<library, dicts, ctrie, rows, conjugations, found, parray, suggestions>>
  BY DEF aide_suggest
<1>2. (Complete' <=> Complete) /\ (\A d : Loaded(d)' <=> Loaded(d))
  BY <1>1, SameDicts
<1>3. Lists(ctrie, 1 .. rows, RowNodes)' <=> Lists(ctrie, 1 .. rows, RowNodes)
  BY <1>1, SameTable
<1> QED
  BY <1>1, <1>2, <1>3 DEF AideInv

\* One more row is in the trie of the table.
LEMMA TableInv == ASSUME AideInv, trie_insert_ctable_entry PROVE AideInv'
<1>1. /\ phase = "unconjugate" /\ rows < Len(Conjugations) /\ rows' = rows + 1
      /\ ctrie' = trie_insert_reverse(ctrie, Conjugations[rows + 1].match, Conjugations[rows + 1])
      /\ UNCHANGED <<library, dicts, key, conjugations, found, parray, suggestions, phase>>
  BY DEF trie_insert_ctable_entry
<1>2. (Complete' <=> Complete) /\ (\A d : Loaded(d)' <=> Loaded(d))
  BY <1>1, SameDicts
<1>3. rows \in 0 .. Len(Conjugations) /\ Lists(ctrie, 1 .. rows, RowNodes)
  BY DEF AideInv
<1>4. Len(Conjugations) \in Nat
  BY ConjugationsAssumption
<1>5. PICK n \in Nat : n = rows + 1
  BY <1>3, <1>4
<1>6. n \in 1 .. Len(Conjugations) /\ n \notin 1 .. rows /\ 1 .. n = (1 .. rows) \union {n}
  BY <1>1, <1>3, <1>4, <1>5
<1>7. PICK row : row = Conjugations[n]
  OBVIOUS
<1>8. PICK f : f = RowNodes
  OBVIOUS
<1>9. PICK k_ : k_ = Reverse(row.match)
  OBVIOUS
<1>10. f[n] = [node |-> k_, value |-> row]
  BY <1>6, <1>7, <1>8, <1>9, RowTypes DEF RowNodes
<1>11. Lists(trie_insert(ctrie, k_, row), (1 .. rows) \union {n}, f)
  BY <1>3, <1>6, <1>8, <1>10, TrieInsert
<1>12. ctrie' = trie_insert(ctrie, k_, row)
  BY <1>1, <1>5, <1>7, <1>9 DEF trie_insert_reverse
<1>13. RowNodes' = RowNodes
  BY DEF RowNodes
<1>14. Lists(ctrie, 1 .. rows, RowNodes)' /\ rows' \in 0 .. Len(Conjugations)
  <2>1. rows' = n /\ n \in 0 .. Len(Conjugations)
    BY <1>1, <1>5, <1>6
  <2>2. Lists(ctrie', 1 .. n, f)
    BY <1>6, <1>11, <1>12, Zenon
  <2> QED
    BY <1>8, <1>13, <2>1, <2>2, Zenon
<1> QED
  BY <1>1, <1>2, <1>14 DEF AideInv

\* The conjugations looked up are those whose ending the input has.
LEMMA UnconjugateInv == ASSUME AideInv, aide_unconjugate PROVE AideInv'
<1>1. /\ phase = "unconjugate" /\ phase' = "lookup" /\ rows = Len(Conjugations)
      /\ UNCHANGED <<library, dicts, ctrie, rows, key, found, parray, suggestions>>
  BY DEF aide_unconjugate
<1>2. (Complete' <=> Complete) /\ (\A d : Loaded(d)' <=> Loaded(d))
  BY <1>1, SameDicts
<1>3. Lists(ctrie, 1 .. rows, RowNodes)' <=> Lists(ctrie, 1 .. rows, RowNodes)
  BY <1>1, SameTable
<1>4. Lists(ctrie, 1 .. Len(Conjugations), RowNodes) /\ found = <<>> /\ parray = <<>>
  BY <1>1 DEF AideInv
<1>5. Len(Conjugations) \in Nat /\ DOMAIN Conjugations = 1 .. Len(Conjugations)
  BY ConjugationsAssumption
<1>6. PICK D : D = 1 .. Len(Conjugations)
  OBVIOUS
<1>7. PICK m_ : m_ = trie_get_values_reverse(ctrie, key)
  OBVIOUS
<1>8. PICK B : B = {r \in D : IsSuffix(Conjugations[r].match, key)}
  OBVIOUS
<1>9. Lists(m_, B, Conjugations)
  <2>1. PICK f : f = RowNodes
    OBVIOUS
  <2>2. ASSUME NEW r \in D PROVE f[r].node = Reverse(Conjugations[r].match) /\ f[r].value = Conjugations[r]
    BY <1>5, <1>6, <2>1 DEF RowNodes
  <2>3. Lists(ctrie, D, f) /\ \A r \in D : Conjugations[r] = f[r].value
    BY <1>4, <1>6, <2>1, <2>2
  <2>4. Lists(m_, {r \in D : IsPrefix(f[r].node, Reverse(key))}, Conjugations)
    BY <1>7, <2>3, TrieReverseValues
  <2>5. {r \in D : IsPrefix(f[r].node, Reverse(key))} = B
    BY <1>8, <2>2 DEF IsSuffix
  <2> QED
    BY <2>4, <2>5
<1>10. PICK t : t = [n \in DOMAIN m_ |-> make_conjugation(key, m_[n])]
  OBVIOUS
<1>11. PICK g : g = ConjOf
  OBVIOUS
<1>12. \A r \in B : g[r] = make_conjugation(key, Conjugations[r])
  BY <1>5, <1>6, <1>8, <1>11 DEF ConjOf
<1>13. Lists(t, B, g)
  <2>1. t = [n \in DOMAIN m_ |-> t[n]] /\ \A n \in DOMAIN m_ : t[n] = make_conjugation(key, m_[n])
    BY <1>10
  <2>2. \A n \in DOMAIN m_ : \A r \in B : m_[n] = Conjugations[r] => t[n] = g[r]
    BY <1>12, <2>1
  <2> QED
    BY <1>9, <2>1, <2>2, ListsMap
<1>14. 0 \notin B /\ g[0] = NullConjugation(key)
  BY <1>5, <1>6, <1>8, <1>11 DEF ConjOf
<1>15. Lists(Append(t, NullConjugation(key)), B \union {0}, g)
  <2>1. Lists(Append(t, g[0]), B \union {0}, g)
    BY <1>13, <1>14, ListsAppend
  <2> QED
    BY <1>14, <2>1
<1>16. B \union {0} = Matching
  BY <1>5, <1>6, <1>8 DEF Matching
<1>17. conjugations' = Append(t, NullConjugation(key))
  BY <1>7, <1>10, Zenon DEF aide_unconjugate
<1>18. {w \in Ways : w[4] \notin Matching} = {}
  <2> SUFFICES ASSUME NEW w \in Ways, w[4] \notin Matching PROVE FALSE
    OBVIOUS
  <2>1. w[4] \in 0 .. Len(Conjugations) /\ IsWord(w[1], w[2], w[3], w[4])
    BY DEF Ways
  <2>2. w[4] # 0 /\ ~IsSuffix(Conjugations[w[4]].match, key)
    BY <2>1 DEF Matching
  <2> QED
    BY <2>1, <2>2, Zenon DEF IsWord
<1>19. Progress(Matching, {})'
  <2>1. /\ Matching' = Matching /\ ConjOf' = ConjOf /\ Ways' = Ways /\ WordOf' = WordOf
    BY <1>1, SameTerms
  <2>2. Lists(conjugations', Matching, ConjOf)
    BY <1>11, <1>15, <1>16, <1>17
  <2>3. Lists(found', {}, WordOf) /\ Lists(parray', {}, WordOf)
    BY <1>1, <1>4, ListsNone
  <2>4. {w \in Ways : w[4] \notin Matching} \ {} = {}
    BY <1>18
  <2> QED
    BY <1>18, <2>1, <2>2, <2>3, <2>4 DEF Progress
<1>20. PICK C_, F_ : C_ = Matching' /\ F_ = {} /\ Progress(C_, F_)'
  BY <1>1, <1>19, SameTerms
<1> QED
  BY <1>1, <1>2, <1>3, <1>20 DEF AideInv

\* A suggestion is inserted in front of the first one that it precedes.
SlotSays(items, data) ==
  /\ find_slot(items, data) \in 1 .. Len(items) + 1
  /\ \A k \in 1 .. find_slot(items, data) - 1 : ~(cmp_suggestion(items[k], data) > 0)
  /\ find_slot(items, data) <= Len(items) =>
       cmp_suggestion(items[find_slot(items, data)], data) > 0

LEMMA SlotFound == ASSUME NEW items, NEW data, Len(items) \in Nat PROVE SlotSays(items, data)
<1>1. PICK I : I = {k \in 1 .. Len(items) : cmp_suggestion(items[k], data) > 0}
  OBVIOUS
<1>2. PICK p : p = find_slot(items, data)
  OBVIOUS
<1>3. I \subseteq 1 .. Len(items) /\ I \subseteq Nat
  BY <1>1
<1>4. \A k \in 1 .. Len(items) : k \notin I => ~(cmp_suggestion(items[k], data) > 0)
  BY <1>1
<1>5. CASE I # {}
  <2>1. PICK m : m = Min(I)
    OBVIOUS
  <2>2. m \in I /\ \A k \in I : m <= k
    BY <1>3, <1>5, <2>1, SmallestOf
  <2>3. SelectInSeq(items, LAMBDA s : cmp_suggestion(s, data) > 0) = m
    BY <1>1, <1>5, <2>1 DEF SelectInSeq
  <2>4. p = IF m = 0 THEN Len(items) + 1 ELSE m
    BY <1>2, <2>3, Zenon DEF find_slot
  <2>5. m \in 1 .. Len(items) /\ m # 0
    BY <1>3, <2>2
  <2>6. p = m /\ p \in 1 .. Len(items) + 1
    BY <2>4, <2>5
  <2>7. ASSUME NEW k \in 1 .. p - 1 PROVE ~(cmp_suggestion(items[k], data) > 0)
    <3>1. k \in 1 .. Len(items) /\ k \notin I
      BY <2>2, <2>5, <2>6
    <3> QED
      BY <1>4, <3>1
  <2>8. cmp_suggestion(items[p], data) > 0
    BY <1>1, <2>2, <2>6
  <2> QED
    BY <1>2, <2>6, <2>7, <2>8, Zenon DEF SlotSays
<1>6. CASE I = {}
  <2>1. SelectInSeq(items, LAMBDA s : cmp_suggestion(s, data) > 0) = 0
    BY <1>1, <1>6 DEF SelectInSeq
  <2>2. p = Len(items) + 1
    BY <1>2, <2>1, Zenon DEF find_slot
  <2>3. p \in 1 .. Len(items) + 1 /\ ~(p <= Len(items)) /\ p - 1 = Len(items)
    BY <2>2
  <2>4. \A k \in 1 .. p - 1 : ~(cmp_suggestion(items[k], data) > 0)
    BY <1>4, <1>6, <2>3
  <2> QED
    BY <1>2, <2>3, <2>4, Zenon DEF SlotSays
<1> QED
  BY <1>5, <1>6

\* All words of one conjugation are found at once.
LEMMA LookupInv == ASSUME AideInv, NEW T, key \in Seq(T), lookup_conjugation PROVE AideInv'
<1>1. /\ phase = "lookup" /\ found = <<>> /\ conjugations # <<>>
      /\ found' = entries_to_suggestions(Entries(Head(conjugations)), Head(conjugations))
      /\ conjugations' = Tail(conjugations)
      /\ UNCHANGED <<library, dicts, ctrie, rows, key, parray, suggestions, phase>>
  BY DEF lookup_conjugation
<1>2. (Complete' <=> Complete) /\ (\A d : Loaded(d)' <=> Loaded(d))
  BY <1>1, SameDicts
<1>3. Lists(ctrie, 1 .. rows, RowNodes)' <=> Lists(ctrie, 1 .. rows, RowNodes)
  BY <1>1, SameTable
<1>4. PICK C, F : Progress(C, F)
  BY <1>1 DEF AideInv
<1>5. /\ C \subseteq Matching /\ Lists(conjugations, C, ConjOf) /\ Lists(found, F, WordOf)
      /\ Lists(parray, {w \in Ways : w[4] \notin C} \ F, WordOf)
  BY <1>4, Zenon DEF Progress
<1>6. F = {}
  BY <1>1, <1>5, ListsEmpty
<1>7. WithoutHead(conjugations, C, ConjOf)
  BY <1>1, <1>5, ListsTail
<1>8. PICK r \in C : Head(conjugations) = ConjOf[r] /\ Lists(Tail(conjugations), C \ {r}, ConjOf)
  BY <1>7 DEF WithoutHead
<1>9. PICK c : c = ConjOf[r]
  OBVIOUS
<1>10. PICK W : W = {w \in Ways : w[4] = r}
  OBVIOUS
<1>11. Complete /\ r \in Matching
  BY <1>1, <1>5, <1>8 DEF AideInv
<1>12. Lists(entries_to_suggestions(Entries(c), c), W, WordOf)
  BY <1>9, <1>10, <1>11, SuggestionsOf
<1>13. Lists(found', W, WordOf)
  BY <1>1, <1>8, <1>9, <1>12
<1>14. PICK C_ : C_ = C \ {r}
  OBVIOUS
<1>15. Progress(C_, W)'
  <2>1. Matching' = Matching /\ ConjOf' = ConjOf /\ Ways' = Ways /\ WordOf' = WordOf
    BY <1>1, SameTerms
  <2>2. C_ \subseteq Matching /\ W \subseteq {w \in Ways : w[4] \notin C_}
    BY <1>5, <1>10, <1>14
  <2>3. Lists(conjugations', C_, ConjOf)
    BY <1>1, <1>8, <1>14
  <2>4. {w \in Ways : w[4] \notin C_} \ W = {w \in Ways : w[4] \notin C} \ F
    BY <1>6, <1>8, <1>10, <1>14
  <2>5. Lists(parray', {w \in Ways : w[4] \notin C_} \ W, WordOf)
    BY <1>1, <1>5, <2>4
  <2> QED
    BY <1>13, <2>1, <2>2, <2>3, <2>5, Zenon DEF Progress
<1> QED
  BY <1>1, <1>2, <1>3, <1>15 DEF AideInv

\* One of the words found goes into the array.
LEMMA InsertSuggestionInv == ASSUME AideInv, insert_suggestion PROVE AideInv'
<1>1. /\ phase = "lookup" /\ found # <<>>
      /\ parray' = parray_insert(parray, Head(found)) /\ found' = Tail(found)
      /\ UNCHANGED <<library, dicts, ctrie, rows, key, conjugations, suggestions, phase>>
  BY DEF insert_suggestion
<1>2. (Complete' <=> Complete) /\ (\A d : Loaded(d)' <=> Loaded(d))
  BY <1>1, SameDicts
<1>3. Lists(ctrie, 1 .. rows, RowNodes)' <=> Lists(ctrie, 1 .. rows, RowNodes)
  BY <1>1, SameTable
<1>4. PICK C, F : Progress(C, F)
  BY <1>1 DEF AideInv
<1>5. PICK A : A = {w \in Ways : w[4] \notin C} \ F
  OBVIOUS
<1>6. /\ C \subseteq Matching /\ F \subseteq {w \in Ways : w[4] \notin C}
      /\ Lists(conjugations, C, ConjOf) /\ Lists(found, F, WordOf)
      /\ Lists(parray, A, WordOf)
  BY <1>4, <1>5, Zenon DEF Progress
<1>7. WithoutHead(found, F, WordOf)
  BY <1>1, <1>6, ListsTail
<1>8. PICK w \in F : Head(found) = WordOf[w] /\ Lists(Tail(found), F \ {w}, WordOf)
  BY <1>7 DEF WithoutHead
<1>9. w \notin A
  BY <1>5
<1>10. PICK p : p = find_slot(parray, WordOf[w])
  OBVIOUS
<1>11. p \in 1 .. Len(parray) + 1
  <2>1. parray \in Seq({WordOf[a] : a \in A})
    BY <1>6, ListsType
  <2>2. SlotSays(parray, WordOf[w])
    BY <2>1, SlotFound
  <2> QED
    BY <1>10, <2>2, Zenon DEF SlotSays
<1>12. Lists(InsertAt(parray, p, WordOf[w]), A \union {w}, WordOf)
  BY <1>6, <1>9, <1>11, ListsInsert
<1>13. parray' = InsertAt(parray, p, WordOf[w])
  BY <1>1, <1>8, <1>10 DEF parray_insert
<1>14. PICK F_ : F_ = F \ {w}
  OBVIOUS
<1>15. Progress(C, F_)'
  <2>1. Matching' = Matching /\ ConjOf' = ConjOf /\ Ways' = Ways /\ WordOf' = WordOf
    BY <1>1, SameTerms
  <2>2. F_ \subseteq {v \in Ways : v[4] \notin C}
    BY <1>6, <1>14
  <2>3. Lists(conjugations', C, ConjOf) /\ Lists(found', F_, WordOf)
    BY <1>1, <1>6, <1>8, <1>14
  <2>4. {v \in Ways : v[4] \notin C} \ F_ = A \union {w}
    BY <1>5, <1>6, <1>8, <1>14
  <2>5. Lists(parray', {v \in Ways : v[4] \notin C} \ F_, WordOf)
    BY <1>12, <1>13, <2>4
  <2> QED
    BY <1>6, <2>1, <2>2, <2>3, <2>5, Zenon DEF Progress
<1> QED
  BY <1>1, <1>2, <1>3, <1>15 DEF AideInv

LEMMA AideEndInv ==
  ASSUME AideInv, lookup_without_dictionary \/ parray_get_items \/ UNCHANGED aideVars
  PROVE  AideInv'
<1>1. UNCHANGED <<library, dicts, ctrie, rows, key, conjugations, found, parray>>
  BY DEF lookup_without_dictionary, parray_get_items, aideVars
<1>2. (Complete' <=> Complete) /\ (\A d : Loaded(d)' <=> Loaded(d))
  BY <1>1, SameDicts
<1>3. Lists(ctrie, 1 .. rows, RowNodes)' <=> Lists(ctrie, 1 .. rows, RowNodes)
  BY <1>1, SameTable
<1>4. \A C, F : Progress(C, F)' <=> Progress(C, F)
  BY <1>1, SameProgress
<1>5. CASE lookup_without_dictionary
  <2>1. phase = "lookup" /\ phase' = "crashed"
    BY <1>5 DEF lookup_without_dictionary
  <2> QED
    BY <1>1, <1>2, <1>3, <1>4, <2>1 DEF AideInv
<1>6. CASE parray_get_items
  <2>1. phase = "lookup" /\ phase' = "done" /\ found = <<>> /\ conjugations = <<>> /\ suggestions' = parray
    BY <1>6 DEF parray_get_items
  <2> QED
    BY <1>1, <1>2, <1>3, <1>4, <2>1 DEF AideInv
<1>7. CASE UNCHANGED aideVars
  <2>1. UNCHANGED <<suggestions, phase>>
    BY <1>7 DEF aideVars
  <2> QED
    BY <1>1, <1>2, <1>3, <1>4, <2>1 DEF AideInv
<1> QED
  BY <1>5, <1>6, <1>7

LEMMA AideNextInv ==
  ASSUME AideInv, phase = "lookup" => \E T : key \in Seq(T), AideNext \/ UNCHANGED aideVars
  PROVE  AideInv'
<1>1. CASE \E d \in DOMAIN dicts : dict_add(d)
  BY <1>1, DictAddInv
<1>2. CASE aide_init \/ trie_insert_ctable_entry \/ aide_unconjugate
  BY <1>2, AideReadyInv, TableInv, UnconjugateInv
<1>3. CASE lookup_conjugation
  <2>1. PICK T : key \in Seq(T)
    BY <1>3 DEF lookup_conjugation
  <2> QED
    BY <1>3, <2>1, LookupInv
<1>4. CASE insert_suggestion
  BY <1>4, InsertSuggestionInv
<1>5. CASE lookup_without_dictionary \/ parray_get_items \/ UNCHANGED aideVars
  BY <1>5, AideEndInv
<1> QED
  BY <1>1, <1>2, <1>3, <1>4, <1>5 DEF AideNext

-----------------------------------------------------------------------------
(* What the invariant says *)

LEMMA AideTypes == AideInv => AideTypeOK
<1> SUFFICES ASSUME AideInv PROVE AideTypeOK
  OBVIOUS
<1>1. /\ library \in Library /\ rows \in 0 .. Len(Conjugations)
      /\ dicts = [d \in DOMAIN library |-> dicts[d]]
      /\ \A d \in DOMAIN library : Loaded(d)
      /\ Lists(ctrie, 1 .. rows, RowNodes)
      /\ phase \in {"load", "ready", "unconjugate", "lookup", "done", "crashed"}
  BY Zenon DEF AideInv
<1>2. rows \in Nat
  BY <1>1, ConjugationsAssumption
<1>3. Len(ctrie) = rows
  <2>1. PICK t, m, f : t = ctrie /\ m = rows /\ f = RowNodes
    OBVIOUS
  <2>2. m \in Nat /\ Lists(t, 1 .. m, f)
    BY <1>1, <1>2, <2>1
  <2>3. Len(t) = m
    BY <2>2, ListsCount
  <2> QED
    BY <2>1, <2>3
<1>4. DOMAIN dicts = DOMAIN library
  BY <1>1
<1>5. \A d \in DOMAIN dicts : dicts[d].added \in 0 .. Len(library[d])
  BY <1>1, <1>4, Zenon DEF Loaded
<1>6. ASSUME NEW n \in DOMAIN conjugations PROVE conjugations[n].suffix_len \in Nat
  <2>1. conjugations # <<>>
    BY <1>6
  <2>2. PICK C, F : Progress(C, F)
    BY <2>1 DEF AideInv
  <2>3. C \subseteq Matching /\ Lists(conjugations, C, ConjOf)
    BY <2>2, Zenon DEF Progress
  <2>4. HasElements(conjugations, C, ConjOf)
    BY <2>3, ListsElement
  <2>5. PICK r \in C : conjugations[n] = ConjOf[r]
    BY <2>4, Zenon DEF HasElements
  <2>6. r \in 0 .. Len(Conjugations)
    BY <2>3 DEF Matching
  <2>7. CASE r = 0
    BY <2>5, <2>6, <2>7 DEF ConjOf, NullConjugation
  <2>8. CASE r # 0
    <3>1. r \in 1 .. Len(Conjugations)
      BY <2>6, <2>8
    <3>2. Len(Conjugations[r].dict) \in Nat
      BY <3>1, RowTypes
    <3>3. conjugations[n] = make_conjugation(key, Conjugations[r])
      BY <2>5, <2>6, <2>8 DEF ConjOf
    <3> QED
      BY <3>2, <3>3 DEF make_conjugation
  <2> QED
    BY <2>7, <2>8
<1> QED
  BY <1>1, <1>3, <1>4, <1>5, <1>6 DEF AideTypeOK

\* Of the ways to read the input none is left out, and none is taken twice.
LEMMA EveryWay == AideInv /\ phase = "done" => Lists(suggestions, Ways, WordOf)
<1> SUFFICES ASSUME AideInv, phase = "done" PROVE Lists(suggestions, Ways, WordOf)
  OBVIOUS
<1>1. conjugations = <<>> /\ found = <<>> /\ suggestions = parray
  BY DEF AideInv
<1>2. PICK C, F : Progress(C, F)
  BY DEF AideInv
<1>3. /\ Lists(<<>>, C, ConjOf) /\ Lists(<<>>, F, WordOf)
      /\ Lists(suggestions, {w \in Ways : w[4] \notin C} \ F, WordOf)
  BY <1>1, <1>2, Zenon DEF Progress
<1>4. C = {} /\ F = {}
  BY <1>3, ListsEmpty
<1>5. {w \in Ways : w[4] \notin C} \ F = Ways
  BY <1>4
<1> QED
  BY <1>3, <1>5

LEMMA WayParts ==
  ASSUME library \in Library, NEW w \in Ways
  PROVE  /\ w = <<w[1], w[2], w[3], w[4]>> /\ IsWord(w[1], w[2], w[3], w[4])
         /\ w[4] \in 0 .. Len(Conjugations)
         /\ WordOf[w] = Word(w[1], w[2], w[3], w[4])
         /\ WordOf[w].data = <<w[1], w[2], w[3]>>
         /\ WordOf[w].data[1] = w[1] /\ WordOf[w].data[2] = w[2] /\ WordOf[w].data[3] = w[3]
         /\ <<w[1], w[2], w[3]>> \in Places
<1>1. /\ w = <<w[1], w[2], w[3], w[4]>> /\ IsWord(w[1], w[2], w[3], w[4])
      /\ w[4] \in 0 .. Len(Conjugations)
      /\ <<w[1], w[2], w[3]>> \in Places
  BY DEF Ways
<1>2. WordOf[w] = Word(w[1], w[2], w[3], w[4])
  BY DEF WordOf
<1>3. PICK d, n, m : d = w[1] /\ n = w[2] /\ m = w[3]
  OBVIOUS
<1>4. Word(d, n, m, w[4]).data = <<d, n, m>>
  BY DEF Word
<1> QED
  BY <1>1, <1>2, <1>3, <1>4

LEMMA IsWay ==
  ASSUME library \in Library,
         NEW d \in DOMAIN library, NEW n \in DOMAIN library[d],
         NEW m \in DOMAIN library[d][n].candidates, NEW r \in 0 .. Len(Conjugations),
         IsWord(d, n, m, r)
  PROVE  <<d, n, m, r>> \in Ways /\ WordOf[<<d, n, m, r>>] = Word(d, n, m, r)
<1>1. d \in Nat /\ n \in Nat /\ r \in Nat
  BY EntryTypes
<1>2. m \in Nat
  <2>1. PICK l : l = Len(library[d][n].candidates)
    OBVIOUS
  <2>2. l \in Nat /\ DOMAIN library[d][n].candidates = 1 .. l
    BY <2>1, EntrySays
  <2>3. m \in 1 .. l
    BY <2>2
  <2> QED
    BY <2>2, <2>3
<1>3. <<d, n, m>> \in Places
  BY <1>1, <1>2 DEF Places
<1>4. PICK w : w = <<d, n, m, r>>
  OBVIOUS
<1>5. w \in Nat \X Nat \X Nat \X Nat /\ w[1] = d /\ w[2] = n /\ w[3] = m /\ w[4] = r
  BY <1>1, <1>2, <1>4
<1>6. w \in Ways
  BY <1>3, <1>5 DEF Ways
<1>7. WordOf[w] = Word(d, n, m, r)
  BY <1>5, <1>6 DEF WordOf
<1> QED
  BY <1>4, <1>6, <1>7

LEMMA OffersAll == AideInv => OffersEveryWord
<1> SUFFICES ASSUME AideInv, phase = "done" PROVE OffersEveryWord
  BY DEF OffersEveryWord
<1>1. Lists(suggestions, Ways, WordOf)
  BY EveryWay
<1>2. library \in Library
  BY Zenon DEF AideInv
<1>3. PICK n, b : Listing(suggestions, n, b, Ways, WordOf)
  BY <1>1, Zenon DEF Lists
<1>4. Shape(suggestions, n, b, Ways, WordOf)
  BY <1>3, ListsShape, Zenon
<1>5. n \in Nat /\ DOMAIN suggestions = 1 .. n /\ Len(suggestions) = n
  BY <1>4, Zenon DEF Shape
<1>6. \A k \in 1 .. n : b[k] \in Ways /\ suggestions[k] = WordOf[b[k]]
  BY <1>4, Zenon DEF Shape
<1>7. \A j, k \in 1 .. n : b[j] = b[k] => j = k
  BY <1>4, Zenon DEF Shape
<1>8. \A w \in Ways : \E k \in 1 .. n : b[k] = w
  BY <1>4, Zenon DEF Shape
<1>9. ASSUME NEW d \in DOMAIN library, NEW e \in DOMAIN library[d],
             NEW m \in DOMAIN library[d][e].candidates, NEW r \in 0 .. Len(Conjugations),
             IsWord(d, e, m, r)
      PROVE  Contains(suggestions, Word(d, e, m, r))
  <2>1. PICK w : w = <<d, e, m, r>>
    OBVIOUS
  <2>2. w \in Ways /\ WordOf[w] = Word(d, e, m, r)
    BY <1>2, <1>9, <2>1, IsWay
  <2>3. PICK k \in 1 .. n : b[k] = w
    BY <1>8, <2>2
  <2>4. suggestions[k] = Word(d, e, m, r)
    BY <1>6, <2>2, <2>3
  <2> QED
    BY <1>5, <2>4 DEF Contains
<1>10. ASSUME NEW k \in DOMAIN suggestions
       PROVE  Cardinality({j \in DOMAIN suggestions : suggestions[j] = suggestions[k]})
                = Times(suggestions[k])
  <2>1. PICK s : s = suggestions[k]
    OBVIOUS
  <2>2. PICK J : J = {j \in DOMAIN suggestions : suggestions[j] = s}
    OBVIOUS
  <2>3. PICK d, e, m : d = s.data[1] /\ e = s.data[2] /\ m = s.data[3]
    OBVIOUS
  <2>4. PICK I : I = {r \in 0 .. Len(Conjugations) : IsWord(d, e, m, r) /\ Word(d, e, m, r) = s}
    OBVIOUS
  <2>5. k \in 1 .. n /\ b[k] \in Ways /\ s = WordOf[b[k]]
    BY <1>5, <1>6, <2>1
  <2>6. <<d, e, m>> \in Places
    BY <1>2, <2>3, <2>5, WayParts
  <2>7. d \in DOMAIN library /\ e \in DOMAIN library[d] /\ m \in DOMAIN library[d][e].candidates
    BY <2>6 DEF Places
  <2>8. PICK q : q = [j \in J |-> b[j][4]]
    OBVIOUS
  <2>9. ASSUME NEW j \in J
        PROVE  /\ b[j] = <<d, e, m, q[j]>> /\ q[j] \in I /\ j \in 1 .. n
    <3>1. j \in 1 .. n /\ suggestions[j] = s
      BY <1>5, <2>2
    <3>2. PICK w : w = b[j]
      OBVIOUS
    <3>3. w \in Ways /\ s = WordOf[w]
      BY <1>6, <3>1, <3>2
    <3>4. /\ w = <<w[1], w[2], w[3], w[4]>> /\ IsWord(w[1], w[2], w[3], w[4])
          /\ w[4] \in 0 .. Len(Conjugations)
          /\ s = Word(w[1], w[2], w[3], w[4])
          /\ d = w[1] /\ e = w[2] /\ m = w[3]
      BY <1>2, <2>3, <3>3, WayParts
    <3>5. q[j] = w[4]
      BY <2>8, <3>2
    <3> QED
      BY <2>4, <3>1, <3>2, <3>4, <3>5
  <2>10. q \in [J -> I]
    BY <2>8, <2>9
  <2>11. \A i_, j \in J : q[i_] = q[j] => i_ = j
    BY <1>7, <2>9
  <2>12. ASSUME NEW r \in I PROVE \E j \in J : q[j] = r
    <3>1. r \in 0 .. Len(Conjugations) /\ IsWord(d, e, m, r) /\ Word(d, e, m, r) = s
      BY <2>4
    <3>2. PICK w : w = <<d, e, m, r>>
      OBVIOUS
    <3>3. w \in Ways /\ WordOf[w] = s
      BY <1>2, <2>7, <3>1, <3>2, IsWay
    <3>4. PICK j \in 1 .. n : b[j] = w
      BY <1>8, <3>3
    <3>5. j \in J
      BY <1>5, <1>6, <2>2, <3>3, <3>4
    <3>6. q[j] = r
      BY <2>8, <3>2, <3>4, <3>5
    <3> QED
      BY <3>5, <3>6
  <2>13. q \in Bijection(J, I)
    BY <2>10, <2>11, <2>12 DEF Bijection, Injection, Surjection, IsInjective
  <2>14. ExistsBijection(J, I)
    BY <2>13 DEF ExistsBijection
  <2>15. IsFiniteSet(J)
    <3>1. IsFiniteSet(1 .. n)
      BY <1>5, FS_Interval
    <3> QED
      BY <1>5, <2>2, <3>1, FS_Subset
  <2>16. Cardinality(I) = Cardinality(J)
    BY <2>14, <2>15, FS_Bijection
  <2>17. Times(s) = Cardinality(I)
    BY <2>3, <2>4, Zenon DEF Times
  <2> QED
    BY <2>1, <2>2, <2>16, <2>17
<1> QED
  BY <1>9, <1>10, Zenon DEF OffersEveryWord

-----------------------------------------------------------------------------
(* The order of a walk *)

\* Where n and m differ first, as the number of the character or -1 for none.
DigitAt(n, k) == IF k <= Len(n) THEN Code[n[k]] ELSE -1

Differ(n, m, k) ==
  /\ k \in 1 .. Len(m) /\ DigitAt(n, k) < DigitAt(m, k)
  /\ \A q \in 1 .. k - 1 : q <= Len(n) /\ n[q] = m[q]

LEMMA CodeType == ASSUME NEW c \in Symbol PROVE Code[c] \in Nat
  BY CodeAssumption

LEMMA DigitType == ASSUME NEW n \in Seq(Symbol), NEW k \in Nat, k > 0 PROVE DigitAt(n, k) \in Int
<1>1. CASE k <= Len(n)
  <2>1. n[k] \in Symbol
    BY <1>1
  <2> QED
    BY <1>1, <2>1, CodeType DEF DigitAt
<1>2. CASE ~(k <= Len(n))
  BY <1>2 DEF DigitAt
<1> QED
  BY <1>1, <1>2

LEMMA EarlierDiffers ==
  ASSUME NEW n \in Seq(Symbol), NEW m \in Seq(Symbol)
  PROVE  Earlier(n, m) <=> \E k : Differ(n, m, k)
<1>1. ASSUME Earlier(n, m) PROVE \E k : Differ(n, m, k)
  <2>1. CASE IsStrictPrefix(n, m)
    <3>1. Len(n) <= Len(m) /\ SubSeq(n, 1, Len(n)) = SubSeq(m, 1, Len(n)) /\ n # m
      BY <2>1 DEF IsStrictPrefix, IsPrefix
    <3>2. \A q \in 1 .. Len(n) : SubSeq(n, 1, Len(n))[q] = n[q] /\ SubSeq(m, 1, Len(n))[q] = m[q]
      BY <3>1
    <3>3. \A q \in 1 .. Len(n) : n[q] = m[q]
      BY <3>1, <3>2
    <3>4. Len(n) # Len(m)
      <4>1. ASSUME Len(n) = Len(m) PROVE n = m
        BY <3>3, <4>1, SameElements
      <4> QED
        BY <3>1, <4>1
    <3>5. PICK k \in Nat : k = Len(n) + 1
      OBVIOUS
    <3>6. k \in 1 .. Len(m) /\ ~(k <= Len(n)) /\ m[k] \in Symbol
      BY <3>1, <3>4, <3>5
    <3>7. DigitAt(n, k) = -1 /\ DigitAt(m, k) \in Nat
      BY <3>6, CodeType DEF DigitAt
    <3>8. Differ(n, m, k)
      BY <3>3, <3>5, <3>6, <3>7 DEF Differ
    <3> QED
      BY <3>8
  <2>2. CASE \E k \in DOMAIN n \intersect DOMAIN m :
               SubSeq(n, 1, k - 1) = SubSeq(m, 1, k - 1) /\ Code[n[k]] < Code[m[k]]
    <3>1. PICK k \in DOMAIN n \intersect DOMAIN m :
            SubSeq(n, 1, k - 1) = SubSeq(m, 1, k - 1) /\ Code[n[k]] < Code[m[k]]
      BY <2>2
    <3>2. k \in 1 .. Len(n) /\ k \in 1 .. Len(m)
      OBVIOUS
    <3>3. \A q \in 1 .. k - 1 : SubSeq(n, 1, k - 1)[q] = n[q] /\ SubSeq(m, 1, k - 1)[q] = m[q]
      BY <3>2
    <3>4. \A q \in 1 .. k - 1 : q <= Len(n) /\ n[q] = m[q]
      BY <3>1, <3>2, <3>3
    <3>5. DigitAt(n, k) < DigitAt(m, k)
      BY <3>1, <3>2 DEF DigitAt
    <3> QED
      BY <3>2, <3>4, <3>5 DEF Differ
  <2> QED
    BY <1>1, <2>1, <2>2 DEF Earlier
<1>2. ASSUME NEW k, Differ(n, m, k) PROVE Earlier(n, m)
  <2>1. /\ k \in 1 .. Len(m) /\ DigitAt(n, k) < DigitAt(m, k)
        /\ \A q \in 1 .. k - 1 : q <= Len(n) /\ n[q] = m[q]
    BY <1>2 DEF Differ
  <2>2. CASE k <= Len(n)
    <3>1. k \in DOMAIN n \intersect DOMAIN m
      BY <2>1, <2>2
    <3>2. Code[n[k]] < Code[m[k]]
      BY <2>1, <2>2 DEF DigitAt
    <3>3. SubSeq(n, 1, k - 1) = SubSeq(m, 1, k - 1)
      <4>1. PICK a, b : a = SubSeq(n, 1, k - 1) /\ b = SubSeq(m, 1, k - 1)
        OBVIOUS
      <4>2. /\ a \in Seq(Symbol) /\ b \in Seq(Symbol) /\ Len(a) = k - 1 /\ Len(b) = k - 1
            /\ \A q \in 1 .. k - 1 : a[q] = n[q] /\ b[q] = m[q]
        BY <2>1, <2>2, <4>1
      <4>3. \A q \in 1 .. Len(a) : a[q] = b[q]
        BY <2>1, <4>2
      <4>4. a = b
        BY <4>2, <4>3, SameElements
      <4> QED
        BY <4>1, <4>4
    <3> QED
      BY <3>1, <3>2, <3>3 DEF Earlier
  <2>3. CASE ~(k <= Len(n))
    <3>1. k = Len(n) + 1
      <4>1. k > Len(n) /\ (k - 1 \in 1 .. k - 1 => k - 1 <= Len(n)) /\ k \in Nat /\ Len(n) \in Nat
        BY <2>1, <2>3
      <4>2. k - 1 > 0 => k - 1 \in 1 .. k - 1
        BY <4>1
      <4> QED
        BY <2>1, <4>1, <4>2
    <3>2. \A q \in 1 .. Len(n) : n[q] = m[q]
      BY <2>1, <3>1
    <3>3. SubSeq(n, 1, Len(n)) = SubSeq(m, 1, Len(n))
      <4>1. PICK a, b : a = SubSeq(n, 1, Len(n)) /\ b = SubSeq(m, 1, Len(n))
        OBVIOUS
      <4>2. /\ a \in Seq(Symbol) /\ b \in Seq(Symbol) /\ Len(a) = Len(n) /\ Len(b) = Len(n)
            /\ \A q \in 1 .. Len(n) : a[q] = n[q] /\ b[q] = m[q]
        BY <2>1, <3>1, <4>1
      <4>3. \A q \in 1 .. Len(a) : a[q] = b[q]
        BY <3>2, <4>2
      <4>4. a = b
        BY <4>2, <4>3, SameElements
      <4> QED
        BY <4>1, <4>4
    <3>4. Len(n) < Len(m)
      BY <2>1, <3>1
    <3> QED
      BY <3>3, <3>4 DEF Earlier, IsStrictPrefix, IsPrefix
  <2> QED
    BY <2>2, <2>3
<1> QED
  BY <1>1, <1>2

LEMMA NotEarlierThanItself == ASSUME NEW n \in Seq(Symbol) PROVE ~Earlier(n, n)
<1> SUFFICES ASSUME NEW k, Differ(n, n, k) PROVE FALSE
  BY EarlierDiffers
<1>1. k \in 1 .. Len(n) /\ DigitAt(n, k) < DigitAt(n, k)
  BY DEF Differ
<1>2. DigitAt(n, k) \in Int
  BY <1>1, DigitType
<1> QED
  BY <1>1, <1>2

LEMMA EarlierThanLater ==
  ASSUME NEW n \in Seq(Symbol), NEW m \in Seq(Symbol), NEW o \in Seq(Symbol),
         Earlier(n, m), Earlier(m, o)
  PROVE  Earlier(n, o)
<1>1. PICK j : Differ(n, m, j)
  BY EarlierDiffers
<1>2. PICK k : Differ(m, o, k)
  BY EarlierDiffers
<1>3. /\ j \in 1 .. Len(m) /\ DigitAt(n, j) < DigitAt(m, j)
      /\ \A q \in 1 .. j - 1 : q <= Len(n) /\ n[q] = m[q]
  BY <1>1 DEF Differ
<1>4. /\ k \in 1 .. Len(o) /\ DigitAt(m, k) < DigitAt(o, k)
      /\ \A q \in 1 .. k - 1 : q <= Len(m) /\ m[q] = o[q]
  BY <1>2 DEF Differ
<1>5. ASSUME NEW q \in Nat, q > 0
      PROVE  DigitAt(n, q) \in Int /\ DigitAt(m, q) \in Int /\ DigitAt(o, q) \in Int
  BY <1>5, DigitType
<1>6. j \in Nat /\ j > 0 /\ k \in Nat /\ k > 0
  BY <1>3, <1>4
<1>7. /\ DigitAt(n, j) \in Int /\ DigitAt(m, j) \in Int /\ DigitAt(o, j) \in Int
      /\ DigitAt(n, k) \in Int /\ DigitAt(m, k) \in Int /\ DigitAt(o, k) \in Int
  BY <1>5, <1>6
<1>8. CASE j < k
  <2>1. j \in 1 .. k - 1
    BY <1>6, <1>8
  <2>2. m[j] = o[j] /\ j <= Len(m)
    BY <1>4, <2>1
  <2>3. j \in 1 .. Len(o)
    BY <1>4, <1>6, <1>8
  <2>4. DigitAt(m, j) = DigitAt(o, j)
    BY <2>2, <2>3 DEF DigitAt
  <2>5. \A q \in 1 .. j - 1 : q <= Len(n) /\ n[q] = o[q]
    <3>1. \A q \in 1 .. j - 1 : q \in 1 .. k - 1
      BY <1>6, <1>8
    <3> QED
      BY <1>3, <1>4, <3>1
  <2>6. Differ(n, o, j)
    BY <1>3, <2>3, <2>4, <2>5, Zenon DEF Differ
  <2> QED
    BY <2>6, EarlierDiffers
<1>9. CASE j = k
  <2>1. DigitAt(n, j) < DigitAt(o, j)
    BY <1>3, <1>4, <1>7, <1>9
  <2>2. \A q \in 1 .. j - 1 : q <= Len(n) /\ n[q] = o[q]
    BY <1>3, <1>4, <1>9
  <2>3. j \in 1 .. Len(o)
    BY <1>4, <1>9
  <2>4. Differ(n, o, j)
    BY <2>1, <2>2, <2>3, Zenon DEF Differ
  <2> QED
    BY <2>4, EarlierDiffers
<1>10. CASE k < j
  <2>1. k \in 1 .. j - 1
    BY <1>6, <1>10
  <2>2. n[k] = m[k] /\ k <= Len(n)
    BY <1>3, <2>1
  <2>3. k <= Len(m)
    BY <1>3, <1>6, <1>10
  <2>4. DigitAt(n, k) = DigitAt(m, k)
    BY <2>2, <2>3 DEF DigitAt
  <2>5. \A q \in 1 .. k - 1 : q <= Len(n) /\ n[q] = o[q]
    <3>1. \A q \in 1 .. k - 1 : q \in 1 .. j - 1
      BY <1>6, <1>10
    <3> QED
      BY <1>3, <1>4, <3>1
  <2>6. Differ(n, o, k)
    BY <1>4, <2>4, <2>5, Zenon DEF Differ
  <2> QED
    BY <2>6, EarlierDiffers
<1> QED
  BY <1>6, <1>8, <1>9, <1>10

\* No node stands behind one that is walked to later.
SortedTrie(t) == \A k \in DOMAIN t : \A j \in 1 .. k - 1 : ~Earlier(t[k].node, t[j].node)

\* What is inserted in front of the first later node keeps the order.
LEMMA TrieStaysSorted ==
  ASSUME NEW S, NEW t \in Seq(S), \A s \in S : s.node \in Seq(Symbol), SortedTrie(t),
         NEW k_, NEW v, [node |-> k_, value |-> v] \in S
  PROVE  SortedTrie(trie_insert(t, k_, v))
<1>1. PICK l \in Nat : l = Len(t)
  OBVIOUS
<1>2. PICK I : I = {n \in DOMAIN t : Earlier(k_, t[n].node)} \union {Len(t) + 1}
  OBVIOUS
<1>3. PICK p : p = Min(I)
  OBVIOUS
<1>4. I \subseteq Nat /\ I # {} /\ I \subseteq 1 .. l + 1 /\ DOMAIN t = 1 .. l
  BY <1>1, <1>2
<1>5. p \in I /\ \A q \in I : p <= q
  BY <1>3, <1>4, SmallestOf
<1>6. p \in 1 .. l + 1 /\ p \in Nat
  BY <1>4, <1>5
<1>7. PICK e : e = [node |-> k_, value |-> v]
  OBVIOUS
<1>8. PICK u : u = InsertAt(t, p, e)
  OBVIOUS
<1>9. /\ Len(u) = l + 1 /\ DOMAIN u = 1 .. l + 1
      /\ \A q \in 1 .. l + 1 : u[q] = IF q < p THEN t[q] ELSE IF q = p THEN e ELSE t[q - 1]
  <2>1. InsertShape(u, t, p, e, l)
    BY <1>1, <1>6, <1>7, <1>8, InsertedAt
  <2> QED
    BY <2>1, Zenon DEF InsertShape
<1>10. \A q \in 1 .. l : t[q].node \in Seq(Symbol)
  <2>1. \A q \in 1 .. l : t[q] \in S
    BY <1>1
  <2> QED
    BY <2>1
<1>11. e.node = k_ /\ k_ \in Seq(Symbol)
  <2>1. e.node = k_ /\ e \in S
    BY <1>7
  <2> QED
    BY <2>1
<1>12. \A q \in 1 .. l : \A j \in 1 .. q - 1 : ~Earlier(t[q].node, t[j].node)
  BY <1>4 DEF SortedTrie
<1>13. \A q \in 1 .. p - 1 : q \in 1 .. l /\ ~Earlier(k_, t[q].node)
  <2> SUFFICES ASSUME NEW q \in 1 .. p - 1 PROVE q \in 1 .. l /\ ~Earlier(k_, t[q].node)
    OBVIOUS
  <2>1. q \in 1 .. l /\ ~(p <= q)
    BY <1>6
  <2>2. q \notin I
    BY <1>5, <2>1
  <2> QED
    BY <1>2, <1>4, <2>1, <2>2
<1>14. \A q \in p .. l : ~Earlier(t[q].node, k_)
  <2> SUFFICES ASSUME NEW q \in p .. l, Earlier(t[q].node, k_) PROVE FALSE
    OBVIOUS
  <2>1. p \in 1 .. l /\ q \in 1 .. l /\ p # l + 1
    BY <1>6
  <2>2. Earlier(k_, t[p].node)
    BY <1>1, <1>2, <1>5, <2>1
  <2>3. t[p].node \in Seq(Symbol) /\ t[q].node \in Seq(Symbol)
    BY <1>10, <2>1
  <2>4. Earlier(t[q].node, t[p].node)
    BY <1>11, <2>2, <2>3, EarlierThanLater
  <2>5. CASE p = q
    BY <2>3, <2>4, <2>5, NotEarlierThanItself
  <2>6. CASE p # q
    <3>1. p \in 1 .. q - 1
      BY <2>1, <2>6
    <3> QED
      BY <1>12, <2>1, <2>4, <3>1
  <2> QED
    BY <2>5, <2>6
<1>15. SortedTrie(u)
  <2> SUFFICES ASSUME NEW q \in 1 .. l + 1, NEW j \in 1 .. q - 1, Earlier(u[q].node, u[j].node)
               PROVE  FALSE
    BY <1>9 DEF SortedTrie
  <2>1. j \in 1 .. l + 1 /\ j < q
    OBVIOUS
  <2>2. CASE q < p
    <3>1. u[q] = t[q] /\ u[j] = t[j] /\ q \in 1 .. l
      BY <1>6, <1>9, <2>1, <2>2
    <3> QED
      BY <1>12, <3>1
  <2>3. CASE q = p
    <3>1. u[q] = e /\ u[j] = t[j] /\ j \in 1 .. p - 1
      BY <1>6, <1>9, <2>1, <2>3
    <3> QED
      BY <1>11, <1>13, <3>1
  <2>4. CASE q > p
    <3>1. u[q] = t[q - 1] /\ q - 1 \in p .. l /\ q - 1 \in 1 .. l
      BY <1>6, <1>9, <2>4
    <3>2. CASE j < p
      <4>1. u[j] = t[j] /\ j \in 1 .. (q - 1) - 1
        BY <1>6, <1>9, <2>1, <2>4, <3>2
      <4> QED
        BY <1>12, <3>1, <4>1
    <3>3. CASE j = p
      <4>1. u[j] = e
        BY <1>6, <1>9, <2>1, <3>3
      <4> QED
        BY <1>11, <1>14, <3>1, <4>1
    <3>4. CASE j > p
      <4>1. u[j] = t[j - 1] /\ j - 1 \in 1 .. (q - 1) - 1
        BY <1>6, <1>9, <2>1, <3>4
      <4> QED
        BY <1>12, <3>1, <4>1
    <3> QED
      BY <1>6, <3>2, <3>3, <3>4
  <2> QED
    BY <1>6, <2>2, <2>3, <2>4
<1>16. trie_insert(t, k_, v) = u
  BY <1>2, <1>3, <1>7, <1>8 DEF trie_insert
<1> QED
  BY <1>15, <1>16

LEMMA CollectOrder ==
  ASSUME NEW S, NEW s \in Seq(S), NEW Bad, InOrder(s, Bad), NEW Q
  PROVE  Collected(s, Q) \in Seq(S) /\ InOrder(Collected(s, Q), Bad)
<1>1. PICK n \in Nat : n = Len(s)
  OBVIOUS
<1>2. PICK ss : ss = [k \in DOMAIN s |-> IF s[k] \in Q THEN <<s[k]>> ELSE <<>>]
  OBVIOUS
<1>3. ss = [k \in 1 .. n |-> ss[k]] /\ DOMAIN s = 1 .. n
  BY <1>1, <1>2
<1>4. ASSUME NEW k \in 1 .. n
      PROVE  ss[k] \in Seq(S) /\ \A a \in DOMAIN ss[k] : a = 1 /\ ss[k][a] = s[k]
  <2>1. s[k] \in S
    BY <1>1
  <2>2. ss[k] = IF s[k] \in Q THEN <<s[k]>> ELSE <<>>
    BY <1>2, <1>3
  <2> QED
    BY <2>1, <2>2
<1>5. ASSUME NEW k \in 1 .. n PROVE InOrder(ss[k], Bad)
  <2>1. \A a \in DOMAIN ss[k] : a = 1
    BY <1>4
  <2>2. \A a \in DOMAIN ss[k] : 1 .. a - 1 = {}
    BY <2>1
  <2> QED
    BY <2>2 DEF InOrder
<1>6. ASSUME NEW k \in 1 .. n, NEW j \in 1 .. k - 1 PROVE Apart(ss[j], ss[k], Bad)
  <2>1. j \in 1 .. n
    OBVIOUS
  <2>2. <<s[j], s[k]>> \notin Bad
    BY <1>3 DEF InOrder
  <2> QED
    BY <1>4, <2>1, <2>2 DEF Apart
<1>7. FlattenSeq(ss) \in Seq(S) /\ InOrder(FlattenSeq(ss), Bad)
  <2>1. \A k \in 1 .. n : ss[k] \in Seq(S) /\ InOrder(ss[k], Bad)
    BY <1>4, <1>5
  <2>2. \A k \in 1 .. n : \A j \in 1 .. k - 1 : Apart(ss[j], ss[k], Bad)
    BY <1>6
  <2> QED
    BY <1>3, <2>1, <2>2, FlattenOrder
<1> QED
  BY <1>2, <1>7 DEF Collected

-----------------------------------------------------------------------------
(* The order of what is found for one conjugation *)

\* Two candidates, or suggestions, of one dictionary in the wrong order.
Backwards(a, b) ==
  a.data[1] = b.data[1] /\ IsStrictPrefix(Headword(b), Headword(a))

Whole == {CandidateAt[p] : p \in Places}
BadCandidates == {e \in Whole \X Whole : Backwards(e[1], e[2])}
EntrySet == {EntryAt[p] : p \in EntryPlaces}
BadEntries ==
  {e \in EntrySet \X EntrySet : ~Apart(e[1].candidates, e[2].candidates, BadCandidates)}

NodeSet(d) == {Nodes(d)[n] : n \in DOMAIN library[d]}
BadNodes(d) == {e \in NodeSet(d) \X NodeSet(d) : Earlier(e[2].node, e[1].node)}

LEMMA EntryCandidates ==
  ASSUME library \in Library, NEW p \in EntryPlaces
  PROVE  \A m \in DOMAIN EntryAt[p].candidates :
           /\ EntryAt[p].candidates[m] \in Whole
           /\ EntryAt[p].candidates[m].data[1] = p[1]
           /\ Headword(EntryAt[p].candidates[m]) = library[p[1]][p[2]].key
<1> SUFFICES ASSUME NEW m \in DOMAIN EntryAt[p].candidates
             PROVE  /\ EntryAt[p].candidates[m] \in Whole
                    /\ EntryAt[p].candidates[m].data[1] = p[1]
                    /\ Headword(EntryAt[p].candidates[m]) = library[p[1]][p[2]].key
  OBVIOUS
<1>1. p = <<p[1], p[2]>> /\ p[1] \in DOMAIN library /\ p[2] \in DOMAIN library[p[1]]
      /\ p[1] \in Nat /\ p[2] \in Nat
  BY DEF EntryPlaces
<1>2. PICK d, n : d = p[1] /\ n = p[2]
  OBVIOUS
<1>3. EntryAt[p] = Entry(d, n)
  BY <1>2 DEF EntryAt
<1>4. /\ DOMAIN Entry(d, n).candidates = DOMAIN library[d][n].candidates
      /\ \A k \in DOMAIN library[d][n].candidates :
           Entry(d, n).candidates[k] = [data |-> <<d, n, k>>, says |-> library[d][n].candidates[k]]
      /\ DOMAIN library[d][n].candidates = 1 .. Len(library[d][n].candidates)
      /\ Len(library[d][n].candidates) \in Nat
  BY <1>1, <1>2, EntrySays
<1>5. m \in DOMAIN library[d][n].candidates /\ m \in Nat
  <2>1. m \in DOMAIN library[d][n].candidates
    BY <1>3, <1>4
  <2>2. PICK l : l = Len(library[d][n].candidates)
    OBVIOUS
  <2>3. m \in 1 .. l /\ l \in Nat
    BY <1>4, <2>1, <2>2
  <2> QED
    BY <2>1, <2>3
<1>6. PICK c : c = EntryAt[p].candidates[m]
  OBVIOUS
<1>7. c = [data |-> <<d, n, m>>, says |-> library[d][n].candidates[m]]
  BY <1>3, <1>4, <1>5, <1>6
<1>8. PICK q : q = <<d, n, m>>
  OBVIOUS
<1>9. q \in Places /\ q[1] = d /\ q[2] = n /\ q[3] = m
  BY <1>1, <1>2, <1>5, <1>8 DEF Places
<1>10. CandidateAt[q] = c
  BY <1>3, <1>6, <1>2, <1>9 DEF CandidateAt
<1>11. c \in Whole
  BY <1>9, <1>10 DEF Whole
<1>12. c.data = <<d, n, m>>
  BY <1>7
<1>13. c.data[1] = d /\ c.data[2] = n
  BY <1>12
<1> QED
  BY <1>2, <1>6, <1>11, <1>13, Zenon DEF Headword

WalkSays(t, d) ==
  /\ t \in Seq(EntrySet) /\ InOrder(t, BadEntries)
  /\ \A k \in DOMAIN t : \E p \in EntryPlaces : p[1] = d /\ t[k] = EntryAt[p]

\* One dictionary is walked through in its order.
LEMMA NodesInOrder ==
  ASSUME AideInv, Complete, NEW d \in DOMAIN library, SortedTrie(dicts[d].trie), NEW k_, NEW m_
  PROVE  WalkSays(trie_get_values(dicts[d].trie, k_, m_), d)
<1>1. library \in Library /\ Loaded(d)
  BY Zenon DEF AideInv
<1>2. PICK t : t = dicts[d].trie
  OBVIOUS
<1>3. PICK N : N = DOMAIN library[d]
  OBVIOUS
<1>4. PICK f : f = Nodes(d)
  OBVIOUS
<1>5. Lists(t, N, f)
  <2>1. DOMAIN library[d] = 1 .. Len(library[d])
    <3>1. PICK Q : Q = Seq(EntryType)
      OBVIOUS
    <3>2. library \in Seq(Q)
      BY <1>1, <3>1, LibraryAssumption
    <3>3. library[d] \in Seq(EntryType)
      BY <3>1, <3>2
    <3> QED
      BY <3>3
  <2> QED
    BY <1>1, <1>2, <1>3, <1>4, <2>1 DEF Loaded, Complete
<1>6. ASSUME NEW n \in N
      PROVE  /\ f[n].node = library[d][n].key /\ f[n].value = Entry(d, n)
             /\ <<d, n>> \in EntryPlaces /\ EntryAt[<<d, n>>] = Entry(d, n) /\ f[n] \in NodeSet(d)
             /\ library[d][n].key \in Seq(Symbol)
  <2>1. PICK u, v : u = library[d][n].key /\ v = Entry(d, n)
    OBVIOUS
  <2>2. f[n] = [node |-> u, value |-> v]
    BY <1>3, <1>4, <2>1 DEF Nodes
  <2>3. d \in Nat /\ n \in Nat /\ library[d][n] \in EntryType
    BY <1>1, <1>3, EntryTypes
  <2>4. <<d, n>> \in EntryPlaces
    BY <1>3, <2>3 DEF EntryPlaces
  <2>5. EntryAt[<<d, n>>] = Entry(d, n)
    BY <2>4 DEF EntryAt
  <2>6. f[n] \in NodeSet(d)
    BY <1>3, <1>4 DEF NodeSet
  <2>7. u \in Seq(Symbol)
    BY <2>1, <2>3 DEF EntryType
  <2> QED
    BY <2>1, <2>2, <2>4, <2>5, <2>6, <2>7
<1>7. t \in Seq(NodeSet(d))
  BY <1>5, <1>6, ListsType
<1>8. InOrder(t, BadNodes(d))
  BY <1>2 DEF SortedTrie, InOrder, BadNodes
<1>9. PICK S : S = {e \in ToSet(t) : e.node = k_ \/ (m_ = "predict" /\ IsPrefix(k_, e.node))}
  OBVIOUS
<1>10. PICK s : s = Collected(t, S)
  OBVIOUS
<1>11. InOrder(s, BadNodes(d))
  BY <1>7, <1>8, <1>10, CollectOrder
<1>12. PICK M : M = {n \in N : f[n] \in S}
  OBVIOUS
<1>13. Lists(s, M, f)
  BY <1>5, <1>10, <1>12, ListsCollect
<1>14. HasElements(s, M, f)
  BY <1>13, ListsElement
<1>15. PICK v : v = Values(s)
  OBVIOUS
<1>16. DOMAIN v = DOMAIN s /\ \A k \in DOMAIN s : v[k] = s[k].value
  BY <1>15 DEF Values
<1>17. ASSUME NEW k \in DOMAIN v
       PROVE  \E n \in N : s[k] = f[n] /\ v[k] = EntryAt[<<d, n>>]
  <2>1. PICK n \in M : s[k] = f[n]
    BY <1>14, <1>16, <1>17, Zenon DEF HasElements
  <2>2. n \in N
    BY <1>12
  <2> QED
    BY <1>6, <1>16, <2>1, <2>2
<1>18. v \in Seq(EntrySet)
  <2>1. \A k \in DOMAIN v : v[k] \in EntrySet
    BY <1>6, <1>17 DEF EntrySet
  <2>2. DOMAIN v = 1 .. Len(s)
    BY <1>14, <1>16, Zenon DEF HasElements
  <2>3. Len(s) \in Nat
    <3>1. s \in Seq({f[c] : c \in M})
      BY <1>13, ListsType
    <3> QED
      BY <3>1
  <2>4. v = [k \in DOMAIN s |-> v[k]]
    BY <1>15, <1>16 DEF Values
  <2> QED
    BY <1>16, <2>1, <2>2, <2>3, <2>4
<1>19. ASSUME NEW k \in DOMAIN v, NEW j \in 1 .. k - 1 PROVE <<v[j], v[k]>> \notin BadEntries
  <2>1. j \in DOMAIN v
    BY <1>18
  <2>2. PICK a \in N : s[j] = f[a] /\ v[j] = EntryAt[<<d, a>>]
    BY <1>17, <2>1
  <2>3. PICK b \in N : s[k] = f[b] /\ v[k] = EntryAt[<<d, b>>]
    BY <1>17
  <2>4. <<s[j], s[k]>> \notin BadNodes(d)
    BY <1>11, <1>16 DEF InOrder
  <2>5. ~Earlier(library[d][b].key, library[d][a].key)
    BY <1>6, <2>2, <2>3, <2>4 DEF BadNodes
  <2>6. ~IsStrictPrefix(library[d][b].key, library[d][a].key)
    BY <2>5 DEF Earlier
  <2>7. PICK p, q : p = <<d, a>> /\ q = <<d, b>>
    OBVIOUS
  <2>8. p \in EntryPlaces /\ q \in EntryPlaces /\ p[1] = d /\ p[2] = a /\ q[1] = d /\ q[2] = b
    BY <1>6, <2>7
  <2>9. Apart(v[j].candidates, v[k].candidates, BadCandidates)
    <3> SUFFICES ASSUME NEW g \in DOMAIN v[j].candidates, NEW h \in DOMAIN v[k].candidates
                 PROVE  <<v[j].candidates[g], v[k].candidates[h]>> \notin BadCandidates
      BY DEF Apart
    <3>1. Headword(v[j].candidates[g]) = library[d][a].key
      BY <1>1, <2>2, <2>7, <2>8, EntryCandidates
    <3>2. Headword(v[k].candidates[h]) = library[d][b].key
      BY <1>1, <2>3, <2>7, <2>8, EntryCandidates
    <3>3. ~Backwards(v[j].candidates[g], v[k].candidates[h])
      BY <2>6, <3>1, <3>2 DEF Backwards
    <3> QED
      BY <3>3 DEF BadCandidates
  <2> QED
    BY <2>9 DEF BadEntries
<1>20. InOrder(v, BadEntries)
  BY <1>19 DEF InOrder
<1>21. \A k \in DOMAIN v : \E p \in EntryPlaces : p[1] = d /\ v[k] = EntryAt[p]
  <2> SUFFICES ASSUME NEW k \in DOMAIN v PROVE \E p \in EntryPlaces : p[1] = d /\ v[k] = EntryAt[p]
    OBVIOUS
  <2>1. PICK n \in N : v[k] = EntryAt[<<d, n>>]
    BY <1>17
  <2>2. PICK p : p = <<d, n>>
    OBVIOUS
  <2>3. p \in EntryPlaces /\ p[1] = d
    BY <1>6, <2>2
  <2> QED
    BY <2>1, <2>2, <2>3
<1>22. v = trie_get_values(dicts[d].trie, k_, m_)
  BY <1>2, <1>9, <1>10, <1>15 DEF trie_get_values
<1> QED
  BY <1>18, <1>20, <1>21, <1>22, Zenon DEF WalkSays

LEMMA RowForms ==
  ASSUME NEW r \in 1 .. Len(Conjugations)
  PROVE  /\ IsSuffix(Conjugations[r].conj, Conjugations[r].match)
         /\ ~IsStrictPrefix(Conjugations[r].conj, Conjugations[r].dict)
<1>1. r \in DOMAIN Conjugations
  BY RowTypes
<1> QED
  BY <1>1, ConjugationsAssumption

\* A dictionary form that is conjugated continues the input nowhere.
LEMMA WordNotLonger ==
  ASSUME library \in Library, NEW T, key \in Seq(T), NEW w \in Ways, w[4] # 0
  PROVE  ~IsStrictPrefix(key, library[w[1]][w[2]].key)
<1>1. PICK p, r : p = <<w[1], w[2], w[3]>> /\ r = w[4]
  OBVIOUS
<1>2. p \in Places /\ r \in 1 .. Len(Conjugations) /\ IsWord(w[1], w[2], w[3], r)
  <2>1. r \in 0 .. Len(Conjugations)
    BY <1>1, WayParts
  <2>2. Len(Conjugations) \in Nat
    BY ConjugationsAssumption
  <2>3. r \in 1 .. Len(Conjugations)
    BY <1>1, <2>1, <2>2
  <2> QED
    BY <1>1, <2>3, WayParts
<1>3. PICK h : h = library[w[1]][w[2]].key
  OBVIOUS
<1>4. h \in Seq(Symbol)
  <2>1. library[p[1]][p[2]].key \in Seq(Symbol) /\ p[1] = w[1] /\ p[2] = w[2]
    BY <1>1, <1>2, CandidateTypes
  <2> QED
    BY <1>3, <2>1
<1>5. PICK c, d, m : c = Conjugations[r].conj /\ d = Conjugations[r].dict /\ m = Conjugations[r].match
  OBVIOUS
<1>6. c \in Seq(Symbol) /\ d \in Seq(Symbol) /\ m \in Seq(Symbol) /\ IsSuffix(c, m) /\ ~IsStrictPrefix(c, d)
  BY <1>2, <1>5, RowTypes, RowForms
<1>7. PICK k_ \in Seq(T) : k_ = key
  OBVIOUS
<1>8. IsSuffix(m, k_) /\ h = SubSeq(k_, 1, Len(k_) - Len(c)) \o d
  <2>1. r # 0
    BY <1>1
  <2> QED
    BY <1>2, <1>3, <1>5, <1>7, <2>1, Zenon DEF IsWord
<1>9. PICK cl \in Nat : cl = Len(c)
  BY <1>6
<1>10. PICK ml \in Nat : ml = Len(m)
  BY <1>6
<1>11. PICK kl \in Nat : kl = Len(k_)
  BY <1>7
<1>12. PICK dl \in Nat : dl = Len(d)
  BY <1>6
<1>13. cl <= ml /\ \A q \in 1 .. cl : c[q] = m[ml - cl + q]
  BY <1>6, <1>9, <1>10, SuffixElements
<1>14. ml <= kl /\ \A q \in 1 .. ml : m[q] = k_[kl - ml + q]
  <2>1. IsSuffix(m, k_)
    BY <1>8
  <2>2. m \in Seq(Symbol)
    BY <1>6
  <2>3. Len(m) <= Len(k_) /\ \A q \in 1 .. Len(m) : m[q] = k_[Len(k_) - Len(m) + q]
    BY <2>1, <2>2, SuffixElements
  <2> QED
    BY <2>3, <1>10, <1>11
<1>15. cl <= kl /\ \A q \in 1 .. cl : c[q] = k_[kl - cl + q]
  <2>1. cl <= kl
    BY <1>13, <1>14
  <2>2. ASSUME NEW q \in 1 .. cl PROVE c[q] = k_[kl - cl + q]
    <3>1. PICK j \in 1 .. ml : j = ml - cl + q
      BY <1>13
    <3>2. kl - ml + j = kl - cl + q
      BY <3>1
    <3> QED
      BY <1>13, <1>14, <3>1, <3>2
  <2> QED
    BY <2>1, <2>2
<1>16. PICK u : u = SubSeq(k_, 1, kl - cl)
  OBVIOUS
<1>17. u \in Seq(T) /\ Len(u) = kl - cl /\ \A q \in 1 .. kl - cl : u[q] = k_[q]
  BY <1>7, <1>11, <1>15, <1>16
<1>18. Len(h) = kl - cl + dl /\ \A q \in 1 .. kl - cl + dl : h[q] = IF q <= kl - cl THEN u[q] ELSE d[q - (kl - cl)]
  <2>1. PICK V : V = T \union Symbol
    OBVIOUS
  <2>2. u \in Seq(V) /\ d \in Seq(V)
    BY <1>6, <1>17, <2>1
  <2>3. h = u \o d
    BY <1>8, <1>9, <1>11, <1>16
  <2>4. PICK ul \in Nat : ul = kl - cl
    BY <1>15
  <2>5. Len(u) = ul /\ Len(d) = dl
    BY <1>12, <1>17, <2>4
  <2>6. JoinShape(u \o d, u, d, ul, dl)
    BY <2>2, <2>5, JoinedAt
  <2>7. Len(h) = ul + dl /\ \A q \in 1 .. ul + dl : h[q] = IF q <= ul THEN u[q] ELSE d[q - ul]
    BY <2>3, <2>6, Zenon DEF JoinShape
  <2> QED
    BY <2>4, <2>7
<1> SUFFICES ASSUME IsStrictPrefix(k_, h) PROVE FALSE
  BY <1>3, <1>7
<1>19. kl <= kl - cl + dl /\ k_ # h /\ \A q \in 1 .. kl : k_[q] = h[q]
  <2>1. IsPrefix(k_, h) /\ k_ # h
    BY DEF IsStrictPrefix
  <2> QED
    BY <1>4, <1>7, <1>11, <1>18, <2>1, PrefixElements
<1>20. cl <= dl
  BY <1>15, <1>19
<1>21. ASSUME NEW q \in 1 .. cl PROVE c[q] = d[q]
  <2>1. PICK j \in 1 .. kl : j = kl - cl + q
    BY <1>15
  <2>2. ~(j <= kl - cl) /\ j - (kl - cl) = q /\ j \in 1 .. kl - cl + dl
    BY <1>15, <1>20, <2>1
  <2>3. h[j] = d[q]
    BY <1>18, <2>2
  <2> QED
    BY <1>15, <1>19, <2>1, <2>3
<1>22. IsPrefix(c, d)
  BY <1>6, <1>9, <1>12, <1>20, <1>21, PrefixElements
<1>23. c = d
  BY <1>6, <1>22 DEF IsStrictPrefix
<1>24. Len(h) = kl
  BY <1>9, <1>12, <1>15, <1>18, <1>23
<1>25. PICK V : V = T \union Symbol
  OBVIOUS
<1>26. k_ \in Seq(V) /\ h \in Seq(V)
  BY <1>4, <1>7, <1>25
<1>27. k_ = h
  BY <1>11, <1>19, <1>24, <1>26, SameElements
<1> QED
  BY <1>19, <1>27

AllSorted == \A d \in DOMAIN library : SortedTrie(dicts[d].trie)

\* What two dictionaries have is not compared.
LEMMA EntriesInOrder ==
  ASSUME AideInv, Complete, AllSorted, NEW c
  PROVE  Entries(c) \in Seq(EntrySet) /\ InOrder(Entries(c), BadEntries)
<1>1. library \in Library /\ dicts = [d \in DOMAIN library |-> dicts[d]]
  BY Zenon DEF AideInv
<1>2. PICK N \in Nat : DOMAIN library = 1 .. N
  BY <1>1, LibraryAssumption
<1>3. PICK k_, m_ : k_ = c.dict_form /\ m_ = LookupMode(c)
  OBVIOUS
<1>4. PICK ss : ss = [d \in DOMAIN dicts |-> trie_get_values(dicts[d].trie, k_, m_)]
  OBVIOUS
<1>5. ss = [d \in 1 .. N |-> ss[d]] /\ \A d \in 1 .. N : ss[d] = trie_get_values(dicts[d].trie, k_, m_)
  BY <1>1, <1>2, <1>4
<1>6. ASSUME NEW d \in 1 .. N
      PROVE  /\ ss[d] \in Seq(EntrySet) /\ InOrder(ss[d], BadEntries)
             /\ \A k \in DOMAIN ss[d] : \E p \in EntryPlaces : p[1] = d /\ ss[d][k] = EntryAt[p]
  <2>1. d \in DOMAIN library /\ SortedTrie(dicts[d].trie)
    BY <1>2 DEF AllSorted
  <2>2. PICK t : t = trie_get_values(dicts[d].trie, k_, m_)
    OBVIOUS
  <2>3. /\ t \in Seq(EntrySet) /\ InOrder(t, BadEntries)
        /\ \A k \in DOMAIN t : \E p \in EntryPlaces : p[1] = d /\ t[k] = EntryAt[p]
    <3>1. WalkSays(trie_get_values(dicts[d].trie, k_, m_), d)
      BY <2>1, NodesInOrder
    <3> QED
      BY <2>2, <3>1, Zenon DEF WalkSays
  <2> QED
    BY <1>5, <2>2, <2>3
<1>7. ASSUME NEW k \in 1 .. N, NEW j \in 1 .. k - 1 PROVE Apart(ss[j], ss[k], BadEntries)
  <2>1. j \in 1 .. N /\ j # k
    OBVIOUS
  <2> SUFFICES ASSUME NEW a \in DOMAIN ss[j], NEW b \in DOMAIN ss[k]
               PROVE  <<ss[j][a], ss[k][b]>> \notin BadEntries
    BY DEF Apart
  <2>2. PICK p \in EntryPlaces : p[1] = j /\ ss[j][a] = EntryAt[p]
    BY <1>6, <2>1
  <2>3. PICK q \in EntryPlaces : q[1] = k /\ ss[k][b] = EntryAt[q]
    BY <1>6
  <2>4. PICK s, t : s = ss[j][a].candidates /\ t = ss[k][b].candidates
    OBVIOUS
  <2>5. \A g \in DOMAIN s : s[g].data[1] = j
    BY <1>1, <2>2, <2>4, EntryCandidates
  <2>6. \A h \in DOMAIN t : t[h].data[1] = k
    BY <1>1, <2>3, <2>4, EntryCandidates
  <2>7. \A g \in DOMAIN s, h \in DOMAIN t : ~Backwards(s[g], t[h])
    BY <2>1, <2>5, <2>6 DEF Backwards
  <2>8. Apart(s, t, BadCandidates)
    BY <2>7 DEF Apart, BadCandidates
  <2> QED
    BY <2>4, <2>8 DEF BadEntries
<1>8. FlattenSeq(ss) \in Seq(EntrySet) /\ InOrder(FlattenSeq(ss), BadEntries)
  <2>1. \A k \in 1 .. N : ss[k] \in Seq(EntrySet) /\ InOrder(ss[k], BadEntries)
    BY <1>6
  <2>2. \A k \in 1 .. N : \A j \in 1 .. k - 1 : Apart(ss[j], ss[k], BadEntries)
    BY <1>7
  <2> QED
    BY <1>5, <2>1, <2>2, FlattenOrder
<1> QED
  BY <1>3, <1>4, <1>8 DEF Entries

LEMMA CandidatesInOrder ==
  ASSUME library \in Library, NEW es \in Seq(EntrySet), InOrder(es, BadEntries)
  PROVE  Candidates(es) \in Seq(Whole) /\ InOrder(Candidates(es), BadCandidates)
<1>1. PICK N \in Nat : N = Len(es)
  OBVIOUS
<1>2. PICK ss : ss = [k \in DOMAIN es |-> es[k].candidates]
  OBVIOUS
<1>3. ss = [k \in 1 .. N |-> ss[k]] /\ (\A k \in 1 .. N : ss[k] = es[k].candidates /\ es[k] \in EntrySet)
      /\ DOMAIN es = 1 .. N
  BY <1>1, <1>2
<1>4. ASSUME NEW k \in 1 .. N PROVE ss[k] \in Seq(Whole) /\ InOrder(ss[k], BadCandidates)
  <2>1. PICK p \in EntryPlaces : es[k] = EntryAt[p]
    BY <1>3 DEF EntrySet
  <2>2. PICK t : t = ss[k]
    OBVIOUS
  <2>3. t = EntryAt[p].candidates
    BY <1>3, <2>1, <2>2
  <2>4. \A m \in DOMAIN t : t[m] \in Whole /\ Headword(t[m]) = library[p[1]][p[2]].key
    BY <2>3, EntryCandidates
  <2>5. t \in Seq(Whole)
    <3>1. p[1] \in DOMAIN library /\ p[2] \in DOMAIN library[p[1]] /\ EntryAt[p] = Entry(p[1], p[2])
      BY DEF EntryPlaces, EntryAt
    <3>2. PICK l : l = Len(library[p[1]][p[2]].candidates)
      OBVIOUS
    <3>3. l \in Nat /\ t = [m \in 1 .. l |-> t[m]]
      BY <2>3, <3>1, <3>2, EntrySays
    <3> QED
      BY <2>4, <3>3
  <2>6. \A m, n \in DOMAIN t : ~Backwards(t[m], t[n])
    BY <2>4 DEF Backwards, IsStrictPrefix
  <2>7. \A m \in DOMAIN t : \A n \in 1 .. m - 1 : n \in DOMAIN t
    BY <2>5
  <2>8. InOrder(t, BadCandidates)
    BY <2>6, <2>7 DEF InOrder, BadCandidates
  <2> QED
    BY <2>2, <2>5, <2>8
<1>5. ASSUME NEW k \in 1 .. N, NEW j \in 1 .. k - 1 PROVE Apart(ss[j], ss[k], BadCandidates)
  <2>1. j \in 1 .. N
    OBVIOUS
  <2>2. <<es[j], es[k]>> \notin BadEntries
    BY <1>3 DEF InOrder
  <2>3. es[j] \in EntrySet /\ es[k] \in EntrySet
    BY <1>3, <2>1
  <2>4. Apart(es[j].candidates, es[k].candidates, BadCandidates)
    BY <2>2, <2>3 DEF BadEntries
  <2> QED
    BY <1>3, <2>1, <2>4
<1>6. FlattenSeq(ss) \in Seq(Whole) /\ InOrder(FlattenSeq(ss), BadCandidates)
  <2>1. \A k \in 1 .. N : ss[k] \in Seq(Whole) /\ InOrder(ss[k], BadCandidates)
    BY <1>4
  <2>2. \A k \in 1 .. N : \A j \in 1 .. k - 1 : Apart(ss[j], ss[k], BadCandidates)
    BY <1>5
  <2> QED
    BY <1>3, <2>1, <2>2, FlattenOrder
<1> QED
  BY <1>2, <1>6 DEF Candidates

\* What is found for a conjugation is in the order of the walks.
InOrderSays(t) == \A k \in DOMAIN t : \A j \in 1 .. k - 1 : ~Backwards(t[j], t[k])

LEMMA SuggestionsInOrder ==
  ASSUME AideInv, Complete, AllSorted, NEW c
  PROVE  InOrderSays(entries_to_suggestions(Entries(c), c))
<1>1. library \in Library
  BY Zenon DEF AideInv
<1>2. PICK es : es = Entries(c)
  OBVIOUS
<1>3. es \in Seq(EntrySet) /\ InOrder(es, BadEntries)
  BY <1>2, EntriesInOrder
<1>4. PICK cs : cs = Candidates(es)
  OBVIOUS
<1>5. cs \in Seq(Whole) /\ InOrder(cs, BadCandidates)
  BY <1>1, <1>3, <1>4, CandidatesInOrder
<1>6. PICK S : S = {candidate \in ToSet(cs) : candidate_fits(candidate, c)}
  OBVIOUS
<1>7. PICK fit : fit = Collected(cs, S)
  OBVIOUS
<1>8. fit \in Seq(Whole) /\ InOrder(fit, BadCandidates)
  BY <1>5, <1>7, CollectOrder
<1>9. PICK t : t = [k \in DOMAIN fit |-> candidate_to_suggestion(fit[k], c)]
  OBVIOUS
<1>10. DOMAIN t = DOMAIN fit /\ \A k \in DOMAIN fit : t[k].data = fit[k].data
  BY <1>9 DEF candidate_to_suggestion
<1>11. ASSUME NEW k \in DOMAIN t, NEW j \in 1 .. k - 1 PROVE ~Backwards(t[j], t[k])
  <2>1. j \in DOMAIN fit /\ k \in DOMAIN fit /\ fit[j] \in Whole /\ fit[k] \in Whole
    BY <1>8, <1>10
  <2>2. <<fit[j], fit[k]>> \notin BadCandidates
    BY <1>8, <2>1 DEF InOrder
  <2>3. ~Backwards(fit[j], fit[k])
    BY <2>1, <2>2 DEF BadCandidates
  <2> QED
    BY <1>10, <2>1, <2>3 DEF Backwards, Headword
<1>12. t = entries_to_suggestions(es, c)
  BY <1>4, <1>6, <1>7, <1>9, Zenon DEF entries_to_suggestions
<1> QED
  BY <1>2, <1>11, <1>12 DEF InOrderSays

-----------------------------------------------------------------------------
(* The order of the suggestions, step by step *)

NullLast == conjugations # <<>> => conjugations[Len(conjugations)].conjugation = <<>>

FoundInOrder == \A k \in DOMAIN found : \A j \in 1 .. k - 1 : ~Continues(found[j], found[k])

NoneContinues == \A k \in DOMAIN found : \A j \in DOMAIN parray : ~Continues(parray[j], found[k])

OrderInv == AllSorted /\ NullLast /\ FoundInOrder /\ NoneContinues /\ BestFirst

LEMMA BackwardsContinues == ASSUME NEW a, NEW b, Continues(a, b) PROVE Backwards(a, b)
  BY DEF Continues, Backwards

LEMMA NothingYet ==
  ASSUME AllSorted', NullLast', (found = <<>>)', (parray = <<>>)' PROVE OrderInv'
<1>1. FoundInOrder' /\ NoneContinues'
  BY DEF FoundInOrder, NoneContinues
<1>2. DOMAIN parray' = {}
  OBVIOUS
<1>3. BestFirst'
  BY <1>2, Zenon DEF BestFirst
<1> QED
  BY <1>1, <1>3 DEF OrderInv

LEMMA SameSorted == ASSUME UNCHANGED <<library, dicts>> PROVE AllSorted' <=> AllSorted
  BY DEF AllSorted

LEMMA OrderInitInv == AideInit => OrderInv
<1> SUFFICES ASSUME AideInit PROVE OrderInv
  OBVIOUS
<1>1. dicts = [d \in DOMAIN library |-> [trie |-> <<>>, added |-> 0]]
      /\ conjugations = <<>> /\ found = <<>> /\ parray = <<>>
  BY DEF AideInit, trie_new
<1>2. ASSUME NEW d \in DOMAIN library PROVE SortedTrie(dicts[d].trie)
  <2>1. dicts[d] = [trie |-> <<>>, added |-> 0]
    BY <1>1
  <2>2. dicts[d].trie = <<>>
    BY <2>1
  <2> QED
    BY <2>2 DEF SortedTrie
<1>3. NullLast /\ FoundInOrder /\ NoneContinues
  BY <1>1 DEF NullLast, FoundInOrder, NoneContinues
<1>4. DOMAIN parray = {}
  BY <1>1
<1>5. BestFirst
  BY <1>4, Zenon DEF BestFirst
<1> QED
  BY <1>2, <1>3, <1>5 DEF OrderInv, AllSorted

LEMMA DictAddOrder ==
  ASSUME AideInv, OrderInv, NEW d, d \in DOMAIN dicts, dict_add(d) PROVE OrderInv'
<1>1. /\ library \in Library /\ dicts = [c \in DOMAIN library |-> dicts[c]]
      /\ \A c \in DOMAIN library : Loaded(c)
      /\ conjugations = <<>> /\ found = <<>> /\ parray = <<>>
  BY DEF AideInv, dict_add
<1>2. dicts[d].added < Len(library[d]) /\ UNCHANGED <<library, conjugations, found, parray>>
  BY DEF dict_add
<1>3. d \in DOMAIN library
  BY <1>1
<1>4. PICK t, k : dicts[d] = [trie |-> t, added |-> k]
  BY <1>1, <1>3 DEF Loaded
<1>5. k \in 0 .. Len(library[d]) /\ k < Len(library[d]) /\ Lists(t, 1 .. k, Nodes(d))
  BY <1>1, <1>2, <1>3, <1>4 DEF Loaded
<1>6. Len(library[d]) \in Nat /\ DOMAIN library[d] = 1 .. Len(library[d])
  <2>1. PICK Q : Q = Seq(EntryType)
    OBVIOUS
  <2>2. library \in Seq(Q)
    BY <1>1, <2>1, LibraryAssumption
  <2>3. library[d] \in Seq(EntryType)
    BY <1>3, <2>1, <2>2
  <2> QED
    BY <2>3
<1>7. PICK n \in Nat : n = k + 1
  BY <1>5, <1>6
<1>8. n \in DOMAIN library[d] /\ 1 .. k \subseteq DOMAIN library[d]
  BY <1>5, <1>6, <1>7
<1>9. PICK e : e = Entry(d, n)
  OBVIOUS
<1>10. PICK f : f = Nodes(d)
  OBVIOUS
<1>11. PICK k_ : k_ = e.key
  OBVIOUS
<1>12. PICK S : S = {f[c] : c \in DOMAIN library[d]}
  OBVIOUS
<1>13. [node |-> k_, value |-> e] \in S
  <2>1. e.key = library[d][n].key
    BY <1>1, <1>3, <1>8, <1>9, EntrySays
  <2>2. f[n] = [node |-> k_, value |-> e]
    BY <1>8, <1>9, <1>10, <1>11, <2>1 DEF Nodes
  <2> QED
    BY <1>8, <1>12, <2>2
<1>14. \A s \in S : s.node \in Seq(Symbol)
  <2> SUFFICES ASSUME NEW c \in DOMAIN library[d] PROVE f[c].node \in Seq(Symbol)
    BY <1>12
  <2>1. library[d][c] \in EntryType
    BY <1>1, <1>3, EntryTypes
  <2>2. PICK u : u = library[d][c].key
    OBVIOUS
  <2>3. u \in Seq(Symbol)
    BY <2>1, <2>2 DEF EntryType
  <2>4. f[c] = [node |-> u, value |-> Entry(d, c)]
    BY <1>10, <2>2 DEF Nodes
  <2> QED
    BY <2>3, <2>4
<1>15. t \in Seq(S)
  <2>1. \A c \in 1 .. k : f[c] \in S
    BY <1>8, <1>12
  <2> QED
    BY <1>5, <1>10, <2>1, ListsType
<1>16. SortedTrie(t)
  BY <1>3, <1>4 DEF OrderInv, AllSorted
<1>17. PICK u : u = trie_insert(t, k_, e)
  OBVIOUS
<1>18. SortedTrie(u)
  BY <1>13, <1>14, <1>15, <1>16, <1>17, TrieStaysSorted
<1>19. /\ dicts'[d].trie = u
       /\ \A c \in DOMAIN library : c # d => dicts'[c] = dicts[c]
  <2>1. dicts' = [dicts EXCEPT ![d].trie = trie_insert(@, k_, e), ![d].added = @ + 1]
    BY <1>4, <1>7, <1>9, <1>11 DEF dict_add
  <2>2. dicts[d].trie = t /\ d \in DOMAIN dicts
    BY <1>1, <1>3, <1>4
  <2>3. PICK ds : ds = [dicts EXCEPT ![d].trie = u]
    OBVIOUS
  <2>4. ds[d].trie = u /\ DOMAIN ds = DOMAIN dicts /\ ds[d] = [trie |-> u, added |-> k]
        /\ \A c \in DOMAIN dicts : c # d => ds[c] = dicts[c]
    <3>1. PICK old : old = dicts[d]
      OBVIOUS
    <3>2. [old EXCEPT !.trie = u] = [trie |-> u, added |-> k]
      BY <1>4, <3>1
    <3>3. ds = [dicts EXCEPT ![d] = [old EXCEPT !.trie = u]]
      BY <2>3, <3>1
    <3> QED
      BY <2>2, <3>2, <3>3
  <2>5. dicts' = [ds EXCEPT ![d].added = @ + 1]
    BY <1>17, <2>1, <2>2, <2>3
  <2>6. dicts' = [ds EXCEPT ![d] = [trie |-> u, added |-> k + 1]]
    <3>1. PICK old : old = ds[d]
      OBVIOUS
    <3>2. [old EXCEPT !.added = @ + 1] = [trie |-> u, added |-> k + 1]
      BY <2>4, <3>1
    <3>3. dicts' = [ds EXCEPT ![d] = [old EXCEPT !.added = @ + 1]]
      BY <2>5, <3>1
    <3> QED
      BY <3>2, <3>3
  <2> QED
    BY <1>1, <2>2, <2>4, <2>6
<1>20. AllSorted'
  <2>1. \A c \in DOMAIN library : c # d => SortedTrie(dicts[c].trie)
    BY DEF OrderInv, AllSorted
  <2>2. \A c \in DOMAIN library : SortedTrie(dicts'[c].trie)
    BY <1>18, <1>19, <2>1
  <2> QED
    BY <1>2, <2>2 DEF AllSorted
<1>21. NullLast'
  BY <1>1, <1>2 DEF NullLast
<1> QED
  BY <1>1, <1>2, <1>20, <1>21, NothingYet

LEMMA UnconjugateOrder == ASSUME AideInv, OrderInv, aide_unconjugate PROVE OrderInv'
<1>1. found = <<>> /\ parray = <<>> /\ UNCHANGED <<library, dicts, found, parray>>
  BY DEF AideInv, aide_unconjugate
<1>2. AllSorted'
  BY <1>1, SameSorted DEF OrderInv
<1>3. PICK m_ : m_ = trie_get_values_reverse(ctrie, key)
  OBVIOUS
<1>4. PICK t : t = [n \in DOMAIN m_ |-> make_conjugation(key, m_[n])]
  OBVIOUS
<1>5. PICK c : c = NullConjugation(key)
  OBVIOUS
<1>6. conjugations' = Append(t, c)
  BY <1>3, <1>4, <1>5, Zenon DEF aide_unconjugate
<1>7. c.conjugation = <<>>
  BY <1>5 DEF NullConjugation
<1>8. PICK n \in Nat : DOMAIN m_ = 1 .. n
  <2>1. PICK s : s = Collected(ctrie, {e \in ToSet(ctrie) : IsPrefix(e.node, Reverse(key))})
    OBVIOUS
  <2>2. Lists(ctrie, 1 .. rows, RowNodes)
    BY Zenon DEF AideInv
  <2>3. Lists(s, {r \in 1 .. rows : RowNodes[r] \in {e \in ToSet(ctrie) : IsPrefix(e.node, Reverse(key))}}, RowNodes)
    BY <2>1, <2>2, ListsCollect
  <2>4. DOMAIN s = 1 .. Len(s) /\ Len(s) \in Nat
    BY <2>3, ListsType
  <2>5. DOMAIN m_ = DOMAIN s
    BY <1>3, <2>1 DEF trie_get_values_reverse, Values
  <2> QED
    BY <2>4, <2>5
<1>9. PICK S : S = {t[q] : q \in 1 .. n} \union {c}
  OBVIOUS
<1>10. t \in Seq(S) /\ Len(t) = n
  BY <1>4, <1>8, <1>9
<1>11. Append(t, c)[n + 1] = c /\ Len(Append(t, c)) = n + 1
  BY <1>9, <1>10
<1>12. NullLast'
  BY <1>6, <1>7, <1>11 DEF NullLast
<1> QED
  BY <1>1, <1>2, <1>12, NothingYet

\* As long as the null conjugation is to be looked up, no word that was found
\* continues the input.
LEMMA NullIsLeft ==
  ASSUME NEW C, C \subseteq Matching, Lists(conjugations, C, ConjOf), NullLast, conjugations # <<>>
  PROVE  0 \in C
<1>1. PICK t, n : t = conjugations /\ n = Len(t)
  OBVIOUS
<1>2. HasElements(t, C, ConjOf)
  BY <1>1, ListsElement
<1>3. \A r \in C : ConjOf[r] \in {ConjOf[q] : q \in C}
  OBVIOUS
<1>4. t \in Seq({ConjOf[q] : q \in C})
  BY <1>1, <1>3, ListsType
<1>5. n \in DOMAIN t
  BY <1>1, <1>4
<1>6. PICK r \in C : t[n] = ConjOf[r]
  BY <1>2, <1>5, Zenon DEF HasElements
<1>7. t[n].conjugation = <<>>
  BY <1>1 DEF NullLast
<1>8. r \in 0 .. Len(Conjugations) /\ Len(Conjugations) \in Nat
  BY ConjugationsAssumption DEF Matching
<1>9. CASE r # 0
  <2>1. r \in 1 .. Len(Conjugations)
    BY <1>8, <1>9
  <2>2. ConjOf[r] = make_conjugation(key, Conjugations[r])
    BY <1>8, <1>9 DEF ConjOf
  <2>3. ConjOf[r].conjugation = Conjugations[r].conj
    BY <2>2 DEF make_conjugation
  <2> QED
    BY <1>6, <1>7, <2>1, <2>3, RowTypes
<1> QED
  BY <1>6, <1>9

LEMMA WordTypesOf ==
  ASSUME library \in Library, NEW w \in Ways
  PROVE  WordOf[w].priority \in Int /\ Headword(WordOf[w]) = library[w[1]][w[2]].key
         /\ Headword(WordOf[w]) \in Seq(Symbol)
<1>1. PICK p : p = <<w[1], w[2], w[3]>>
  OBVIOUS
<1>2. p \in Places /\ WordOf[w] = Word(w[1], w[2], w[3], w[4])
      /\ WordOf[w].data[1] = w[1] /\ WordOf[w].data[2] = w[2]
  BY <1>1, WayParts
<1>3. PICK d : d = library[w[1]][w[2]].candidates[w[3]]
  OBVIOUS
<1>4. PICK k_ : k_ = library[w[1]][w[2]].key
  OBVIOUS
<1>5. d \in CandidateType /\ k_ \in Seq(Symbol)
  <2>1. p[1] = w[1] /\ p[2] = w[2] /\ p[3] = w[3]
    BY <1>1
  <2> QED
    BY <1>2, <1>3, <1>4, <2>1, CandidateTypes
<1>6. d.priority \in Int
  BY <1>5 DEF CandidateType
<1>7. WordOf[w].priority = d.priority
  <2>1. PICK v : v = IF w[4] = 0 THEN d.value
                     ELSE SubSeq(d.value, 1, Len(d.value) - Len(Conjugations[w[4]].dict))
                            \o Conjugations[w[4]].conj
    OBVIOUS
  <2>2. WordOf[w] = [value |-> v, priority |-> d.priority, data |-> p]
    BY <1>1, <1>2, <1>3, <2>1, Zenon DEF Word
  <2> QED
    BY <2>2
<1> QED
  BY <1>2, <1>4, <1>5, <1>6, <1>7, Zenon DEF Headword

LEMMA LookupOrder ==
  ASSUME AideInv, OrderInv, NEW T, key \in Seq(T), lookup_conjugation PROVE OrderInv'
<1>1. /\ phase = "lookup" /\ found = <<>> /\ conjugations # <<>>
      /\ found' = entries_to_suggestions(Entries(Head(conjugations)), Head(conjugations))
      /\ conjugations' = Tail(conjugations)
      /\ UNCHANGED <<library, dicts, key, parray>>
  BY DEF lookup_conjugation
<1>2. AllSorted /\ NullLast /\ BestFirst
  BY Zenon DEF OrderInv
<1>3. library \in Library /\ Complete
  BY <1>1 DEF AideInv
<1>4. PICK C, F : Progress(C, F)
  BY <1>1 DEF AideInv
<1>5. /\ C \subseteq Matching /\ Lists(conjugations, C, ConjOf) /\ Lists(found, F, WordOf)
      /\ Lists(parray, {w \in Ways : w[4] \notin C} \ F, WordOf)
  BY <1>4, Zenon DEF Progress
<1>6. 0 \in C
  BY <1>1, <1>2, <1>5, NullIsLeft
<1>7. F = {}
  BY <1>1, <1>5, ListsEmpty
<1>8. PICK W : W = {w \in Ways : w[4] \notin C} \ F
  OBVIOUS
<1>9. HasElements(parray, W, WordOf)
  BY <1>5, <1>8, ListsElement
<1>10. PICK c : c = Head(conjugations)
  OBVIOUS
<1>11. PICK t : t = entries_to_suggestions(Entries(c), c)
  OBVIOUS
<1>12. InOrderSays(t)
  BY <1>2, <1>3, <1>11, SuggestionsInOrder
<1>13. WithoutHead(conjugations, C, ConjOf)
  BY <1>1, <1>5, ListsTail
<1>14. PICK r \in C : c = ConjOf[r]
  BY <1>10, <1>13 DEF WithoutHead
<1>15. PICK V : V = {w \in Ways : w[4] = r}
  OBVIOUS
<1>16. Lists(t, V, WordOf)
  <2>1. r \in Matching
    BY <1>5
  <2> QED
    BY <1>3, <1>11, <1>14, <1>15, <2>1, SuggestionsOf
<1>17. HasElements(t, V, WordOf)
  BY <1>16, ListsElement
<1>18. ASSUME NEW k \in DOMAIN t, NEW j \in DOMAIN parray PROVE ~Continues(parray[j], t[k])
  <2>1. PICK w \in W : parray[j] = WordOf[w]
    BY <1>9, Zenon DEF HasElements
  <2>2. PICK v \in V : t[k] = WordOf[v]
    BY <1>17, Zenon DEF HasElements
  <2>3. w \in Ways /\ w[4] # 0 /\ v \in Ways
    BY <1>6, <1>8, <1>15
  <2>4. PICK a, b : a = Headword(parray[j]) /\ b = Headword(t[k])
    OBVIOUS
  <2>5. a \in Seq(Symbol) /\ b \in Seq(Symbol) /\ a = library[w[1]][w[2]].key
    BY <1>3, <2>1, <2>2, <2>3, <2>4, WordTypesOf
  <2>6. ~IsStrictPrefix(key, a)
    BY <1>3, <2>3, <2>5, WordNotLonger
  <2>7. ASSUME Continues(parray[j], t[k]) PROVE FALSE
    <3>1. IsPrefix(key, b) /\ IsStrictPrefix(b, a)
      BY <2>4, <2>7 DEF Continues
    <3> QED
      BY <2>5, <2>6, <3>1, PrefixContinued
  <2> QED
    BY <2>7
<1>19. \A a, b : Continues(a, b)' <=> Continues(a, b)
  BY <1>1 DEF Continues, Headword
<1>20. FoundInOrder'
  <2>1. \A k \in DOMAIN t : \A j \in 1 .. k - 1 : ~Continues(t[j], t[k])
    BY <1>12, BackwardsContinues DEF InOrderSays
  <2>2. found' = t
    BY <1>1, <1>10, <1>11
  <2> QED
    BY <1>19, <2>1, <2>2 DEF FoundInOrder
<1>21. NoneContinues'
  <2>1. found' = t /\ parray' = parray
    BY <1>1, <1>10, <1>11
  <2> QED
    BY <1>18, <1>19, <2>1 DEF NoneContinues
<1>22. BestFirst'
  BY <1>1, <1>2, <1>19 DEF BestFirst, Comparable
<1>23. NullLast'
  <2>1. PICK s, u : s = conjugations /\ u = Tail(s)
    OBVIOUS
  <2>2. PICK S : S = {ConjOf[q] : q \in C}
    OBVIOUS
  <2>3. s \in Seq(S)
    <3>1. \A q \in C : ConjOf[q] \in S
      BY <2>2
    <3> QED
      BY <1>5, <2>1, <3>1, ListsType
  <2>4. s # <<>>
    BY <1>1, <2>1
  <2>5. u # <<>> => u[Len(u)] = s[Len(s)]
    BY <2>1, <2>3, <2>4
  <2> QED
    BY <1>1, <1>2, <2>1, <2>4, <2>5 DEF NullLast
<1>24. AllSorted'
  BY <1>1, <1>2, SameSorted
<1> QED
  BY <1>20, <1>21, <1>22, <1>23, <1>24 DEF OrderInv

LEMMA Difference == ASSUME NEW a \in Int, NEW b \in Int, Comparable(a, b) PROVE Minus(a, b) = a - b
<1>1. PICK R \in Nat : R = IntRange /\ R # 0
  BY IntRangeAssumption
<1>2. PICK d \in Int : d = a - b
  OBVIOUS
<1>3. -R <= 2 * d /\ 2 * d < R
  BY <1>1, <1>2 DEF Comparable
<1>4. PICK m : m = d % R
  OBVIOUS
<1>5. CASE d >= 0
  <2>1. d < R
    BY <1>3, <1>5
  <2>2. m = d
    BY <1>1, <1>4, <1>5, <2>1
  <2>3. ~(2 * m >= R)
    BY <1>3, <2>2
  <2>4. Minus(a, b) = IF 2 * m >= R THEN m - R ELSE m
    BY <1>1, <1>2, <1>4 DEF Minus
  <2> QED
    BY <1>2, <2>2, <2>3, <2>4
<1>6. CASE d < 0
  <2>1. d + R \in 0 .. R - 1
    BY <1>1, <1>3, <1>6
  <2>2. m = d + R
    BY <1>1, <1>4, <1>6, <2>1
  <2>3. 2 * m >= R
    BY <1>1, <1>3, <2>2
  <2>4. Minus(a, b) = IF 2 * m >= R THEN m - R ELSE m
    BY <1>1, <1>2, <1>4 DEF Minus
  <2>5. m - R = d
    BY <1>1, <2>2
  <2> QED
    BY <1>2, <2>3, <2>4, <2>5
<1> QED
  BY <1>5, <1>6

Preferred(a, b) == a.priority > b.priority \/ (a.priority = b.priority /\ ~Continues(a, b))

AllComparable(t) == \A j, k \in DOMAIN t : Comparable(t[j].priority, t[k].priority)

IsBest(t) == \A k \in DOMAIN t : \A j \in 1 .. k - 1 : Preferred(t[j], t[k])

\* The place of a suggestion is behind all with its priority.
LEMMA InsertedBest ==
  ASSUME NEW S, NEW t \in Seq(S), NEW e \in S, \A s \in S : s.priority \in Int,
         AllComparable(t) => IsBest(t), \A j \in DOMAIN t : ~Continues(t[j], e)
  PROVE  AllComparable(parray_insert(t, e)) => IsBest(parray_insert(t, e))
<1>1. PICK l \in Nat : l = Len(t)
  OBVIOUS
<1>2. PICK p : p = find_slot(t, e)
  OBVIOUS
<1>3. SlotSays(t, e)
  BY <1>1, SlotFound
<1>4. /\ p \in 1 .. l + 1
      /\ \A k \in 1 .. p - 1 : ~(cmp_suggestion(t[k], e) > 0)
      /\ p <= l => cmp_suggestion(t[p], e) > 0
  BY <1>1, <1>2, <1>3, Zenon DEF SlotSays
<1>5. PICK u : u = InsertAt(t, p, e)
  OBVIOUS
<1>6. u = parray_insert(t, e)
  BY <1>2, <1>5, Zenon DEF parray_insert
<1>7. InsertShape(u, t, p, e, l)
  BY <1>1, <1>4, <1>5, InsertedAt
<1>8. /\ DOMAIN u = 1 .. l + 1
      /\ \A q \in 1 .. l + 1 : u[q] = IF q < p THEN t[q] ELSE IF q = p THEN e ELSE t[q - 1]
  BY <1>7, Zenon DEF InsertShape
<1> SUFFICES ASSUME AllComparable(u) PROVE IsBest(u)
  BY <1>6
<1>9. DOMAIN t = 1 .. l /\ (\A q \in 1 .. l : t[q] \in S /\ t[q].priority \in Int) /\ e.priority \in Int
  BY <1>1
<1>10. ASSUME NEW q \in 1 .. l
       PROVE  \E j \in 1 .. l + 1 : u[j] = t[q]
  <2>1. CASE q < p
    <3>1. q \in 1 .. l + 1 /\ u[q] = t[q]
      BY <1>8, <2>1
    <3> QED
      BY <3>1
  <2>2. CASE ~(q < p)
    <3>1. PICK j \in 1 .. l + 1 : j = q + 1
      OBVIOUS
    <3>2. ~(j < p) /\ j # p /\ j - 1 = q
      BY <1>4, <2>2, <3>1
    <3>3. u[j] = t[q]
      BY <1>8, <3>2
    <3> QED
      BY <3>3
  <2> QED
    BY <2>1, <2>2
<1>11. u[p] = e
  BY <1>4, <1>8
<1>12. AllComparable(t)
  <2> SUFFICES ASSUME NEW a \in 1 .. l, NEW b \in 1 .. l PROVE Comparable(t[a].priority, t[b].priority)
    BY <1>9 DEF AllComparable
  <2>1. PICK c \in 1 .. l + 1 : u[c] = t[a]
    BY <1>10
  <2>2. PICK d \in 1 .. l + 1 : u[d] = t[b]
    BY <1>10
  <2>3. Comparable(u[c].priority, u[d].priority)
    BY <1>8 DEF AllComparable
  <2> QED
    BY <2>1, <2>2, <2>3
<1>13. \A q \in 1 .. l : Comparable(e.priority, t[q].priority)
  BY <1>4, <1>8, <1>10, <1>11 DEF AllComparable
<1>14. \A q \in 1 .. l : cmp_suggestion(t[q], e) = e.priority - t[q].priority
  BY <1>9, <1>13, Difference DEF cmp_suggestion
<1>15. \A k \in 1 .. l : \A j \in 1 .. k - 1 : Preferred(t[j], t[k])
  BY <1>9, <1>12 DEF IsBest
<1>16. \A q \in 1 .. p - 1 : Preferred(t[q], e)
  <2> SUFFICES ASSUME NEW q \in 1 .. p - 1 PROVE Preferred(t[q], e)
    OBVIOUS
  <2>1. q \in 1 .. l /\ ~(cmp_suggestion(t[q], e) > 0)
    BY <1>4
  <2>2. PICK a \in Int : a = e.priority
    BY <1>9
  <2>3. PICK b \in Int : b = t[q].priority
    BY <1>9, <2>1
  <2>4. ~(a - b > 0)
    BY <1>14, <2>1, <2>2, <2>3
  <2>5. b > a \/ b = a
    BY <2>2, <2>3, <2>4
  <2> QED
    BY <1>9, <2>1, <2>2, <2>3, <2>5 DEF Preferred
<1>17. ASSUME NEW q \in p .. l PROVE Preferred(e, t[q])
  <2>1. p \in 1 .. l /\ q \in 1 .. l /\ p <= l
    BY <1>4
  <2>2. cmp_suggestion(t[p], e) = e.priority - t[p].priority /\ cmp_suggestion(t[p], e) > 0
    BY <1>4, <1>14, <2>1
  <2>3. PICK a \in Int : a = e.priority
    BY <1>9
  <2>4. PICK b \in Int : b = t[p].priority
    BY <1>9, <2>1
  <2>5. PICK c \in Int : c = t[q].priority
    BY <1>9, <2>1
  <2>6. a - b > 0
    BY <2>2, <2>3, <2>4
  <2>7. b > c \/ b = c
    <3>1. CASE q = p
      BY <2>4, <2>5, <3>1
    <3>2. CASE q # p
      <4>1. p \in 1 .. q - 1
        BY <2>1, <3>2
      <4>2. Preferred(t[p], t[q])
        BY <1>15, <2>1, <4>1
      <4> QED
        BY <2>4, <2>5, <4>2 DEF Preferred
    <3> QED
      BY <3>1, <3>2
  <2>8. a > c
    BY <2>3, <2>4, <2>5, <2>6, <2>7
  <2> QED
    BY <2>3, <2>5, <2>8 DEF Preferred
<1>18. ASSUME NEW k \in 1 .. l + 1, NEW j \in 1 .. k - 1 PROVE Preferred(u[j], u[k])
  <2>1. j \in 1 .. l + 1 /\ j < k /\ p \in Nat
    BY <1>4
  <2>2. CASE k < p
    <3>1. u[k] = t[k] /\ u[j] = t[j] /\ k \in 1 .. l
      BY <1>4, <1>8, <2>1, <2>2
    <3> QED
      BY <1>15, <3>1
  <2>3. CASE k = p
    <3>1. u[j] = t[j] /\ j \in 1 .. p - 1
      BY <1>8, <2>1, <2>3
    <3> QED
      BY <1>11, <1>16, <2>3, <3>1
  <2>4. CASE k > p
    <3>1. u[k] = t[k - 1] /\ k - 1 \in p .. l /\ k - 1 \in 1 .. l
      BY <1>8, <2>1, <2>4
    <3>2. CASE j < p
      <4>1. u[j] = t[j] /\ j \in 1 .. (k - 1) - 1
        BY <1>8, <2>1, <2>4, <3>2
      <4> QED
        BY <1>15, <3>1, <4>1
    <3>3. CASE j = p
      BY <1>11, <1>17, <3>1, <3>3
    <3>4. CASE j > p
      <4>1. u[j] = t[j - 1] /\ j - 1 \in 1 .. (k - 1) - 1
        BY <1>4, <1>8, <2>1, <3>4
      <4> QED
        BY <1>15, <3>1, <4>1
    <3> QED
      BY <2>1, <3>2, <3>3, <3>4
  <2> QED
    BY <2>1, <2>2, <2>3, <2>4
<1> QED
  BY <1>8, <1>18 DEF IsBest

LEMMA BestSays == BestFirst <=> (AllComparable(parray) => IsBest(parray))
  BY DEF BestFirst, AllComparable, IsBest, Preferred

LEMMA InsertOrder == ASSUME AideInv, OrderInv, insert_suggestion PROVE OrderInv'
<1>1. /\ phase = "lookup" /\ found # <<>>
      /\ parray' = parray_insert(parray, Head(found)) /\ found' = Tail(found)
      /\ UNCHANGED <<library, dicts, key, conjugations>>
  BY DEF insert_suggestion
<1>2. AllSorted /\ NullLast /\ FoundInOrder /\ NoneContinues /\ BestFirst /\ library \in Library
  BY Zenon DEF OrderInv, AideInv
<1>3. PICK C, F : Progress(C, F)
  BY <1>1 DEF AideInv
<1>4. PICK A : A = {w \in Ways : w[4] \notin C} \ F
  OBVIOUS
<1>5. F \subseteq Ways /\ A \subseteq Ways /\ Lists(found, F, WordOf) /\ Lists(parray, A, WordOf)
  <2>1. F \subseteq {w \in Ways : w[4] \notin C} /\ Lists(found, F, WordOf) /\ Lists(parray, A, WordOf)
    BY <1>3, <1>4, Zenon DEF Progress
  <2> QED
    BY <1>4, <2>1
<1>6. PICK S : S = {WordOf[w] : w \in Ways}
  OBVIOUS
<1>7. found \in Seq(S) /\ parray \in Seq(S)
  <2>1. (\A w \in F : WordOf[w] \in S) /\ (\A w \in A : WordOf[w] \in S)
    BY <1>5, <1>6
  <2> QED
    BY <1>5, <2>1, ListsType
<1>8. \A s \in S : s.priority \in Int
  BY <1>2, <1>6, WordTypesOf
<1>9. PICK f, e : f = found /\ e = Head(f)
  OBVIOUS
<1>10. f \in Seq(S) /\ f # <<>> /\ e \in S /\ e = f[1] /\ 1 \in DOMAIN f
  BY <1>1, <1>7, <1>9
<1>11. PICK n \in Nat : n + 1 = Len(f)
  <2>1. Len(f) \in Nat /\ Len(f) # 0
    BY <1>10
  <2>2. Len(f) - 1 \in Nat /\ (Len(f) - 1) + 1 = Len(f)
    BY <2>1
  <2> QED
    BY <2>2
<1>12. PICK g : g = Tail(f)
  OBVIOUS
<1>13. DOMAIN g = 1 .. n /\ DOMAIN f = 1 .. n + 1 /\ \A k \in 1 .. n : g[k] = f[k + 1]
  BY <1>10, <1>11, <1>12
<1>14. PICK t, u : t = parray /\ u = parray_insert(t, e)
  OBVIOUS
<1>15. \A j \in DOMAIN t : ~Continues(t[j], e)
  BY <1>2, <1>9, <1>10, <1>14 DEF NoneContinues
<1>16. AllComparable(u) => IsBest(u)
  <2>1. AllComparable(t) => IsBest(t)
    BY <1>2, <1>14, BestSays
  <2>2. t \in Seq(S)
    BY <1>7, <1>14
  <2> QED
    BY <1>8, <1>10, <1>14, <1>15, <2>1, <2>2, InsertedBest
<1>17. \A q \in DOMAIN u : u[q] = e \/ \E j \in DOMAIN t : u[q] = t[j]
  <2>1. PICK l \in Nat : l = Len(t)
    BY <1>7, <1>14
  <2>2. PICK p : p = find_slot(t, e)
    OBVIOUS
  <2>3. p \in 1 .. l + 1
    BY <2>1, <2>2, SlotFound, Zenon DEF SlotSays
  <2>4. InsertShape(InsertAt(t, p, e), t, p, e, l)
    BY <1>7, <1>10, <1>14, <2>1, <2>3, InsertedAt
  <2>5. u = InsertAt(t, p, e)
    BY <1>14, <2>2, Zenon DEF parray_insert
  <2>6. /\ DOMAIN u = 1 .. l + 1
        /\ \A q \in 1 .. l + 1 : u[q] = IF q < p THEN t[q] ELSE IF q = p THEN e ELSE t[q - 1]
    BY <2>4, <2>5, Zenon DEF InsertShape
  <2>7. DOMAIN t = 1 .. l
    BY <1>7, <1>14, <2>1
  <2> SUFFICES ASSUME NEW q \in 1 .. l + 1, u[q] # e PROVE \E j \in DOMAIN t : u[q] = t[j]
    BY <2>6
  <2>8. CASE q < p
    <3>1. u[q] = t[q] /\ q \in DOMAIN t
      BY <2>3, <2>6, <2>7, <2>8
    <3> QED
      BY <3>1
  <2>9. CASE ~(q < p)
    <3>1. q # p
      BY <2>6, <2>9
    <3>2. u[q] = t[q - 1] /\ q - 1 \in DOMAIN t
      BY <2>3, <2>6, <2>7, <2>9, <3>1
    <3> QED
      BY <3>2
  <2> QED
    BY <2>8, <2>9
<1>18. parray' = u /\ found' = g
  BY <1>1, <1>9, <1>12, <1>14
<1>19. \A a, b : Continues(a, b)' <=> Continues(a, b)
  BY <1>1 DEF Continues, Headword
<1>20. FoundInOrder'
  <2> SUFFICES ASSUME NEW k \in 1 .. n, NEW j \in 1 .. k - 1 PROVE ~Continues(g[j], g[k])
    BY <1>13, <1>18, <1>19 DEF FoundInOrder
  <2>1. k + 1 \in DOMAIN f /\ j + 1 \in 1 .. (k + 1) - 1 /\ g[k] = f[k + 1] /\ g[j] = f[j + 1]
    BY <1>13
  <2> QED
    BY <1>2, <1>9, <2>1 DEF FoundInOrder
<1>21. NoneContinues'
  <2> SUFFICES ASSUME NEW k \in 1 .. n, NEW q \in DOMAIN u PROVE ~Continues(u[q], g[k])
    BY <1>13, <1>18, <1>19 DEF NoneContinues
  <2>1. k + 1 \in DOMAIN f /\ 1 \in 1 .. (k + 1) - 1 /\ g[k] = f[k + 1]
    BY <1>13
  <2>2. CASE u[q] = e
    BY <1>2, <1>9, <1>10, <2>1, <2>2 DEF FoundInOrder
  <2>3. CASE \E j \in DOMAIN t : u[q] = t[j]
    BY <1>2, <1>9, <1>14, <2>1, <2>3 DEF NoneContinues
  <2> QED
    BY <1>17, <2>2, <2>3
<1>22. BestFirst'
  <2>1. AllComparable(u) => \A k \in DOMAIN u : \A j \in 1 .. k - 1 :
          u[j].priority > u[k].priority \/ (u[j].priority = u[k].priority /\ ~Continues(u[j], u[k])')
    BY <1>16, <1>19 DEF IsBest, Preferred
  <2> QED
    BY <1>18, <2>1 DEF BestFirst, AllComparable, Comparable
<1>23. AllSorted' /\ NullLast'
  BY <1>1, <1>2, SameSorted DEF NullLast
<1> QED
  BY <1>20, <1>21, <1>22, <1>23 DEF OrderInv

LEMMA SameOrder ==
  ASSUME OrderInv, UNCHANGED <<library, dicts, key, conjugations, found, parray>> PROVE OrderInv'
<1>1. \A a, b : Continues(a, b)' <=> Continues(a, b)
  BY DEF Continues, Headword
<1>2. AllSorted' /\ NullLast' /\ FoundInOrder' /\ NoneContinues'
  BY <1>1, SameSorted DEF OrderInv, NullLast, FoundInOrder, NoneContinues
<1>3. BestFirst'
  BY <1>1 DEF OrderInv, BestFirst, Comparable
<1> QED
  BY <1>2, <1>3 DEF OrderInv

LEMMA OrderCall == ASSUME AideInv, OrderInv, NEW k_, aide_suggest(k_) PROVE OrderInv'
<1>1. found = <<>> /\ parray = <<>> /\ UNCHANGED <<library, dicts, conjugations, found, parray>>
  BY DEF AideInv, aide_suggest
<1>2. AllSorted' /\ NullLast'
  BY <1>1, SameSorted DEF OrderInv, NullLast
<1> QED
  BY <1>1, <1>2, NothingYet

LEMMA OrderNext ==
  ASSUME AideInv, OrderInv, phase = "lookup" => \E T : key \in Seq(T), AideNext \/ UNCHANGED aideVars
  PROVE  OrderInv'
<1>1. CASE \E d \in DOMAIN dicts : dict_add(d)
  BY <1>1, DictAddOrder
<1>2. CASE aide_unconjugate
  BY <1>2, UnconjugateOrder
<1>3. CASE lookup_conjugation
  <2>1. PICK T : key \in Seq(T)
    BY <1>3 DEF lookup_conjugation
  <2> QED
    BY <1>3, <2>1, LookupOrder
<1>4. CASE insert_suggestion
  BY <1>4, InsertOrder
<1>5. CASE aide_init \/ trie_insert_ctable_entry \/ lookup_without_dictionary \/ parray_get_items
           \/ UNCHANGED aideVars
  <2>1. UNCHANGED <<library, dicts, key, conjugations, found, parray>>
    BY <1>5 DEF aide_init, trie_insert_ctable_entry, lookup_without_dictionary, parray_get_items,
                aideVars
  <2> QED
    BY <2>1, SameOrder
<1> QED
  BY <1>1, <1>2, <1>3, <1>4, <1>5 DEF AideNext

-----------------------------------------------------------------------------
(* The suggestions for the word *)

LEMMA WordAideInv == WordInv /\ AideInv /\ [Next]_vars => AideInv'
<1> SUFFICES ASSUME WordInv, AideInv, [Next]_vars PROVE AideInv'
  OBVIOUS
<1>1. phase = "lookup" => key \in Seq(Cell)
  BY KeyOfInput DEF WordInv
<1>2. CASE segment_update_candidates
  BY <1>2, AideCallInv DEF segment_update_candidates
<1>3. CASE suggest
  BY <1>1, <1>3, AideNextInv DEF suggest
<1>4. CASE edit \/ segment_get_output \/ UNCHANGED vars
  <2>1. UNCHANGED aideVars
    BY <1>4 DEF edit, segment_get_output, vars
  <2> QED
    BY <1>1, <2>1, AideNextInv
<1> QED
  BY <1>2, <1>3, <1>4 DEF Next, Handle

LEMMA WordAideInit == Init => AideInv
  BY AideInitInv DEF Init

\* The user is offered every word that the input may stand for, in every form
\* and in every dictionary, as often as it is due, and no other (aide_suggest,
\* japanese_unconjugate, dict_lookup, _entries_to_suggestions), whatever is in
\* the dictionaries and in the table of conjugations.
THEOREM EveryWordOffered == Spec => []OffersEveryWord
  BY WordInitInv, WordNextInv, WordAideInit, WordAideInv, OffersAll, PTL DEF Spec

LEMMA WordOrderInv == WordInv /\ AideInv /\ OrderInv /\ [Next]_vars => OrderInv'
<1> SUFFICES ASSUME WordInv, AideInv, OrderInv, [Next]_vars PROVE OrderInv'
  OBVIOUS
<1>1. phase = "lookup" => key \in Seq(Cell)
  BY KeyOfInput DEF WordInv
<1>2. CASE segment_update_candidates
  BY <1>2, OrderCall DEF segment_update_candidates
<1>3. CASE suggest
  BY <1>1, <1>3, OrderNext DEF suggest
<1>4. CASE edit \/ segment_get_output \/ UNCHANGED vars
  <2>1. UNCHANGED aideVars
    BY <1>4 DEF edit, segment_get_output, vars
  <2> QED
    BY <1>1, <2>1, OrderNext
<1> QED
  BY <1>2, <1>3, <1>4 DEF Next, Handle

LEMMA WordOrderInit == Init => OrderInv
  BY OrderInitInv DEF Init

\* The suggestions are always in the order of their priority, and of two words
\* with the same priority that the input begins, the one that the other
\* continues comes first (parray_insert, cmp_suggestion, trie_get_values),
\* whatever the priorities are, if their differences fit into an int.
THEOREM BestComesFirst == Spec => []BestFirst
<1>1. OrderInv => BestFirst
  BY DEF OrderInv
<1> QED
  BY <1>1, WordInitInv, WordNextInv, WordAideInit, WordAideInv, WordOrderInit, WordOrderInv, PTL
  DEF Spec

-----------------------------------------------------------------------------
(* The text of the word *)

\* The automaton again, with what is proved about it.
TP == INSTANCE HangulProofs WITH text <- Typed

LEMMA SameNext == Text!Next <=> TP!Next
  BY DEF Text!call, TP!call, Text!xmap, TP!xmap, Text!ymap, TP!ymap, Text!ymaps,
         TP!ymaps, Text!zmap, TP!zmap, Text!zmaps, TP!zmaps, Text!Consonant,
         TP!Consonant, Text!Vowel, TP!Vowel, Text!Jamo, TP!Jamo, Text!IsJamo, TP!IsJamo,
         Text!ModeY, TP!ModeY, Text!ModeZ, TP!ModeZ, Text!Single, TP!Single,
         Text!Syllable, TP!Syllable, Text!Here, TP!Here, Text!Running, TP!Running,
         Text!OpensSyllable, TP!OpensSyllable, Text!Consume, TP!Consume, Text!LookAgain,
         TP!LookAgain, Text!mode_x, TP!mode_x, Text!mode_y, TP!mode_y,
         Text!mode_y_second, TP!mode_y_second, Text!mode_z, TP!mode_z,
         Text!mode_z_second, TP!mode_z_second, Text!FIRST_HANGUL_CODEPOINT,
         TP!FIRST_HANGUL_CODEPOINT, Text!LAST_HANGUL_CODEPOINT,
         TP!LAST_HANGUL_CODEPOINT, Text!Codepoint, TP!Codepoint, Text!Idle, TP!Idle,
         Text!convert_char, TP!convert_char, Text!hangul_call, TP!hangul_call,
         Text!hangul_return, TP!hangul_return, Text!Next, TP!Next

LEMMA SameInit == Text!Init <=> TP!Init
  BY DEF Text!Init, TP!Init

LEMMA SameTables ==
  /\ Text!Initials = TP!Initials /\ Text!Medials = TP!Medials /\ Text!Finals = TP!Finals
  /\ Text!Consonant = TP!Consonant /\ Text!Vowel = TP!Vowel /\ Text!Jamo = TP!Jamo
  BY DEF Text!Initials, TP!Initials, Text!Medials, TP!Medials, Text!Finals, TP!Finals,
         Text!xmap, TP!xmap, Text!ymap, TP!ymap, Text!Consonant, TP!Consonant,
         Text!Vowel, TP!Vowel, Text!Jamo, TP!Jamo

LEMMA SameSpelling == \A p : Text!Spelling(p) = TP!Spelling(p)
  BY DEF Text!Initials, TP!Initials, Text!Medials, TP!Medials, Text!Finals, TP!Finals,
         Text!FIRST_HANGUL_CODEPOINT, TP!FIRST_HANGUL_CODEPOINT, Text!Spelling,
         TP!Spelling

LEMMA SameJoined == \A s : Text!FlattenSeq(s) = TP!FlattenSeq(s)
  BY DEF Text!FlattenSeq, TP!FlattenSeq

LEMMA SameReadsBack == ReadsBack <=> TP!ReadsBack
<1>1. [k \in DOMAIN out |-> Text!Spelling(out[k])] = [k \in DOMAIN out |-> TP!Spelling(out[k])]
  BY SameSpelling, Zenon
<1> QED
  BY <1>1, SameJoined, Zenon DEF ReadsBack, Text!ReadsBack, TP!ReadsBack

LEMMA SameFollow == \A p, c : Text!CanFollow(p, c) <=> TP!CanFollow(p, c)
  BY SameTables, Zenon DEF Text!CanFollow, TP!CanFollow, Text!ToSet, TP!ToSet

LEMMA SameWhole == SyllablesAreWhole <=> TP!SyllablesAreWhole
<1>1. \A c : Text!IsJamo(c) <=> TP!IsJamo(c)
  BY SameTables, Zenon DEF Text!IsJamo, TP!IsJamo
<1> QED
  BY <1>1, SameTables, SameSpelling, SameFollow, Zenon
  DEF SyllablesAreWhole, Text!SyllablesAreWhole, TP!SyllablesAreWhole, Text!Last, TP!Last

\* The characters are those that Hangul knows.
LEMMA TypedType ==
  ASSUME WithinArray, Char \subseteq Text!Jamo \union Other
  PROVE  Typed \in Seq(TP!Jamo \union Other)
<1>1. input \in Seq(Cell) /\ len \in Nat /\ len < Len(input) /\ \A k \in 1 .. len : input[k] \in Char
  BY DEF WithinArray, Cell, size
<1>2. PICK S : S = TP!Jamo \union Other
  OBVIOUS
<1>3. \A k \in 1 .. len : input[k] \in S
  BY <1>1, <1>2, SameTables
<1>4. Typed = [k \in 1 .. len |-> input[k]]
  BY <1>1 DEF Typed
<1> QED
  BY <1>1, <1>2, <1>3, <1>4

\* A word is converted when it has been looked up, and is not edited any more.
LEMMA WordSteps ==
  ASSUME [Next]_vars
  PROVE  \/ phase # "done" /\ UNCHANGED textVars
              /\ (phase' = "done" => UNCHANGED <<Typed, textVars>>)
         \/ phase = "done" /\ phase' = "done" /\ (TP!Next \/ UNCHANGED <<Typed, textVars>>)
<1>1. CASE UNCHANGED vars
  BY <1>1 DEF vars, aideVars, bufferVars, textVars, Typed
<1>2. CASE edit
  BY <1>2 DEF edit, aideVars
<1>3. CASE segment_update_candidates
  BY <1>3 DEF segment_update_candidates, aide_suggest
<1>4. CASE suggest
  <2>1. phase # "done" /\ UNCHANGED <<bufferVars, textVars>>
    BY <1>4 DEF suggest, AideNext, dict_add, aide_init, trie_insert_ctable_entry,
           aide_unconjugate, lookup_conjugation, insert_suggestion, lookup_without_dictionary,
           parray_get_items
  <2> QED
    BY <2>1 DEF bufferVars, Typed
<1>5. CASE segment_get_output
  BY <1>5, SameNext DEF segment_get_output, aideVars
<1> QED
  BY <1>1, <1>2, <1>3, <1>4, <1>5 DEF Next, Handle

\* Until then nothing is converted.
TextInv ==
  /\ phase # "done" => TP!Init
  /\ phase = "done" => TP!ReadInv /\ TP!WholeInv

LEMMA BeforeText ==
  ASSUME WordInv, TP!Init, Char \subseteq Text!Jamo \union Other
  PROVE  TP!ReadInv /\ TP!WholeInv
<1>1. Typed \in Seq(TP!Jamo \union Other)
  BY TypedType DEF WordInv, Inv
<1> QED
  BY <1>1, TP!ReadInit, TP!WholeInit

LEMMA TextNext ==
  ASSUME Beyond = {0}, Char \subseteq Text!Jamo \union Other
  PROVE  WordInv /\ TextInv /\ [Next]_vars => TextInv'
<1> SUFFICES ASSUME WordInv, TextInv, [Next]_vars PROVE TextInv'
  OBVIOUS
<1>1. CASE phase # "done" /\ phase' # "done" /\ UNCHANGED textVars
  BY <1>1 DEF TextInv, TP!Init, textVars
<1>2. CASE phase' = "done" /\ [TP!Next]_(TP!hangulVars) /\ TP!ReadInv /\ TP!WholeInv
  BY <1>2, TP!ReadNext, TP!WholeNext DEF TextInv
<1>3. TP!ReadInv /\ TP!WholeInv
  BY BeforeText DEF TextInv
<1>4. UNCHANGED <<Typed, textVars>> => UNCHANGED TP!hangulVars
  BY DEF textVars, TP!hangulVars, TP!call
<1> QED
  BY <1>1, <1>2, <1>3, <1>4, WordSteps

LEMMA TextInit == Init => TextInv
  BY SameInit DEF Init, AideInit, TextInv

LEMMA TextSays ==
  ASSUME Char \subseteq Text!Jamo \union Other
  PROVE  WordInv /\ TextInv => ReadsBack /\ SyllablesAreWhole
<1> SUFFICES ASSUME WordInv, TextInv PROVE ReadsBack /\ SyllablesAreWhole
  OBVIOUS
<1>1. TP!ReadInv /\ TP!WholeInv
  BY BeforeText DEF TextInv
<1>2. TP!ReadsBack /\ TP!SyllablesAreWhole
  BY <1>1, TP!ReadSays, TP!WholeSays
<1> QED
  BY <1>2, SameReadsBack, SameWhole

\* What the client gets for a word reads back as what was typed, jamo by jamo,
\* at every moment of the conversion (hangul_to_utf8, char_to_utf8), if the
\* element behind zmap is 0, as where gcc lays the tables out.
THEOREM InputReadsBack ==
  ASSUME Beyond = {0}, Char \subseteq Text!Jamo \union Other
  PROVE  Spec => []ReadsBack
<1>1. WordInv /\ TextInv => ReadsBack
  BY TextSays
<1> QED
  BY <1>1, WordInitInv, WordNextInv, TextInit, TextNext, PTL DEF Spec

\* A jamo stands alone only where it could not have gone into a syllable, and a
\* vowel always takes the consonant before it (hangul_to_utf8's look-ahead).
THEOREM SyllablesOfInput ==
  ASSUME Beyond = {0}, Char \subseteq Text!Jamo \union Other
  PROVE  Spec => []SyllablesAreWhole
<1>1. WordInv /\ TextInv => SyllablesAreWhole
  BY TextSays
<1> QED
  BY <1>1, WordInitInv, WordNextInv, TextInit, TextNext, PTL DEF Spec

LEMMA SameTypes == Text!TypeOK <=> TP!TypeOK
  BY SameTables DEF Text!TypeOK, TP!TypeOK, Text!Mode, TP!Mode, Text!Piece, TP!Piece,
         Text!FIRST_HANGUL_CODEPOINT, TP!FIRST_HANGUL_CODEPOINT,
         Text!LAST_HANGUL_CODEPOINT, TP!LAST_HANGUL_CODEPOINT, Text!ModeY, TP!ModeY,
         Text!ModeZ, TP!ModeZ

\* The types of the automaton, before anything is converted and after.
TextTypes ==
  /\ phase # "done" => TP!Init
  /\ phase = "done" => TP!HangulInv

LEMMA BeforeTypes ==
  ASSUME WordInv, TP!Init, Char \subseteq Text!Jamo \union Other
  PROVE  TP!HangulInv
<1>1. Typed \in Seq(TP!Jamo \union Other)
  BY TypedType DEF WordInv, Inv
<1> QED
  BY <1>1, TP!InitHangulInv

LEMMA TextTypesNext ==
  ASSUME Beyond \subseteq 0 .. 27, Char \subseteq Text!Jamo \union Other
  PROVE  WordInv /\ TextTypes /\ [Next]_vars => TextTypes'
<1> SUFFICES ASSUME WordInv, TextTypes, [Next]_vars PROVE TextTypes'
  OBVIOUS
<1>1. CASE phase # "done" /\ phase' # "done" /\ UNCHANGED textVars
  BY <1>1 DEF TextTypes, TP!Init, textVars
<1>2. CASE phase' = "done" /\ [TP!Next]_(TP!hangulVars) /\ TP!HangulInv
  BY <1>2, TP!NextHangulInv DEF TextTypes
<1>3. TP!HangulInv
  BY BeforeTypes DEF TextTypes
<1>4. UNCHANGED <<Typed, textVars>> => UNCHANGED TP!hangulVars
  BY DEF textVars, TP!hangulVars, TP!call
<1> QED
  BY <1>1, <1>2, <1>3, <1>4, WordSteps

LEMMA TextTypesInit == Init => TextTypes
  BY SameInit DEF Init, AideInit, TextTypes

LEMMA TypesSay ==
  ASSUME Char \subseteq Text!Jamo \union Other
  PROVE  WordInv /\ AideInv /\ TextTypes => TypeOK
<1> SUFFICES ASSUME WordInv, AideInv, TextTypes PROVE TypeOK
  OBVIOUS
<1>1. TP!HangulInv
  BY BeforeTypes DEF TextTypes
<1>2. Text!TypeOK
  BY <1>1, SameTypes DEF TP!HangulInv
<1>3. AideTypeOK
  BY AideTypes
<1>4. WithinArray
  BY DEF WordInv, Inv
<1> QED
  BY <1>2, <1>3, <1>4 DEF TypeOK

\* Every variable keeps its type while a word is typed, looked up and converted:
\* the positions of segment.c stay in the array, those of the tries and of the
\* automaton in theirs, if what lies behind zmap is a value that zmap could hold.
\* Of what aide_suggest reads LookupOfInput speaks.
THEOREM WordTypes ==
  ASSUME Beyond \subseteq 0 .. 27, Char \subseteq Text!Jamo \union Other
  PROVE  Spec => []TypeOK
<1>1. WordInv /\ AideInv /\ TextTypes => TypeOK
  BY TypesSay
<1> QED
  BY <1>1, WordInitInv, WordNextInv, WordAideInit, WordAideInv, TextTypesInit, TextTypesNext, PTL
  DEF Spec

=============================================================================
