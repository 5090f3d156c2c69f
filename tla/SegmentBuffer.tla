--------------------------- MODULE SegmentBuffer ---------------------------
(***************************************************************************)
(* The memory behind the input of a segment (segment.c).  Segment.tla      *)
(* speaks of the input as a value; here it is an array of "size" cells of  *)
(* which the first "len" are used.  The array comes from calloc, full of   *)
(* CHAR_INVALID, and from then on it is kept up only as far as each        *)
(* operation cares to: segment_get_input reads "len" cells, aide_suggest   *)
(* reads up to the first CHAR_INVALID.                                     *)
(***************************************************************************)
EXTENDS Integers, Sequences

CONSTANTS
  Char, CharInvalid,     \* char_t without CHAR_INVALID, and CHAR_INVALID
  Combine(_, _),         \* the character two combine to, or CharInvalid
  Garbage,               \* what realloc may leave in cells it adds
  Behind,                \* what may be read behind the array, before a CHAR_INVALID
  INITIAL_SEGMENT_SIZE,  \* 32
  SHRT_MAX               \* 32767

ASSUME CharsAssumption ==
  /\ CharInvalid \notin Char
  /\ \A l, r \in Char : Combine(l, r) \in Char \cup {CharInvalid}
  /\ Garbage \subseteq Char \cup {CharInvalid}
  /\ Behind \subseteq Seq(Char) /\ Behind # {}

ASSUME SizeAssumption ==
  /\ INITIAL_SEGMENT_SIZE \in Nat /\ INITIAL_SEGMENT_SIZE > 1
  /\ SHRT_MAX \in Nat /\ SHRT_MAX >= INITIAL_SEGMENT_SIZE

VARIABLES
  input,  \* the cells; the code's input[k] is input[k + 1]
  len     \* how many of them are used

bufferVars == <<input, len>>

size == Len(input)

\* segment_new
BufferInit ==
  /\ input = [k \in 1 .. INITIAL_SEGMENT_SIZE |-> CharInvalid]
  /\ len = 0

\* The cells in use.
Typed == SubSeq(input, 1, len)

\* A mutant: the test is for an array that has no cell left.
Full_TooLate == len = size

\* The array is enlarged before the last cell is used, even if the character
\* then turns out to combine.  At most 32767 cells.
Full == len = size - 1

TooLong == Full /\ SHRT_MAX - INITIAL_SEGMENT_SIZE < size

\* _segment_grow: the cells that realloc adds are not cleared.
Grown ==
  IF Full
  THEN {input \o junk : junk \in [1 .. INITIAL_SEGMENT_SIZE -> Garbage]}
  ELSE {input}

Clamped(pos) == IF pos < 0 THEN 0 ELSE IF pos > len THEN len ELSE pos

\* The character in front of a position and a new one, combined.
CombinedAt(cells, chr, pos) ==
  IF pos > 0 THEN Combine(cells[pos], chr) ELSE CharInvalid

\* The tail is moved up by one cell; what is behind it stays.
Inserted(cells, chr, pos) ==
  [k \in 1 .. Len(cells) |->
     IF k = pos + 1 THEN chr
     ELSE IF pos + 1 < k /\ k <= len + 1 THEN cells[k - 1] ELSE cells[k]]

segment_insert(chr, at) ==
  /\ ~TooLong
  /\ \E cells \in Grown :
       LET pos == Clamped(at)
           combined == CombinedAt(cells, chr, pos)
       IN IF combined # CharInvalid
          THEN input' = [cells EXCEPT ![pos] = combined] /\ len' = len
          ELSE input' = Inserted(cells, chr, pos) /\ len' = len + 1

\* A mutant: the cell that is given up keeps its character.
segment_erase_Unterminated(pos) ==
  /\ 0 <= pos /\ pos < len
  /\ input' = [k \in 1 .. size |-> IF pos < k /\ k < len THEN input[k + 1] ELSE input[k]]
  /\ len' = len - 1

\* The tail is moved down, and CHAR_INVALID written behind it.
segment_erase(pos) ==
  /\ 0 <= pos /\ pos < len
  /\ input' = [k \in 1 .. size |->
                 IF k = len THEN CharInvalid
                 ELSE IF pos < k /\ k < len THEN input[k + 1] ELSE input[k]]
  /\ len' = len - 1

segment_clear ==
  /\ input' = [k \in 1 .. size |-> CharInvalid]
  /\ len' = 0

BufferNext ==
  \/ \E chr \in Char, pos \in Int : segment_insert(chr, pos)
  \/ \E pos \in Int : segment_erase(pos)
  \/ segment_clear

BufferSpec == BufferInit /\ [][BufferNext]_bufferVars

-----------------------------------------------------------------------------
(* What aide_suggest reads (japanese_unconjugate, char_len): the cells up   *)
(* to the first CHAR_INVALID, or if there is none, all of them and what     *)
(* happens to be behind the array.                                          *)

\* The cells in front of the first CHAR_INVALID.
KeyLength ==
  CHOOSE n \in 0 .. size :
    /\ \A k \in 1 .. n : input[k] # CharInvalid
    /\ n < size => input[n + 1] = CharInvalid

Keys ==
  IF KeyLength < size THEN {SubSeq(input, 1, KeyLength)}
  ELSE {input \o tail : tail \in Behind}

-----------------------------------------------------------------------------
(* Properties *)

\* An array that was never enlarged.
NeverGrown == size = INITIAL_SEGMENT_SIZE

\* Whatever is edited, and at whatever position, the input and one cell behind
\* it lie inside the array, whose size fits a short, and every cell of the
\* input was written (segment_insert, segment_erase, _segment_grow).
WithinArray ==
  /\ input \in Seq(Char \cup {CharInvalid}) /\ len \in Nat
  /\ INITIAL_SEGMENT_SIZE <= size /\ size <= SHRT_MAX
  /\ len < size
  /\ \A k \in 1 .. len : input[k] \in Char

\* As long as it was never enlarged the array is CHAR_INVALID behind the input.
ClearedBehind == NeverGrown => \A k \in len + 1 .. size : input[k] = CharInvalid

=============================================================================
