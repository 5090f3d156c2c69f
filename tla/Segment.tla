------------------------------ MODULE Segment ------------------------------
(***************************************************************************)
(* A segment of the preedit (segment.c): the characters typed so far, the  *)
(* candidates the dictionaries suggest for them, and the candidate the     *)
(* user selected.  A segment is a value here and every function of         *)
(* segment.c an operator on it, so that Preedit and InputMethod can be     *)
(* proved about with one lemma per function.                               *)
(*                                                                         *)
(*  - Positions in the input are those of the code, 0 .. Len(input).       *)
(*  - A selection is the code's index, 0 for the first candidate, and -1   *)
(*    for "none".  A new segment comes from calloc: its selection is 0     *)
(*    although it has no candidate.                                        *)
(*  - A NULL candidate array is the empty sequence: every reader tests     *)
(*    the pointer together with an index that an empty array cannot have.  *)
(***************************************************************************)
EXTENDS Integers, Sequences, SequencesExt

CONSTANTS
  Char,          \* char_t: the characters a key can produce
  CharInvalid,   \* CHAR_INVALID: "these two do not combine"
  Combine(_, _), \* char_combine(): か + dakuten is が
  SameSet(_, _), \* char_same_set(): both Roman, both Japanese, ...
  Value,         \* the texts that the dictionaries offer
  Suggest(_),    \* aide_suggest(): the ordered suggestions for an input
  MaxLen         \* longest input; SHRT_MAX stops _segment_grow at 32735

ASSUME CharAssumption ==
  /\ CharInvalid \notin Char
  /\ \A l, r \in Char : Combine(l, r) \in Char \cup {CharInvalid}
  /\ \A l, r \in Char : SameSet(l, r) \in BOOLEAN

ASSUME MaxLenAssumption == MaxLen \in Nat \ {0}

\* The dictionaries are read once and never written: aide_suggest() is a
\* function of its input.
ASSUME SuggestAssumption ==
  \A n \in 1 .. MaxLen : \A input \in [1 .. n -> Char] : Suggest(input) \in Seq(Value)

SegmentType == [input : Seq(Char), candidates : Seq(Value), selection : Int]

\* Error codes, the negative errno values the functions return.
EOVERFLOW == -75
EMSGSIZE  == -90
EBADSLT   == -57
ENOENT    == -2

-----------------------------------------------------------------------------

segment_new == [input |-> <<>>, candidates |-> <<>>, selection |-> 0]

\* segment_clear() differs from a new segment in its selection only.
segment_clear(s) == [input |-> <<>>, candidates |-> <<>>, selection |-> -1]

HasSelection(s) == 0 <= s.selection /\ s.selection < Len(s.candidates)

SelectedValue(s) == s.candidates[s.selection + 1]

segment_get_output(s) ==
  IF HasSelection(s) THEN <<SelectedValue(s)>> ELSE s.input

segment_erase(s, pos) ==
  IF pos < 0 \/ pos >= Len(s.input)
  THEN [err |-> EOVERFLOW, seg |-> s]
  ELSE [err |-> 0, seg |-> [s EXCEPT !.input = RemoveAt(@, pos + 1)]]

\* What the character before "pos" becomes when chr is typed after it.
CombinedAt(s, chr, pos) ==
  IF pos > 0 THEN Combine(s.input[pos], chr) ELSE CharInvalid

(***************************************************************************)
(* Returns 1 when the input grew by a character and 0 when the character   *)
(* was merged into the one before it.  The limit is tested first, so a     *)
(* full segment refuses a character that would have been merged.           *)
(***************************************************************************)
segment_insert(s, chr, pos) ==
  LET combined == CombinedAt(s, chr, pos)
  IN  IF Len(s.input) >= MaxLen
      THEN [err |-> EMSGSIZE, seg |-> s]
      ELSE IF combined # CharInvalid
      THEN [err |-> 0, seg |-> [s EXCEPT !.input = ReplaceAt(@, pos, combined)]]
      ELSE [err |-> 1, seg |-> [s EXCEPT !.input = InsertAt(@, pos + 1, chr)]]

segment_select_candidate(s, selection) ==
  IF selection < 0 \/ selection >= Len(s.candidates)
  THEN [err |-> EBADSLT, seg |-> s]
  ELSE [err |-> 0, seg |-> [s EXCEPT !.selection = selection]]

\* C's remainder followed by the loop that makes it non-negative is %.
segment_move_candidate(s, dir) ==
  IF s.candidates = <<>>
  THEN [err |-> ENOENT, seg |-> s]
  ELSE [err |-> 0,
        seg |-> [s EXCEPT !.selection = (@ + dir) % Len(s.candidates)]]

\* The last position of value v in a list of candidates: a set of at most
\* one element, empty when v is not offered.
LastPosition(candidates, v) ==
  {i \in 1 .. Len(candidates) :
     /\ candidates[i] = v
     /\ \A j \in i + 1 .. Len(candidates) : candidates[j] # v}

\* A mutant: the selection keeps its number instead of its value.
segment_set_candidates_SameIndex(s, candidates) ==
  [s EXCEPT !.candidates = candidates,
            !.selection  = IF @ < Len(candidates) THEN @ ELSE -1]

\* New candidates keep the user's selection if they still offer its value.
segment_set_candidates(s, candidates) ==
  LET kept == IF HasSelection(s)
              THEN LastPosition(candidates, SelectedValue(s)) ELSE {}
  IN  [s EXCEPT !.candidates = candidates,
                !.selection  = IF kept = {} THEN -1
                               ELSE (CHOOSE i \in kept : TRUE) - 1]

segment_update_candidates(s) ==
  segment_set_candidates(s, IF s.input = <<>> THEN <<>> ELSE Suggest(s.input))

\* What holds of a segment between two key events.
FreshSegment(s) ==
  /\ Len(s.input) <= MaxLen
  /\ s.candidates = (IF s.input = <<>> THEN <<>> ELSE Suggest(s.input))
  /\ s.candidates # <<>> => s.selection \in -1 .. Len(s.candidates) - 1

=============================================================================
