------------------------------ MODULE Preedit ------------------------------
(***************************************************************************)
(* The preedit (preedit.c): the text the user is still editing, cut into   *)
(* segments, and the cursor.  A preedit is a value, and every function of  *)
(* preedit.c an operator that returns the new value, together with the     *)
(* function's error code where it has one.                                 *)
(*                                                                         *)
(* Segments are numbered from 1, offsets from 0 as in the code: the cursor *)
(* stands behind cursor.offset characters of its segment.                  *)
(***************************************************************************)
EXTENDS Segment

CursorType  == [segment : Nat, offset : Nat]
PreeditType == [segments : Seq(SegmentType), cursor : CursorType]

preedit_new == [segments |-> <<segment_new>>, cursor |-> [segment |-> 1, offset |-> 0]]

-----------------------------------------------------------------------------
(* Reading a preedit *)

SegLen(p, i)  == Len(p.segments[i].input)
Current(p)    == p.segments[p.cursor.segment]
NumSegments(p) == Len(p.segments)

\* The cursor stands in a segment, and in or at the end of its input.
CursorInPreedit(p) ==
  /\ NumSegments(p) >= 1
  /\ p.cursor.segment \in 1 .. NumSegments(p)
  /\ p.cursor.offset \in 0 .. SegLen(p, p.cursor.segment)

preedit_is_empty(p) == NumSegments(p) = 1 /\ SegLen(p, 1) = 0

\* Concatenation of f[1], ..., f[n].
Concat(f, n) ==
  LET upto[i \in 0 .. n] == IF i = 0 THEN <<>> ELSE upto[i - 1] \o f[i]
  IN  upto[n]

preedit_get_input(p) ==
  Concat([i \in 1 .. NumSegments(p) |-> p.segments[i].input], NumSegments(p))

preedit_get_output(p) ==
  Concat([i \in 1 .. NumSegments(p) |-> segment_get_output(p.segments[i])],
         NumSegments(p))

\* The cursor as a position in the whole text.
CursorPos(p) ==
  Len(Concat([i \in 1 .. NumSegments(p) |-> p.segments[i].input], p.cursor.segment - 1))
    + p.cursor.offset

-----------------------------------------------------------------------------
(* Moving the cursor.  The key bindings (config.c) pass six directions,    *)
(* and Delete, which erases where it stands, a seventh.                    *)

At(p, segment, offset) ==
  [p EXCEPT !.cursor = [segment |-> segment, offset |-> offset]]

EndOf(p, segment) == At(p, segment, SegLen(p, segment))

Home(p) == At(p, 1, 0)
End(p)  == EndOf(p, NumSegments(p))

\* The nearest segment with a character after, or before, the cursor's: the
\* one in which the loops of preedit_move end.  At most one element.
NextNonEmpty(p) ==
  {k \in p.cursor.segment + 1 .. NumSegments(p) :
     /\ SegLen(p, k) > 0
     /\ \A j \in p.cursor.segment + 1 .. k - 1 : SegLen(p, j) = 0}

\* A mutant: the loop to the left stops at an empty segment.
PrevNonEmpty_Adjacent(p) ==
  {k \in 1 .. p.cursor.segment - 1 : k = p.cursor.segment - 1}

PrevNonEmpty(p) ==
  {k \in 1 .. p.cursor.segment - 1 :
     /\ SegLen(p, k) > 0
     /\ \A j \in k + 1 .. p.cursor.segment - 1 : SegLen(p, j) = 0}

\* A mutant: the next segment is entered in front of its first character.
MoveRight_BeforeFirst(p) ==
  IF p.cursor.offset < SegLen(p, p.cursor.segment)
  THEN At(p, p.cursor.segment, p.cursor.offset + 1)
  ELSE IF NextNonEmpty(p) = {}
  THEN End(p)
  ELSE At(p, CHOOSE k \in NextNonEmpty(p) : TRUE, 0)

\* Past the end of a segment the cursor lands behind the first character of
\* the next segment that has one, or at the end of the last segment.
MoveRight(p) ==
  IF p.cursor.offset < SegLen(p, p.cursor.segment)
  THEN At(p, p.cursor.segment, p.cursor.offset + 1)
  ELSE IF NextNonEmpty(p) = {}
  THEN End(p)
  ELSE At(p, CHOOSE k \in NextNonEmpty(p) : TRUE, 1)

\* A mutant: at the start of the text the offset is decremented all the same.
MoveLeft_Unchecked(p) ==
  IF p.cursor.offset > 0 \/ PrevNonEmpty(p) = {}
  THEN At(p, p.cursor.segment, p.cursor.offset - 1)
  ELSE LET k == CHOOSE k \in PrevNonEmpty(p) : TRUE
       IN  At(p, k, SegLen(p, k) - 1)

\* Before the start of a segment it lands before the last character of the
\* previous segment that has one, or at the start of the first segment.
MoveLeft(p) ==
  IF p.cursor.offset > 0
  THEN At(p, p.cursor.segment, p.cursor.offset - 1)
  ELSE IF PrevNonEmpty(p) = {}
  THEN Home(p)
  ELSE LET k == CHOOSE k \in PrevNonEmpty(p) : TRUE
       IN  At(p, k, SegLen(p, k) - 1)

\* A step to the right starts at the beginning of the segment it ends in,
\* a step to the left at its end, also when there was nowhere to go.
NextSegmentIndex(p) ==
  IF p.cursor.segment < NumSegments(p) THEN p.cursor.segment + 1 ELSE NumSegments(p)
PrevSegmentIndex(p) ==
  IF p.cursor.segment > 1 THEN p.cursor.segment - 1 ELSE 1

Directions == {"left", "right", "prev_segment", "next_segment", "home", "end", "stay"}

preedit_move(p, dir) ==
  CASE dir = "left"         -> MoveLeft(p)
    [] dir = "right"        -> MoveRight(p)
    [] dir = "prev_segment" -> EndOf(p, PrevSegmentIndex(p))
    [] dir = "next_segment" -> At(p, NextSegmentIndex(p), 0)
    [] dir = "home"         -> Home(p)
    [] dir = "end"          -> End(p)
    [] dir = "stay"         -> p

\* After Ctrl-Tab: the end of the next segment.
preedit_move_segment(p) == EndOf(p, NextSegmentIndex(p))

-----------------------------------------------------------------------------
(* Changing the text *)

SetCurrent(p, seg) == [p EXCEPT !.segments[p.cursor.segment] = seg]

preedit_update_candidates(p) == SetCurrent(p, segment_update_candidates(Current(p)))

\* Mutants: the cursor keeps pointing at the removed segment; the segments
\* behind the removed one are not moved up, so the last one is cut off.
preedit_remove_segment_NoClamp(p) ==
  [p EXCEPT !.segments = RemoveAt(@, p.cursor.segment)]
preedit_remove_segment_DropLast(p) ==
  LET q == [p EXCEPT !.segments = RemoveAt(@, Len(@))]
  IN  IF q.cursor.segment > NumSegments(q) THEN End(q) ELSE At(q, q.cursor.segment, 0)

\* Called for the cursor's segment, and only while there is another one.
preedit_remove_segment(p) ==
  LET q == [p EXCEPT !.segments = RemoveAt(@, p.cursor.segment)]
  IN  IF q.cursor.segment > NumSegments(q) THEN End(q) ELSE At(q, q.cursor.segment, 0)

\* Backspace moves left before it erases, Delete does not move.
preedit_erase(p, dir) ==
  LET moved  == preedit_move(p, dir)
      result == segment_erase(Current(moved), moved.cursor.offset)
      erased == SetCurrent(moved, result.seg)
  IN  IF result.err < 0
      THEN [err |-> result.err, preedit |-> moved]
      ELSE [err |-> 0,
            preedit |-> IF result.seg.input = <<>> /\ NumSegments(p) > 1
                        THEN preedit_remove_segment(erased) ELSE erased]

\* The new segment follows the cursor's; the cursor does not move.
preedit_insert_segment(p) ==
  [p EXCEPT !.segments = InsertAt(@, p.cursor.segment + 1, segment_new)]

\* A character starts a segment of its own behind a selected candidate and
\* where the character set changes.
NeedsSegment(p, chr) ==
  LET s == Current(p)
  IN  /\ p.cursor.offset >= 1
      /\ \/ /\ s.candidates # <<>>
            /\ s.selection >= 0
            /\ p.cursor.offset = Len(s.input)
         \/ ~ SameSet(s.input[p.cursor.offset], chr)

insert_segment_if_needed(p, chr) ==
  IF NeedsSegment(p, chr)
  THEN At(preedit_insert_segment(p), p.cursor.segment + 1, 0)
  ELSE p

\* A mutant: the cursor stays in front of the character.
preedit_insert_NoMove(p, chr) ==
  LET split    == insert_segment_if_needed(p, chr)
      result   == segment_insert(Current(split), chr, split.cursor.offset)
  IN  [err     |-> IF result.err < 0 THEN result.err ELSE 0,
       preedit |-> SetCurrent(split, result.seg)]

preedit_insert(p, chr) ==
  LET split    == insert_segment_if_needed(p, chr)
      result   == segment_insert(Current(split), chr, split.cursor.offset)
      inserted == SetCurrent(split, result.seg)
  IN  IF result.err < 0
      THEN [err |-> result.err, preedit |-> split]
      ELSE [err |-> 0,
            preedit |-> IF result.err > 0 THEN MoveRight(inserted) ELSE inserted]

preedit_move_candidate(p, dir) ==
  LET result == segment_move_candidate(Current(p), dir)
  IN  [err |-> result.err, preedit |-> SetCurrent(p, result.seg)]

preedit_select_candidate(p, selection) ==
  LET result == segment_select_candidate(Current(p), selection)
  IN  [err |-> result.err, preedit |-> SetCurrent(p, result.seg)]

preedit_clear(p) ==
  [segments |-> <<segment_clear(p.segments[1])>>,
   cursor   |-> [segment |-> 1, offset |-> 0]]

=============================================================================
