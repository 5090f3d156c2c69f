----------------------------- MODULE LineEditor -----------------------------
(***************************************************************************)
(* What the input contexts promise to the user: for each of them a line of *)
(* text and a cursor position, without segments, candidates or             *)
(* dictionaries.  A key edits one line at its cursor, one character at a   *)
(* time; only a commit or a clear removes more than one.                   *)
(***************************************************************************)
EXTENDS Integers, Sequences, SequencesExt

CONSTANTS Line, Char, CharInvalid, Combine(_, _)

VARIABLES
  text,  \* text[l]: the characters typed and neither erased nor committed
  pos    \* the cursor stands behind the first pos[l] characters

vars == <<text, pos>>

TypeOK ==
  /\ text \in [Line -> Seq(Char)]
  /\ pos \in [Line -> Nat]
  /\ \A l \in Line : pos[l] <= Len(text[l])

Init ==
  /\ text = [l \in Line |-> <<>>]
  /\ pos = [l \in Line |-> 0]

Set(l, newText, newPos) ==
  /\ text' = [text EXCEPT ![l] = newText]
  /\ pos' = [pos EXCEPT ![l] = newPos]

\* A character goes in at the cursor or, when it has to start a segment of
\* its own, behind the segment the cursor is in: never before the cursor.
Type(l, c) ==
  \E at \in pos[l] .. Len(text[l]) : Set(l, InsertAt(text[l], at + 1, c), at + 1)

\* A character that combines with the one before the cursor replaces it.
Merge(l, c) ==
  /\ pos[l] > 0
  /\ LET merged == Combine(text[l][pos[l]], c)
     IN  /\ merged # CharInvalid
         /\ Set(l, ReplaceAt(text[l], pos[l], merged), pos[l])

\* Backspace erases the character before the cursor, and at the start of the
\* line the one behind it.
Backspace(l) ==
  /\ text[l] # <<>>
  /\ IF pos[l] > 0
     THEN Set(l, RemoveAt(text[l], pos[l]), pos[l] - 1)
     ELSE Set(l, RemoveAt(text[l], 1), 0)

Delete(l) ==
  /\ pos[l] < Len(text[l])
  /\ Set(l, RemoveAt(text[l], pos[l] + 1), pos[l])

\* Segment keys may put the cursor anywhere; no key moves it out of the text.
Move(l) == \E to \in 0 .. Len(text[l]) : Set(l, text[l], to)

\* Commit, clear and a new context leave an empty line.
Empty(l) == Set(l, <<>>, 0)

Next ==
  \E l \in Line :
    \/ \E c \in Char : Type(l, c) \/ Merge(l, c)
    \/ Backspace(l)
    \/ Delete(l)
    \/ Move(l)
    \/ Empty(l)

Spec == Init /\ [][Next]_vars

=============================================================================
