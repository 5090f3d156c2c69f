-------------------------------- MODULE Word --------------------------------
(***************************************************************************)
(* What a segment makes of the keys typed into it: the array of its input  *)
(* (SegmentBuffer), the suggestions for it (Aide) and its own text         *)
(* (Hangul).  segment_update_candidates hands the array to aide_suggest,   *)
(* without its length; segment_get_output converts "len" cells of it when  *)
(* no candidate is selected.                                               *)
(*                                                                         *)
(* A behaviour is one word: typed, looked up and converted.                *)
(***************************************************************************)
EXTENDS Aide, SegmentBuffer

CONSTANTS
  Other, Beyond,  \* as in Hangul
  Typable(_)      \* bound: the inputs that are typed

VARIABLES src_idx, out, mode, i, x, y, z

Text == INSTANCE Hangul WITH text <- Typed

textVars == <<src_idx, out, mode, i, x, y, z>>
vars == <<aideVars, bufferVars, textVars>>

Init == AideInit /\ BufferInit /\ Text!Init

\* preedit_insert and preedit_erase, with the cursor anywhere in the segment.
edit ==
  /\ phase = "ready"
  /\ \/ \E chr \in Char, pos \in 0 .. len : segment_insert(chr, pos)
     \/ \E pos \in 0 .. len - 1 : segment_erase(pos)
     \/ segment_clear
  /\ Typable(Typed')
  /\ UNCHANGED <<aideVars, textVars>>

segment_update_candidates ==
  /\ len > 0
  /\ \E chars \in Keys : aide_suggest(chars)
  /\ UNCHANGED <<bufferVars, textVars>>

suggest == AideNext /\ UNCHANGED <<bufferVars, textVars>>

segment_get_output ==
  /\ phase = "done"
  /\ UNCHANGED <<aideVars, bufferVars>>
  /\ Text!Next

Handle == suggest \/ segment_get_output

Next == edit \/ segment_update_candidates \/ Handle

\* A key event is handled to its end before the server waits for the next;
\* the user need not type any.
Spec == Init /\ [][Next]_vars /\ WF_vars(Handle)

-----------------------------------------------------------------------------
(* Properties *)

\* The types of all parts; the cells that segment.c itself reads and writes lie
\* inside the array of the input and were written before they are read.  (What
\* aide_suggest reads is the subject of KeyBeginsWithInput.)
TypeOK == AideTypeOK /\ WithinArray /\ Text!TypeOK

\* Every word that is looked up gets its suggestions and its text, unless no
\* dictionary was loaded: neither the conjugations nor the automaton, which
\* looks at some characters twice, keep the one thread busy for ever.
Answered ==
  phase = "unconjugate" ~>
    phase = "crashed" \/ (phase = "done" /\ mode = "idle" /\ src_idx = len)

\* "The raw input" (aide.c:305) is what is looked up.
LooksUpInput == phase \notin {"load", "ready"} => key = Typed

\* As long as the array was never enlarged; afterwards the key begins with the
\* input, and may go on to the end of the array and behind it (aide_suggest gets
\* no length, segment.c:428).
KeyBeginsWithInput ==
  phase \notin {"load", "ready"} => IsPrefix(Typed, key) /\ (NeverGrown => key = Typed)

\* The output reads back as the input, jamo by jamo (hangul.c).
ReadsBack == Text!ReadsBack

\* Jamo are put together into syllables as a reader expects (hangul.c).
SyllablesAreWhole == Text!SyllablesAreWhole

=============================================================================
