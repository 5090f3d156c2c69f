------------------------------- MODULE Hangul -------------------------------
(***************************************************************************)
(* From characters to the text the client sees (char_to_utf8 in char.c,    *)
(* hangul.c).  Korean is typed jamo by jamo; hangul_to_utf8 puts them      *)
(* together with an automaton that has to look ahead: a consonant behind a *)
(* vowel closes the syllable or opens the next one, which only the         *)
(* character behind it tells.                                              *)
(*                                                                         *)
(* A jamo is named as in char_t, without CHAR_KR_; every other character   *)
(* converts on its own.  The output is a sequence of syllables and single  *)
(* characters; the destination is large enough for them.                   *)
(***************************************************************************)
EXTENDS Integers, SequencesExt

CONSTANTS
  Other,  \* characters that are not Korean
  Beyond  \* what can be read from zmap behind its last element: gcc puts
          \* zmap_g or ymap_eu there, which begin with zeros

VARIABLES
  text,     \* the characters to convert
  src_idx,  \* how many char_to_utf8 has converted
  out,      \* what they were converted to
  mode,     \* the state of the automaton, "idle" outside hangul_to_utf8
  i, x, y, z

call == <<mode, i, x, y, z>>
hangulVars == <<text, src_idx, out, call>>

\* The tables, without the elements that are 0.  A test of an index against
\* the size of a table and one of the element against 0 are the same here.
xmap ==
  [G |-> 1, GG |-> 2, N |-> 3, D |-> 4, DD |-> 5, R |-> 6, M |-> 7, B |-> 8, BB |-> 9,
   S |-> 10, SS |-> 11, NG |-> 12, J |-> 13, JJ |-> 14, Z |-> 15, K |-> 16, T |-> 17,
   P |-> 18, H |-> 19]

ymap ==
  [A |-> 1, AE |-> 2, YA |-> 3, YAE |-> 4, EO |-> 5, E |-> 6, YEO |-> 7, YE |-> 8, O |-> 9,
   YO |-> 13, U |-> 14, YU |-> 18, EU |-> 19, I |-> 21]

\* By the vowel that came first.
ymaps ==
  [O |-> [A |-> 1, AE |-> 2, I |-> 3], U |-> [EO |-> 1, E |-> 2, I |-> 3], EU |-> [I |-> 1]]

zmap ==
  [G |-> 1, GG |-> 2, N |-> 4, D |-> 7, R |-> 8, M |-> 16, B |-> 17, S |-> 19, SS |-> 20,
   NG |-> 21, J |-> 22, Z |-> 23, K |-> 24, T |-> 25, P |-> 26, H |-> 27]

\* By the consonant that came first.
zmaps ==
  [G |-> [S |-> 2], N |-> [J |-> 1, H |-> 2],
   R |-> [G |-> 1, M |-> 2, B |-> 3, S |-> 4, T |-> 5, P |-> 6, H |-> 7], B |-> [S |-> 1]]

Consonant == DOMAIN xmap
Vowel == DOMAIN ymap
Jamo == Consonant \union Vowel

\* IS_HANGUL, and char_same_set with CHAR_KR_BB
IsJamo(c) == c \in Jamo

Mode ==
  {"idle", "X", "Y", "Z", "DONE"} \union {"Y_O", "Y_U", "Y_EU"}
    \union {"Z_G", "Z_N", "Z_R", "Z_B"}

ModeY == [O |-> "Y_O", U |-> "Y_U", EU |-> "Y_EU"]
ModeZ == [G |-> "Z_G", N |-> "Z_N", R |-> "Z_R", B |-> "Z_B"]

Init ==
  /\ src_idx = 0
  /\ out = <<>>
  /\ mode = "idle"
  /\ i = 0 /\ x = -1 /\ y = -1 /\ z = 0

Single(c) == [is |-> "char", char |-> c]
Syllable(code) == [is |-> "syllable", code |-> code]

-----------------------------------------------------------------------------
(* hangul_to_utf8 *)

Here == text[src_idx + i + 1]

\* The condition of the loop.
Running ==
  /\ mode \notin {"idle", "DONE"}
  /\ src_idx + i < Len(text)
  /\ IsJamo(Here)

\* A mutant: any two jamo may be a syllable.
OpensSyllable_AnyPair(n) == n < Len(text) /\ IsJamo(text[n]) /\ IsJamo(text[n + 1])

\* hangul_to_utf8(src + i, ..., NULL, 0) > 0 for the characters from the n-th
\* on: the modes X and Y succeeded, whatever follows.
OpensSyllable(n) ==
  n < Len(text) /\ text[n] \in Consonant /\ text[n + 1] \in Vowel

\* The character is used up, or it is looked at again in the next round (i--
\* and the i++ of the loop).
Consume == i' = i + 1
LookAgain == i' = i

mode_x ==
  /\ mode = "X" /\ Running
  /\ Consume
  /\ IF Here \in Consonant
     THEN mode' = "Y" /\ x' = xmap[Here] - 1
     ELSE mode' = "DONE" /\ x' = -1
  /\ UNCHANGED <<text, src_idx, out, y, z>>

mode_y ==
  /\ mode = "Y" /\ Running
  /\ Consume
  /\ IF Here \in Vowel
     THEN /\ mode' = IF Here \in DOMAIN ymaps THEN ModeY[Here] ELSE "Z"
          /\ y' = ymap[Here] - 1
     ELSE mode' = "DONE" /\ y' = -1
  /\ UNCHANGED <<text, src_idx, out, x, z>>

\* A mutant: a second vowel that does not fit is used up all the same.
mode_y_second_Swallows ==
  \E first \in DOMAIN ymaps :
    /\ mode = ModeY[first] /\ Running
    /\ mode' = "Z"
    /\ Consume
    /\ y' = IF Here \in DOMAIN ymaps[first] THEN y + ymaps[first][Here] ELSE y
    /\ UNCHANGED <<text, src_idx, out, x, z>>

\* MODE_Y_O, MODE_Y_U and MODE_Y_EU: a second vowel that fits the first.
mode_y_second ==
  \E first \in DOMAIN ymaps :
    /\ mode = ModeY[first] /\ Running
    /\ mode' = "Z"
    /\ IF Here \in DOMAIN ymaps[first]
       THEN Consume /\ y' = y + ymaps[first][Here]
       ELSE LookAgain /\ UNCHANGED y
    /\ UNCHANGED <<text, src_idx, out, x, z>>

\* A mutant: without the break, a character that closes nothing is looked at
\* forever.
mode_z_NoBreak ==
  /\ mode = "Z" /\ Running
  /\ IF Here \notin DOMAIN zmap
     THEN LookAgain /\ UNCHANGED <<mode, z>>
     ELSE IF OpensSyllable(src_idx + i + 1)
     THEN LookAgain /\ mode' = "DONE" /\ z' \in Beyond
     ELSE /\ Consume
          /\ z' = zmap[Here]
          /\ mode' = IF Here \in DOMAIN zmaps THEN ModeZ[Here] ELSE "DONE"
  /\ UNCHANGED <<text, src_idx, out, x, y>>

\* When the consonant opens the next syllable i is decremented, and zmap is
\* then read at the vowel before it: behind the end of the table.
mode_z ==
  /\ mode = "Z" /\ Running
  /\ IF Here \notin DOMAIN zmap
     THEN LookAgain /\ mode' = "DONE" /\ UNCHANGED z
     ELSE IF OpensSyllable(src_idx + i + 1)
     THEN LookAgain /\ mode' = "DONE" /\ z' \in Beyond
     ELSE /\ Consume
          /\ z' = zmap[Here]
          /\ mode' = IF Here \in DOMAIN zmaps THEN ModeZ[Here] ELSE "DONE"
  /\ UNCHANGED <<text, src_idx, out, x, y>>

\* MODE_Z_G, MODE_Z_N, MODE_Z_R and MODE_Z_B: a second consonant that fits.
mode_z_second ==
  \E first \in DOMAIN zmaps :
    /\ mode = ModeZ[first] /\ Running
    /\ mode' = "DONE"
    /\ IF Here \in DOMAIN zmaps[first] /\ ~OpensSyllable(src_idx + i + 1)
       THEN Consume /\ z' = z + zmaps[first][Here]
       ELSE LookAgain /\ UNCHANGED z
    /\ UNCHANGED <<text, src_idx, out, x, y>>

FIRST_HANGUL_CODEPOINT == 44032  \* 0xAC00
LAST_HANGUL_CODEPOINT == 55203   \* 0xD7A3

Codepoint == FIRST_HANGUL_CODEPOINT + 588 * x + 28 * y + z

-----------------------------------------------------------------------------
(* char_to_utf8 *)

Idle == mode' = "idle" /\ i' = 0 /\ x' = -1 /\ y' = -1 /\ z' = 0

\* A character that is not Korean.
convert_char ==
  /\ mode = "idle" /\ src_idx < Len(text) /\ ~IsJamo(text[src_idx + 1])
  /\ out' = Append(out, Single(text[src_idx + 1]))
  /\ src_idx' = src_idx + 1
  /\ UNCHANGED <<text, call>>

hangul_call ==
  /\ mode = "idle" /\ src_idx < Len(text) /\ IsJamo(text[src_idx + 1])
  /\ mode' = "X"
  /\ UNCHANGED <<text, src_idx, out, i, x, y, z>>

\* The loop is over: a syllable (codepoint_to_utf8 accepts no other code
\* points), or the first of the jamo by itself.
hangul_return ==
  /\ mode # "idle" /\ ~Running
  /\ IF x >= 0 /\ y >= 0 /\ Codepoint \in FIRST_HANGUL_CODEPOINT .. LAST_HANGUL_CODEPOINT
     THEN out' = Append(out, Syllable(Codepoint)) /\ src_idx' = src_idx + i
     ELSE out' = Append(out, Single(text[src_idx + 1])) /\ src_idx' = src_idx + 1
  /\ Idle
  /\ UNCHANGED text

Next ==
  \/ convert_char
  \/ hangul_call
  \/ mode_x
  \/ mode_y
  \/ mode_y_second
  \/ mode_z
  \/ mode_z_second
  \/ hangul_return

-----------------------------------------------------------------------------
(* Properties *)

Piece ==
  [is : {"char"}, char : Jamo \union Other]
    \union [is : {"syllable"}, code : FIRST_HANGUL_CODEPOINT .. LAST_HANGUL_CODEPOINT]

\* Every variable keeps its type; a call never looks behind the text.
TypeOK ==
  /\ text \in Seq(Jamo \union Other)
  /\ src_idx \in 0 .. Len(text)
  /\ mode \in Mode
  /\ i \in 0 .. Len(text) - src_idx
  /\ x \in -1 .. 18 /\ y \in -1 .. 20 /\ z \in 0 .. 27
  /\ out \in Seq(Piece)

\* What x, y and z mean, from the table at the top of hangul.c.
Initials ==
  <<"G", "GG", "N", "D", "DD", "R", "M", "B", "BB", "S", "SS", "NG", "J", "JJ", "Z", "K",
    "T", "P", "H">>

Medials ==
  << <<"A">>, <<"AE">>, <<"YA">>, <<"YAE">>, <<"EO">>, <<"E">>, <<"YEO">>, <<"YE">>, <<"O">>,
     <<"O", "A">>, <<"O", "AE">>, <<"O", "I">>, <<"YO">>, <<"U">>, <<"U", "EO">>,
     <<"U", "E">>, <<"U", "I">>, <<"YU">>, <<"EU">>, <<"EU", "I">>, <<"I">> >>

Finals ==
  << <<>>, <<"G">>, <<"GG">>, <<"G", "S">>, <<"N">>, <<"N", "J">>, <<"N", "H">>, <<"D">>,
     <<"R">>, <<"R", "G">>, <<"R", "M">>, <<"R", "B">>, <<"R", "S">>, <<"R", "T">>,
     <<"R", "P">>, <<"R", "H">>, <<"M">>, <<"B">>, <<"B", "S">>, <<"S">>, <<"SS">>,
     <<"NG">>, <<"J">>, <<"Z">>, <<"K">>, <<"T">>, <<"P">>, <<"H">> >>

\* The jamo a piece of output is read as.
Spelling(piece) ==
  IF piece.is = "char" THEN <<piece.char>>
  ELSE LET n == piece.code - FIRST_HANGUL_CODEPOINT
       IN <<Initials[(n \div 588) + 1]>> \o Medials[((n % 588) \div 28) + 1] \o Finals[(n % 28) + 1]

\* The output reads back as what was typed, jamo by jamo, at every moment of
\* the conversion: nothing is swallowed when a character is given back, and
\* nothing is added to the syllable that a consonant was taken from.
ReadsBack ==
  FlattenSeq([k \in DOMAIN out |-> Spelling(out[k])]) = SubSeq(text, 1, src_idx)

CanFollow(jamo, c) ==
  LET rest == Append(Tail(jamo), c) IN
  /\ Head(jamo) \in ToSet(Initials)
  /\ \E n \in 1 .. Len(rest) :
       /\ SubSeq(rest, 1, n) \in ToSet(Medials)
       /\ SubSeq(rest, n + 1, Len(rest)) \in ToSet(Finals)

\* Syllables are put together as a reader expects: a vowel behind a consonant
\* always has it as its initial, even if that could have closed the syllable
\* before, and a jamo stands alone only where it could not have gone into a
\* syllable ("this cannot be decided without looking at the next char_t").
SyllablesAreWhole ==
  \A k \in 1 .. Len(out) - 1 :
    LET before == Spelling(out[k])
        next == out[k + 1]
    IN next.is = "char" /\ IsJamo(next.char) =>
         /\ next.char \in Vowel => Last(before) \notin Consonant
         /\ ~CanFollow(before, next.char)

=============================================================================
