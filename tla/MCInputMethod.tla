--------------------------- MODULE MCInputMethod ---------------------------
(***************************************************************************)
(* Instances of InputMethod for TLC: a Roman letter, a kana, the voicing   *)
(* mark and the kana the two combine to, and a dictionary whose lists      *)
(* overlap, repeat a value and may be empty.                               *)
(***************************************************************************)
EXTENDS InputMethod

CONSTANTS a, ka, dakuten, ga,   \* characters
          none,                 \* CHAR_INVALID
          v1, v2,               \* values of suggestions
          en, ja,               \* languages
          c1, c2,               \* contexts
          k1, k2, k3            \* keys

MCChar == {a, ka, dakuten, ga}
MCValue == {v1, v2}
MCKey == {k1, k2, k3}

MCCombine(l, r) == IF l = ka /\ r = dakuten THEN ga ELSE none

MCSameSet(l, r) == (l = a) <=> (r = a)

MCSuggest(input) ==
  LET last == input[Len(input)]
  IN  CASE last = a       -> <<>>
        [] last = ka      -> <<v1, v2>>
        [] last = ga      -> <<v2, v1, v2>>
        [] last = dakuten -> <<v1>>

\* One language in which every key has a character, for the deep instances.
MCKeymapJa ==
  [l \in {ja} |-> [k \in MCKey |-> CASE k = k1 -> a [] k = k2 -> ka [] k = k3 -> dakuten]]

\* Two languages, and a key that has no character, for the instance with two
\* contexts.
MCKeymapEnJa ==
  [l \in {en, ja} |-> [k \in {k1, k2} |-> CASE k = k2 -> none [] l = en -> a [] l = ja -> ka]]

\* One context of two segments; one of three beside one of a single segment.
MCTwo == [ic \in IC |-> 2]
MCThreeOne == [ic \in IC |-> IF ic = c1 THEN 3 ELSE 1]

=============================================================================
