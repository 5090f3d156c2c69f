-------------------------------- MODULE Kana --------------------------------
(***************************************************************************)
(* Combining characters (char_combine in char.c): a kana and the voicing   *)
(* mark typed behind it are one character.  The names are those of char_t  *)
(* without CHAR_JA_, in lower case.                                        *)
(***************************************************************************)

Invalid == "CHAR_INVALID"

Voiced ==
  [ka |-> "ga", ki |-> "gi", ku |-> "gu", ke |-> "ge", ko |-> "go",
   ta |-> "da", ti |-> "di", tu |-> "du", te |-> "de", to |-> "do",
   sa |-> "za", si |-> "zi", su |-> "zu", se |-> "ze", so |-> "zo",
   ha |-> "ba", hi |-> "bi", hu |-> "bu", he |-> "be", ho |-> "bo",
   wa |-> "va", wi |-> "vi", u |-> "vu", we |-> "ve", wo |-> "vo"]

HalfVoiced == [ha |-> "pa", hi |-> "pi", hu |-> "pu", he |-> "pe", ho |-> "po"]

Combination(table, left) == IF left \in DOMAIN table THEN table[left] ELSE Invalid

char_combine(left, right) ==
  CASE right = "dakuten" -> Combination(Voiced, left)
    [] right = "handakuten" -> Combination(HalfVoiced, left)
    [] OTHER -> Invalid

=============================================================================
