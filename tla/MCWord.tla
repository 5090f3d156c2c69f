------------------------------- MODULE MCWord -------------------------------
(***************************************************************************)
(* An instance of Word for TLC: two dictionaries with words that continue  *)
(* each other, adjectives and a noun that becomes a verb.                  *)
(***************************************************************************)
EXTENDS Word, Kana

CONSTANTS
  MaxKana,  \* bound: the length of Japanese inputs
  MaxJamo   \* bound: the length of Korean inputs of a few jamo

\* た か い く よ し; 高 良 are parts of values only.
KanaKeys == {"ta", "ka", "i", "ku", "yo", "si", "dakuten"}
Kanji == {"TAKA", "YO"}

CharOrder ==
  <<"i", "ka", "ku", "ga", "gu", "ta", "da", "si", "zi", "yo", "dakuten",
    "BB", "B", "JJ", "J", "DD", "D", "GG", "G", "SS", "S", "M", "N", "NG", "R", "H", "K", "T",
    "Z", "P", "YO", "YEO", "YA", "YAE", "AE", "E", "YE", "O", "EO", "A", "I", "YU", "U", "EU">>

MCSymbol == ToSet(CharOrder)

MCLetter == MCSymbol \union Kanji \union {"KA"}

MCCode == [c \in MCSymbol |-> SelectInSeq(CharOrder, LAMBDA e : e = c)]

Adj == 1  Yoi == 2  Suru == 3

Row(conj, dict, type, match) == [conj |-> conj, dict |-> dict, type |-> type, match |-> match]

MCConjugations ==
  << Row(<<"i">>, <<"i">>, Adj, <<"i">>),
     Row(<<"ku">>, <<"i">>, Adj, <<"ku">>),
     Row(<<"ku", "i">>, <<"i">>, Adj, <<"ku", "i">>),
     Row(<<"ku">>, <<"i">>, Yoi, <<"yo", "ku">>),
     Row(<<"si">>, <<>>, Suru, <<"si">>) >>

Candidate(value, priority, type) == [value |-> value, priority |-> priority, type |-> type]
EntryOf(k, candidates) == [key |-> k, candidates |-> candidates]

Japanese ==
  << EntryOf(<<"ta", "ka", "i">>, <<Candidate(<<"TAKA", "i">>, 2, Adj), Candidate(<<"TAKA">>, 3, 0)>>),
     EntryOf(<<"ta">>, <<Candidate(<<"ta">>, 1, 0), Candidate(<<"TAKA">>, 3, Suru)>>),
     EntryOf(<<"ta", "ka">>, <<Candidate(<<"TAKA">>, 2, Suru)>>),
     EntryOf(<<"yo", "i">>, <<Candidate(<<"YO", "i">>, 2, Yoi), Candidate(<<"YO", "i">>, -2, Adj)>>) >>

More ==
  << EntryOf(<<"ta", "ka", "i">>, <<Candidate(<<"ta", "ka", "i">>, 2, Adj)>>),
     EntryOf(<<"ka", "i">>, <<Candidate(<<>>, 0, Adj)>>),
     EntryOf(<<"ka">>, <<Candidate(<<"YO">>, 7, 0)>>),
     EntryOf(<<"ka", "ku">>, <<Candidate(<<"ka">>, -8, 0)>>),
     EntryOf(<<"ta", "ka", "i">>, <<Candidate(<<"YO", "i">>, 3, Adj)>>) >>

Korean == << EntryOf(<<"G", "A">>, <<Candidate(<<"KA">>, 0, 0)>>) >>

MCLibrary == { <<>>, <<Japanese, More>>, <<Korean, <<>> >> }

Few == {"G", "S", "A"}

\* Behind the array there is a CHAR_INVALID at once, or one character first.
MCBehind == {<<>>, <<"ka">>}

MCOther == KanaKeys \union {"ga", "da", "gu", "zi"}

MCChar == MCOther \union Text!Jamo

Over(alphabet, chars, n) == Len(chars) <= n /\ ToSet(chars) \subseteq alphabet

\* Every input over some kana, every two jamo, and longer Korean inputs of the
\* jamo that do most.
MCTypable(chars) ==
  \/ Over(KanaKeys \ {"dakuten"}, chars, MaxKana)
  \/ Over(MCOther, chars, 2)
  \/ Over(Text!Jamo \union {"ka"}, chars, 2)
  \/ Over(Few \union {"O", "DD", "ka"}, chars, MaxJamo - 1)
  \/ Over(Few, chars, MaxJamo)

=============================================================================
