-------------------------------- MODULE Aide --------------------------------
(***************************************************************************)
(* The suggestions for an input (aide.c, conjugation.c, japanese.c, dict.c *)
(* and parray.c).  The dictionaries are filled entry by entry; then, for   *)
(* one input, the conjugations that it may end with are found, each one is *)
(* looked up in every dictionary, and what is found is put in the order of *)
(* its priority.                                                           *)
(*                                                                         *)
(* Keys and the values of candidates are sequences of characters, of three *)
(* bytes each in UTF-8 (conjugation.c:94 supports no others).              *)
(***************************************************************************)
EXTENDS Trie, FiniteSets

CONSTANTS
  Letter,       \* the characters that candidates are written with
  Library,      \* what may be loaded: sequences of dictionaries, each the sequence of its entries
  Conjugations, \* _conjugation_table: sequence of [conj, dict, type, match]
  IntRange      \* ints are taken modulo this; 2^32 in the code

CandidateType == [value : Seq(Letter), priority : Int, type : Nat]
EntryType == [key : Seq(Symbol), candidates : Seq(CandidateType)]

ASSUME LibraryAssumption == Library \subseteq Seq(Seq(EntryType))

\* cdata_from_ctable_entry and make_conjugation cut the length of conj from
\* an input that ends with match.  No dictionary form is longer than its
\* conjugation and begins with it.
ASSUME ConjugationsAssumption ==
  /\ Conjugations \in
       Seq([conj : Seq(Symbol), dict : Seq(Symbol), type : Nat, match : Seq(Symbol)])
  /\ \A n \in DOMAIN Conjugations :
       /\ Conjugations[n].conj # <<>>
       /\ IsSuffix(Conjugations[n].conj, Conjugations[n].match)
       /\ ~IsStrictPrefix(Conjugations[n].conj, Conjugations[n].dict)

ASSUME IntRangeAssumption == IntRange \in Nat \ {0}

VARIABLES
  library,       \* the dictionaries that dict_parser_get_dict made
  dicts,         \* _dicts: a trie for each, and how many entries were added
  ctrie,         \* the trie of japanese.c: the rows of the table by what they match
  rows,          \* how many rows it holds
  key,           \* the input to look up
  conjugations,  \* those still to look up
  found,         \* the suggestions of one of them, not yet inserted
  parray,        \* the suggestions found so far, in order
  suggestions,   \* what aide_suggest returned
  phase          \* "load", "ready", "unconjugate", "lookup", "done" or "crashed"

aideVars == <<library, dicts, ctrie, rows, key, conjugations, found, parray, suggestions, phase>>

AideInit ==
  /\ library \in Library
  /\ dicts = [d \in DOMAIN library |-> [trie |-> trie_new, added |-> 0]]
  /\ ctrie = trie_new
  /\ rows = 0
  /\ key = <<>>
  /\ conjugations = <<>>
  /\ found = <<>>
  /\ parray = <<>>
  /\ suggestions = <<>>
  /\ phase = "load"

-----------------------------------------------------------------------------
(* Dictionaries (dict.c) *)

\* The n-th entry of a dictionary; a candidate also tells which one it is,
\* the pointer a suggestion keeps.
Entry(d, n) ==
  [library[d][n] EXCEPT !.candidates =
    [m \in DOMAIN @ |-> [data |-> <<d, n, m>>, says |-> @[m]]]]

\* dict_add: the entry becomes a value of the trie.
dict_add(d) ==
  /\ phase = "load"
  /\ dicts[d].added < Len(library[d])
  /\ \A c \in 1 .. d - 1 : dicts[c].added = Len(library[c])
  /\ LET e == Entry(d, dicts[d].added + 1) IN
     dicts' = [dicts EXCEPT ![d].trie = trie_insert(@, e.key, e), ![d].added = @ + 1]
  /\ UNCHANGED <<library, ctrie, rows, key, conjugations, found, parray, suggestions, phase>>

\* aide_init is done when every dictionary is complete.
aide_init ==
  /\ phase = "load"
  /\ \A d \in DOMAIN dicts : dicts[d].added = Len(library[d])
  /\ phase' = "ready"
  /\ UNCHANGED <<library, dicts, ctrie, rows, key, conjugations, found, parray, suggestions>>

-----------------------------------------------------------------------------
(* Conjugations (japanese.c) *)

\* aide_suggest is called: its first step is to look for conjugations.
aide_suggest(chars) ==
  /\ phase = "ready"
  /\ key' = chars
  /\ phase' = "unconjugate"
  /\ UNCHANGED <<library, dicts, ctrie, rows, conjugations, found, parray, suggestions>>

\* _conjugation_trie_init, on the first lookup: a row is found from the end
\* of what it matches.
trie_insert_ctable_entry ==
  /\ phase = "unconjugate" /\ rows < Len(Conjugations)
  /\ rows' = rows + 1
  /\ \E row \in {Conjugations[rows + 1]} : ctrie' = trie_insert_reverse(ctrie, row.match, row)
  /\ UNCHANGED <<library, dicts, key, conjugations, found, parray, suggestions, phase>>

\* The dictionary form: the input with the end of that form for its own.
make_conjugation(input, cdata) ==
  [dict_form |-> SubSeq(input, 1, Len(input) - Len(cdata.conj)) \o cdata.dict,
   suffix_len |-> Len(cdata.dict), conjugation |-> cdata.conj, type |-> cdata.type]

NullConjugation(input) ==
  [dict_form |-> input, suffix_len |-> 0, conjugation |-> <<>>, type |-> 0]

\* japanese_unconjugate finds them from the shortest match to the longest;
\* aide_unconjugate adds the null conjugation.
aide_unconjugate ==
  /\ phase = "unconjugate"
  /\ rows = Len(Conjugations)
  /\ LET matching == trie_get_values_reverse(ctrie, key) IN
     conjugations' = Append([n \in DOMAIN matching |-> make_conjugation(key, matching[n])],
                            NullConjugation(key))
  /\ phase' = "lookup"
  /\ UNCHANGED <<library, dicts, ctrie, rows, key, found, parray, suggestions>>

-----------------------------------------------------------------------------
(* Suggestions (aide.c) *)

\* conjugation_conjugate; -EOVERFLOW for a value that is too short.
CanConjugate(value, c) == c.suffix_len <= Len(value)
conjugation_conjugate(value, c) ==
  SubSeq(value, 1, Len(value) - c.suffix_len) \o c.conjugation

\* The errors of _candidate_to_suggestion: the candidate is left out.
candidate_fits(candidate, c) ==
  /\ c.type # 0 => candidate.says.type = c.type
  /\ CanConjugate(candidate.says.value, c)

candidate_to_suggestion(candidate, c) ==
  [value |-> conjugation_conjugate(candidate.says.value, c),
   priority |-> candidate.says.priority, data |-> candidate.data]

\* The difference of two ints as an int.
Minus(a, b) ==
  LET d == (a - b) % IntRange IN IF 2 * d >= IntRange THEN d - IntRange ELSE d

cmp_suggestion(a, b) == Minus(b.priority, a.priority)

\* A mutant: a suggestion goes behind the first one it does not precede.
find_slot_First(items, data) ==
  IF items # <<>> /\ cmp_suggestion(items[1], data) > 0 THEN 1
  ELSE IF items = <<>> THEN 1 ELSE 2

\* In front of the first one that comes after it.
find_slot(items, data) ==
  LET after == SelectInSeq(items, LAMBDA s : cmp_suggestion(s, data) > 0)
  IN IF after = 0 THEN Len(items) + 1 ELSE after

\* The position, and the insertion at it.
parray_insert(items, data) == InsertAt(items, find_slot(items, data), data)

\* _entries_to_suggestions, for the candidates of all entries found.
Candidates(entries) == FlattenSeq([n \in DOMAIN entries |-> entries[n].candidates])

entries_to_suggestions(entries, c) ==
  LET candidates == Candidates(entries)
      fitting == Collected(candidates, {candidate \in ToSet(candidates) : candidate_fits(candidate, c)})
  IN [n \in DOMAIN fitting |-> candidate_to_suggestion(fitting[n], c)]

\* Only exact matches can be conjugated.
LookupMode(c) == IF c.conjugation # <<>> THEN "exact" ELSE "predict"

\* dict_lookup in one dictionary after the other.
Entries(c) ==
  FlattenSeq([d \in DOMAIN dicts |-> trie_get_values(dicts[d].trie, c.dict_form, LookupMode(c))])

\* A mutant: the first conjugation that is found in a dictionary is the last.
lookup_conjugation_FirstOnly ==
  /\ phase = "lookup" /\ found = <<>> /\ conjugations # <<>> /\ dicts # <<>>
  /\ \E entries \in {Entries(Head(conjugations))} :
       /\ found' = entries_to_suggestions(entries, Head(conjugations))
       /\ conjugations' = IF entries # <<>> THEN <<>> ELSE Tail(conjugations)
  /\ UNCHANGED <<library, dicts, ctrie, rows, key, parray, suggestions, phase>>

\* _lookup_conjugation: all that the dictionaries have for one conjugation...
lookup_conjugation ==
  /\ phase = "lookup" /\ found = <<>> /\ conjugations # <<>> /\ dicts # <<>>
  /\ \E entries \in {Entries(Head(conjugations))} :
       found' = entries_to_suggestions(entries, Head(conjugations))
  /\ conjugations' = Tail(conjugations)
  /\ UNCHANGED <<library, dicts, ctrie, rows, key, parray, suggestions, phase>>

\* ... goes into the array one by one.
insert_suggestion ==
  /\ phase = "lookup" /\ found # <<>>
  /\ parray' = parray_insert(parray, Head(found))
  /\ found' = Tail(found)
  /\ UNCHANGED <<library, dicts, ctrie, rows, key, conjugations, suggestions, phase>>

\* _dicts is NULL as long as no dictionary was loaded, and is not tested.
lookup_without_dictionary ==
  /\ phase = "lookup" /\ conjugations # <<>> /\ dicts = <<>>
  /\ phase' = "crashed"
  /\ UNCHANGED <<library, dicts, ctrie, rows, key, conjugations, found, parray, suggestions>>

parray_get_items ==
  /\ phase = "lookup" /\ found = <<>> /\ conjugations = <<>>
  /\ suggestions' = parray
  /\ phase' = "done"
  /\ UNCHANGED <<library, dicts, ctrie, rows, key, conjugations, found, parray>>

\* Everything but the call of aide_suggest, which the caller composes.
AideNext ==
  \/ \E d \in DOMAIN dicts : dict_add(d)
  \/ aide_init
  \/ trie_insert_ctable_entry
  \/ aide_unconjugate
  \/ lookup_conjugation
  \/ insert_suggestion
  \/ lookup_without_dictionary
  \/ parray_get_items

-----------------------------------------------------------------------------
(* Properties *)

\* Every variable keeps its type; what is still to look up has the right
\* shape.
AideTypeOK ==
  /\ library \in Library
  /\ rows \in 0 .. Len(Conjugations)
  /\ Len(ctrie) = rows
  /\ DOMAIN dicts = DOMAIN library
  /\ \A d \in DOMAIN dicts : dicts[d].added \in 0 .. Len(library[d])
  /\ \A n \in DOMAIN conjugations : conjugations[n].suffix_len \in Nat
  /\ phase \in {"load", "ready", "unconjugate", "lookup", "done", "crashed"}

\* The words an input stands for, straight from the dictionaries: those whose
\* key it begins (r = 0), and those of which it is the r-th conjugation.
IsWord(d, n, m, r) ==
  LET e == library[d][n]
      row == Conjugations[r]
  IN IF r = 0 THEN IsPrefix(key, e.key)
     ELSE /\ IsSuffix(row.match, key)
          /\ e.key = SubSeq(key, 1, Len(key) - Len(row.conj)) \o row.dict
          /\ row.type \in {0, e.candidates[m].type}
          /\ Len(row.dict) <= Len(e.candidates[m].value)

Word(d, n, m, r) ==
  LET c == library[d][n].candidates[m]
  IN [value |-> IF r = 0 THEN c.value
                ELSE SubSeq(c.value, 1, Len(c.value) - Len(Conjugations[r].dict))
                       \o Conjugations[r].conj,
      priority |-> c.priority, data |-> <<d, n, m>>]

\* How often a suggestion is due: an input that is a dictionary form too may
\* find the same candidate in two ways.
Times(s) ==
  LET d == s.data[1]  n == s.data[2]  m == s.data[3] IN
  Cardinality({r \in 0 .. Len(Conjugations) : IsWord(d, n, m, r) /\ Word(d, n, m, r) = s})

\* The user is offered every word the input may stand for, in every form, and
\* no other: whatever nodes the words share in the tries, whatever other
\* conjugations match, and in whichever dictionary they are ("we query all
\* conjugations and return all results", aide.c:315).
OffersEveryWord ==
  phase = "done" =>
    /\ \A d \in DOMAIN library : \A n \in DOMAIN library[d] :
         \A m \in DOMAIN library[d][n].candidates : \A r \in 0 .. Len(Conjugations) :
           IsWord(d, n, m, r) => Contains(suggestions, Word(d, n, m, r))
    /\ \A k \in DOMAIN suggestions :
         Cardinality({j \in DOMAIN suggestions : suggestions[j] = suggestions[k]})
           = Times(suggestions[k])

\* Differences of priorities that fit into an int.
Comparable(a, b) == -IntRange <= 2 * (a - b) /\ 2 * (a - b) < IntRange

\* The key under which a suggestion was found.
Headword(s) == library[s.data[1]][s.data[2]].key

\* Both are in the same dictionary, the input begins the key of the second
\* one, and the first one's continues that.
Continues(first, second) ==
  /\ first.data[1] = second.data[1]
  /\ IsPrefix(key, Headword(second))
  /\ IsStrictPrefix(Headword(second), Headword(first))

\* "parray will be used to order suggestions presented to the user": by
\* priority, and of two words with the same priority that the input begins,
\* the one that the other continues comes first.  Priorities so far apart that
\* their difference overflows are excepted.
BestFirst ==
  (\A j, k \in DOMAIN parray : Comparable(parray[j].priority, parray[k].priority)) =>
    \A k \in DOMAIN parray : \A j \in 1 .. k - 1 :
      \/ parray[j].priority > parray[k].priority
      \/ parray[j].priority = parray[k].priority /\ ~Continues(parray[j], parray[k])

=============================================================================
