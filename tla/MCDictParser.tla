---------------------------- MODULE MCDictParser ----------------------------
(* Small dictionaries and what one edit or a lost end makes of them.  The    *)
(* texts of the strings differ, so that they tell where they come from.      *)
EXTENDS DictParser

CONSTANT Slip  \* bound: the types of the tokens an edit may put in

Value(kind, text) == Node(kind, text, <<>>)
Prop(name, value) == Node("property", name, <<value>>)
Entry(properties) == Node("entry", "", properties)
ListNode(kind, sub) == Node(kind, "", sub)

Candidate(text) == Entry(<<Prop("value", Value("string", text))>>)
Typed(text) ==
  Entry(<<Prop("value", Value("string", text)), Prop("type", Value("integer", "1"))>>)
Hole == Entry(<<Prop("type", Value("integer", "2"))>>)

Key(text) == Prop("key", Value("string", text))
Candidates_(list) == Prop("candidates", ListNode("entry_list", list))
Word(key, list) == Entry(<<Candidates_(list), Key(key)>>)

\* Newest first, as the parser builds its lists.
MCTree ==
  { <<Word("k1", <<Typed("c1")>>)>>,
    <<Word("k2", <<Candidate("c2")>>), Word("k1", <<Candidate("c1")>>)>>,
    <<Word("k1", <<Candidate("c3"), Hole, Candidate("c1")>>)>>,
    <<Word("k2", <<Candidate("c2")>>), Entry(<<Key("k1")>>)>>,
    <<Entry(<<Candidates_(<<Candidate("c2")>>)>>), Word("k1", <<Candidate("c1")>>)>>,
    <<Entry(<<Key("k3"), Candidates_(<<Candidate("c2"), Candidate("c1")>>), Key("k1")>>)>>,
    <<Entry(<<Prop("priority", ListNode("integer_list",
                <<Value("integer", "2"), Value("integer", "1")>>)), Key("k1")>>)>>,
    <<Entry(<<Prop("candidates", ListNode("string_list",
                <<Value("string", "c2"), Value("string", "c1")>>)), Key("k1")>>)>> }

\* An entry as a value, which the parser never takes.
Nested == <<Entry(<<Key("k2"), Prop("value", Candidate("c1"))>>)>>

Slips == {Token(type, IF type = "identifier" THEN "key" ELSE "") : type \in Slip}

Edits(text) ==
  {text}
    \union {SubSeq(text, 1, n) : n \in 0..Len(text)}
    \union {RemoveAt(text, i) : i \in 1..Len(text)}
    \union {ReplaceAt(text, i, t) : i \in 1..Len(text), t \in Slips}
    \union {InsertAt(text, i, t) : i \in 1..Len(text) + 1, t \in Slips}

MCFile == UNION {Edits(text) : text \in {Text(tree) : tree \in MCTree \union {Nested}}}

=============================================================================
