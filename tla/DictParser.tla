----------------------------- MODULE DictParser -----------------------------
(***************************************************************************)
(* Loading a dictionary file (dictparser.c): a recursive descent over the  *)
(* tokens of the lexer, with one token of lookahead, and the conversion of *)
(* the parsed entries into a dictionary (dict.c).                          *)
(*                                                                         *)
(* The calls of the descent are a stack of frames and every step takes one *)
(* function from one call, or return, to the next.  A file is the sequence *)
(* of the tokens Lexer makes of it; an "error" stands for a place where it *)
(* makes none.  Lists are built newest first, as in the code.              *)
(***************************************************************************)
EXTENDS Integers, SequencesExt

CONSTANTS
  File,   \* the files that may be loaded, sequences of tokens
  Tree,   \* lists of entries, of which none is the value of a property
  Levels  \* bound: no file has as many tokens, and no text as many levels

Punctuation == {"lbrace", "rbrace", "lbracket", "rbracket", "equals", "comma"}

\* What Lexer makes; "blank" stands for whitespace, line ends and comments.  The
\* text matters of numbers, strings and identifiers only.
LexerToken ==
  [type : Punctuation \union {"blank", "error"}, text : {""}]
    \union [type : {"integer", "string", "identifier"}, text : STRING]

ASSUME FileAssumption ==
  /\ File \subseteq Seq(LexerToken)
  /\ Levels \in Nat
  /\ \A tokens \in File : Len(tokens) < Levels

VARIABLES
  file,        \* the tokens of the file
  lexer,       \* how many were made, and lexer->next_token
  stack,       \* the functions being called
  result,      \* what the last call returned, Pending after a new call
  entry_list,  \* parser->entry_list
  next,        \* where dict_parser_get_dict is in entry_list
  dict,        \* the entries added to the dictionary
  err,         \* its err
  phase        \* what is being done, or how it ended

parseVars == <<lexer, stack, result>>
vars == <<file, parseVars, entry_list, next, dict, err, phase>>

Token(type, text) == [type |-> type, text |-> text]
NoToken == Token("none", "")

\* A parse tree: an entry has its properties below it, a property its value.
Node(kind, text, sub) == [kind |-> kind, text |-> text, sub |-> sub]
Absent == Node("absent", "", <<>>)

ListKinds == {"entry_list", "property_list", "string_list", "integer_list"}

Pending == [is |-> "pending", tree |-> Absent]
Failed == [is |-> "failed", tree |-> Absent]
Parsed(tree) == [is |-> "parsed", tree |-> tree]

\* A call of the function "rule"; "got" is what it has put together so far.
Frame(rule) == [rule |-> rule, got |-> <<>>]

Init ==
  /\ file \in File
  /\ lexer = [made |-> 0, next_token |-> NoToken]
  /\ stack = <<Frame("entry_list")>>
  /\ result = Pending
  /\ entry_list = <<>>
  /\ next = 1
  /\ dict = <<>>
  /\ err = FALSE
  /\ phase = "parse"

-----------------------------------------------------------------------------
(* The lookahead (the end of token.c) *)

\* _get_next_relevant_token: blanks are skipped; an error gives no token, and
\* the next request goes on behind it.
Relevant(l) ==
  LET tried == SelectInSubSeq(file, l.made + 1, Len(file), LAMBDA t : t.type # "blank")
  IN IF tried = 0 THEN [l EXCEPT !.made = Len(file)]
     ELSE IF file[tried].type = "error" THEN [l EXCEPT !.made = tried]
     ELSE [made |-> tried, next_token |-> file[tried]]

\* A mutant: every request makes a token of its own.
Look_Again(l) == Relevant(l)

Look(l) == IF l.next_token = NoToken THEN Relevant(l) ELSE l

\* lexer_next_token_type
NextType(l) == Look(l).next_token.type

\* lexer_get_token: a token of another type stays where it is.
Has(l, type) == NextType(l) = type

Take(l) == [Look(l) EXCEPT !.next_token = NoToken]

-----------------------------------------------------------------------------
(* Calls and returns *)

Top == Last(stack)

\* The function "rule" is running: it was called, or what it called returned.
In(rule) == phase = "parse" /\ stack # <<>> /\ Top.rule = rule

Call(rule, got, l) ==
  /\ stack' = Front(stack) \o <<[Top EXCEPT !.got = got], Frame(rule)>>
  /\ result' = Pending
  /\ lexer' = l
  /\ UNCHANGED <<file, entry_list, next, dict, err, phase>>

Return(r, l) ==
  /\ stack' = Front(stack)
  /\ result' = r
  /\ lexer' = l
  /\ UNCHANGED <<file, entry_list, next, dict, err, phase>>

\* The value of a call is that of the last thing it called.
Pass == Return(result, lexer)

-----------------------------------------------------------------------------
(* The descent *)

\* A mutant: the elements are kept in the order of the text.
List_Forward(list, element) ==
  /\ In(list)
  /\ CASE result = Pending -> Call(element, Top.got, lexer)
       [] result = Failed -> Pass
       [] OTHER ->
            LET got == Append(Top.got, result.tree) IN
            IF Has(lexer, "comma") THEN Call(element, got, Take(lexer))
            ELSE Return(Parsed(Node(list, "", got)), Look(lexer))

\* Elements with commas between them; one that fails takes all with it.
List(list, element) ==
  /\ In(list)
  /\ CASE result = Pending -> Call(element, Top.got, lexer)
       [] result = Failed -> Pass
       [] OTHER ->
            LET got == <<result.tree>> \o Top.got IN
            IF Has(lexer, "comma") THEN Call(element, got, Take(lexer))
            ELSE Return(Parsed(Node(list, "", got)), Look(lexer))

entry_list_parse == List("entry_list", "entry")

property_list_parse == List("property_list", "property")

\* The same for lists of tokens, which call nothing.
TokenList(list, type) ==
  /\ In(list)
  /\ IF ~Has(lexer, type) THEN Return(Failed, Look(lexer))
     ELSE LET got == <<Node(type, Look(lexer).next_token.text, <<>>)>> \o Top.got
              behind == Take(lexer)
          IN IF Has(behind, "comma")
             THEN /\ stack' = Append(Front(stack), [Top EXCEPT !.got = got])
                  /\ lexer' = Take(behind)
                  /\ UNCHANGED <<file, result, entry_list, next, dict, err, phase>>
             ELSE Return(Parsed(Node(list, "", got)), Look(behind))

string_list_parse == TokenList("string_list", "string")

integer_list_parse == TokenList("integer_list", "integer")

\* A mutant: what stands in the place of the closing brace is dropped.
entry_parse_Swallows ==
  /\ In("entry")
  /\ CASE result = Pending ->
            IF Has(lexer, "lbrace") THEN Call("property_list", <<>>, Take(lexer))
            ELSE Return(Failed, Look(lexer))
       [] result = Failed -> Pass
       [] OTHER -> Return(Parsed(Node("entry", "", result.tree.sub)), Take(lexer))

\* err is 0 once the properties are parsed, with the closing brace or without.
entry_parse ==
  /\ In("entry")
  /\ CASE result = Pending ->
            IF Has(lexer, "lbrace") THEN Call("property_list", <<>>, Take(lexer))
            ELSE Return(Failed, Look(lexer))
       [] result = Failed -> Pass
       [] OTHER -> Return(Parsed(Node("entry", "", result.tree.sub)),
                          IF Has(lexer, "rbrace") THEN Take(lexer) ELSE Look(lexer))

property_parse ==
  /\ In("property")
  /\ CASE result = Pending ->
            LET name == Node("name", Look(lexer).next_token.text, <<>>)
                behind == Take(lexer)
            IN IF ~Has(lexer, "identifier") THEN Return(Failed, Look(lexer))
               ELSE IF Has(behind, "equals") THEN Call("value", <<name>>, Take(behind))
               ELSE Return(Failed, Look(behind))
       [] result = Failed -> Pass
       [] OTHER -> Return(Parsed(Node("property", Top.got[1].text, <<result.tree>>)), lexer)

\* The case of an entry has no break: whatever _entry_parse returned, the
\* default case turns it into an error.
value_parse ==
  /\ In("value")
  /\ CASE result = Pending ->
            LET token == Look(lexer).next_token
            IN CASE token.type \in {"string", "integer"} ->
                      Return(Parsed(Node(token.type, token.text, <<>>)), Take(lexer))
                 [] token.type = "lbracket" -> Call("array", <<>>, Look(lexer))
                 [] token.type = "lbrace" -> Call("entry", <<>>, Look(lexer))
                 [] OTHER -> Return(Failed, Look(lexer))
       [] result.tree.kind \in ListKinds -> Pass
       [] OTHER -> Return(Failed, lexer)

ListOf == [string |-> "string_list", integer |-> "integer_list", lbrace |-> "entry_list"]

array_parse ==
  /\ In("array")
  /\ LET behind == Take(lexer) IN
     CASE result = Pending ->
            IF NextType(behind) \in DOMAIN ListOf
            THEN Call(ListOf[NextType(behind)], <<>>, Look(behind))
            ELSE Return(Failed, Look(behind))
       [] result = Failed -> Pass
       [] OTHER -> IF Has(lexer, "rbracket") THEN Return(result, Take(lexer))
                   ELSE Return(Failed, Look(lexer))

\* dict_parser_new succeeds whatever _entry_list_parse returned; what follows
\* the list in the file is not looked at.
dict_parser_new ==
  /\ phase = "parse"
  /\ stack = <<>>
  /\ entry_list' = result.tree.sub
  /\ phase' = "get"
  /\ UNCHANGED <<file, parseVars, next, dict, err>>

-----------------------------------------------------------------------------
(* The dictionary *)

\* _get_property: the first one of the list, the last one in the file.
Property(e, name) ==
  LET i == SelectInSeq(e.sub, LAMBDA p : p.text = name)
  IN IF i = 0 THEN Absent ELSE e.sub[i].sub[1]

EntryTypes == [priority |-> "integer", key |-> "string"]
CandidateTypes == [priority |-> "integer", type |-> "integer", value |-> "string"]

\* _get_value writes what it finds, whatever type the caller expects.
Misread(e, types) ==
  \E name \in DOMAIN types : Property(e, name).kind \notin {types[name], "absent"}

Complete(e) ==
  /\ Property(e, "key") # Absent
  /\ Property(e, "candidates") # Absent

\* An assertion fails (an array of something else than entries), or a number
\* is used as a pointer: nothing is said of what follows.  The candidates of
\* an entry without a key are not read.  A number beyond a long, for which
\* _get_integer returns an error and the property counts as missing, is a
\* number like any other here: as a key it is astray, where the code skips the
\* entry.
GoesAstray(e) ==
  \/ Misread(e, EntryTypes)
  \/ /\ Complete(e)
     /\ \/ Property(e, "candidates").kind # "entry_list"
        \/ \E c \in ToSet(Property(e, "candidates").sub) : Misread(c, CandidateTypes)

\* _get_dict_candidates leaves a hole for a candidate without a value, and
\* _get_dict_entry counts the candidates in front of the first hole.
Candidates(e) ==
  LET list == Property(e, "candidates").sub
      hole == SelectInSeq(list, LAMBDA c : Property(c, "value") = Absent)
      seen == IF hole = 0 THEN list ELSE SubSeq(list, 1, hole - 1)
  IN [i \in 1..Len(seen) |-> Property(seen[i], "value").text]

Added(e) == [key |-> Property(e, "key").text, candidates |-> Candidates(e)]

\* Mutants: an entry that is left out is tried again; one that is left out
\* spoils the dictionary even if others follow.
get_dict_entry_Again ==
  /\ phase = "get"
  /\ next <= Len(entry_list)
  /\ LET e == entry_list[next] IN
     /\ phase' = IF GoesAstray(e) THEN "astray" ELSE phase
     /\ dict' = IF Complete(e) /\ ~GoesAstray(e) THEN Append(dict, Added(e)) ELSE dict
     /\ err' = ~Complete(e)
     /\ next' = IF Complete(e) THEN next + 1 ELSE next
  /\ UNCHANGED <<file, parseVars, entry_list>>

get_dict_entry_Spoils ==
  /\ phase = "get"
  /\ next <= Len(entry_list)
  /\ LET e == entry_list[next] IN
     /\ phase' = IF GoesAstray(e) THEN "astray" ELSE phase
     /\ dict' = IF Complete(e) /\ ~GoesAstray(e) THEN Append(dict, Added(e)) ELSE dict
     /\ err' = (err \/ ~Complete(e))
     /\ next' = next + 1
  /\ UNCHANGED <<file, parseVars, entry_list>>

\* One round of the loop of dict_parser_get_dict; err is that of the last one.
get_dict_entry ==
  /\ phase = "get"
  /\ next <= Len(entry_list)
  /\ LET e == entry_list[next] IN
     /\ phase' = IF GoesAstray(e) THEN "astray" ELSE phase
     /\ dict' = IF Complete(e) /\ ~GoesAstray(e) THEN Append(dict, Added(e)) ELSE dict
     /\ err' = ~Complete(e)
     /\ next' = next + 1
  /\ UNCHANGED <<file, parseVars, entry_list>>

get_dict_ends ==
  /\ phase = "get"
  /\ next > Len(entry_list)
  /\ phase' = IF err THEN "discarded" ELSE "loaded"
  /\ UNCHANGED <<file, parseVars, entry_list, next, dict, err>>

Next ==
  \/ entry_list_parse
  \/ property_list_parse
  \/ string_list_parse
  \/ integer_list_parse
  \/ entry_parse
  \/ property_parse
  \/ value_parse
  \/ array_parse
  \/ dict_parser_new
  \/ get_dict_entry
  \/ get_dict_ends

\* The loader is a sequential program that nothing blocks.
Spec == Init /\ [][Next]_vars /\ WF_vars(Next)

-----------------------------------------------------------------------------
(* Properties *)

Ended == {"loaded", "discarded", "astray"}

Leaf(type) == Node(type, "", <<>>)

\* In the order of the text, with commas between.
Separated(list) ==
  [n \in 1 .. 2 * Len(list) - 1 |->
     IF n % 2 = 0 THEN Leaf("comma") ELSE list[Len(list) - n \div 2]]

\* What the text of a node consists of; the node of a token is its text.
Parts(node) ==
  CASE node.kind \in ListKinds -> Separated(node.sub)
    [] node.kind = "entry" -> <<Leaf("lbrace")>> \o Separated(node.sub) \o <<Leaf("rbrace")>>
    [] node.kind = "property" ->
         <<Node("identifier", node.text, <<>>), Leaf("equals")>> \o
         (IF node.sub[1].kind \in ListKinds
          THEN <<Leaf("lbracket"), node.sub[1], Leaf("rbracket")>> ELSE node.sub)
    [] OTHER -> <<node>>

\* Nodes written down, level by level.
PartsOf(nodes) == FlattenSeq([k \in DOMAIN nodes |-> Parts(nodes[k])])

Written(nodes, levels) ==
  LET write[n \in Nat] == IF n = 0 THEN nodes ELSE PartsOf(write[n - 1])
  IN write[levels]

Tokens(nodes) == [n \in DOMAIN nodes |-> Token(nodes[n].kind, nodes[n].text)]

\* The tokens of a list of entries.
Text(list) == Tokens(Written(<<Node("entry_list", "", list)>>, Levels))

Without(types, tokens) ==
  FlattenSeq([n \in DOMAIN tokens |-> IF tokens[n].type \in types THEN <<>> ELSE <<tokens[n]>>])

\* What was parsed, written down again, is what was consumed: whatever is
\* wrong with the file, no token between its beginning and the lookahead is
\* invented, dropped or used twice (lexer_get_token and every _parse
\* function).  Only a closing brace may be missing (_entry_parse).
RoundTrip ==
  phase = "get" /\ entry_list # <<>> =>
    LET consumed == Without({"blank", "error"}, SubSeq(file, 1, lexer.made)) IN
    Without({"rbrace"}, Text(entry_list) \o
              (IF lexer.next_token = NoToken THEN <<>> ELSE <<lexer.next_token>>))
      = Without({"rbrace"}, consumed)

\* A file that is the text of a list of entries, blanks aside, is parsed as
\* that list: no token of the lookahead is lost, no list ends too early
\* (_entry_list_parse and all it calls).
WellFormedParses ==
  phase = "get" /\ next = 1 =>
    \A tree \in Tree : Without({"blank"}, file) = Text(tree) => entry_list = tree

Place(text) == SelectInSeq(file, LAMBDA t : t.type = "string" /\ t.text = text)

Places(entry) == {Place(entry.key)} \union {Place(c) : c \in ToSet(entry.candidates)}

\* Every key and every candidate stands in the file, those of one entry apart
\* from those of the others, and everything in the reverse order of the text:
\* no candidate ends up with the key of a neighbour, however damaged the file
\* is (_property_list_parse, _get_property, _get_dict_candidates).
EntriesStayApart ==
  \A i \in 1..Len(dict) :
    /\ 0 \notin Places(dict[i])
    /\ \A k, l \in 1..Len(dict[i].candidates) :
         k < l => Place(dict[i].candidates[k]) > Place(dict[i].candidates[l])
    /\ \A j \in i + 1..Len(dict) :
         \A p \in Places(dict[i]), q \in Places(dict[j]) : p > q

\* An entry without a key or candidates is left out and the others are loaded,
\* unless it is the first one of the file: then all of them are discarded
\* (err of dict_parser_get_dict).
OnlyFirstEntryDiscards ==
  phase \in {"loaded", "discarded"} =>
    /\ phase = "discarded" <=> entry_list # <<>> /\ ~Complete(Last(entry_list))
    /\ Len(dict) = Cardinality({n \in DOMAIN entry_list : Complete(entry_list[n])})

\* Loading comes to an end with every file, whatever is wrong with it.
LoadingEnds == <>(phase \in Ended)

=============================================================================
