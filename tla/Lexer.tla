------------------------------- MODULE Lexer -------------------------------
(***************************************************************************)
(* The lexer of dictionary files (token.c).  It cuts a file into tokens     *)
(* one character at a time; characters come out of a buffer that read()    *)
(* refills when it is used up, and a character that turns out to belong to *)
(* the next token is put back by moving the offset one step to the left.   *)
(*                                                                         *)
(* A character is its class.  The caller is the most general one: it asks  *)
(* for the next token until the file ends, whether the last one was good   *)
(* or not (the parser does go on after a token it did not get).            *)
(***************************************************************************)
EXTENDS Naturals, Sequences

CONSTANTS
  Text,       \* the files that may be read, sequences of characters
  BufferSize  \* LEXER_BUFFER_SIZE

ASSUME BufferAssumption == BufferSize \in Nat \ {0}

\* "mark" stands for the six characters { } [ ] = and the comma, "other" for
\* what the language has no use for outside strings and comments.
Character == {"letter", "digit", "quote", "backslash", "hash", "blank",
              "newline", "sign", "mark", "other", "nul"}

Kind == {"mark", "newline", "eof", "string", "integer", "comment",
         "whitespace", "identifier", "error"}

ASSUME TextAssumption == Text \subseteq Seq(Character)

VARIABLES
  text,    \* the file
  reader,  \* lexer->buffer, and how much of the file was read into it
  mode,    \* the function that gets the next character, or how it all ended
  lexeme,  \* lexer->lexeme
  first,   \* where the token began (tok->line and tok->col)
  tokens   \* the tokens made so far; a failed attempt is an "error"

vars == <<text, reader, mode, lexeme, first, tokens>>

Ended == {"end", "closed", "aborted"}

Init ==
  /\ text \in Text
  /\ reader = [data |-> <<>>, offset |-> 0, taken |-> 0]
  /\ mode = "token"
  /\ lexeme = <<>>
  /\ first = 1
  /\ tokens = <<>>

-----------------------------------------------------------------------------
(* Characters *)

\* How many characters the lexer has consumed.
Consumed(r) == r.taken - Len(r.data) + r.offset

\* A mutant: the buffer is refilled while its last character is still to be read.
UsedUp_Early(r) == r.offset + 1 >= Len(r.data)

UsedUp(r) == r.offset >= Len(r.data)

\* read() returns any part of what is left that fits, nothing at the end.
Filled(r) ==
  LET left == Len(text) - r.taken
      most == IF left < BufferSize THEN left ELSE BufferSize
  IN {[data |-> SubSeq(text, r.taken + 1, r.taken + n),
       offset |-> 0, taken |-> r.taken + n] : n \in (IF left = 0 THEN {0} ELSE 1..most)}

\* What _lexer_get_char may return, and what becomes of the buffer.
GetChar(r) ==
  {IF b.data = <<>> THEN [char |-> "nul", reader |-> b]
   ELSE [char |-> b.data[b.offset + 1], reader |-> [b EXCEPT !.offset = @ + 1]] :
     b \in IF UsedUp(r) THEN Filled(r) ELSE {r}}

\* A mutant: a character is put back although the end of the file gave none.
Backstep_Unguarded(r) == [r EXCEPT !.offset = @ - 1]

Backstep(r) == IF r.offset > 0 THEN [r EXCEPT !.offset = @ - 1] ELSE r

-----------------------------------------------------------------------------
(* The end of a token *)

Token(kind, chars, r) ==
  [kind |-> kind, lexeme |-> chars, first |-> first, last |-> Consumed(r)]

\* The caller has its answer and asks for the next token.
Answer(kind, chars, r, next) ==
  /\ tokens' = Append(tokens, Token(kind, chars, r))
  /\ reader' = r
  /\ mode' = next
  /\ lexeme' = <<>>
  /\ first' = Consumed(r) + 1

Fail(r) == Answer("error", <<>>, r, "token")

\* A lexeme is handed out after assert(err != 0): it must not be empty.
Emit(kind, r) ==
  IF lexeme # <<>> THEN Answer(kind, lexeme, r, "token")
  ELSE /\ mode' = "aborted"
       /\ reader' = r
       /\ UNCHANGED <<lexeme, first, tokens>>

\* The scanning function "m" goes on with some more characters in the lexeme.
Continue(m, chars, r) ==
  /\ mode' = m
  /\ lexeme' = lexeme \o chars
  /\ reader' = r
  /\ UNCHANGED <<first, tokens>>

-----------------------------------------------------------------------------
(* The functions that get characters *)

Starts ==
  [digit |-> "integer", sign |-> "prefixed", hash |-> "comment",
   blank |-> "whitespace", letter |-> "identifier"]

get_next_token ==
  /\ mode = "token"
  /\ \E g \in GetChar(reader) :
       \/ /\ g.char \in {"mark", "newline"}
          /\ Answer(g.char, <<g.char>>, g.reader, "token")
       \/ /\ g.char = "nul"
          /\ Answer("eof", <<>>, g.reader, IF g.reader.data = <<>> THEN "end" ELSE "token")
       \/ g.char = "quote" /\ Continue("string", <<>>, g.reader)
       \/ g.char \in DOMAIN Starts /\ Continue(Starts[g.char], <<g.char>>, g.reader)
       \/ g.char \in {"backslash", "other"} /\ Fail(g.reader)
  /\ UNCHANGED text

get_string ==
  /\ mode = "string"
  /\ \E g \in GetChar(reader) :
       CASE g.char = "nul" -> Fail(g.reader)
         [] g.char = "backslash" -> Continue("escape", <<>>, g.reader)
         [] g.char = "quote" -> Emit("string", g.reader)
         [] OTHER -> Continue("string", <<g.char>>, g.reader)
  /\ UNCHANGED text

\* A mutant: an escaped quote keeps its backslash.
get_string_escape_Kept ==
  /\ mode = "escape"
  /\ \E g \in GetChar(reader) :
       IF g.char = "nul" THEN Fail(g.reader)
       ELSE Continue("string", <<"backslash", g.char>>, g.reader)
  /\ UNCHANGED text

get_string_escape ==
  /\ mode = "escape"
  /\ \E g \in GetChar(reader) :
       CASE g.char = "nul" -> Fail(g.reader)
         [] g.char = "quote" -> Continue("string", <<"quote">>, g.reader)
         [] OTHER -> Continue("string", <<"backslash", g.char>>, g.reader)
  /\ UNCHANGED text

\* Takes characters of a class; the first other one is left to the next token.
ScanWhile(m, class) ==
  /\ mode = m
  /\ \E g \in GetChar(reader) :
       IF g.char \in class THEN Continue(m, <<g.char>>, g.reader)
       ELSE Emit(m, Backstep(g.reader))
  /\ UNCHANGED text

get_integer == ScanWhile("integer", {"digit"})

get_whitespace == ScanWhile("whitespace", {"blank"})

get_identifier == ScanWhile("identifier", {"letter", "digit"})

\* The character after a sign is consumed even when it is not a digit.
get_prefixed_integer ==
  /\ mode = "prefixed"
  /\ \E g \in GetChar(reader) :
       IF g.char = "digit" THEN Continue("integer", <<g.char>>, g.reader)
       ELSE Fail(g.reader)
  /\ UNCHANGED text

\* A mutant: a comment goes on at the end of the file.
get_comment_Endless ==
  /\ mode = "comment"
  /\ \E g \in GetChar(reader) :
       CASE g.char = "newline" -> Emit("comment", Backstep(g.reader))
         [] g.char = "nul" -> Continue("comment", <<>>, g.reader)
         [] OTHER -> Continue("comment", <<g.char>>, g.reader)
  /\ UNCHANGED text

\* Appending "nothing" counts as an error, so that the end of the file ends a
\* comment without a token.
get_comment ==
  /\ mode = "comment"
  /\ \E g \in GetChar(reader) :
       CASE g.char = "newline" -> Emit("comment", Backstep(g.reader))
         [] g.char = "nul" -> Fail(g.reader)
         [] OTHER -> Continue("comment", <<g.char>>, g.reader)
  /\ UNCHANGED text

\* read() fails: the file is closed and no token comes out of it any more.
read_fails ==
  /\ mode \notin Ended
  /\ UsedUp(reader)
  /\ Answer("error", <<>>, reader, "closed")
  /\ UNCHANGED text

Scan ==
  \/ get_next_token
  \/ get_string
  \/ get_string_escape
  \/ get_integer
  \/ get_prefixed_integer
  \/ get_comment
  \/ get_whitespace
  \/ get_identifier

Next == Scan \/ read_fails

\* The lexer runs whenever its caller waits for it; reads need never fail.
Spec == Init /\ [][Next]_vars /\ WF_vars(Scan)

-----------------------------------------------------------------------------
(* Properties *)

\* Every variable keeps its type.
TypeOK ==
  /\ text \in Text
  /\ reader.taken \in 0..Len(text)
  /\ Len(reader.data) <= BufferSize
  /\ reader.offset \in 0..Len(reader.data)
  /\ reader.data = SubSeq(text, reader.taken - Len(reader.data) + 1, reader.taken)
  /\ mode \in {"token", "string", "escape", "integer", "prefixed", "comment",
               "whitespace", "identifier"} \union Ended
  /\ lexeme \in Seq(Character)
  /\ first \in 1..Len(text) + 1
  /\ \A i \in 1..Len(tokens) : tokens[i].kind \in Kind

Span(t) == SubSeq(text, t.first, t.last)

After(t) == IF t.last < Len(text) THEN text[t.last + 1] ELSE "nul"

\* The whole span is of the class, and the character after it is not.
Longest(t, class) ==
  /\ \A i \in t.first..t.last : text[i] \in class
  /\ After(t) \notin class

\* What stands between the quotes of a string, without the backslashes that
\* escape a quote.
Unquoted(t) ==
  LET escapes(i) == text[i] = "backslash" /\ i + 1 < t.last /\ text[i + 1] = "quote"
      pick[i \in t.first..t.last - 1] ==
        IF i = t.first THEN <<>>
        ELSE IF escapes(i) THEN pick[i - 1] ELSE Append(pick[i - 1], text[i])
  IN pick[t.last - 1]

\* The quote at i closes the string that began at f: the backslashes directly
\* before it, if any, pair up.
Closes(f, i) ==
  /\ i > f
  /\ text[i] = "quote"
  /\ \E k \in f..i - 1 :
       /\ text[k] # "backslash"
       /\ \A j \in k + 1..i - 1 : text[j] = "backslash"
       /\ (i - 1 - k) % 2 = 0

LongestMatch(t) ==
  CASE t.kind \in {"mark", "newline"} -> Span(t) = <<t.kind>> /\ t.lexeme = Span(t)
    [] t.kind = "whitespace" -> Longest(t, {"blank"}) /\ t.lexeme = Span(t)
    [] t.kind = "identifier" ->
         /\ text[t.first] = "letter"
         /\ Longest(t, {"letter", "digit"})
         /\ t.lexeme = Span(t)
    [] t.kind = "integer" ->
         /\ text[t.first] \in {"sign", "digit"}
         /\ Longest([t EXCEPT !.first = @ + 1], {"digit"})
         /\ t.lexeme = Span(t)
    [] t.kind = "comment" ->
         /\ text[t.first] = "hash"
         /\ Longest(t, Character \ {"newline", "nul"})
         /\ After(t) = "newline"
         /\ t.lexeme = Span(t)
    [] t.kind = "string" ->
         /\ text[t.first] = "quote"
         /\ Closes(t.first, t.last)
         /\ \A k \in t.first + 1..t.last - 1 : ~Closes(t.first, k)
         /\ t.lexeme = Unquoted(t)
    [] OTHER -> t.kind \in {"eof", "error"}

\* A token is the longest piece of the file that has its form, and its lexeme
\* is that piece, for a string what it stands for: both follow from the text
\* alone, not from the sizes of the reads or from what was put back
\* (_lexer_get_char, _lexer_backstep, _get_next_token and those it calls).
TokensAreLongestMatches == \A i \in 1..Len(tokens) : LongestMatch(tokens[i])

\* The span goes on to a "nul" character or to the end of the file.
RunsOut(t) == text[t.last] = "nul" \/ t.last = Len(text)

Begin(t) == IF t.first <= t.last THEN text[t.first] ELSE "nul"

\* There is no token from t.first on, and nothing that may begin one was
\* consumed but the character after a sign.
NoToken(t) ==
  LET size == t.last + 1 - t.first IN
  \/ Begin(t) \in {"backslash", "other"} /\ size = 1
  \/ Begin(t) = "sign" /\ After([t EXCEPT !.last = t.first]) # "digit" /\ size <= 2
  \/ /\ Begin(t) = "quote" /\ RunsOut(t)
     /\ \A k \in t.first + 1..t.last : ~Closes(t.first, k)
  \/ /\ Begin(t) = "hash" /\ RunsOut(t)
     /\ \A k \in t.first..t.last : text[k] # "newline"

EndOfFile(t) ==
  Begin(t) = "nul" /\ t.last + 1 - t.first = (IF t.first <= Len(text) THEN 1 ELSE 0)

\* Where no token came out none was to be had: a character that begins none, a
\* sign without a digit, a string or a comment that is not finished, or the
\* end.  After the error the lexer goes on with the next character; no token
\* that is there is skipped (the failures of _get_next_token).
ErrorSpans ==
  \A i \in 1..Len(tokens) :
    LET t == tokens[i] IN
    /\ t.first = (IF i = 1 THEN 1 ELSE tokens[i - 1].last + 1)
    /\ t.kind = "eof" => EndOfFile(t)
    /\ t.kind = "error" /\ ~(mode = "closed" /\ i = Len(tokens)) => NoToken(t)

\* "err really should not be zero": of the five assertions on the length of a
\* lexeme only the one in _lexer_get_string can fail, on an empty string.
OnlyEmptyStringAborts ==
  mode = "aborted" => SubSeq(text, first, Consumed(reader)) = <<"quote", "quote">>

\* Where no token came out none was to be had, and where the process dies an
\* empty string was met: the failures of _get_next_token and of the assertions.
ErrorsAreDeserved == ErrorSpans /\ OnlyEmptyStringAborts

\* Every file is read to its end, to the first failed read or to a failed
\* assertion: no character, not even a wrong one, is met over and over.
FileIsFinished == <>(mode \in Ended)

=============================================================================
