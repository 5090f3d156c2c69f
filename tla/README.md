# Mxim in TLA+

Mxim is an X input method server for Japanese and Korean.  Applications
connect to it over TCP and speak XIM; every key event they forward is either
consumed by the input method, which edits a *preedit* (text not yet committed)
and offers candidates from dictionaries, or returned to the application.

This directory holds TLA+ modules that model the program, TLC configurations
that check them on small instances, and theorems that TLAPS proves for all
instances.  `PROJECT.json` lists the runs, the source lines each definition
stands for, the hazards of the code with the properties that watch them, the
disagreements found and the theorems.  Paths below are relative to `src/src/`.

## Inventory

| Part | Files | State | Operations |
|---|---|---|---|
| Segments | `segment.c` | array of input characters and how many are used, candidates, selection | insert, erase, clear, grow, select, move and replace candidates |
| Preedit | `preedit.c` | list of segments, cursor | move, insert, erase, insert/remove/move segment, clear, output |
| Input contexts | `inputcontext.c` | one preedit, language, attributes | one per editing command, commit, redraw |
| Input method | `inputmethod.c`, `jkim.c`, `config.c` | the flag `active`, shared by all contexts of all clients | key event → command or character |
| Client session | `ximclient.c` | receive buffer, table of methods, table of contexts | one handler per request type |
| Message codec | `ximproto.c`, `ximtypes.c` | none | one decoder per type, encoders of replies |
| Server loop | `ximserver.c`, `fd.c`, `in4.c` | epoll set, connections | accept, read, notify, free |
| Dictionary lexer | `token.c` | read buffer with backstep, lexeme, one token of lookahead | one scanning function per kind of token |
| Dictionary parser | `dictparser.c`, `dict.c` | parse tree, entries | recursive descent, conversion to a dictionary |
| Suggestions | `aide.c`, `trie.c`, `parray.c`, `conjugation.c`, `suggestion.c` | a trie of entries per dictionary, a trie of conjugated endings, priority array | fill, unconjugate, look up, order |
| Characters | `char.c`, `hangul.c`, `japanese.c` | tables; while a text is converted, the state of an automaton | combine, convert to UTF-8, compose Hangul, find conjugated endings |
| X side | `xhandler.c`, `keysym.c` | display connection | selection requests, window property |
| Start-up | `main.c`, `thread.c` | one server thread | start; stop is never reached |

How they interact.  `main` starts one thread (`_xim_server_run`) and then
answers X selection requests for ever.  The thread waits with epoll; a
connection's callback reads into the client's buffer, decodes as many messages
as are complete, and calls the handler of each.  The handler of
`XIM_FORWARD_EVENT` calls `input_method_handle_key`, which changes the context's
preedit and redraws it, and sends `XIM_COMMIT` from within; the handler then
returns the key if it was refused and ends with the sync reply.  To refresh the
candidates of the segment under the cursor, `preedit_update_candidates` hands the
array of its input to `aide_suggest`, which finds the conjugations the input may
end with, asks every dictionary for each, and returns what it found by priority;
the suggestions then become candidates.  What a segment contributes to the preedit
is the selected candidate or, if none is, its input put together by
`char_to_utf8` and `hangul_to_utf8`.  Everything
after start-up thus happens in one thread, and the concurrency is that of
clients, the network and the order in which epoll reports them.

What is hard: bytes that arrive in pieces or many messages at once; clients that
disappear while they are served; decoders that each compute by hand how many
bytes they took; a loop of cursor moves over segments that may be empty; the
state of one method shared by all windows; candidates that outlive the edit that
made them stale; an array of characters whose end one function takes from a
counter and another from a terminator; an automaton that gives characters back;
words that share nodes of tries and forms of conjugations; and the return code of an edit, which decides whether the
application acts on the key as well.

## Modules

| Module | Models | Notes |
|---|---|---|
| `Segment` | `segment.c` | a segment is a record; functions of the code are operators that return the new record and the error code |
| `Preedit` | `preedit.c` | extends `Segment`; segments form a sequence, the cursor is (segment, offset) |
| `InputMethod` | `inputmethod.c`, `inputcontext.c`, `jkim.c` | extends `Preedit`; variables and one action per command; states the refinement `InputMethod` ⇒ `LineEditor` |
| `LineEditor` | the promise to the user | abstract: a line of text and a position |
| `MCInputMethod` | instances of `InputMethod` | |
| `SegmentBuffer` | the memory of a segment's input, `segment.c` | cells, how many are used, what enlarging leaves in them |
| `Trie` | `trie.c` | pure: the values of a trie in the order of its walks |
| `Aide` | `aide.c`, `conjugation.c`, `dict.c`, `parray.c`, `japanese.c` | extends `Trie`; fills the dictionaries, then looks an input up |
| `Hangul` | `hangul.c`, `char_to_utf8` | the automaton, one action per case of its `switch` |
| `Kana` | voicing marks and script classes of `char.c` | pure |
| `Word` | one segment from keys to text | composes `SegmentBuffer`, `Aide` and `Hangul` |
| `MCWord` | dictionaries, conjugations and inputs | |
| `XimProto` | `ximproto.c`, `ximtypes.c` | length of each message as sent and as decoded |
| `XimReply` | the encoders of `ximproto.c` and `ximtypes.c` | extends `XimProto`; length of each reply as written and as announced |
| `XimServer` | `ximserver.c`, `fd.c`, `in4.c`, `_xim_client_in` | extends `XimReply`; kernel and peers as environment; the replies that are measured; states the refinement `XimServer` ⇒ `Mailbox` |
| `Mailbox` | the promise to a client | abstract: messages posted and taken, in order |
| `MCXimServer` | instances of `XimServer`: messages, replies, rooms in the buffer | |
| `XimClient` | the handlers of `ximclient.c` | tables, requests and answers in flight, the client library's knowledge |
| `Lexer` | `token.c` | characters are classes; one action per scanning function and character |
| `MCLexer` | the files to read | |
| `DictParser` | `dictparser.c`, the lookahead of `token.c` | the calls are a stack of frames; one action per function, from one call or return to the next |
| `MCDictParser` | the files to load: dictionaries and their single edits | |
| `ListProofs` | lemmas about sequences | induction, joining, order, sequences that list a set |
| `InputMethodProofs` | theorems about editing | what each function of `segment.c` and `preedit.c` keeps and does to the text, then the invariant and one step per action for each property |
| `HangulProofs` | theorems about the automaton | for any text; tables, modes, output |
| `WordProofs` | theorems about the array, the lookup of what is in it, and its conversion | takes those of `HangulProofs` by instance |
| `XimServerProofs` | theorems about decoders, framing and replies | |
| `XimClientProofs` | theorems about sessions | |
| `LexerProofs` | theorems about the lexer | |
| `DictParserProofs` | theorems about the loading of a dictionary | parse trees, what is written of them, one lemma per function of the descent |

How state and actions correspond to the code:

* A NULL candidate array is the empty sequence; a selection is the code's index,
  -1 for none.  `segment_new` selects 0, as calloc leaves it; `segment_clear`
  selects -1.
* `Preedit` counts segments from 1 and offsets from 0.  The loops of
  `preedit_move` end in the nearest segment that has a character; that segment is
  `NextNonEmpty` or `PrevNonEmpty`.
* An action of `InputMethod` is one key event from dispatch to redraw, the
  refresh of the candidates included.  `Edit` is the common end of a command:
  new preedit, and `returned` when the code's result is negative.  Key bindings
  are configuration, so any command may come next; `Keymap` is the language's
  table of characters.
* `SegmentBuffer` is the same input seen as memory: a sequence of `size` cells, of which
  `len` are used.  `segment_insert` and `segment_erase` take any position; enlarging adds
  cells with any content (`Garbage`).  `Keys` is what a function may see that gets the array
  without its length: the cells up to the first `CHAR_INVALID` or, if there is none, all of them and
  what is behind the array (`Behind`).
* A `Trie` is the sequence of its values, each with its key, in the order in which a
  depth-first walk meets them; those of one node are in the order in which they came
  (`trie_add_values` appends).  `Code` gives the number of a character, which is the index of the
  child below a node.
  `Aide` fills one trie per dictionary entry by entry and one with the rows of the table
  of conjugations.  A lookup is then one action for the unconjugation, one per
  conjugation for all dictionaries, and one per suggestion inserted into the array, which
  compares priorities by a subtraction modulo `IntRange`.
* `Hangul` names jamo as `char_t` does.  A case that decrements `i` looks at the same
  character again.  The table of final consonants is read behind its end at one place;
  `Beyond` is what may be there.
* `Word` types one word, with corrections, looks it up and converts it.  The tables of
  characters in `Kana` give `SegmentBuffer` its `Combine`.
* In `XimServer` bytes are counted, not stored: `received` of a connection's bytes
  were read, `base` of those removed from the buffer, and a message is found at
  the front when it starts at `base`.  `need_more_data` and the result of
  `xim_msg_decode` come from `XimProto`.  One action is one turn of the decoding
  loop, one callback, or one `epoll_wait`.
* `XimReply` knows of a reply its type and the lengths of its variable parts, and of the
  buffer the room left in it.  An encoder returns the bytes it says it used, or an error;
  `Announced` is what the header tells the client, whose unit is four bytes.
* The peer is `open`, `closed` (end of stream), `reset` (an error is pending) or
  `dead` (the error was read).  Writing to a peer that is not open may raise
  SIGPIPE; an event with EPOLLHUP touches a freed `fd_t`; both may end the process
  (`crashed`), and so does a buffer length that wraps around.
* In `XimClient` two queues stand for the connection.  Every handler consumes the
  first request and appends its replies.  What the input method does with a key is
  left to `InputMethod`: it consumes the key, commits text or refuses the key,
  never two of these (`ReturnedKeepsText` is checked and proved there).
* `Lexer` has the caller ask for tokens until the file ends, and keeps the tokens
  with the place they came from.  read() returns any number of the characters that are
  left, so a refill can happen in front of every character; a failed read ends
  everything.
* `DictParser` starts from the tokens.  What `Lexer` calls an error is an item that
  gives one request no token and is gone: the next request gets what is behind it.
  Lists are kept newest first, as the code links them, so the dictionary has the
  entries, and an entry the candidates, in reverse order.

## Runs

| Run | Instance | Shows |
|---|---|---|
| `inputs` | 1 context, ≤ 2 characters in ≤ 2 segments, 4 characters of which two combine, suggestion lists that overlap, repeat a value and may be empty | types; candidates are those of the present input; only the user's keys select; line editor |
| `contexts` | 2 contexts with 2 languages, one with up to 3 segments of ≤ 1 character, one with 1; one key without a character in one of the languages | cursor in bounds; arrows move by one character across empty segments; Backspace never fails behind text; returned keys changed nothing; no text lost; one key changes the output of one segment of one context; turning the method off freezes both |
| `words` | inputs of ≤ 3 kana, of any two characters, of ≤ 4 of the jamo that do most; an array of 4 cells that grows by 4 up to 8; 3 sets of dictionaries, 5 conjugations | the array; every word the input may stand for is offered, and no other, the best first; the key begins with the input; text reads back as it was typed and syllables are whole; every lookup ends |
| `framing` | 1 connection, buffer of 16 bytes, six read sizes, three messages of five kinds; replies with texts of ≤ 8 bytes and lists of ≤ 2 elements, in 2 to 64 bytes of room (constant, so computed once) | the buffer begins with a message; messages are taken once and in order; only those who left, or broke the limits, are dropped; every reply but two is as long as its header announces |
| `clients` | 2 connections, one event per `epoll_wait`, two messages each, XIM_DISCONNECT among them | the process dies of no client but the one it serves, and only if that one left or sent XIM_DISCONNECT; every complete message of a client that keeps to the protocol is handled; state of leavers is released, with bytes stuck in the buffer or not |
| `session` | 2 methods, 2 contexts, 2 messages in each direction, 2 key events | tables agree when nothing is in flight; order of output; meaning of the sync reply; reuse of ids; every request answered |
| `lexer` | all files of ≤ 3 characters of 11 classes, of ≤ 5 of the classes of strings and of the other long tokens; a buffer of 2 | tokens are the longest matches and errors occur where there is no token, however the file is read; of five assertions only that of strings can fail; every file is finished |
| `dictionary` | 9 files and what one deleted, replaced or inserted token, or a lost end, makes of them | the tree is what was consumed; well-formed files are parsed as written; strings of an entry stay with it; when a dictionary is discarded; loading ends |
| `disconnect`, `encodings`, `close`, `growth` | the same modules with one message kind, or one state of memory, added | the disagreements below |

Why the bounds are enough.  The cursor's loops compare a segment with its
neighbours, so three segments (one before, one behind, empty or not) show every
case; a segment of two characters has a first, a last and an inner position.
The receive buffer matters through its being empty, partly filled, exactly full
or too small, and messages of 8, 16 and 24 bytes read in pieces of 1 to 13 bytes
reach each of these.  Replies are padded to four bytes, so that
their lengths modulo four decide everything: texts of 0 to 8 bytes pass through
every remainder twice, and lists of two elements have one that follows another.  Two clients and one event per wait make each compete with
the other and with the listening socket.  Tables of two slots have a first, a
last and a free slot behind an occupied one.  A buffer of two characters is refilled
in the middle of every longer token, both where a character is put back and where
not.  An array of four cells
that may double is empty, filled, enlarged and at its limit within four characters;
32 and 32767 stand in the code, and the theorems hold for any sizes.  The dictionaries of
`words` have keys that continue each other, a key given twice, a word in two
dictionaries, equal priorities and some whose difference overflows, a value shorter than
its ending, and an empty dictionary; the five conjugations have an ending that is a prefix of
another, one that two types share, one whose match is longer than the ending, and one with
nothing to put in its place.  The automaton decides by at most one character ahead of a
syllable of at most five jamo, and the inputs contain all pairs and, of the jamo with
double finals and vowels, all words of four.  `Beyond` is {0} in the runs: with gcc the
tables behind `zmap` begin with zeros.
The nine dictionaries of `dictionary` have every kind of value, lists of one to three elements,
an entry without key, one without candidates, a candidate without value, a key
given twice and a nested entry; one edit is enough to put the parser into each of its
error paths.

Fairness.  `XimServer` assumes that the thread runs (weak fairness of `Serve`) and
that epoll reports each descriptor that is ready again and again (strong fairness
of `Reported`): the kernel keeps ready descriptors in a list and puts those it
reported at its end.  `XimClient` assumes that the thread runs and that the client
reads what it is sent, without which the server's blocking writes stall it.
`InputMethod` has no liveness property: it acts only when a key arrives.
`Lexer` and `DictParser` are sequential code that runs at start-up and waits for
nothing but the file, so that weak fairness of their next
step is all they need; a read is never forced to fail.  `Word` assumes weak fairness of
`Handle`, what one key event does: the thread runs, and it does nothing else in between;
typing is not assumed.

`framing`, `clients` and their violations are checked without deadlock
detection: a client connects once, and when all have gone nothing happens.  So are
`lexer`, `dictionary`, `words` and `growth`, which end.

## What disagrees

* `disconnect`: "XIM_DISCONNECT message has no payload" (`ximproto.c:527`), but the
  decoder returns `sizeof(*src)` of a `void *`, 1.  Five bytes are removed from
  the buffer; if only four are there its length wraps around and `memmove` is
  called with almost all of memory.
* `encodings`: "Remove parsed message from the buffer" (`ximclient.c:702`), but the
  decoder of `XIM_ENCODING_NEGOTIATION` computes the padding without the id in front
  and leaves four bytes when the list's length is 1 or 2 modulo 4.
* `close`: "Invalid IM id" (`ximclient.c:252`) is said of the open method in the last
  slot, because the test is `>=` where the other handlers have `>`.
* `growth`: the key of a lookup is "the raw input" (`aide.c:305`), but `realloc` in
  `_segment_grow` (`segment.c:105`) does not clear the cells it adds and `aide_suggest` looks for
  `CHAR_INVALID` as the end.  The 32nd character of an input enlarges its array, and
  the input is then looked up together with whatever memory held behind it, and if that has no
  zero either, together with what lies behind the array, where reading may also end the process.

Behaviours that surprise without contradicting a statement of the repository:
Backspace in front of the text erases the character behind the cursor; Delete at
the end of a segment fails although the next has text; a character of another
script typed inside a segment goes behind that segment; empty segments made by
Ctrl-Tab cannot be removed by Backspace; contexts survive the closing of their
method and are not freed with their client; a decodable request without a handler
(`SET_IC_VALUES`, `RESET_IC`, `SET_IM_VALUES`) gets no answer; a message that cannot be
decoded silences its sender for ever, until the buffer is full and the full buffer
is taken for the end of the stream.  Of the replies,
`XIM_GET_IC_VALUES_REPLY` always has two bytes more than its header announces, because its
list begins behind six bytes, and so would `XIM_QUERY_EXTENSION_REPLY` with an odd number of
extensions (this server has none); the client reads these bytes as a header.  Without a
dictionary the first lookup dereferences NULL (`aide.c:263`).  Priorities further apart than an `int`
are ordered the wrong way round.  When a consonant opens the next syllable, `zmap` is read
behind its end (`hangul.c:294`), which is harmless only by the layout of the tables.
In a dictionary file, an empty string fails an
assertion (`token.c:332`) and so does an array of strings as candidates
(`dictparser.c:853`, as its FIXME has it); an entry as a value is always an error
although the message says it is expected (`dictparser.c:457`, the `break` is missing); an
entry needs no closing brace; any syntax error leaves an empty dictionary and no
error; a bad first entry discards all others while a bad later one is skipped; and a
candidate without a value hides those written before it.

## Proofs

All theorems hold for every value of the constants that satisfies the assumptions
named in the modules (`CharAssumption`: combining gives a character or `CHAR_INVALID`;
`SuggestAssumption`: suggestions are a sequence of values; `KeymapAssumption`,
`MaxLenAssumption`, `MaxSegmentsAssumption`, `PositionAssumption`; `CharsAssumption` and
`SizeAssumption` of `SegmentBuffer`; `CodeAssumption` of `Trie`: characters have numbers;
`LibraryAssumption` and `ConjugationsAssumption` of `Aide`: what the files hold, and of every row of the
table that its ending is not empty, is what its match ends with, and is not continued by its dictionary
form, all of which the rows of `japanese.c` meet; `IntRangeAssumption`; `ClientAssumption`,
`SizeAssumption`, `ChunkAssumption` and `RepliesAssumption` (replies are messages the encoders have,
rooms are no larger than the buffer) of `XimServer`; `TableAssumption` of `XimClient`;
`BufferAssumption` and `TextAssumption` of `Lexer`; `FileAssumption` of `DictParser`: files are
sequences of the tokens that `Lexer` makes, shorter than `Levels`), and what a theorem itself assumes.

Recursion.  A recursive function of the language is defined as *some* function with the
recursive property, so before anything can be said of one its existence has to be proved.  Each
of the proof modules that needs it has a lemma `NatInduct`, induction over the numbers for a
*set* of numbers, which follows from the well-foundedness of `<` without a theorem that takes
an operator; from it come the existence of the function and the laws it obeys.  `Concat`
(`InputMethodProofs`), `FlattenSeq` (`ListProofs`), the length of a list (`XimServerProofs`),
`Unquoted` (`LexerProofs`) and `Written`, with the sets of trees of a height (`DictParserProofs`), are
treated so.

**Editing.**  The inductive invariant of `InputMethod` is `IInv == TypeOK /\ AllGood`, where
`AllGood` says of every
context that its segments are *good* (input within the limit, candidates those of
the input, selection one of them) and that its cursor is in bounds.  Neither half is
inductive alone: that a segment's candidates are fresh after an insertion needs
the cursor to be in the segment that was refreshed, and that the cursor stays in
bounds after a removal needs the other segments to be well formed.  The argument
has three layers: each function of `segment.c` takes good
segments to good or stale ones (a stale segment has a new input and old candidates);
each function of `preedit.c` keeps all segments good but
perhaps the cursor's, which `preedit_update_candidates` then repairs; and the invariant
has one step per action.

**Text.**  What the user sees is the inputs of all segments, joined, and the cursor as a position in
that line.  The laws of joining come first: what replacing, inserting or removing one
segment does to the line, and that the position of (segment, offset) is the lengths of the
segments in front plus the offset.  Each function of `preedit.c` is then one of four things:
the line *stays*, one character is *typed* at the cursor's side, one is *erased*, or one is *merged*
with its neighbour.  The loops over empty segments become harmless here, because an empty segment adds
nothing to the line.  The refinement of `LineEditor` reads these off; `ArrowsMoveByOne` and
`BackspaceConsumed` need in addition that behind a position that is not the last there is a segment with a
character (and in front of one that is not the first), which is how the loops end.
`EditsOneSegment` and `SelectionOnlyByUser` compare segment by segment: the segments
in front of and behind the one at the cursor are the same before and after, although they may
change their numbers.

**Memory of the input.**  `WithinArray` and `ClearedBehind` together are inductive for
`SegmentBuffer`: an insertion stays within the array because the array was enlarged while one cell
was still free.  `WordProofs` carries this through the composition and adds that the key, once
taken, begins with the input; it *is* the input as long as the array never grew, because
the cells behind the input are then `CHAR_INVALID`.  `TypeOK` of `Word` (`WordTypes`) says that the cells which
`segment.c` itself reads and writes are in the array.  It says nothing of the reading by `aide.c`, which does
go on behind the array when nothing ends it; `KeyBeginsWithInput` holds for whatever it finds there.

**Automaton.**  The invariant of `Hangul` gives for each mode the range of `x`, `y` and `z`:
in mode `Y_O`, for example, `y` is at least three below the end of the table, so that adding
the second vowel stays inside.  It follows that every syllable is a code point of Unicode's block.
The theorem needs `Beyond` to be within 0 .. 27, which is what the compiler's layout gives.

That the output reads back as what was typed goes on from there.  The tables are compared with
Unicode's order of syllables element by element; per mode, `AutoInv` says which jamo `x`, `y` and `z`
spell (those from the start of the syllable to the character looked at) and which jamo cannot continue
them, since a syllable is closed in front of a jamo only for that reason.  What the output reads as
is a fold over it, about which nothing could be shown for all sequences at once; but the output only grows
at its end, so the induction is the one along the behaviour: `ReadInv` says what the pieces
written so far spell, and a step adds one piece.  `WholeInv` does the same for what may stand next to
what.  Both need `Beyond = {0}`.  `WordProofs` takes the lemmas by `INSTANCE ... WITH text <- Typed`: the text
is the input of the segment, which no step changes once the conversion has begun.

**Suggestions.**  `OffersEveryWord` counts: every reading of every word is in the array of suggestions,
and no suggestion is there more often than it has readings.  The proofs never count.  `Lists(s, A, f)`
says that the sequence `s` lists the set `A`, each element `a` once, as `f[a]`, in any order: there is
a bijection from the positions of `s` to `A`.  `ListProofs` shows what inserting, appending, selecting,
joining and taking the head do to the set.  A trie then lists the entries added so far, what a lookup
collects lists those at or below a key, and what `_lookup_conjugation` finds lists the *ways* a word is
read with that conjugation: dictionary, entry, candidate, row of the table.  The invariant `AideInv`
says where the ways are while the search runs (`Progress`): of the conjugations still to be tried none was
looked at, and the ways of the others are divided between what was found and what is in the
array.  At the end nothing is left, so that the array lists all ways; `ListsCount` turns the bijection into the
numbers of `OffersEveryWord`.

`BestFirst` needs more, since the insertion only compares priorities: of two words with the same priority the
one found first stays in front.  `OrderInv` says that tries are sorted as they are walked (`AllSorted`), that
the search for the input itself comes last (`NullLast`, from the fact that the other conjugations were
found along the walk from the end), that what was found for one conjugation is in the order of the walk
(`FoundInOrder`), and that nothing in the array continues a word found later (`NoneContinues`), both
for words that the input begins.  The last one is where the assumption about the table enters: a word
that was found through a conjugation and strictly continues the input would be a dictionary form that
continues its own ending.  Of words that the input does not begin, nothing is said: with the rows for
verbs like *suru* the longer of two can be found first.

**Framing.**  `DecodersMeasure` shows of the decoders of all types but XIM_DISCONNECT and
XIM_ENCODING_NEGOTIATION, for all lengths, that they take exactly the bytes that were sent or refuse the
message, and `ListLenType` that the length of a list, a fold over its elements, is a number.
`EncodingsMeasure` says for which lengths the decoder of XIM_ENCODING_NEGOTIATION does,
and the runs `disconnect` and `encodings` show what happens otherwise.

The invariant says for every connection that the messages in it lie one behind the other (`Contiguous`)
and, of a client that has sent nothing its decoder mismeasures (`InTune`), that the bytes removed
are those of the messages taken (`InStep`), that what was read and not
removed is what the buffer holds (`Buffered`), and that the decoding loop leaves no complete
message behind (`Drained`).  `Drained` is what makes a full buffer harmless:
a read of no bytes then means the end of the stream.  Because the second part is asked only of clients in tune,
the invariant holds whatever is sent, and so do `Served` and `CulpritsOnly`: a client that sends
XIM_DISCONNECT may kill the process, and no theorem denies it, but it is not dropped or put
out of step by what others send.  `TypeCorrect`, `InFrame` and `Refinement` are about all connections at once and false
with XIM_DISCONNECT; they assume `Framed`, that nobody sends what is mismeasured, and `MeasuredFramed` shows
that this is so when nobody sends one of the two types.

All of it is about messages such as `IsMessage` has them.  Two kinds are outside.
One is a list of attribute values that `_count_attributes` counts short: padding
inside the list is taken for the length of a value, values are skipped, and the bytes of those left over are read
as the next messages.  The other is an XIM_ENCODING_NEGOTIATION with encoding details, of which the same is true.

**Replies.**  `XimServerProofs` shows for texts of any length and any room in the buffer that messages
without lists are as long as announced, that an attribute fills up to a multiple of four, and that
an extension never does.  For lists the encoder's loop is followed element by element (the room that is
left, and an error that ends it), and the same sum is what the header announces:
`RepliesAreRead` then covers all replies, and says of the two that are out of step that they
always are, and by two bytes.

**Sessions.**  The invariant `Inv` of `XimClientProofs` describes what is on its way between the two
sides.  Only the last request is one that the client waits for, and the requests before it are
keys or notices; at most one message that ends the waiting is on its way, and only while no
request is; a key on its way names a method and a context that are open.  While nothing
that ends the waiting is on its way the tables agree; otherwise they agree once that
message is taken into account.  `Order` adds what concerns the application: what was made for it and
has not reached it is on its way in the same order (`Delivered`: there is an increasing
assignment of the missing part to positions of the connection), nothing is made for it behind the
message that ends the waiting (`Closed`), and keys are numbered in the order in which they are handled
(`Serials`).  `TablesAgree` alone is not inductive because it says nothing while messages
are on their way, nor is `InTypedOrder`, because it does not say where the missing part is.

**Lexer.**  The buffer is always a piece of the file, and its end is where read() will go on.
`GetCharEffect` follows from it: `_lexer_getc` returns the characters of the file in their
order, whatever pieces read() hands out, and the last one can be put back even right after
a refill.  The invariant then says, for every scanning function, what the characters since the token's start
are: only digits, only letters and digits, a string whose backslashes so far do or do not escape what
follows (`EvenRun`: the parity of a run of backslashes), a comment.  When the function ends, the next character
is one that cannot go on, so that no longer token begins at the same place, and where an error is
reported no token does.  The lexeme of a string is `Unquoted` of its characters, followed
step by step.

**Dictionary files.**  `RoundTrip` compares a tree with tokens, and the tree is put together in any
depth by calls that are still running.  The proof therefore gives every state of the descent a text: a call
stands for what it has taken by itself (`Begun`: the elements of a list so far and a comma, a brace, a
name and an equals sign), the calls that wait for one another for theirs in turn (`Opened`), and
a result for what it was made from (`Given`, in brackets once `_array_parse` has returned it).  The
invariant `DescentAt` says that these texts, one behind the other and written down to the last
level (`Covers`), are the tokens taken so far.  A token that is taken adds a leaf at the end; a function that
returns puts a node in the place of its parts (`CoverFold`), which changes nothing once the
levels are written down; whatever fails only has to leave the lexer in order.  That the levels end is
part of it: no text takes as many levels to write down as it has tokens.
`OnlyFirstEntryDiscards` follows from `GetInv`, which counts the complete entries below `next`.

`EntriesStayApart` is about positions in the file, and the dictionary knows none.  It is proved
backwards: each entry of the dictionary was drawn from one entry of the list, those in front from entries in
front (`ApartInv`); the strings it took are leaves at most five levels below that entry (`Drawn`); what
is in front of something else on one level is in front of it on every level below
(`WrittenUnfolds`), and a list is written backwards; the leaves are the tokens of the file in their
order (`FilePlaces`).  With two equal strings a text would not tell where it stands, so the theorem
is about files whose strings differ (`StringsDiffer`), as those of the run do.

`WellFormedParses` needs what is *ahead*.  `RoundTrip` says that what was made is the text taken, but not
that the text is ever taken to its end: an error may always stop the parser.  In a file that is the text of a
list, `WellInv` says (`Follows`) that none does.  Every waiting call has a node of the list that it is to make and
waits for a part of it (`Waits`), and what is left of that node, followed by what is left of the
nodes of the calls around it, is the rest of the file (`Passes`, `Remains`); the call that begins finds the text
of its node ahead (`Needs`), and what is returned is the node that was to be made.  At each step the
next token then decides which branch is the right one: a list goes on exactly when a comma is ahead.
That works because the text of a node begins with a token that tells its kind, and because lists and entries
are not empty.  So the theorem is about lists that the parser can make (`TreesMade`): every entry and every
list in them has an element, which holds of the lists of the run.

| Theorem | Statement |
|---|---|
| `Invariant` | `Spec => []IInv` of `InputMethod` |
| `TypeCorrect` | `Spec => []TypeOK` |
| `CursorAlwaysInBounds` | `Spec => []CursorInBounds` |
| `CandidatesAlwaysFresh` | `Spec => []CandidatesFresh` |
| `OffFreezes` | `Spec => OffFreezesAll` |
| `ReturnedKeys` | `Spec => ReturnedKeepsText` |
| `ArrowsAlwaysMoveByOne` | `Spec => []ArrowsMoveByOne` |
| `BackspaceAlwaysConsumed` | `Spec => []BackspaceConsumed` |
| `OneSegmentEdited`, `OnlyUserSelects` | `Spec => EditsOneSegment`, `Spec => SelectionOnlyByUser` |
| `NothingIsLost` | `Spec => NothingLost` |
| `ContextsAreLines` | `Spec => ImplementsLineEditor`: every context is one line of an editor |
| `Bounds`, `Cleared` | `BufferSpec => []WithinArray`, `BufferSpec => []ClearedBehind` |
| `LookupOfInput` | `Spec => []KeyBeginsWithInput` of `Word` |
| `Types` | types of `Hangul`, whose indices stay inside the tables |
| `InputReadsBack`, `SyllablesOfInput` | `Beyond = {0}` implies `Spec => []ReadsBack`, `Spec => []SyllablesAreWhole` of `Word` |
| `EveryWordOffered`, `BestComesFirst` | `Spec => []OffersEveryWord`, `Spec => []BestFirst` of `Word` |
| `WordTypes` | `Beyond \subseteq 0 .. 27` and characters that `Hangul` knows imply `Spec => []TypeOK` of `Word` |
| `DecodersMeasure`, `EncodingsMeasure` | which decoders take exactly what was sent |
| `MeasuredFramed` | `Framed` holds of clients that send neither XIM_DISCONNECT nor XIM_ENCODING_NEGOTIATION |
| `Served`, `CulpritsOnly` | `Spec => DroppedOnlyIfGone`, `Spec => DiesOnlyOfCulprits` of `XimServer`, whatever is sent |
| `TypeCorrect`, `InFrame` | `Framed` implies `Spec => []TypeOK`, `Spec => []RemovesParsedMessage` of `XimServer` |
| `Refinement` | `Framed` implies `Spec => ImplementsMailbox`: every connection is a mailbox |
| `Agreement`, `FreshIds` | `Spec => []TablesAgree`, `Spec => IdsFresh` of `XimClient` |
| `TypedOrder`, `SyncComesLast` | `Spec => []InTypedOrder`, `Spec => []SyncSettles` of `XimClient` |
| `WithoutListsKeepStep`, `AttributesMultiple`, `ExtensionNeverMultiple` | lengths of replies and their elements |
| `RepliesAreRead`, `ClientsAlwaysKeepStep` | every reply but two is as long as announced; `Spec => []ClientsKeepStep` |
| `LexerTypeOK` | `Spec => []TypeOK` of `Lexer` |
| `EveryTokenIsLongest`, `EveryErrorIsDeserved` | `Spec => []TokensAreLongestMatches`, `Spec => []ErrorsAreDeserved` |
| `ConsumedIsParsed` | `Spec => []RoundTrip` of `DictParser` |
| `DiscardedOrLoaded` | `Spec => []OnlyFirstEntryDiscards` |
| `NeighboursStayApart` | `Spec => [](StringsDiffer => EntriesStayApart)` |
| `TextIsParsed` | `Spec => [](TreesMade => WellFormedParses)` |

Only model-checked:

* Liveness: `Answered`, that clients are served and answered, that the lexer and the parser
  end.

## Not modelled

Display (decorated text, the window property), the bytes of UTF-8 in both directions and the
sizes of buffers for text, attributes of contexts, the values in messages, allocation failures, the
X server, start-up and packaging.  Stopping the thread is unreachable.  The table of conjugations
is represented by five of its rows, the tables of characters by the marks and script classes that
the modules use.  The arrays of pointers that end with NULL (segments, suggestions) are
sequences.  In dictionary files: line and column, priorities, keys that are not UTF-8, and everything
after a value was read as another type (phase `astray`).

Of messages: what a client sends against the protocol, and with it two ways to hang or
kill the server, an XIM_ENCODING_NEGOTIATION whose strings do not fill its list (`ximproto.c:687`: the loop that frees
those decoded so far does not count down) and an attribute index that the method does not have (`ximclient.c:352`); lists counted
short and encoding details (see Framing); and that an answer cannot be encoded into
1024 bytes, in which case `xim_client_send` sends nothing (`ximclient.c:51`), so that `RequestsAnswered`
is about answers that fit.  In `XimClient` a context that was given a slot can always be set up
(`ximclient.c:410` sends an error and then the reply when memory runs out).  In
`DictParser` a number that does not fit a long is a number like any other.

The hazards without a property in `PROJECT.json` are of three kinds: about state outside the modules (Xlib's,
what peers do not read, the size of the output in bytes, memory read as another type);
such that nothing the repository says is contradicted (requests without a handler); and those that the modules
have but the properties accept or assume, each with a note that says so: the deaths of the process by a
client that left (SIGPIPE, the freed `fd_t`), a lookup without dictionaries, the empty string in a dictionary,
the first entry that decides over all others, the cell behind `zmap`.  The same is true of a part of
others: `RoundTrip` accepts a missing closing brace, `BestFirst` leaves out priorities whose difference
overflows, `ClientsKeepStep` names the two replies that break it.  `CandidatesFresh`
takes the suggestions for a function of the input, which `growth` shows to fail from the
32nd character on.

`preedit.c:158` reads one slot behind an array of pointers when the array has no spare slot;
`Preedit` has a sequence there.

## Plan

What is left, in order of value:

1. `SlotArray`: the array of segment pointers with its trailing NULL (`preedit.c:143`,
   `preedit.c:440`), refining the sequence that `Preedit` uses.
2. Composition: `InputMethod` under `XimClient`, so that the keys of a session edit real
   preedits and the commit is the preedit's text.
3. `Threads`: start, stop, join and cancel of `thread.c`, with the lock that join holds; of
   value only once something stops the server.
