---------------------------- MODULE InputMethod ----------------------------
(***************************************************************************)
(* The one input method of the server (inputmethod.c, jkim.c) and the      *)
(* input contexts it edits (inputcontext.c).  A key event is looked up in  *)
(* the key bindings; a bound key runs a command, any other key produces a  *)
(* character in the language of the context.  A key the input method does  *)
(* not consume is returned to the client that sent it.                     *)
(*                                                                         *)
(* All contexts of all clients share the flag "active": the key that turns *)
(* the input method off in one window turns it off in every window.        *)
(***************************************************************************)
EXTENDS Preedit

CONSTANTS
  IC,              \* the input contexts there can be
  Lang, DefaultLang, \* the languages; LANG_EN is what calloc leaves
  Key, Keymap,     \* Keymap[lang][key]: a character, or CharInvalid
  Position,        \* what the keys of CMD_CANDIDATE_SELECT ask for, 0 .. 9
  MaxSegments      \* bound: no context ever has more segments than its own

ASSUME KeymapAssumption ==
  /\ DefaultLang \in Lang
  /\ Keymap \in [Lang -> [Key -> Char \cup {CharInvalid}]]

ASSUME PositionAssumption == Position \subseteq Nat

ASSUME MaxSegmentsAssumption == MaxSegments \in [IC -> Nat \ {0}]

VARIABLES
  live,      \* the contexts that exist
  preedit,   \* the preedit of each context
  lang,      \* the language each context types in
  active,    \* the flag of the one input method, shared by all
  returned,  \* was the last key event returned to its sender?
  committed  \* the text the last key event sent to the client, <<>> for none

vars == <<live, preedit, lang, active, returned, committed>>

Init ==
  /\ live = {}
  /\ preedit = [ic \in IC |-> preedit_new]
  /\ lang = [ic \in IC |-> DefaultLang]
  /\ active = TRUE
  /\ returned = FALSE
  /\ committed = <<>>

-----------------------------------------------------------------------------
(* Creating and destroying contexts.  A context that does not exist has    *)
(* the state the next one created in its place starts with.                *)

input_context_new(ic) ==
  /\ ic \notin live
  /\ live' = live \cup {ic}
  /\ returned' = FALSE
  /\ committed' = <<>>
  /\ UNCHANGED <<preedit, lang, active>>

input_context_free(ic) ==
  /\ ic \in live
  /\ live' = live \ {ic}
  /\ preedit' = [preedit EXCEPT ![ic] = preedit_new]
  /\ lang' = [lang EXCEPT ![ic] = DefaultLang]
  /\ returned' = FALSE
  /\ committed' = <<>>
  /\ UNCHANGED active

-----------------------------------------------------------------------------
(* Editing.  A handler ends with an error code and a preedit; the event is *)
(* consumed unless the code is negative.                                   *)

\* Mutants: an edit is done while the input method is off; a handler that
\* returns 0 is taken for one that did nothing.
Edit_WhileOff(ic, result) ==
  /\ ic \in live
  /\ NumSegments(result.preedit) <= MaxSegments[ic]
  /\ preedit' = [preedit EXCEPT ![ic] = result.preedit]
  /\ returned' = (result.err < 0)
  /\ committed' = <<>>
  /\ UNCHANGED <<live, lang, active>>
Edit_ZeroReturned(ic, result) ==
  /\ ic \in live /\ active
  /\ NumSegments(result.preedit) <= MaxSegments[ic]
  /\ preedit' = [preedit EXCEPT ![ic] = result.preedit]
  /\ returned' = (result.err <= 0)
  /\ committed' = <<>>
  /\ UNCHANGED <<live, lang, active>>

Edit(ic, result) ==
  /\ ic \in live /\ active
  /\ NumSegments(result.preedit) <= MaxSegments[ic]
  /\ preedit' = [preedit EXCEPT ![ic] = result.preedit]
  /\ returned' = (result.err < 0)
  /\ committed' = <<>>
  /\ UNCHANGED <<live, lang, active>>

\* A command that only moves is refused while there is no text to move in.
ERANGE == -34

UnlessEmpty(p, result) ==
  IF preedit_is_empty(p) THEN [err |-> ERANGE, preedit |-> p] ELSE result

\* A mutant: the lookup is forgotten.
Refreshed_Never(result) == result

\* After a successful change the candidates of the cursor's segment are
\* looked up again.
Refreshed(result) ==
  IF result.err # 0 THEN result
  ELSE [result EXCEPT !.preedit = preedit_update_candidates(@)]

\* config_keysym_to_char(): a key without a character in this language is
\* returned to its sender.
input_context_insert(ic, key) ==
  LET chr == Keymap[lang[ic]][key]
  IN  /\ chr # CharInvalid
      /\ Edit(ic, Refreshed(preedit_insert(preedit[ic], chr)))

UnmappedKey(ic, key) ==
  /\ ic \in live
  /\ Keymap[lang[ic]][key] = CharInvalid
  /\ returned' = TRUE
  /\ committed' = <<>>
  /\ UNCHANGED <<live, preedit, lang, active>>

\* CMD_DELETE: "left" is Backspace, "stay" is Delete.
input_context_erase(ic, dir) ==
  LET p == preedit[ic]
  IN  Edit(ic, UnlessEmpty(p, Refreshed(preedit_erase(p, dir))))

input_context_cursor_move(ic, dir) ==
  LET p == preedit[ic]
  IN  Edit(ic, UnlessEmpty(p, [err |-> 0, preedit |-> preedit_move(p, dir)]))

input_context_move_candidate(ic, dir) ==
  Edit(ic, preedit_move_candidate(preedit[ic], dir))

input_context_select_candidate(ic, selection) ==
  Edit(ic, preedit_select_candidate(preedit[ic], selection))

\* CMD_SEGMENT_NEW works in an empty preedit too.
input_context_insert_segment(ic) ==
  Edit(ic, [err |-> 0,
            preedit |-> preedit_move_segment(preedit_insert_segment(preedit[ic]))])

input_context_clear(ic) ==
  Edit(ic, [err |-> 0, preedit |-> preedit_clear(preedit[ic])])

\* A mutant: the preedit is cleared before the output is written.
input_context_commit_ClearFirst(ic) ==
  LET output == preedit_get_output(preedit[ic])
  IN  /\ ic \in live /\ active
      /\ preedit' = [preedit EXCEPT ![ic] = preedit_clear(@)]
      /\ \/ /\ output # <<>>
            /\ committed' = output
            /\ returned' = FALSE
         \/ /\ returned' = TRUE
            /\ committed' = <<>>
      /\ UNCHANGED <<live, lang, active>>

\* The preedit is cleared only after its output went out; if the message
\* cannot be encoded or written the text stays and the key is returned.
input_context_commit(ic) ==
  LET output == preedit_get_output(preedit[ic])
  IN  /\ ic \in live /\ active
      /\ \/ /\ output # <<>>
            /\ committed' = output
            /\ preedit' = [preedit EXCEPT ![ic] = preedit_clear(@)]
            /\ returned' = FALSE
         \/ /\ returned' = TRUE
            /\ committed' = <<>>
            /\ UNCHANGED preedit
      /\ UNCHANGED <<live, lang, active>>

input_context_set_language(ic, l) ==
  /\ ic \in live /\ active
  /\ lang' = [lang EXCEPT ![ic] = l]
  /\ returned' = FALSE
  /\ committed' = <<>>
  /\ UNCHANGED <<live, preedit, active>>

\* CMD_SEGMENT_RESIZE is not implemented (-ENOSYS), and while the input
\* method is off every command but on/off, and every character, is refused.
RefusedKey(ic) ==
  /\ ic \in live
  /\ returned' = TRUE
  /\ committed' = <<>>
  /\ UNCHANGED <<live, preedit, lang, active>>

toggle_onoff(ic) ==
  /\ ic \in live
  /\ active' = ~ active
  /\ returned' = FALSE
  /\ committed' = <<>>
  /\ UNCHANGED <<live, preedit, lang>>

-----------------------------------------------------------------------------

input_method_handle_key(ic) ==
  \/ \E key \in Key : input_context_insert(ic, key) \/ UnmappedKey(ic, key)
  \/ \E dir \in {"left", "stay"} : input_context_erase(ic, dir)
  \/ \E dir \in Directions \ {"stay"} : input_context_cursor_move(ic, dir)
  \/ \E dir \in {-1, 1} : input_context_move_candidate(ic, dir)
  \/ \E n \in Position : input_context_select_candidate(ic, n)
  \/ input_context_insert_segment(ic)
  \/ input_context_clear(ic)
  \/ input_context_commit(ic)
  \/ \E l \in Lang : input_context_set_language(ic, l)
  \/ RefusedKey(ic)
  \/ toggle_onoff(ic)

Next ==
  \E ic \in IC :
    \/ input_context_new(ic)
    \/ input_context_free(ic)
    \/ input_method_handle_key(ic)

Spec == Init /\ [][Next]_vars

-----------------------------------------------------------------------------
(* Invariants *)

\* Every context holds a preedit and a language of the right shape (the
\* structures of inputcontext.c, preedit.h and segment.h).
TypeOK ==
  /\ live \subseteq IC
  /\ preedit \in [IC -> PreeditType]
  /\ lang \in [IC -> Lang]
  /\ active \in BOOLEAN
  /\ returned \in BOOLEAN

\* preedit_move assumes "that the preedit always has at least one segment"
\* (preedit.c:83), and every function indexes segments[cursor.segment] and
\* its input by the cursor without a test.
CursorInBounds == \A ic \in IC : CursorInPreedit(preedit[ic])

\* A segment that shows candidates shows those of its present input, and a
\* selection is one of them: redraw and output read candidates[selection]
\* long after the edit that could have made them stale.
CandidatesFresh ==
  \A ic \in IC : \A i \in DOMAIN preedit[ic].segments :
    FreshSegment(preedit[ic].segments[i])

Text(ic) == preedit_get_input(preedit[ic])

\* The arrow keys move by one character in the text, whatever the segments
\* in between (empty ones included), and stop at its ends.
ArrowsMoveByOne ==
  \A ic \in IC :
    LET p == preedit[ic]
    IN  /\ CursorPos(MoveRight(p)) =
             IF CursorPos(p) < Len(Text(ic)) THEN CursorPos(p) + 1 ELSE CursorPos(p)
        /\ CursorPos(MoveLeft(p)) =
             IF CursorPos(p) > 0 THEN CursorPos(p) - 1 ELSE 0

\* With text before the cursor Backspace never fails, wherever segment ends
\* and empty segments lie: the key is not passed on to the application,
\* which would then erase text that was committed earlier.
BackspaceConsumed ==
  \A ic \in IC :
    CursorPos(preedit[ic]) > 0 => preedit_erase(preedit[ic], "left").err = 0

-----------------------------------------------------------------------------
(* Action properties *)

\* A key that goes back to the application has not changed the text: else
\* the user would see it take effect twice.
ReturnedKeepsText ==
  [][returned' => \A ic \in live \cap live' : Text(ic)' = Text(ic)]_vars

\* Text leaves a context by single erasures, by an explicit clear, or into
\* the hands of the client: a commit that failed loses nothing.
NothingLost ==
  [][\A ic \in live \cap live' :
       \/ Len(Text(ic)') >= Len(Text(ic)) - 1
       \/ input_context_clear(ic)
       \/ committed' = preedit_get_output(preedit[ic])]_vars

\* Only the candidate keys select: an edit may drop a selection or keep it
\* on the same text, never make one (the zero a new segment is born with
\* never counts as a choice of the user).
SelectedValues(p) ==
  {SelectedValue(p.segments[i]) :
     i \in {j \in DOMAIN p.segments : HasSelection(p.segments[j])}}

UserSelects(ic) ==
  \/ \E dir \in {-1, 1} : input_context_move_candidate(ic, dir)
  \/ \E n \in Position : input_context_select_candidate(ic, n)

SelectionOnlyByUser ==
  [][\A ic \in IC :
       \/ SelectedValues(preedit'[ic]) \subseteq SelectedValues(preedit[ic])
       \/ UserSelects(ic)]_vars

\* A key changes the output of at most one segment of one context: what the
\* user typed or selected elsewhere in the preedit stays.  Segments are
\* compared from the left up to the changed one and from the right down to it.
SameOutput(s, t) == segment_get_output(s) = segment_get_output(t)

OthersUntouched(p, q) ==
  \/ q.segments = preedit_clear(p).segments
  \/ q = preedit_new
  \/ \E i \in 1 .. NumSegments(p) :
       /\ \A j \in 1 .. i - 1 : SameOutput(q.segments[j], p.segments[j])
       /\ \A j \in i + 1 .. NumSegments(p) :
            SameOutput(q.segments[j + NumSegments(q) - NumSegments(p)], p.segments[j])

EditsOneSegment == [][\A ic \in IC : OthersUntouched(preedit[ic], preedit'[ic])]_vars

\* Turning the input method off in one context freezes every context, text,
\* selection and language alike, until it is turned on again in any of them:
\* meanwhile all keys go to the applications.
OffFreezesAll ==
  [][~ active => /\ \A ic \in live \cap live' : preedit'[ic] = preedit[ic] /\ lang'[ic] = lang[ic]
                 /\ live' = live => returned' \/ active']_vars

-----------------------------------------------------------------------------
(* The editor that the contexts implement *)

\* Each input context is a line of the editor: its segments joined are the
\* text, its cursor a position in it.
Editor ==
  INSTANCE LineEditor WITH
    Line <- IC,
    text <- [ic \in IC |-> Text(ic)],
    pos  <- [ic \in IC |-> CursorPos(preedit[ic])]

\* Whatever segments, candidates and key bindings do, every key acts on the
\* text of one context as an editor key would (inputcontext.c, preedit.c).
ImplementsLineEditor == Editor!Spec

=============================================================================
