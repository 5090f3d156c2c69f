-------------------------------- MODULE Trie --------------------------------
(***************************************************************************)
(* The tree that dictionaries and conjugations are looked up in (trie.c).  *)
(* A node is named by the path of characters that leads to it.  A trie is  *)
(* the sequence of its values, each with its node, in the order of a walk: *)
(* a node in front of those below it, its children by their index, the     *)
(* values of a node in the order they came.  Nodes without values answer   *)
(* no lookup and are left out.                                             *)
(***************************************************************************)
EXTENDS Integers, SequencesExt

CONSTANTS
  Symbol,  \* the characters of keys
  Code     \* the number of each, char_t

ASSUME CodeAssumption == Code \in [Symbol -> Nat]

\* Node n is walked to before node m.
Earlier(n, m) ==
  \/ IsStrictPrefix(n, m)
  \/ \E k \in DOMAIN n \intersect DOMAIN m :
       SubSeq(n, 1, k - 1) = SubSeq(m, 1, k - 1) /\ Code[n[k]] < Code[m[k]]

\* What a walk takes of the values s: those in S, in their order.
Collected(s, S) == FlattenSeq([n \in DOMAIN s |-> IF s[n] \in S THEN <<s[n]>> ELSE <<>>])

trie_new == <<>>

\* trie_insert, trie_add_values: behind what the node has, in front of what
\* later nodes have.
trie_insert(trie, key, value) ==
  LET later == {n \in DOMAIN trie : Earlier(key, trie[n].node)}
  IN InsertAt(trie, Min(later \union {Len(trie) + 1}), [node |-> key, value |-> value])

\* The same from the last character to the first.
trie_insert_reverse(trie, key, value) == trie_insert(trie, Reverse(key), value)

\* What a lookup collects: the values only.
Values(found) == [n \in DOMAIN found |-> found[n].value]

\* trie_get_values: the values at the key and, for a prediction, below it.
trie_get_values(trie, key, mode) ==
  Values(Collected(trie, {e \in ToSet(trie) :
    e.node = key \/ (mode = "predict" /\ IsPrefix(key, e.node))}))

\* trie_get_values_reverse, TRIE_LOOKUP_COLLECT: the values of all nodes on
\* the way from the root, along the key from its last character.
trie_get_values_reverse(trie, key) ==
  Values(Collected(trie, {e \in ToSet(trie) : IsPrefix(e.node, Reverse(key))}))

=============================================================================
