------------------------------ MODULE Mailbox ------------------------------
(***************************************************************************)
(* What the server promises to its clients: it takes the messages of each  *)
(* client in the order they were sent, each at most once, whatever happens *)
(* to the connection and to the other clients.                             *)
(***************************************************************************)
EXTENDS Naturals, Sequences

CONSTANTS Client, Messages

VARIABLES
  posted,  \* posted[c]: the messages c has sent
  taken    \* taken[c]: the messages of c the server has handled

vars == <<posted, taken>>

Init ==
  /\ posted = [c \in Client |-> <<>>]
  /\ taken = [c \in Client |-> <<>>]

Post(c, m) ==
  /\ posted' = [posted EXCEPT ![c] = Append(@, m)]
  /\ UNCHANGED taken

Take(c) ==
  /\ Len(taken[c]) < Len(posted[c])
  /\ taken' = [taken EXCEPT ![c] = Append(@, posted[c][Len(@) + 1])]
  /\ UNCHANGED posted

Next == \E c \in Client : Take(c) \/ \E m \in Messages : Post(c, m)

Spec == Init /\ [][Next]_vars

=============================================================================
