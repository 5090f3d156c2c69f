------------------------------ MODULE MCLexer ------------------------------
(* Every short file, longer ones of the characters that form long tokens,   *)
(* and reads of every size the buffer takes.                                *)
EXTENDS Lexer

CONSTANTS
  MaxShort,  \* bound: the characters of a file that may hold any of them
  MaxLong    \* bound: the characters of the others

Files(alphabet, n) == UNION {[1..k -> alphabet] : k \in 0..n}

MCText ==
  Files(Character, MaxShort)
    \union Files({"quote", "backslash", "letter", "newline"}, MaxLong)
    \union Files({"hash", "digit", "sign", "blank", "letter"}, MaxLong)

=============================================================================
