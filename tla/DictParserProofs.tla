-------------------------- MODULE DictParserProofs --------------------------
(***************************************************************************)
(* Proofs about the loading of a dictionary, for any files of tokens: what *)
(* was parsed, written down again, is what was consumed, and which entries *)
(* reach the dictionary.                                                   *)
(*                                                                         *)
(* A call of the descent stands for the text it has taken so far.  At any  *)
(* time the texts of all calls, one behind the other, and that of the last *)
(* result are the tokens that were taken of the file (DescentAt): each     *)
(* function keeps that up, whatever the next token is.                     *)
(***************************************************************************)
EXTENDS DictParser, ListProofs

-----------------------------------------------------------------------------
(* Writing nodes down, level by level *)

\* The levels up to "n".
Levelled(nodes, n, g) == g = [m \in 0 .. n |-> IF m = 0 THEN nodes ELSE PartsOf(g[m - 1])]

LEMMA LevelledExists ==
  ASSUME NEW nodes
  PROVE  \A n \in Nat : \E g : Levelled(nodes, n, g)
<1> DEFINE P == {n \in Nat : \E g : Levelled(nodes, n, g)}
<1>1. 0 \in P
  <2>1. PICK g : g = [m \in 0 .. 0 |-> nodes]
    OBVIOUS
  <2>2. g = [m \in 0 .. 0 |-> IF m = 0 THEN nodes ELSE PartsOf(g[m - 1])]
    BY <2>1
  <2> QED
    BY <2>2 DEF Levelled
<1>2. ASSUME NEW n \in Nat, n \in P PROVE n + 1 \in P
  <2>1. PICK g : Levelled(nodes, n, g)
    BY <1>2
  <2>2. PICK e : e = PartsOf(g[n])
    OBVIOUS
  <2>3. PICK h : h = [m \in 0 .. n + 1 |-> IF m = n + 1 THEN e ELSE g[m]]
    OBVIOUS
  <2>4. \A m \in 0 .. n + 1 : h[m] = IF m = 0 THEN nodes ELSE PartsOf(h[m - 1])
    <3> TAKE m \in 0 .. n + 1
    <3>1. CASE m = n + 1
      <4>1. h[m] = e /\ h[m - 1] = g[n] /\ m # 0
        BY <2>3, <3>1
      <4> QED
        BY <2>2, <4>1
    <3>2. CASE m # n + 1
      <4>1. h[m] = g[m] /\ (m # 0 => h[m - 1] = g[m - 1])
        BY <2>3, <3>2
      <4>2. g[m] = IF m = 0 THEN nodes ELSE PartsOf(g[m - 1])
        BY <2>1, <3>2 DEF Levelled
      <4> QED
        BY <4>1, <4>2, Zenon
    <3> QED
      BY <3>1, <3>2
  <2>5. h = [m \in 0 .. n + 1 |-> IF m = 0 THEN nodes ELSE PartsOf(h[m - 1])]
    <3>1. DOMAIN h = 0 .. n + 1 /\ h = [m \in 0 .. n + 1 |-> h[m]]
      BY <2>3
    <3> QED
      BY <2>4, <3>1, Zenon
  <2> QED
    BY <2>5 DEF Levelled
<1> HIDE DEF P
<1>3. Nat \subseteq P
  BY <1>1, <1>2, NatInduct
<1> QED
  BY <1>3 DEF P

LEMMA LevelledAgree ==
  ASSUME NEW nodes, NEW n \in Nat, NEW g, Levelled(nodes, n, g), NEW h, Levelled(nodes, n + 1, h)
  PROVE  g[n] = h[n]
<1> DEFINE P == {m \in Nat : m <= n => g[m] = h[m]}
<1>1. 0 \in P
  BY DEF Levelled
<1>2. ASSUME NEW m \in Nat, m \in P PROVE m + 1 \in P
  <2> SUFFICES ASSUME m + 1 <= n PROVE g[m + 1] = h[m + 1]
    OBVIOUS
  <2>1. g[m] = h[m]
    BY <1>2
  <2>2. PICK k \in 0 .. n : k = m + 1
    OBVIOUS
  <2>3. k \in 0 .. n + 1 /\ k - 1 = m /\ k # 0
    BY <2>2
  <2>4. g[k] = PartsOf(g[k - 1])
    BY <2>3 DEF Levelled
  <2>5. h[k] = PartsOf(h[k - 1])
    BY <2>3 DEF Levelled
  <2> QED
    BY <2>1, <2>2, <2>3, <2>4, <2>5
<1> HIDE DEF P
<1>3. Nat \subseteq P
  BY <1>1, <1>2, NatInduct
<1> QED
  BY <1>3 DEF P

LEMMA WrittenLaw ==
  ASSUME NEW nodes
  PROVE  /\ Written(nodes, 0) = nodes
         /\ \A n \in Nat : Written(nodes, n + 1) = PartsOf(Written(nodes, n))
<1> DEFINE G(n) == CHOOSE g : Levelled(nodes, n, g)
           F == CHOOSE write : write = [n \in Nat |-> IF n = 0 THEN nodes ELSE PartsOf(write[n - 1])]
<1>1. \A n \in Nat : Levelled(nodes, n, G(n))
  <2> TAKE n \in Nat
  <2>1. \E g : Levelled(nodes, n, g)
    BY LevelledExists
  <2> QED
    BY <2>1, Zenon
<1> HIDE DEF G
<1>2. PICK h : h = [n \in Nat |-> G(n)[n]]
  OBVIOUS
<1>3. \A n \in Nat : h[n] = IF n = 0 THEN nodes ELSE PartsOf(h[n - 1])
  <2> TAKE n \in Nat
  <2>1. h[n] = G(n)[n]
    BY <1>2
  <2>2. n \in 0 .. n
    OBVIOUS
  <2>3. G(n)[n] = IF n = 0 THEN nodes ELSE PartsOf(G(n)[n - 1])
    BY <1>1, <2>2 DEF Levelled
  <2>4. CASE n # 0
    <3>1. PICK m \in Nat : n = m + 1 /\ n - 1 = m
      BY <2>4
    <3>2. Levelled(nodes, m, G(m)) /\ Levelled(nodes, m + 1, G(m + 1))
      BY <1>1
    <3>3. G(m)[m] = G(m + 1)[m]
      BY <3>2, LevelledAgree
    <3>4. h[m] = G(m)[m]
      BY <1>2
    <3> QED
      BY <2>1, <2>3, <2>4, <3>1, <3>3, <3>4
  <2>5. CASE n = 0
    BY <2>1, <2>3, <2>5
  <2> QED
    BY <2>4, <2>5
<1>4. h = [n \in Nat |-> IF n = 0 THEN nodes ELSE PartsOf(h[n - 1])]
  <2>1. h = [n \in Nat |-> h[n]]
    BY <1>2
  <2> QED
    BY <1>3, <2>1, Zenon
<1>5. F = [n \in Nat |-> IF n = 0 THEN nodes ELSE PartsOf(F[n - 1])]
  BY <1>4, Zenon
<1>6. \A n \in Nat : Written(nodes, n) = F[n]
  BY Zenon DEF Written
<1> HIDE DEF F
<1>7. F[0] = nodes
  BY <1>5
<1>8. \A n \in Nat : F[n + 1] = PartsOf(F[n])
  <2> TAKE n \in Nat
  <2>1. n + 1 \in Nat /\ n + 1 # 0 /\ n + 1 - 1 = n
    OBVIOUS
  <2>2. F[n + 1] = PartsOf(F[n + 1 - 1])
    BY <1>5, <2>1
  <2> QED
    BY <2>1, <2>2
<1> QED
  BY <1>6, <1>7, <1>8

\* The first level, then the others.
LEMMA WrittenPlus ==
  ASSUME NEW nodes, NEW d \in Nat
  PROVE  \A n \in Nat : Written(nodes, d + n) = Written(Written(nodes, d), n)
<1> DEFINE P == {n \in Nat : Written(nodes, d + n) = Written(Written(nodes, d), n)}
<1>1. 0 \in P
  <2>1. d + 0 = d
    OBVIOUS
  <2> QED
    BY <2>1, WrittenLaw
<1>2. ASSUME NEW n \in Nat, n \in P PROVE n + 1 \in P
  <2>1. Written(nodes, d + n) = Written(Written(nodes, d), n)
    BY <1>2
  <2>2. d + (n + 1) = (d + n) + 1 /\ d + n \in Nat
    OBVIOUS
  <2>3. Written(nodes, (d + n) + 1) = PartsOf(Written(nodes, d + n))
    BY <2>2, WrittenLaw
  <2>4. Written(Written(nodes, d), n + 1) = PartsOf(Written(Written(nodes, d), n))
    BY WrittenLaw
  <2> QED
    BY <2>1, <2>2, <2>3, <2>4
<1> HIDE DEF P
<1>3. Nat \subseteq P
  BY <1>1, <1>2, NatInduct
<1> QED
  BY <1>3 DEF P

-----------------------------------------------------------------------------
(* The parse trees *)

LeafKinds == Punctuation \union {"integer", "string", "identifier", "name"}

Kinds == ListKinds \union {"entry", "property"} \union LeafKinds

\* What may stand below a node.
Below ==
  [kind \in ListKinds \union {"entry", "property"} |->
     CASE kind = "entry_list" -> {"entry"}
       [] kind \in {"property_list", "entry"} -> {"property"}
       [] kind = "string_list" -> {"string"}
       [] kind = "integer_list" -> {"integer"}
       [] kind = "property" -> {"integer", "string"} \union (ListKinds \ {"property_list"})]

Shaped(kind, sub) ==
  IF kind \in LeafKinds THEN sub = <<>>
  ELSE /\ sub # <<>>
       /\ \A n \in DOMAIN sub : sub[n].kind \in Below[kind]
       /\ kind = "property" => Len(sub) = 1

\* Lists and entries have no text.
Named(kind, text) == text = "" \/ kind \notin ListKinds \union {"entry"}

\* The provers do not know that "" is a string.
Texts == STRING \union {""}

NodesOver(trees) ==
  {node \in [kind : Kinds, text : Texts, sub : Seq(trees)] :
     Shaped(node.kind, node.sub) /\ Named(node.kind, node.text)}

Leaves == {Node(kind, text, <<>>) : kind \in LeafKinds, text \in Texts}

\* The trees of a height, and of any height.
Grows(n, g) == g = [m \in 0 .. n |-> IF m = 0 THEN {} ELSE NodesOver(g[m - 1])]

Tall(trees, n) == \E g : Grows(n, g) /\ trees = g[n]

OfHeight(n) == CHOOSE trees : Tall(trees, n)

Nodes == UNION {OfHeight(n) : n \in Nat}

LEMMA GrowsExists == \A n \in Nat : \E g : Grows(n, g)
<1> DEFINE P == {n \in Nat : \E g : Grows(n, g)}
<1>1. 0 \in P
  <2>1. PICK g : g = [m \in 0 .. 0 |-> {}]
    OBVIOUS
  <2>2. g = [m \in 0 .. 0 |-> IF m = 0 THEN {} ELSE NodesOver(g[m - 1])]
    BY <2>1
  <2> QED
    BY <2>2 DEF Grows
<1>2. ASSUME NEW n \in Nat, n \in P PROVE n + 1 \in P
  <2>1. PICK g : Grows(n, g)
    BY <1>2
  <2>2. PICK e : e = NodesOver(g[n])
    OBVIOUS
  <2>3. PICK h : h = [m \in 0 .. n + 1 |-> IF m = n + 1 THEN e ELSE g[m]]
    OBVIOUS
  <2>4. \A m \in 0 .. n + 1 : h[m] = IF m = 0 THEN {} ELSE NodesOver(h[m - 1])
    <3> TAKE m \in 0 .. n + 1
    <3>1. CASE m = n + 1
      <4>1. h[m] = e /\ h[m - 1] = g[n] /\ m # 0
        BY <2>3, <3>1
      <4> QED
        BY <2>2, <4>1
    <3>2. CASE m # n + 1
      <4>1. h[m] = g[m] /\ (m # 0 => h[m - 1] = g[m - 1])
        BY <2>3, <3>2
      <4>2. m \in 0 .. n
        BY <3>2
      <4>3. g[m] = IF m = 0 THEN {} ELSE NodesOver(g[m - 1])
        BY <2>1, <4>2, Zenon DEF Grows
      <4> QED
        BY <4>1, <4>3, Zenon
    <3> QED
      BY <3>1, <3>2
  <2>5. h = [m \in 0 .. n + 1 |-> IF m = 0 THEN {} ELSE NodesOver(h[m - 1])]
    <3>1. DOMAIN h = 0 .. n + 1 /\ h = [m \in 0 .. n + 1 |-> h[m]]
      BY <2>3
    <3> QED
      BY <2>4, <3>1, Zenon
  <2> QED
    BY <2>5 DEF Grows
<1> HIDE DEF P
<1>3. Nat \subseteq P
  BY <1>1, <1>2, NatInduct
<1> QED
  BY <1>3 DEF P

LEMMA GrowsAgree ==
  ASSUME NEW n \in Nat, NEW g, Grows(n, g), NEW l \in Nat, NEW h, Grows(l, h)
  PROVE  \A m \in Nat : m <= n /\ m <= l => g[m] = h[m]
<1> DEFINE P == {m \in Nat : m <= n /\ m <= l => g[m] = h[m]}
<1>1. 0 \in P
  BY DEF Grows
<1>2. ASSUME NEW m \in Nat, m \in P PROVE m + 1 \in P
  <2> SUFFICES ASSUME m + 1 <= n, m + 1 <= l PROVE g[m + 1] = h[m + 1]
    OBVIOUS
  <2>1. g[m] = h[m]
    BY <1>2
  <2>2. PICK k \in 0 .. n : k = m + 1
    OBVIOUS
  <2>3. k \in 0 .. l /\ k - 1 = m /\ k # 0
    BY <2>2
  <2>4. g[k] = NodesOver(g[k - 1])
    BY <2>3 DEF Grows
  <2>5. h[k] = NodesOver(h[k - 1])
    BY <2>3 DEF Grows
  <2> QED
    BY <2>1, <2>2, <2>3, <2>4, <2>5
<1> HIDE DEF P
<1>3. Nat \subseteq P
  BY <1>1, <1>2, NatInduct
<1> QED
  BY <1>3 DEF P

LEMMA TreeLaw ==
  /\ OfHeight(0) = {}
  /\ \A n \in Nat : OfHeight(n + 1) = NodesOver(OfHeight(n))
<1>1. \A n \in Nat : \A g : Grows(n, g) => OfHeight(n) = g[n]
  <2> TAKE n \in Nat
  <2> TAKE g
  <2> HAVE Grows(n, g)
  <2>1. Tall(g[n], n)
    BY Zenon DEF Tall
  <2>2. Tall(OfHeight(n), n)
    BY <2>1, Zenon DEF OfHeight
  <2>3. PICK h : Grows(n, h) /\ OfHeight(n) = h[n]
    BY <2>2, Zenon DEF Tall
  <2>4. g[n] = h[n]
    BY <2>3, GrowsAgree
  <2> QED
    BY <2>3, <2>4
<1>2. OfHeight(0) = {}
  <2>1. PICK g : Grows(0, g)
    BY GrowsExists
  <2>2. g[0] = {}
    BY <2>1 DEF Grows
  <2> QED
    BY <1>1, <2>1, <2>2
<1>3. ASSUME NEW n \in Nat PROVE OfHeight(n + 1) = NodesOver(OfHeight(n))
  <2>1. PICK g : Grows(n + 1, g)
    BY GrowsExists
  <2>2. PICK h : Grows(n, h)
    BY GrowsExists
  <2>3. g[n + 1] = NodesOver(g[n])
    <3>1. PICK k \in 0 .. n + 1 : k = n + 1
      OBVIOUS
    <3>2. k # 0 /\ k - 1 = n
      BY <3>1
    <3> QED
      BY <2>1, <3>1, <3>2 DEF Grows
  <2>4. g[n] = h[n]
    BY <2>1, <2>2, GrowsAgree
  <2>5. OfHeight(n + 1) = g[n + 1] /\ OfHeight(n) = h[n]
    BY <1>1, <2>1, <2>2
  <2> QED
    BY <2>3, <2>4, <2>5
<1> QED
  BY <1>2, <1>3

LEMMA SeqLarger ==
  ASSUME NEW A, NEW B, A \subseteq B, NEW s \in Seq(A)
  PROVE  s \in Seq(B)
  OBVIOUS

LEMMA NodesOverLarger ==
  ASSUME NEW A, NEW B, A \subseteq B
  PROVE  NodesOver(A) \subseteq NodesOver(B)
<1>1. Seq(A) \subseteq Seq(B)
  BY SeqLarger
<1> QED
  BY <1>1 DEF NodesOver

LEMMA TreeLarger == \A n \in Nat : OfHeight(n) \subseteq OfHeight(n + 1)
<1> DEFINE P == {n \in Nat : OfHeight(n) \subseteq OfHeight(n + 1)}
<1>1. 0 \in P
  BY TreeLaw
<1>2. ASSUME NEW n \in Nat, n \in P PROVE n + 1 \in P
  <2>1. OfHeight(n) \subseteq OfHeight(n + 1)
    BY <1>2
  <2>2. OfHeight(n + 1) = NodesOver(OfHeight(n)) /\ OfHeight(n + 1 + 1) = NodesOver(OfHeight(n + 1))
    BY TreeLaw
  <2>3. OfHeight(n + 1) \subseteq OfHeight(n + 1 + 1)
    BY <2>1, <2>2, NodesOverLarger
  <2> QED
    BY <2>3
<1> HIDE DEF P
<1>3. Nat \subseteq P
  BY <1>1, <1>2, NatInduct
<1> QED
  BY <1>3 DEF P

LEMMA TreeMuchLarger ==
  ASSUME NEW n \in Nat
  PROVE  \A m \in Nat : OfHeight(n) \subseteq OfHeight(n + m)
<1> DEFINE P == {m \in Nat : OfHeight(n) \subseteq OfHeight(n + m)}
<1>1. 0 \in P
  <2>1. n + 0 = n
    OBVIOUS
  <2> QED
    BY <2>1
<1>2. ASSUME NEW m \in Nat, m \in P PROVE m + 1 \in P
  <2>1. OfHeight(n) \subseteq OfHeight(n + m)
    BY <1>2
  <2>2. n + (m + 1) = (n + m) + 1 /\ n + m \in Nat
    OBVIOUS
  <2>3. OfHeight(n + m) \subseteq OfHeight((n + m) + 1)
    BY <2>2, TreeLarger
  <2> QED
    BY <2>1, <2>2, <2>3
<1> HIDE DEF P
<1>3. Nat \subseteq P
  BY <1>1, <1>2, NatInduct
<1> QED
  BY <1>3 DEF P

\* Every sequence of trees has a height.
LEMMA NodesHeight == \A s \in Seq(Nodes) : \E n \in Nat : s \in Seq(OfHeight(n))
<1> DEFINE P == {s \in Seq(Nodes) : \E n \in Nat : s \in Seq(OfHeight(n))}
<1>1. <<>> \in P
  <2>1. <<>> \in Seq(Nodes) /\ <<>> \in Seq(OfHeight(0)) /\ 0 \in Nat
    OBVIOUS
  <2> QED
    BY <2>1, Zenon
<1>2. ASSUME NEW s \in Seq(Nodes), NEW e \in Nodes, s \in P PROVE Append(s, e) \in P
  <2>1. PICK n \in Nat : s \in Seq(OfHeight(n))
    BY <1>2
  <2>2. PICK m \in Nat : e \in OfHeight(m)
    BY DEF Nodes
  <2> HIDE DEF P
  <2>3. PICK k \in Nat : k = n + m
    OBVIOUS
  <2>4. OfHeight(n) \subseteq OfHeight(k)
    BY <2>3, TreeMuchLarger
  <2>5. OfHeight(m) \subseteq OfHeight(k)
    <3>1. k = m + n
      BY <2>3
    <3> QED
      BY <3>1, TreeMuchLarger
  <2>6. s \in Seq(OfHeight(k))
    BY <2>1, <2>4, SeqLarger
  <2>7. e \in OfHeight(k)
    BY <2>2, <2>5
  <2>8. Append(s, e) \in Seq(OfHeight(k))
    BY <2>6, <2>7
  <2>9. Append(s, e) \in Seq(Nodes)
    OBVIOUS
  <2> QED
    BY <2>8, <2>9, Zenon DEF P
<1> HIDE DEF P
<1>3. Seq(Nodes) \subseteq P
  BY <1>1, <1>2, SeqInduct
<1> QED
  BY <1>3 DEF P

\* What the trees are.
LEMMA NodesAre == Nodes = NodesOver(Nodes)
<1>1. ASSUME NEW x \in Nodes PROVE x \in NodesOver(Nodes)
  <2>1. PICK n \in Nat : x \in OfHeight(n)
    BY DEF Nodes
  <2>2. x \in NodesOver(OfHeight(n))
    <3>1. OfHeight(n) \subseteq OfHeight(n + 1) /\ OfHeight(n + 1) = NodesOver(OfHeight(n))
      BY TreeLarger, TreeLaw
    <3> QED
      BY <2>1, <3>1
  <2>3. OfHeight(n) \subseteq Nodes
    BY DEF Nodes
  <2> QED
    BY <2>2, <2>3, NodesOverLarger
<1>2. ASSUME NEW x \in NodesOver(Nodes) PROVE x \in Nodes
  <2>1. x.sub \in Seq(Nodes)
    BY DEF NodesOver
  <2>2. PICK n \in Nat : x.sub \in Seq(OfHeight(n))
    BY <2>1, NodesHeight
  <2>3. x \in NodesOver(OfHeight(n))
    BY <2>2 DEF NodesOver
  <2>4. n + 1 \in Nat /\ OfHeight(n + 1) = NodesOver(OfHeight(n))
    BY TreeLaw
  <2> QED
    BY <2>3, <2>4 DEF Nodes
<1> QED
  BY <1>1, <1>2

LEMMA NodeParts ==
  ASSUME NEW x \in Nodes
  PROVE  /\ x.kind \in Kinds /\ x.text \in Texts /\ x.sub \in Seq(Nodes)
         /\ Shaped(x.kind, x.sub) /\ Named(x.kind, x.text)
         /\ x = Node(x.kind, x.text, x.sub)
<1>1. x \in NodesOver(Nodes)
  BY NodesAre
<1> QED
  BY <1>1 DEF NodesOver, Node

LEMMA NodeMade ==
  ASSUME NEW kind \in Kinds, NEW text \in Texts, NEW sub \in Seq(Nodes), Shaped(kind, sub), Named(kind, text)
  PROVE  Node(kind, text, sub) \in Nodes
<1>1. Node(kind, text, sub) \in NodesOver(Nodes)
  BY DEF NodesOver, Node
<1> QED
  BY <1>1, NodesAre

LEMMA LeafMade ==
  ASSUME NEW kind \in LeafKinds, NEW text \in Texts
  PROVE  Node(kind, text, <<>>) \in Nodes
<1>1. <<>> \in Seq(Nodes) /\ Shaped(kind, <<>>) /\ kind \in Kinds
  BY DEF Shaped, Kinds
<1>2. Named(kind, text)
  BY DEF Named, LeafKinds, ListKinds, Punctuation
<1> QED
  BY <1>1, <1>2, NodeMade

-----------------------------------------------------------------------------
(* What the text of a node consists of *)

LEMMA LeafNode == ASSUME NEW kind \in Punctuation PROVE Leaf(kind) \in Nodes
<1>1. kind \in LeafKinds
  BY DEF LeafKinds
<1>2. "" \in Texts
  BY DEF Texts
<1> QED
  BY <1>1, <1>2, LeafMade DEF Leaf

LEMMA SeparatedType ==
  ASSUME NEW list \in Seq(Nodes), list # <<>>
  PROVE  Separated(list) \in Seq(Nodes) /\ Len(Separated(list)) = 2 * Len(list) - 1
<1>1. PICK m \in Nat : m = Len(list) /\ m >= 1
  OBVIOUS
<1>2. Leaf("comma") \in Nodes
  BY LeafNode DEF Punctuation
<1>3. ASSUME NEW n \in 1 .. 2 * m - 1
      PROVE  (IF n % 2 = 0 THEN Leaf("comma") ELSE list[m - n \div 2]) \in Nodes
  <2>1. CASE n % 2 = 0
    BY <1>2, <2>1
  <2>2. CASE n % 2 # 0
    <3>1. m - n \div 2 \in 1 .. m
      BY <2>2
    <3>2. list[m - n \div 2] \in Nodes
      BY <1>1, <3>1
    <3> QED
      BY <2>2, <3>2
  <2> QED
    BY <2>1, <2>2
<1>4. PICK w : w = [n \in 1 .. 2 * m - 1 |-> IF n % 2 = 0 THEN Leaf("comma") ELSE list[m - n \div 2]]
  OBVIOUS
<1>5. \A n \in 1 .. 2 * m - 1 : w[n] \in Nodes
  BY <1>3, <1>4, Zenon
<1>6. 2 * m - 1 \in Nat
  BY <1>1
<1>7. w \in Seq(Nodes) /\ Len(w) = 2 * m - 1
  BY <1>4, <1>5, <1>6
<1>8. Separated(list) = w
  BY <1>1, <1>4, Zenon DEF Separated
<1> QED
  BY <1>1, <1>7, <1>8

LEMMA SeparatedOne ==
  ASSUME NEW x
  PROVE  Separated(<<x>>) = <<x>>
<1>1. PICK l : l = <<x>>
  OBVIOUS
<1>2. Len(l) = 1 /\ l[1] = x
  BY <1>1
<1>3. PICK w : w = [n \in 1 .. 1 |-> IF n % 2 = 0 THEN Leaf("comma") ELSE l[1 - n \div 2]]
  OBVIOUS
<1>4. Separated(l) = w
  <2>1. 2 * Len(l) - 1 = 1
    BY <1>2
  <2> QED
    BY <1>2, <1>3, <2>1, Zenon DEF Separated
<1>5. w = <<x>>
  <2>1. 1 % 2 # 0 /\ 1 - 1 \div 2 = 1
    OBVIOUS
  <2>2. w[1] = x
    BY <1>2, <1>3, <2>1
  <2>3. w = [n \in 1 .. 1 |-> x]
    BY <1>3, <2>2
  <2> QED
    BY <2>3
<1> QED
  BY <1>1, <1>4, <1>5

\* A new first element comes last in the text.
LEMMA SeparatedNew ==
  ASSUME NEW list \in Seq(Nodes), list # <<>>, NEW x \in Nodes
  PROVE  Separated(<<x>> \o list) = Separated(list) \o <<Leaf("comma"), x>>
<1>1. PICK m \in Nat : m = Len(list) /\ m >= 1
  OBVIOUS
<1>2. PICK l : l = <<x>> \o list
  OBVIOUS
<1>3. l \in Seq(Nodes) /\ l # <<>> /\ Len(l) = m + 1 /\ l[1] = x /\ \A n \in 1 .. m : l[n + 1] = list[n]
  BY <1>1, <1>2
<1>4. PICK c \in Nodes : c = Leaf("comma")
  BY LeafNode DEF Punctuation
<1>5. PICK v \in Seq(Nodes) : v = Separated(list) /\ Len(v) = 2 * m - 1
  BY <1>1, SeparatedType
<1>6. PICK w \in Seq(Nodes) : w = Separated(l) /\ Len(w) = 2 * (m + 1) - 1
  BY <1>3, SeparatedType
<1>7. \A n \in 1 .. 2 * m - 1 : v[n] = IF n % 2 = 0 THEN c ELSE list[m - n \div 2]
  <2>1. v = [n \in 1 .. 2 * m - 1 |-> IF n % 2 = 0 THEN c ELSE list[m - n \div 2]]
    BY <1>1, <1>4, <1>5, Zenon DEF Separated
  <2> QED
    BY <2>1, Zenon
<1>8. \A n \in 1 .. 2 * (m + 1) - 1 : w[n] = IF n % 2 = 0 THEN c ELSE l[m + 1 - n \div 2]
  <2>1. w = [n \in 1 .. 2 * (m + 1) - 1 |-> IF n % 2 = 0 THEN c ELSE l[m + 1 - n \div 2]]
    <3>1. w = [n \in 1 .. 2 * Len(l) - 1 |-> IF n % 2 = 0 THEN c ELSE l[Len(l) - n \div 2]]
      BY <1>4, <1>6, Zenon DEF Separated
    <3>2. Len(l) = m + 1
      BY <1>3
    <3> QED
      BY <3>1, <3>2
  <2> QED
    BY <2>1, Zenon
<1>9. PICK u : u = v \o <<c, x>>
  OBVIOUS
<1>10. u \in Seq(Nodes) /\ Len(u) = 2 * m + 1 /\ u[2 * m] = c /\ u[2 * m + 1] = x
       /\ \A n \in 1 .. 2 * m - 1 : u[n] = v[n]
  <2>1. PICK r \in Nat : r = 2 * m - 1 /\ r = Len(v)
    BY <1>1, <1>5
  <2>2. u \in Seq(Nodes) /\ Len(u) = r + 2 /\ u[r + 1] = c /\ u[r + 2] = x /\ \A n \in 1 .. r : u[n] = v[n]
    <3>1. u = Append(Append(v, c), x)
      BY <1>9
    <3>2. PICK t : t = Append(v, c)
      OBVIOUS
    <3>3. t \in Seq(Nodes) /\ Len(t) = r + 1 /\ t[r + 1] = c /\ \A n \in 1 .. r : t[n] = v[n]
      BY <1>4, <1>5, <2>1, <3>2
    <3>4. u = Append(t, x)
      BY <3>1, <3>2
    <3>5. u \in Seq(Nodes) /\ Len(u) = r + 2 /\ u[r + 2] = x /\ \A n \in 1 .. r + 1 : u[n] = t[n]
      BY <2>1, <3>3, <3>4
    <3> QED
      BY <3>3, <3>5
  <2>3. 2 * m = r + 1 /\ 2 * m + 1 = r + 2
    BY <2>1
  <2> QED
    BY <2>1, <2>2, <2>3
<1>11. ASSUME NEW n \in 1 .. 2 * m + 1 PROVE w[n] = u[n]
  <2>1. CASE n = 2 * m + 1
    <3>1. n \in 1 .. 2 * (m + 1) - 1 /\ n % 2 # 0 /\ m + 1 - n \div 2 = 1
      BY <2>1
    <3>2. w[n] = l[1]
      BY <1>8, <3>1
    <3> QED
      BY <1>3, <1>10, <2>1, <3>2
  <2>2. CASE n = 2 * m
    <3>1. n \in 1 .. 2 * (m + 1) - 1 /\ n % 2 = 0
      BY <1>1, <2>2
    <3> QED
      BY <1>8, <1>10, <2>2, <3>1
  <2>3. CASE n <= 2 * m - 1
    <3>1. n \in 1 .. 2 * (m + 1) - 1 /\ n \in 1 .. 2 * m - 1
      BY <1>1, <2>3
    <3>2. CASE n % 2 = 0
      <4>1. w[n] = c /\ v[n] = c
        BY <1>7, <1>8, <3>1, <3>2
      <4> QED
        BY <1>10, <3>1, <4>1
    <3>3. CASE n % 2 # 0
      <4>1. w[n] = l[m + 1 - n \div 2] /\ v[n] = list[m - n \div 2]
        BY <1>7, <1>8, <3>1, <3>3
      <4>2. PICK j \in 1 .. m : j = m - n \div 2
        BY <3>1, <3>3
      <4>3. m + 1 - n \div 2 = j + 1
        BY <4>2
      <4>4. l[j + 1] = list[j]
        BY <1>3
      <4> QED
        BY <1>10, <3>1, <4>1, <4>2, <4>3, <4>4
    <3> QED
      BY <3>2, <3>3
  <2> QED
    BY <1>1, <2>1, <2>2, <2>3, SMTT(40)
<1>12. w = u
  <2>1. Len(w) = 2 * m + 1
    BY <1>1, <1>6
  <2> QED
    BY <1>6, <1>10, <1>11, <2>1, SameElements
<1> QED
  BY <1>2, <1>4, <1>5, <1>6, <1>9, <1>12

\* The parts of a node, for each kind.
LEMMA LeafParts ==
  ASSUME NEW kind \in LeafKinds, NEW text
  PROVE  Parts(Node(kind, text, <<>>)) = <<Node(kind, text, <<>>)>>
<1>1. kind \notin ListKinds /\ kind # "entry" /\ kind # "property"
  BY DEF LeafKinds, ListKinds, Punctuation
<1>2. Node(kind, text, <<>>).kind = kind
  BY DEF Node
<1> QED
  BY <1>1, <1>2, Zenon DEF Parts

LEMMA ListParts ==
  ASSUME NEW kind \in ListKinds, NEW text, NEW sub
  PROVE  Parts(Node(kind, text, sub)) = Separated(sub)
<1>1. kind # "entry" /\ kind # "property"
  BY DEF ListKinds
<1>2. Node(kind, text, sub).kind = kind /\ Node(kind, text, sub).sub = sub
  BY DEF Node
<1> QED
  BY <1>1, <1>2, Zenon DEF Parts

LEMMA EntryParts ==
  ASSUME NEW text, NEW sub
  PROVE  Parts(Node("entry", text, sub)) = <<Leaf("lbrace")>> \o Separated(sub) \o <<Leaf("rbrace")>>
<1>1. "entry" \notin ListKinds
  BY DEF ListKinds
<1>2. Node("entry", text, sub).kind = "entry" /\ Node("entry", text, sub).sub = sub
  BY DEF Node
<1> QED
  BY <1>1, <1>2, Zenon DEF Parts

LEMMA PropertyParts ==
  ASSUME NEW text, NEW x
  PROVE  Parts(Node("property", text, <<x>>)) =
           <<Node("identifier", text, <<>>), Leaf("equals")>> \o
           (IF x.kind \in ListKinds THEN <<Leaf("lbracket"), x, Leaf("rbracket")>> ELSE <<x>>)
<1>1. "property" \notin ListKinds
  BY DEF ListKinds
<1>2. PICK p : p = Node("property", text, <<x>>)
  OBVIOUS
<1>3. p.kind = "property" /\ p.text = text /\ p.sub = <<x>> /\ p.sub[1] = x
  BY <1>2 DEF Node
<1>4. Parts(p) = <<Node("identifier", p.text, <<>>), Leaf("equals")>> \o
           (IF p.sub[1].kind \in ListKinds THEN <<Leaf("lbracket"), p.sub[1], Leaf("rbracket")>> ELSE p.sub)
  <2>1. p.kind \notin ListKinds /\ p.kind # "entry" /\ p.kind = "property"
    BY <1>1, <1>3
  <2> QED
    BY <2>1, Zenon DEF Parts
<1> QED
  BY <1>2, <1>3, <1>4

LEMMA PartsType == \A x \in Nodes : Parts(x) \in Seq(Nodes)
<1> SUFFICES ASSUME NEW x \in Nodes PROVE Parts(x) \in Seq(Nodes)
  OBVIOUS
<1>1. PICK kind \in Kinds, text \in Texts, sub \in Seq(Nodes) :
        x = Node(kind, text, sub) /\ Shaped(kind, sub)
  BY NodeParts
<1>2. CASE kind \in LeafKinds
  <2>1. x = Node(kind, text, <<>>)
    BY <1>1, <1>2 DEF Shaped
  <2> QED
    <3>1. Parts(x) = <<x>>
      BY <1>2, <2>1, LeafParts
    <3> QED
      BY <3>1
<1>3. CASE kind \in ListKinds
  <2>1. sub # <<>>
    <3>1. kind \notin LeafKinds
      BY <1>3 DEF LeafKinds, ListKinds, Punctuation
    <3> QED
      BY <1>1, <3>1 DEF Shaped
  <2> QED
    BY <1>1, <1>3, <2>1, ListParts, SeparatedType
<1>4. CASE kind = "entry"
  <2>1. sub # <<>>
    <3>1. kind \notin LeafKinds
      BY <1>4 DEF LeafKinds, Punctuation
    <3> QED
      BY <1>1, <3>1 DEF Shaped
  <2>2. PICK l \in Seq(Nodes) : l = Separated(sub)
    BY <2>1, SeparatedType
  <2>3. PICK o, c \in Nodes : o = Leaf("lbrace") /\ c = Leaf("rbrace")
    BY LeafNode DEF Punctuation
  <2>4. <<o>> \o l \o <<c>> \in Seq(Nodes)
    OBVIOUS
  <2> QED
    BY <1>1, <1>4, <2>2, <2>3, <2>4, EntryParts
<1>5. CASE kind = "property"
  <2>1. Len(sub) = 1
    <3>1. kind \notin LeafKinds
      BY <1>5 DEF LeafKinds, Punctuation
    <3> QED
      BY <1>1, <1>5, <3>1 DEF Shaped
  <2>2. PICK y \in Nodes : sub = <<y>>
    BY <2>1
  <2>3. PICK o, c, e \in Nodes : o = Leaf("lbracket") /\ c = Leaf("rbracket") /\ e = Leaf("equals")
    BY LeafNode DEF Punctuation
  <2>4. PICK i \in Nodes : i = Node("identifier", text, <<>>)
    BY LeafMade DEF LeafKinds
  <2>5. Parts(x) = <<i, e>> \o (IF y.kind \in ListKinds THEN <<o, y, c>> ELSE <<y>>)
    BY <1>1, <1>5, <2>2, <2>3, <2>4, PropertyParts
  <2>6. <<i, e>> \o <<o, y, c>> \in Seq(Nodes) /\ <<i, e>> \o <<y>> \in Seq(Nodes)
    OBVIOUS
  <2> QED
    BY <2>5, <2>6
<1> QED
  BY <1>2, <1>3, <1>4, <1>5 DEF Kinds

-----------------------------------------------------------------------------
(* Writing parse trees down *)

PartsFunction == [x \in Nodes |-> Parts(x)]

LEMMA PartsFunctionType ==
  MapType(PartsFunction, Nodes, Nodes) /\ \A x \in Nodes : PartsFunction[x] = Parts(x)
  BY PartsType DEF MapType, PartsFunction

LEMMA PartsOfMapped ==
  ASSUME NEW nodes \in Seq(Nodes)
  PROVE  PartsOf(nodes) = Mapped(nodes, PartsFunction)
<1>1. \A k \in DOMAIN nodes : Parts(nodes[k]) = PartsFunction[nodes[k]]
  <2>1. \A k \in DOMAIN nodes : nodes[k] \in Nodes
    OBVIOUS
  <2> QED
    BY <2>1, PartsFunctionType
<1>2. [k \in DOMAIN nodes |-> Parts(nodes[k])] = [k \in DOMAIN nodes |-> PartsFunction[nodes[k]]]
  BY <1>1, Zenon
<1> QED
  BY <1>2, Zenon DEF PartsOf, Mapped

LEMMA PartsOfType == ASSUME NEW nodes \in Seq(Nodes) PROVE PartsOf(nodes) \in Seq(Nodes)
  BY PartsOfMapped, PartsFunctionType, MappedType

LEMMA PartsOfJoin ==
  ASSUME NEW a \in Seq(Nodes), NEW b \in Seq(Nodes)
  PROVE  PartsOf(a \o b) = PartsOf(a) \o PartsOf(b)
<1>1. a \o b \in Seq(Nodes)
  OBVIOUS
<1>2. Mapped(a \o b, PartsFunction) = Mapped(a, PartsFunction) \o Mapped(b, PartsFunction)
  BY PartsFunctionType, MappedJoin
<1> QED
  BY <1>1, <1>2, PartsOfMapped

LEMMA PartsOfOne == ASSUME NEW x \in Nodes PROVE PartsOf(<<x>>) = Parts(x)
<1>1. <<x>> \in Seq(Nodes)
  OBVIOUS
<1>2. Mapped(<<x>>, PartsFunction) = PartsFunction[x]
  BY PartsFunctionType, MappedOne
<1> QED
  BY <1>1, <1>2, PartsOfMapped, PartsFunctionType

LEMMA WrittenType ==
  ASSUME NEW nodes \in Seq(Nodes)
  PROVE  \A n \in Nat : Written(nodes, n) \in Seq(Nodes)
<1> DEFINE P == {n \in Nat : Written(nodes, n) \in Seq(Nodes)}
<1>1. 0 \in P
  BY WrittenLaw
<1>2. ASSUME NEW n \in Nat, n \in P PROVE n + 1 \in P
  <2>1. PICK w \in Seq(Nodes) : w = Written(nodes, n)
    BY <1>2
  <2>2. Written(nodes, n + 1) = PartsOf(w)
    BY <2>1, WrittenLaw
  <2>3. PartsOf(w) \in Seq(Nodes)
    BY PartsOfType
  <2> QED
    BY <2>2, <2>3
<1> HIDE DEF P
<1>3. Nat \subseteq P
  BY <1>1, <1>2, NatInduct
<1> QED
  BY <1>3 DEF P

LEMMA WrittenJoin ==
  ASSUME NEW a \in Seq(Nodes), NEW b \in Seq(Nodes)
  PROVE  \A n \in Nat : Written(a \o b, n) = Written(a, n) \o Written(b, n)
<1> DEFINE P == {n \in Nat : Written(a \o b, n) = Written(a, n) \o Written(b, n)}
<1>1. 0 \in P
  BY WrittenLaw
<1>2. ASSUME NEW n \in Nat, n \in P PROVE n + 1 \in P
  <2>1. Written(a \o b, n) = Written(a, n) \o Written(b, n)
    BY <1>2
  <2>2. Written(a \o b, n + 1) = PartsOf(Written(a \o b, n))
    BY WrittenLaw
  <2>3. Written(a, n + 1) = PartsOf(Written(a, n)) /\ Written(b, n + 1) = PartsOf(Written(b, n))
    BY WrittenLaw
  <2>4. Written(a, n) \in Seq(Nodes) /\ Written(b, n) \in Seq(Nodes)
    BY WrittenType
  <2>5. PartsOf(Written(a, n) \o Written(b, n)) = PartsOf(Written(a, n)) \o PartsOf(Written(b, n))
    BY <2>4, PartsOfJoin
  <2>6. Written(a \o b, n + 1) = Written(a, n + 1) \o Written(b, n + 1)
    BY <2>1, <2>2, <2>3, <2>5, Zenon
  <2> QED
    BY <2>6
<1> HIDE DEF P
<1>3. Nat \subseteq P
  BY <1>1, <1>2, NatInduct
<1> QED
  BY <1>3 DEF P

LEMMA LeavesAreNodes == Leaves \subseteq Nodes
  BY LeafMade DEF Leaves

LEMMA SettledParts ==
  ASSUME NEW nodes \in Seq(Leaves)
  PROVE  PartsOf(nodes) = nodes
<1>1. \A x \in Leaves : PartsFunction[x] = <<x>>
  <2> TAKE x \in Leaves
  <2>1. PICK kind \in LeafKinds, text \in Texts : x = Node(kind, text, <<>>)
    BY DEF Leaves
  <2>2. Parts(x) = <<x>>
    BY <2>1, LeafParts
  <2> QED
    BY <2>2, LeavesAreNodes, PartsFunctionType
<1>2. PICK f : f = [x \in Leaves |-> <<x>>]
  OBVIOUS
<1>3. MapType(f, Leaves, Leaves)
  BY <1>2 DEF MapType
<1>4. \A x \in Leaves : f[x] = <<x>>
  BY <1>2
<1>5. Mapped(nodes, f) = nodes
  BY <1>3, <1>4, MappedSame
<1>6. nodes \in Seq(Nodes)
  BY LeavesAreNodes, SeqLarger
<1>7. [k \in DOMAIN nodes |-> PartsFunction[nodes[k]]] = [k \in DOMAIN nodes |-> f[nodes[k]]]
  <2>1. \A k \in DOMAIN nodes : nodes[k] \in Leaves
    OBVIOUS
  <2>2. ASSUME NEW k \in DOMAIN nodes PROVE PartsFunction[nodes[k]] = f[nodes[k]]
    <3>1. PICK x \in Leaves : x = nodes[k]
      BY <2>1
    <3> QED
      BY <1>1, <1>4, <3>1
  <2> QED
    BY <2>2, Zenon
<1>8. Mapped(nodes, PartsFunction) = Mapped(nodes, f)
  BY <1>7, Zenon DEF Mapped
<1> QED
  BY <1>5, <1>6, <1>8, PartsOfMapped

\* Leaves stay as they are.
LEMMA SettledWritten ==
  ASSUME NEW nodes, NEW k \in Nat, Written(nodes, k) \in Seq(Leaves)
  PROVE  \A n \in Nat : Written(nodes, k + n) = Written(nodes, k)
<1> DEFINE P == {n \in Nat : Written(nodes, k + n) = Written(nodes, k)}
<1>1. 0 \in P
  <2>1. k + 0 = k
    OBVIOUS
  <2> QED
    BY <2>1
<1>2. ASSUME NEW n \in Nat, n \in P PROVE n + 1 \in P
  <2>1. Written(nodes, k + n) = Written(nodes, k)
    BY <1>2
  <2>2. k + (n + 1) = (k + n) + 1 /\ k + n \in Nat
    OBVIOUS
  <2>3. Written(nodes, (k + n) + 1) = PartsOf(Written(nodes, k + n))
    BY <2>2, WrittenLaw
  <2>4. PartsOf(Written(nodes, k)) = Written(nodes, k)
    BY SettledParts
  <2> QED
    BY <2>1, <2>2, <2>3, <2>4
<1> HIDE DEF P
<1>3. Nat \subseteq P
  BY <1>1, <1>2, NatInduct
<1> QED
  BY <1>3 DEF P

LEMMA LeavesWritten ==
  ASSUME NEW nodes \in Seq(Leaves)
  PROVE  \A n \in Nat : Written(nodes, n) = nodes
<1>1. Written(nodes, 0) = nodes
  BY WrittenLaw
<1>2. \A n \in Nat : Written(nodes, 0 + n) = Written(nodes, 0)
  BY <1>1, SettledWritten
<1>3. \A n \in Nat : 0 + n = n
  OBVIOUS
<1> QED
  BY <1>1, <1>2, <1>3

-----------------------------------------------------------------------------
(* Tokens, and those of some types left out *)

Keeping(types, S) == [t \in S |-> IF t.type \in types THEN <<>> ELSE <<t>>]

LEMMA KeepingType == ASSUME NEW types, NEW S PROVE MapType(Keeping(types, S), S, S)
  BY DEF MapType, Keeping

LEMMA WithoutMapped ==
  ASSUME NEW types, NEW S, NEW s \in Seq(S)
  PROVE  Without(types, s) = Mapped(s, Keeping(types, S))
<1>1. \A k \in DOMAIN s : s[k] \in S
  OBVIOUS
<1>2. \A k \in DOMAIN s : Keeping(types, S)[s[k]] = IF s[k].type \in types THEN <<>> ELSE <<s[k]>>
  BY <1>1, Zenon DEF Keeping
<1>3. [k \in DOMAIN s |-> IF s[k].type \in types THEN <<>> ELSE <<s[k]>>]
        = [k \in DOMAIN s |-> Keeping(types, S)[s[k]]]
  BY <1>2, Zenon
<1> QED
  BY <1>3, Zenon DEF Without, Mapped

LEMMA WithoutType ==
  ASSUME NEW types, NEW S, NEW s \in Seq(S)
  PROVE  Without(types, s) \in Seq(S)
  BY WithoutMapped, KeepingType, MappedType

LEMMA WithoutJoin ==
  ASSUME NEW types, NEW S, NEW a \in Seq(S), NEW b \in Seq(S)
  PROVE  Without(types, a \o b) = Without(types, a) \o Without(types, b)
<1>1. a \o b \in Seq(S)
  OBVIOUS
<1>2. PICK f : f = Keeping(types, S)
  OBVIOUS
<1>3. Mapped(a \o b, f) = Mapped(a, f) \o Mapped(b, f)
  <2>1. MapType(f, S, S)
    BY <1>2, KeepingType
  <2> QED
    BY <2>1, MappedJoin
<1> QED
  BY <1>1, <1>2, <1>3, WithoutMapped

LEMMA WithoutOne ==
  ASSUME NEW types, NEW t
  PROVE  Without(types, <<t>>) = IF t.type \in types THEN <<>> ELSE <<t>>
<1>1. <<t>> \in Seq({t})
  OBVIOUS
<1>2. PICK f : f = Keeping(types, {t})
  OBVIOUS
<1>3. Without(types, <<t>>) = Mapped(<<t>>, f)
  BY <1>1, <1>2, WithoutMapped
<1>4. Mapped(<<t>>, f) = f[t]
  <2>1. MapType(f, {t}, {t})
    BY <1>2, KeepingType
  <2>2. t \in {t}
    OBVIOUS
  <2> QED
    BY <2>1, <2>2, MappedOne
<1>5. f[t] = IF t.type \in types THEN <<>> ELSE <<t>>
  BY <1>2, Zenon DEF Keeping
<1> QED
  BY <1>3, <1>4, <1>5

LEMMA WithoutNone == ASSUME NEW types PROVE Without(types, <<>>) = <<>>
<1>1. <<>> \in Seq({})
  OBVIOUS
<1> QED
  BY <1>1, WithoutMapped, MappedNone

AnyToken == {Token(x.kind, x.text) : x \in Nodes}

LEMMA TokensType == ASSUME NEW nodes \in Seq(Nodes) PROVE Tokens(nodes) \in Seq(AnyToken)
<1>1. PICK m \in Nat : m = Len(nodes) /\ DOMAIN nodes = 1 .. m
  OBVIOUS
<1>2. \A n \in 1 .. m : Token(nodes[n].kind, nodes[n].text) \in AnyToken
  <2> TAKE n \in 1 .. m
  <2>1. nodes[n] \in Nodes
    BY <1>1
  <2> QED
    BY <2>1, Zenon DEF AnyToken
<1>3. PICK w : w = [n \in 1 .. m |-> Token(nodes[n].kind, nodes[n].text)]
  OBVIOUS
<1>4. \A n \in 1 .. m : w[n] \in AnyToken
  BY <1>2, <1>3, Zenon
<1>5. w \in Seq(AnyToken)
  BY <1>3, <1>4
<1> QED
  BY <1>1, <1>3, <1>5, Zenon DEF Tokens

LEMMA TokensOne == ASSUME NEW x PROVE Tokens(<<x>>) = <<Token(x.kind, x.text)>>
<1>1. PICK l : l = <<x>>
  OBVIOUS
<1>2. DOMAIN l = 1 .. 1 /\ l[1] = x
  BY <1>1
<1>3. Tokens(l) = [n \in 1 .. 1 |-> Token(l[n].kind, l[n].text)]
  BY <1>2, Zenon DEF Tokens
<1>4. PICK e : e = Token(x.kind, x.text)
  OBVIOUS
<1>5. [n \in 1 .. 1 |-> Token(l[n].kind, l[n].text)] = [n \in 1 .. 1 |-> e]
  BY <1>2, <1>4
<1>6. [n \in 1 .. 1 |-> e] = <<e>>
  OBVIOUS
<1> QED
  BY <1>1, <1>3, <1>4, <1>5, <1>6

LEMMA TokensJoin ==
  ASSUME NEW a \in Seq(Nodes), NEW b \in Seq(Nodes)
  PROVE  Tokens(a \o b) = Tokens(a) \o Tokens(b)
<1>1. PICK n \in Nat : n = Len(a) /\ DOMAIN a = 1 .. n
  OBVIOUS
<1>2. PICK m \in Nat : m = Len(b) /\ DOMAIN b = 1 .. m
  OBVIOUS
<1>3. PICK s : s = a \o b
  OBVIOUS
<1>4. s \in Seq(Nodes) /\ Len(s) = n + m /\ DOMAIN s = 1 .. n + m
  BY <1>1, <1>2, <1>3
<1>5. \A q \in 1 .. n + m : s[q] = IF q <= n THEN a[q] ELSE b[q - n]
  BY <1>1, <1>2, <1>3, JoinedAt DEF JoinShape
<1>6. PICK x \in Seq(AnyToken) : x = Tokens(a)
  BY TokensType
<1>7. PICK y \in Seq(AnyToken) : y = Tokens(b)
  BY TokensType
<1>8. PICK z \in Seq(AnyToken) : z = Tokens(s)
  BY <1>4, TokensType
<1>9. x = [q \in 1 .. n |-> Token(a[q].kind, a[q].text)]
  BY <1>1, <1>6, Zenon DEF Tokens
<1>10. y = [q \in 1 .. m |-> Token(b[q].kind, b[q].text)]
  BY <1>2, <1>7, Zenon DEF Tokens
<1>11. z = [q \in 1 .. n + m |-> Token(s[q].kind, s[q].text)]
  BY <1>4, <1>8, Zenon DEF Tokens
<1>12. Len(x) = n /\ Len(y) = m /\ Len(z) = n + m
  BY <1>6, <1>7, <1>8, <1>9, <1>10, <1>11
<1>13. PICK w : w = x \o y
  OBVIOUS
<1>14. w \in Seq(AnyToken)
  BY <1>6, <1>7, <1>13
<1>15. Len(w) = n + m /\ \A q \in 1 .. n + m : w[q] = IF q <= n THEN x[q] ELSE y[q - n]
  <2>1. n = Len(x) /\ m = Len(y)
    BY <1>12
  <2>2. n \in Nat /\ m \in Nat /\ x \in Seq(AnyToken) /\ y \in Seq(AnyToken)
    BY <1>1, <1>2, <1>6, <1>7
  <2>3. JoinShape(x \o y, x, y, n, m)
    BY <2>1, <2>2, JoinedAt
  <2> QED
    BY <1>13, <2>3, Zenon DEF JoinShape
<1>16. ASSUME NEW q \in 1 .. n + m PROVE z[q] = w[q]
  <2>1. z[q] = Token(s[q].kind, s[q].text)
    BY <1>11
  <2>2. CASE q <= n
    <3>1. s[q] = a[q] /\ w[q] = x[q]
      BY <1>5, <1>15, <2>2
    <3>2. x[q] = Token(a[q].kind, a[q].text)
      BY <1>9, <2>2
    <3> QED
      BY <2>1, <3>1, <3>2
  <2>3. CASE ~(q <= n)
    <3>1. s[q] = b[q - n] /\ w[q] = y[q - n]
      BY <1>5, <1>15, <2>3
    <3>2. q - n \in 1 .. m
      BY <2>3
    <3>3. y[q - n] = Token(b[q - n].kind, b[q - n].text)
      BY <1>10, <3>2
    <3> QED
      BY <2>1, <3>1, <3>3
  <2> QED
    BY <2>2, <2>3
<1>17. z = w
  BY <1>8, <1>12, <1>14, <1>15, <1>16, SameElements
<1> QED
  BY <1>3, <1>6, <1>7, <1>8, <1>13, <1>17

-----------------------------------------------------------------------------
(* The tokens of a file that count, and the nodes they were made into *)

Plain(nodes) == Without({"rbrace"}, Tokens(nodes))

LEMMA PlainJoin ==
  ASSUME NEW a \in Seq(Nodes), NEW b \in Seq(Nodes)
  PROVE  Plain(a \o b) = Plain(a) \o Plain(b)
<1>1. PICK x \in Seq(AnyToken) : x = Tokens(a)
  BY TokensType
<1>2. PICK y \in Seq(AnyToken) : y = Tokens(b)
  BY TokensType
<1>3. Tokens(a \o b) = x \o y
  BY <1>1, <1>2, TokensJoin
<1>4. Without({"rbrace"}, x \o y) = Without({"rbrace"}, x) \o Without({"rbrace"}, y)
  BY <1>1, <1>2, WithoutJoin
<1> QED
  BY <1>1, <1>2, <1>3, <1>4, Zenon DEF Plain

LEMMA PlainOne ==
  ASSUME NEW x
  PROVE  Plain(<<x>>) = IF x.kind = "rbrace" THEN <<>> ELSE <<Token(x.kind, x.text)>>
<1>1. PICK t : t = Token(x.kind, x.text)
  OBVIOUS
<1>2. t.type = x.kind
  BY <1>1 DEF Token
<1>3. Plain(<<x>>) = Without({"rbrace"}, <<t>>)
  BY <1>1, TokensOne DEF Plain
<1> QED
  BY <1>1, <1>2, <1>3, WithoutOne

LEMMA PlainType == ASSUME NEW nodes \in Seq(Nodes) PROVE Plain(nodes) \in Seq(AnyToken)
  BY TokensType, WithoutType DEF Plain

\* The tokens among the first "b" of the file, closing braces left out.
Segment(b) == Without({"rbrace"}, Without({"blank", "error"}, SubSeq(file, 1, b)))

Skipped == {"blank", "error", "rbrace"}

LEMMA SegmentNone == Segment(0) = <<>>
<1>1. SubSeq(file, 1, 0) = <<>>
  OBVIOUS
<1> QED
  BY <1>1, WithoutNone DEF Segment

LEMMA SegmentType ==
  ASSUME NEW S, file \in Seq(S), NEW b \in 0 .. Len(file)
  PROVE  Segment(b) \in Seq(S)
<1>1. SubSeq(file, 1, b) \in Seq(S)
  OBVIOUS
<1> QED
  BY <1>1, WithoutType DEF Segment

LEMMA SegmentNext ==
  ASSUME NEW S, file \in Seq(S), NEW b \in Nat, b + 1 <= Len(file)
  PROVE  Segment(b + 1) = IF file[b + 1].type \in Skipped THEN Segment(b)
                          ELSE Segment(b) \o <<file[b + 1]>>
<1>1. PICK p : p = SubSeq(file, 1, b)
  OBVIOUS
<1>2. PICK t : t = file[b + 1]
  OBVIOUS
<1>3. p \in Seq(S) /\ t \in S
  BY <1>1, <1>2
<1>4. SubSeq(file, 1, b + 1) = Append(p, t)
  BY <1>1, <1>2, PrefixAppend
<1>5. Append(p, t) = p \o <<t>> /\ <<t>> \in Seq(S)
  BY <1>3
<1>6. PICK x : x = Without({"blank", "error"}, p)
  OBVIOUS
<1>7. PICK y : y = Without({"blank", "error"}, <<t>>)
  OBVIOUS
<1>8. x \in Seq(S) /\ y \in Seq(S)
  BY <1>3, <1>5, <1>6, <1>7, WithoutType
<1>9. Without({"blank", "error"}, p \o <<t>>) = x \o y
  BY <1>3, <1>5, <1>6, <1>7, WithoutJoin
<1>10. Segment(b + 1) = Without({"rbrace"}, x) \o Without({"rbrace"}, y)
  <2>1. Without({"rbrace"}, x \o y) = Without({"rbrace"}, x) \o Without({"rbrace"}, y)
    BY <1>8, WithoutJoin
  <2> QED
    BY <1>4, <1>5, <1>9, <2>1, Zenon DEF Segment
<1>11. Segment(b) = Without({"rbrace"}, x)
  BY <1>1, <1>6, Zenon DEF Segment
<1>12. Without({"rbrace"}, x) \in Seq(S)
  BY <1>8, WithoutType
<1>13. y = IF t.type \in {"blank", "error"} THEN <<>> ELSE <<t>>
  BY <1>7, WithoutOne
<1>14. CASE t.type \in {"blank", "error"}
  <2>1. Without({"rbrace"}, y) = <<>> /\ t.type \in Skipped
    BY <1>13, <1>14, WithoutNone DEF Skipped
  <2>2. Segment(b) \o <<>> = Segment(b)
    BY <1>11, <1>12, JoinNothing
  <2> QED
    BY <1>2, <1>10, <1>11, <2>1, <2>2, Zenon
<1>15. CASE t.type \notin {"blank", "error"}
  <2>1. y = <<t>>
    BY <1>13, <1>15
  <2>2. Without({"rbrace"}, y) = IF t.type = "rbrace" THEN <<>> ELSE <<t>>
    BY <2>1, WithoutOne
  <2>3. Segment(b) \o <<>> = Segment(b)
    BY <1>11, <1>12, JoinNothing
  <2>4. t.type \in Skipped <=> t.type = "rbrace"
    BY <1>15 DEF Skipped
  <2> QED
    BY <1>2, <1>10, <1>11, <2>2, <2>3, <2>4, Zenon
<1> QED
  BY <1>14, <1>15

LEMMA SegmentStays ==
  ASSUME NEW S, file \in Seq(S), NEW a \in Nat, NEW b \in Nat, a <= b, b <= Len(file),
         \A i \in a + 1 .. b : file[i].type \in Skipped
  PROVE  Segment(b) = Segment(a)
<1> DEFINE P == {n \in Nat : a + n <= b => Segment(a + n) = Segment(a)}
<1>1. 0 \in P
  <2>1. a + 0 = a
    OBVIOUS
  <2> QED
    BY <2>1
<1>2. ASSUME NEW n \in Nat, n \in P PROVE n + 1 \in P
  <2> SUFFICES ASSUME a + (n + 1) <= b PROVE Segment(a + (n + 1)) = Segment(a)
    OBVIOUS
  <2>1. Segment(a + n) = Segment(a)
    BY <1>2
  <2>2. PICK m \in Nat : m = a + n
    OBVIOUS
  <2>3. a + (n + 1) = m + 1 /\ m + 1 <= Len(file) /\ m + 1 \in a + 1 .. b
    BY <2>2
  <2>4. Segment(m + 1) = Segment(m)
    BY <2>3, SegmentNext
  <2> QED
    BY <2>1, <2>2, <2>3, <2>4
<1> HIDE DEF P
<1>3. Nat \subseteq P
  BY <1>1, <1>2, NatInduct
<1>4. PICK n \in Nat : b = a + n
  <2>1. b - a \in Nat /\ b = a + (b - a)
    OBVIOUS
  <2> QED
    BY <2>1
<1> QED
  BY <1>3, <1>4 DEF P

\* The nodes, written down, are what counts of the first "b" tokens.
CoversBy(nodes, b, k) ==
  /\ k + Len(nodes) <= b
  /\ Written(nodes, k) \in Seq(Leaves)
  /\ Plain(Written(nodes, k)) = Segment(b)

Covers(nodes, b) == \E k \in Nat : CoversBy(nodes, b, k)

LEMMA CoverNone == Covers(<<>>, 0)
<1>1. Written(<<>>, 0) = <<>>
  BY WrittenLaw
<1>2. Tokens(<<>>) = <<>>
  BY DEF Tokens
<1>3. Plain(<<>>) = <<>>
  BY <1>2, WithoutNone DEF Plain
<1>4. <<>> \in Seq(Leaves) /\ 0 + Len(<<>>) <= 0 /\ 0 \in Nat
  OBVIOUS
<1> QED
  BY <1>1, <1>3, <1>4, SegmentNone, Zenon DEF Covers, CoversBy

LEMMA CoverSkip ==
  ASSUME NEW nodes \in Seq(Nodes), NEW a \in Nat, NEW b \in Nat, a <= b, Segment(b) = Segment(a),
         Covers(nodes, a)
  PROVE  Covers(nodes, b)
<1>1. PICK k \in Nat : CoversBy(nodes, a, k)
  BY Zenon DEF Covers
<1>2. PICK m \in Nat : m = Len(nodes)
  OBVIOUS
<1>3. k + m <= a
  BY <1>1, <1>2 DEF CoversBy
<1>4. k + m <= b
  BY <1>3
<1>5. CoversBy(nodes, b, k)
  BY <1>1, <1>2, <1>4, Zenon DEF CoversBy
<1> QED
  BY <1>5, Zenon DEF Covers

LEMMA LeafLeaf ==
  ASSUME NEW kind \in Punctuation
  PROVE  Leaf(kind) \in Leaves /\ Leaf(kind).kind = kind /\ Leaf(kind).text = ""
<1>1. kind \in LeafKinds
  BY DEF LeafKinds
<1>2. "" \in Texts
  BY DEF Texts
<1>3. Leaf(kind) \in Leaves
  <2>1. Leaf(kind) = Node(kind, "", <<>>)
    BY DEF Leaf
  <2>2. \E k \in LeafKinds, t \in Texts : Leaf(kind) = Node(k, t, <<>>)
    BY <1>1, <1>2, <2>1
  <2> QED
    BY <2>2 DEF Leaves
<1> QED
  BY <1>3 DEF Leaf, Node

LEMMA CoverToken ==
  ASSUME NEW nodes \in Seq(Nodes), NEW a \in Nat, NEW b \in Nat, a + 1 <= b, Covers(nodes, a),
         NEW kind \in LeafKinds, kind # "rbrace", NEW text \in Texts,
         Segment(b) = Segment(a) \o <<Token(kind, text)>>
  PROVE  Covers(nodes \o <<Node(kind, text, <<>>)>>, b)
<1>1. PICK k \in Nat : CoversBy(nodes, a, k)
  BY Zenon DEF Covers
<1>2. PICK m \in Nat : m = Len(nodes)
  OBVIOUS
<1>3. k + m <= a
  BY <1>1, <1>2 DEF CoversBy
<1>4. PICK x : x = Node(kind, text, <<>>)
  OBVIOUS
<1>5. x \in Nodes /\ x \in Leaves /\ x.kind = kind /\ x.text = text
  BY <1>4, LeafMade DEF Leaves, Node
<1>6. PICK one \in Seq(Nodes) : one = <<x>>
  <2>1. <<x>> \in Seq(Nodes)
    BY <1>5
  <2> QED
    BY <2>1
<1>7. one \in Seq(Leaves) /\ Len(one) = 1
  BY <1>5, <1>6
<1>8. PICK w \in Seq(Leaves) : w = Written(nodes, k)
  BY <1>1 DEF CoversBy
<1>9. Written(nodes \o one, k) = w \o one
  <2>1. Written(one, k) = one
    BY <1>7, LeavesWritten
  <2>2. one \in Seq(Nodes) /\ k \in Nat
    BY <1>1, <1>6
  <2>3. Written(nodes \o one, k) = Written(nodes, k) \o Written(one, k)
    BY <2>2, WrittenJoin
  <2> QED
    BY <1>8, <2>1, <2>3, Zenon
<1>10. w \o one \in Seq(Leaves)
  BY <1>7, <1>8
<1>11. Plain(w \o one) = Segment(b)
  <2>1. w \in Seq(Nodes)
    BY <1>8, LeavesAreNodes, SeqLarger
  <2>2. Plain(w \o one) = Plain(w) \o Plain(one)
    BY <1>6, <2>1, PlainJoin
  <2>3. Plain(one) = <<Token(kind, text)>>
    BY <1>5, <1>6, PlainOne
  <2>4. Plain(w) = Segment(a)
    BY <1>1, <1>8, Zenon DEF CoversBy
  <2> QED
    BY <2>2, <2>3, <2>4, Zenon
<1>12. Len(nodes \o one) = m + 1
  BY <1>2, <1>6, <1>7
<1>13. k + (m + 1) <= b
  BY <1>3
<1>14. CoversBy(nodes \o one, b, k)
  BY <1>9, <1>10, <1>11, <1>12, <1>13, Zenon DEF CoversBy
<1> QED
  BY <1>4, <1>6, <1>14, Zenon DEF Covers

\* Leaves of two parts.
LEMMA LeavesSplit ==
  ASSUME NEW a \in Seq(Nodes), NEW b \in Seq(Nodes), a \o b \in Seq(Leaves)
  PROVE  a \in Seq(Leaves) /\ b \in Seq(Leaves)
<1>1. PICK n \in Nat : n = Len(a)
  OBVIOUS
<1>2. PICK m \in Nat : m = Len(b)
  OBVIOUS
<1>3. PICK s : s = a \o b
  OBVIOUS
<1>4. JoinShape(s, a, b, n, m)
  BY <1>1, <1>2, <1>3, JoinedAt
<1>5. \A q \in 1 .. n + m : s[q] \in Leaves
  BY <1>3, <1>4 DEF JoinShape
<1>6. \A q \in 1 .. n : a[q] \in Leaves
  <2> TAKE q \in 1 .. n
  <2>1. q \in 1 .. n + m /\ q <= n
    BY <1>1, <1>2
  <2> QED
    BY <1>4, <1>5, <2>1 DEF JoinShape
<1>7. \A q \in 1 .. m : b[q] \in Leaves
  <2> TAKE q \in 1 .. m
  <2>1. PICK r \in 1 .. n + m : r = n + q
    BY <1>1, <1>2
  <2>2. ~(r <= n) /\ r - n = q
    BY <1>1, <2>1
  <2> QED
    BY <1>4, <1>5, <2>1, <2>2 DEF JoinShape
<1> QED
  BY <1>1, <1>2, <1>6, <1>7

\* A node in the place of what it consists of; a closing brace may be missing.
LEMMA CoverFold ==
  ASSUME NEW p \in Seq(Nodes), NEW q \in Seq(Nodes), NEW x \in Nodes, NEW d \in Nat,
         NEW r \in Seq(Nodes), r = <<>> \/ r = <<Leaf("rbrace")>>,
         Written(<<x>>, d) = q \o r, d + 1 <= Len(q),
         NEW a \in Nat, Covers(p \o q, a)
  PROVE  Covers(p \o <<x>>, a)
<1>1. PICK k \in Nat : CoversBy(p \o q, a, k)
  BY Zenon DEF Covers
<1>2. PICK wp \in Seq(Nodes) : wp = Written(p, k)
  BY WrittenType
<1>3. PICK wq \in Seq(Nodes) : wq = Written(q, k)
  BY WrittenType
<1>4. wp \o wq \in Seq(Leaves) /\ Plain(wp \o wq) = Segment(a)
  <2>1. Written(p \o q, k) = wp \o wq
    BY <1>2, <1>3, WrittenJoin
  <2> QED
    BY <1>1, <2>1 DEF CoversBy
<1>5. wp \in Seq(Leaves) /\ wq \in Seq(Leaves)
  BY <1>2, <1>3, <1>4, LeavesSplit
<1>6. PICK l \in Nat : l = k + d
  OBVIOUS
<1>7. Written(p, l) = wp
  BY <1>2, <1>5, <1>6, SettledWritten
<1>8. r \in Seq(Leaves) /\ Plain(r) = <<>>
  <2>1. CASE r = <<>>
    <3>1. Tokens(<<>>) = <<>>
      BY DEF Tokens
    <3> QED
      BY <2>1, <3>1, WithoutNone DEF Plain
  <2>2. CASE r = <<Leaf("rbrace")>>
    <3>1. PICK x_ : x_ = Leaf("rbrace")
      OBVIOUS
    <3>2. x_ \in Leaves /\ x_.kind = "rbrace"
      BY <3>1, LeafLeaf DEF Punctuation
    <3>3. Plain(<<x_>>) = <<>>
      BY <3>2, PlainOne
    <3>4. <<x_>> \in Seq(Leaves)
      BY <3>2
    <3> QED
      BY <2>2, <3>1, <3>3, <3>4
  <2> QED
    BY <2>1, <2>2
<1>9. Written(<<x>>, l) = wq \o r
  <2>1. Written(<<x>>, d + k) = Written(q \o r, k)
    <3>1. k \in Nat
      BY <1>1
    <3>2. Written(<<x>>, d + k) = Written(Written(<<x>>, d), k)
      BY <3>1, WrittenPlus, Zenon
    <3> QED
      BY <3>2, Zenon
  <2>2. Written(q \o r, k) = wq \o Written(r, k)
    BY <1>3, WrittenJoin
  <2>3. Written(r, k) = r
    BY <1>8, LeavesWritten
  <2>4. l = d + k
    BY <1>6
  <2> QED
    BY <2>1, <2>2, <2>3, <2>4
<1>10. PICK one : one = <<x>>
  OBVIOUS
<1>11. Written(p \o one, l) = wp \o (wq \o r)
  <2>1. one \in Seq(Nodes) /\ l \in Nat
    BY <1>6, <1>10
  <2>2. Written(p \o one, l) = Written(p, l) \o Written(one, l)
    BY <2>1, WrittenJoin, ZenonT(40)
  <2> QED
    BY <1>7, <1>9, <1>10, <2>2, Zenon
<1>12. (wp \o wq) \o r = wp \o (wq \o r)
  <2>1. wp \in Seq(Nodes) /\ wq \in Seq(Nodes) /\ r \in Seq(Nodes)
    BY <1>2, <1>3
  <2> QED
    <3>1. Associates(wp, wq, r)
      BY <2>1, JoinSame
    <3> QED
      BY <3>1, Zenon DEF Associates
<1>13. wp \o (wq \o r) \in Seq(Leaves)
  BY <1>5, <1>8
<1>14. Plain(wp \o (wq \o r)) = Segment(a)
  <2>1. PICK v \in Seq(Nodes) : v = wp \o wq
    <3>1. wp \o wq \in Seq(Nodes)
      BY <1>2, <1>3
    <3> QED
      BY <3>1
  <2>2. Plain(v \o r) = Plain(v) \o Plain(r)
    BY <2>1, PlainJoin
  <2>3. Plain(v) \in Seq(AnyToken)
    BY <2>1, PlainType
  <2>4. Plain(v) \o <<>> = Plain(v)
    BY <2>3, JoinNothing
  <2> QED
    BY <1>4, <1>8, <1>12, <2>1, <2>2, <2>4, Zenon
<1>15. l + Len(p \o <<x>>) <= a
  <2>1. PICK n \in Nat : n = Len(p)
    OBVIOUS
  <2>2. PICK m \in Nat : m = Len(q)
    OBVIOUS
  <2>3. Len(p \o q) = n + m /\ Len(p \o <<x>>) = n + 1
    BY <2>1, <2>2
  <2>4. k + (n + m) <= a
    BY <1>1, <2>3 DEF CoversBy
  <2>5. d + 1 <= m
    BY <2>2
  <2>6. l + (n + 1) <= a
    BY <1>6, <2>1, <2>2, <2>4, <2>5
  <2> QED
    BY <2>3, <2>6
<1>16. CoversBy(p \o <<x>>, a, l)
  BY <1>10, <1>11, <1>13, <1>14, <1>15, Zenon DEF CoversBy
<1> QED
  BY <1>6, <1>16, Zenon DEF Covers

-----------------------------------------------------------------------------
(* The lookahead *)

FileOK == file \in Seq(LexerToken)

LexOK(l) ==
  /\ l = [made |-> l.made, next_token |-> l.next_token]
  /\ l.made \in 0 .. Len(file)
  /\ l.next_token # NoToken =>
       /\ l.made >= 1
       /\ l.next_token = file[l.made]
       /\ l.next_token.type \notin {"blank", "error"}

\* How much of the file was taken.
Behind(l) == IF l.next_token = NoToken THEN l.made ELSE l.made - 1

\* Nothing was taken, or one token.
Idle(l, m) ==
  /\ LexOK(m)
  /\ Behind(l) <= Behind(m)
  /\ Segment(Behind(m)) = Segment(Behind(l))

Took(l, m, t) ==
  /\ LexOK(m)
  /\ Behind(l) + 1 <= Behind(m)
  /\ Segment(Behind(m)) = IF t.type = "rbrace" THEN Segment(Behind(l)) ELSE Segment(Behind(l)) \o <<t>>

LEMMA LexerTokens ==
  ASSUME NEW t \in LexerToken
  PROVE  /\ t # NoToken /\ t.type # "none" /\ t = Token(t.type, t.text)
         /\ t.text \in Texts /\ t.type \in LeafKinds \union {"blank", "error"}
         /\ t.type \in Punctuation => t.text = ""
<1>1. PICK type, text : t = [type |-> type, text |-> text]
                        /\ type \in LeafKinds \union {"blank", "error"} /\ text \in Texts
                        /\ (type \in Punctuation => text = "")
  <2>1. CASE t \in [type : Punctuation \union {"blank", "error"}, text : {""}]
    <3>1. t.type \in Punctuation \union {"blank", "error"} /\ t.text = ""
          /\ t = [type |-> t.type, text |-> t.text]
      BY <2>1
    <3>2. t.type \in LeafKinds \union {"blank", "error"} /\ t.text \in Texts
      BY <3>1 DEF LeafKinds, Texts
    <3> QED
      BY <3>1, <3>2
  <2>2. CASE t \in [type : {"integer", "string", "identifier"}, text : STRING]
    <3>1. t.type \in {"integer", "string", "identifier"} /\ t.text \in STRING
          /\ t = [type |-> t.type, text |-> t.text]
      BY <2>2
    <3>2. t.type \in LeafKinds /\ t.text \in Texts
      BY <3>1 DEF LeafKinds, Texts
    <3>3. t.type \notin Punctuation
      BY <3>1 DEF Punctuation
    <3> QED
      BY <3>1, <3>2, <3>3
  <2> QED
    BY <2>1, <2>2 DEF LexerToken
<1>2. t.type = type /\ t.text = text /\ t = Token(t.type, t.text)
  BY <1>1 DEF Token
<1>3. type # "none"
  BY <1>1 DEF LeafKinds, Punctuation
<1>4. NoToken.type = "none"
  BY DEF NoToken, Token
<1>5. t # NoToken
  BY <1>2, <1>3, <1>4
<1> QED
  BY <1>1, <1>2, <1>3, <1>5

LEMMA BehindType == ASSUME FileOK, NEW l, LexOK(l) PROVE Behind(l) \in 0 .. Len(file)
<1>1. Len(file) \in Nat
  BY DEF FileOK
<1> QED
  BY <1>1 DEF LexOK, Behind

LEMMA RelevantIdle ==
  ASSUME FileOK, NEW l, LexOK(l), l.next_token = NoToken
  PROVE  Idle(l, Relevant(l))
<1>1. PICK n \in Nat : n = Len(file)
  BY DEF FileOK
<1>2. PICK a \in 0 .. n : a = l.made
  BY <1>1 DEF LexOK
<1>3. Behind(l) = a
  BY <1>2 DEF Behind
<1>4. PICK I : I = {i \in a + 1 .. n : file[i].type # "blank"}
  OBVIOUS
<1>5. PICK tried : tried = SelectInSubSeq(file, l.made + 1, Len(file), LAMBDA t : t.type # "blank")
  OBVIOUS
<1>6. tried = IF I # {} THEN Min(I) ELSE 0
  BY <1>1, <1>2, <1>4, <1>5 DEF SelectInSubSeq
<1>7. Relevant(l) = IF tried = 0 THEN [l EXCEPT !.made = Len(file)]
                    ELSE IF file[tried].type = "error" THEN [l EXCEPT !.made = tried]
                    ELSE [made |-> tried, next_token |-> file[tried]]
  BY <1>5, Zenon DEF Relevant
<1>8. l = [made |-> a, next_token |-> NoToken]
  BY <1>2 DEF LexOK
<1>9. \A k : [l EXCEPT !.made = k] = [made |-> k, next_token |-> NoToken]
  BY <1>8
<1>10. \A i \in 1 .. n : file[i] \in LexerToken
  BY <1>1 DEF FileOK
<1>11. CASE I = {}
  <2>1. tried = 0
    BY <1>6, <1>11
  <2>2. PICK m : m = Relevant(l)
    OBVIOUS
  <2>3. m = [made |-> n, next_token |-> NoToken]
    BY <1>1, <1>7, <1>9, <2>1, <2>2
  <2>4. Behind(m) = n /\ LexOK(m)
    BY <1>1, <2>3 DEF Behind, LexOK
  <2>5. \A i \in a + 1 .. n : file[i].type \in Skipped
    BY <1>4, <1>11 DEF Skipped
  <2>6. a \in Nat /\ a <= n /\ n <= Len(file)
    BY <1>1, <1>2
  <2>7. Segment(n) = Segment(a)
    BY <1>1, <2>5, <2>6, SegmentStays DEF FileOK
  <2> QED
    BY <1>3, <2>2, <2>4, <2>6, <2>7 DEF Idle
<1>12. CASE I # {}
  <2>1. I \subseteq Nat
    BY <1>1, <1>2, <1>4
  <2>2. tried \in I /\ \A k \in I : tried <= k
    BY <1>6, <1>12, <2>1, SmallestOf
  <2>3. tried \in a + 1 .. n /\ file[tried].type # "blank"
    BY <1>4, <2>2
  <2>4. \A i \in a + 1 .. tried - 1 : file[i].type \in Skipped
    <3> TAKE i \in a + 1 .. tried - 1
    <3>1. i \in a + 1 .. n /\ ~(tried <= i)
      BY <1>1, <1>2, <2>3
    <3>2. i \notin I
      BY <2>2, <3>1
    <3> QED
      BY <1>4, <3>1, <3>2 DEF Skipped
  <2>5. tried \in Nat /\ tried # 0 /\ tried - 1 \in Nat /\ a \in Nat /\ a <= tried - 1 /\ tried <= n
    BY <1>1, <1>2, <2>3
  <2>6. PICK m : m = Relevant(l)
    OBVIOUS
  <2>7. CASE file[tried].type = "error"
    <3>1. m = [made |-> tried, next_token |-> NoToken]
      BY <1>7, <1>9, <2>5, <2>6, <2>7
    <3>2. Behind(m) = tried /\ LexOK(m)
      BY <1>1, <2>5, <3>1 DEF Behind, LexOK
    <3>3. \A i \in a + 1 .. tried : file[i].type \in Skipped
      <4> TAKE i \in a + 1 .. tried
      <4>1. i = tried \/ i \in a + 1 .. tried - 1
        BY <1>2, <2>5
      <4> QED
        BY <2>4, <2>7, <4>1 DEF Skipped
    <3>4. a <= tried /\ tried <= Len(file)
      BY <1>1, <2>5
    <3>5. Segment(tried) = Segment(a)
      BY <2>5, <3>3, <3>4, SegmentStays DEF FileOK
    <3> QED
      BY <1>3, <2>6, <3>2, <3>4, <3>5 DEF Idle
  <2>8. CASE file[tried].type # "error"
    <3>1. PICK t \in LexerToken : t = file[tried]
      BY <1>10, <2>3, <2>5
    <3>2. m = [made |-> tried, next_token |-> t]
      BY <1>7, <2>5, <2>6, <2>8, <3>1
    <3>3. t # NoToken /\ t.type \notin {"blank", "error"}
      BY <2>3, <2>8, <3>1, LexerTokens
    <3>4. Behind(m) = tried - 1
      BY <3>2, <3>3 DEF Behind
    <3>5. LexOK(m)
      BY <1>1, <2>5, <3>1, <3>2, <3>3 DEF LexOK
    <3>6. tried - 1 <= Len(file)
      BY <1>1, <2>5
    <3>7. Segment(tried - 1) = Segment(a)
      BY <2>4, <2>5, <3>6, SegmentStays DEF FileOK
    <3> QED
      BY <1>3, <2>5, <2>6, <3>4, <3>5, <3>7 DEF Idle
  <2> QED
    BY <2>7, <2>8
<1> QED
  BY <1>11, <1>12

LEMMA LookIdle ==
  ASSUME FileOK, NEW l, LexOK(l)
  PROVE  Idle(l, Look(l)) /\ (l.next_token # NoToken => Look(l) = l)
<1>1. CASE l.next_token = NoToken
  BY <1>1, RelevantIdle DEF Look
<1>2. CASE l.next_token # NoToken
  <2>1. Look(l) = l
    BY <1>2 DEF Look
  <2>2. Behind(l) <= Behind(l)
    BY BehindType
  <2> QED
    BY <2>1, <2>2 DEF Idle
<1> QED
  BY <1>1, <1>2

LEMMA TakeTook ==
  ASSUME FileOK, NEW l, LexOK(l), NEW t, t = Look(l).next_token, t # NoToken
  PROVE  /\ Took(l, Take(l), t)
         /\ t \in LexerToken /\ t.type \notin {"blank", "error"} /\ t.type \in LeafKinds
<1>1. PICK m : m = Look(l)
  OBVIOUS
<1>2. PICK n \in Nat : n = Len(file)
  BY DEF FileOK
<1>3. Idle(l, m)
  BY <1>1, LookIdle
<1>4. PICK d \in 1 .. n : d = m.made
  BY <1>1, <1>2, <1>3 DEF Idle, LexOK
<1>5. t = file[d] /\ t.type \notin {"blank", "error"} /\ m = [made |-> d, next_token |-> t] /\ Behind(m) = d - 1
  BY <1>1, <1>3, <1>4 DEF Idle, LexOK, Behind
<1>6. t \in LexerToken
  BY <1>2, <1>4, <1>5 DEF FileOK
<1>7. t.type \in LeafKinds
  BY <1>5, <1>6, LexerTokens
<1>8. PICK r : r = Take(l)
  OBVIOUS
<1>9. r = [made |-> d, next_token |-> NoToken]
  <2>1. r = [m EXCEPT !.next_token = NoToken]
    BY <1>1, <1>8, Zenon DEF Take
  <2> QED
    BY <1>5, <2>1
<1>10. Behind(r) = d /\ LexOK(r)
  BY <1>2, <1>4, <1>9 DEF Behind, LexOK
<1>11. PICK b \in 0 .. n : b = Behind(l)
  BY <1>2, BehindType
<1>12. b <= d - 1 /\ Segment(d - 1) = Segment(b)
  BY <1>3, <1>5, <1>11 DEF Idle
<1>13. Segment(d) = IF t.type \in Skipped THEN Segment(d - 1) ELSE Segment(d - 1) \o <<t>>
  <2>1. PICK e \in Nat : e = d - 1 /\ e + 1 = d /\ e + 1 <= Len(file)
    BY <1>2, <1>4
  <2>2. Segment(e + 1) = IF file[e + 1].type \in Skipped THEN Segment(e) ELSE Segment(e) \o <<file[e + 1]>>
    BY <2>1, SegmentNext DEF FileOK
  <2> QED
    BY <1>5, <2>1, <2>2
<1>14. t.type \in Skipped <=> t.type = "rbrace"
  BY <1>5 DEF Skipped
<1>15. b + 1 <= d
  BY <1>11, <1>12
<1>16. Took(l, r, t)
  BY <1>10, <1>11, <1>12, <1>13, <1>14, <1>15, Zenon DEF Took
<1> QED
  BY <1>5, <1>6, <1>7, <1>8, <1>16

LEMMA CoverIdle ==
  ASSUME FileOK, NEW nodes \in Seq(Nodes), NEW l, LexOK(l), NEW m, Idle(l, m), Covers(nodes, Behind(l))
  PROVE  Covers(nodes, Behind(m))
<1>1. PICK a \in Nat : a = Behind(l)
  BY BehindType DEF FileOK
<1>2. PICK b \in Nat : b = Behind(m)
  BY BehindType DEF FileOK, Idle
<1>3. a <= b /\ Segment(b) = Segment(a)
  BY <1>1, <1>2 DEF Idle
<1>4. Covers(nodes, b)
  BY <1>1, <1>2, <1>3, CoverSkip
<1> QED
  BY <1>2, <1>4

LEMMA CoverTook ==
  ASSUME FileOK, NEW nodes \in Seq(Nodes), NEW l, LexOK(l), NEW t \in LexerToken, NEW m, Took(l, m, t),
         t.type \in LeafKinds, t.type # "rbrace", Covers(nodes, Behind(l))
  PROVE  Covers(nodes \o <<Node(t.type, t.text, <<>>)>>, Behind(m))
<1>1. PICK a \in Nat : a = Behind(l)
  BY BehindType DEF FileOK
<1>2. PICK b \in Nat : b = Behind(m)
  BY BehindType DEF FileOK, Took
<1>3. a + 1 <= b /\ Segment(b) = Segment(a) \o <<t>>
  BY <1>1, <1>2 DEF Took
<1>4. PICK kind \in LeafKinds, text \in Texts : kind = t.type /\ text = t.text /\ t = Token(kind, text)
  BY LexerTokens
<1>5. Covers(nodes, a) /\ kind # "rbrace" /\ Segment(b) = Segment(a) \o <<Token(kind, text)>>
  BY <1>1, <1>3, <1>4
<1>6. Covers(nodes \o <<Node(kind, text, <<>>)>>, b)
  BY <1>1, <1>2, <1>3, <1>4, <1>5, CoverToken
<1> QED
  BY <1>2, <1>4, <1>6

\* A closing brace counts for nothing.
LEMMA CoverBrace ==
  ASSUME FileOK, NEW nodes \in Seq(Nodes), NEW l, LexOK(l), NEW t, t.type = "rbrace", NEW m, Took(l, m, t),
         Covers(nodes, Behind(l))
  PROVE  Covers(nodes, Behind(m))
<1>1. PICK a \in Nat : a = Behind(l)
  BY BehindType DEF FileOK
<1>2. PICK b \in Nat : b = Behind(m)
  BY BehindType DEF FileOK, Took
<1>3. a + 1 <= b /\ Segment(b) = Segment(a)
  BY <1>1, <1>2 DEF Took
<1>4. a <= b
  BY <1>1, <1>2, <1>3
<1>5. Covers(nodes, b)
  BY <1>1, <1>2, <1>3, <1>4, CoverSkip
<1> QED
  BY <1>2, <1>5

-----------------------------------------------------------------------------
(* The calls of the descent and the text they stand for *)

Rules == ListKinds \union {"entry", "property", "value", "array"}

Frames == [rule : Rules, got : Seq(Nodes)]

\* Who calls whom.
Calls ==
  {<<"entry_list", "entry">>, <<"entry", "property_list">>, <<"property_list", "property">>,
   <<"property", "value">>, <<"value", "array">>, <<"value", "entry">>,
   <<"array", "entry_list">>, <<"array", "string_list">>, <<"array", "integer_list">>}

ArrayKinds == ListKinds \ {"property_list"}

\* The nodes a function returns.
Gives ==
  [rule \in Rules |->
     CASE rule = "value" -> {"integer", "string"} \union ArrayKinds
       [] rule = "array" -> ArrayKinds
       [] OTHER -> {rule}]

FrameShaped(f) == f.rule \in ListKinds => \A n \in DOMAIN f.got : f.got[n].kind \in Below[f.rule]

\* A call that waits for another one, or that was returned to.
FrameReady(f) == f.rule = "property" => f.got # <<>>

\* "rule" may be called with the calls "s" waiting.
Linked(s, rule) == IF s = <<>> THEN rule = "entry_list" ELSE <<Last(s).rule, rule>> \in Calls

CallersOK(s) ==
  /\ s \in Seq(Frames)
  /\ \A i \in 1 .. Len(s) : FrameShaped(s[i]) /\ FrameReady(s[i])
  /\ \A i \in 1 .. Len(s) : IF i = 1 THEN s[i].rule = "entry_list" ELSE <<s[i - 1].rule, s[i].rule>> \in Calls

\* What a call has taken by itself: when it waits, and when it has not called yet.
Begun(f) ==
  CASE f.rule \in ListKinds /\ f.got # <<>> -> Separated(f.got) \o <<Leaf("comma")>>
    [] f.rule = "entry" -> <<Leaf("lbrace")>>
    [] f.rule = "property" /\ f.got # <<>> -> <<Node("identifier", f.got[1].text, <<>>), Leaf("equals")>>
    [] f.rule = "array" -> <<Leaf("lbracket")>>
    [] OTHER -> <<>>

Started(f) == IF f.rule \in ListKinds THEN Begun(f) ELSE <<>>

BegunFunction == [f \in Frames |-> Begun(f)]

Opened(s) == Mapped(s, BegunFunction)

\* What a result stands for: the brackets of an array are behind it once the
\* array was returned.
Given(s, tree) ==
  IF tree.kind \notin ListKinds THEN <<tree>>
  ELSE IF s # <<>> /\ Last(s).rule \in {"value", "property"}
  THEN <<Leaf("lbracket")>> \o Separated(tree.sub) \o <<Leaf("rbracket")>>
  ELSE Separated(tree.sub)

\* A state of the descent: the stack, the result and the lexer.
PendingAt(s, l) ==
  /\ CallersOK(Front(s)) /\ s = Append(Front(s), Last(s))
  /\ Last(s) \in Frames /\ FrameShaped(Last(s)) /\ Linked(Front(s), Last(s).rule)
  /\ Last(s).rule = "array" => l.next_token.type = "lbracket"
  /\ Covers(Opened(Front(s)) \o Started(Last(s)), Behind(l))

FailedAt(s) == CallersOK(s) /\ \E rule \in Rules : Linked(s, rule)

ParsedAt(s, tree, l) ==
  /\ CallersOK(s)
  /\ tree \in Nodes
  /\ \E rule \in Rules : Linked(s, rule) /\ tree.kind \in Gives[rule]
  /\ Covers(Opened(s) \o Given(s, tree), Behind(l))

DescentAt(s, r, l) ==
  /\ LexOK(l)
  /\ \/ r = Pending /\ PendingAt(s, l)
     \/ r = Failed /\ FailedAt(s)
     \/ \E tree : r = Parsed(tree) /\ ParsedAt(s, tree, l)

LEMMA Results ==
  /\ Pending # Failed
  /\ \A tree : Parsed(tree) # Pending /\ Parsed(tree) # Failed /\ Parsed(tree).tree = tree
<1>1. Pending.is = "pending" /\ Failed.is = "failed" /\ \A tree : Parsed(tree).is = "parsed" /\ Parsed(tree).tree = tree
  BY DEF Pending, Failed, Parsed
<1> QED
  BY <1>1

LEMMA BegunType == ASSUME NEW f \in Frames PROVE Begun(f) \in Seq(Nodes)
<1>1. f.rule \in Rules /\ f.got \in Seq(Nodes)
  BY DEF Frames
<1>2. PICK c, e, o, b \in Nodes : c = Leaf("comma") /\ e = Leaf("equals") /\ o = Leaf("lbrace") /\ b = Leaf("lbracket")
  BY LeafNode DEF Punctuation
<1>3. CASE f.rule \in ListKinds /\ f.got # <<>>
  <2>1. PICK w \in Seq(Nodes) : w = Separated(f.got)
    BY <1>1, <1>3, SeparatedType
  <2>2. w \o <<c>> \in Seq(Nodes)
    BY <1>2, <2>1
  <2>3. f.rule # "entry" /\ f.rule # "property" /\ f.rule # "array"
    BY <1>3 DEF ListKinds
  <2>4. Begun(f) = w \o <<c>>
    BY <1>2, <1>3, <2>1, <2>3 DEF Begun
  <2> QED
    BY <2>2, <2>4
<1>4. CASE f.rule = "entry"
  <2>1. f.rule \notin ListKinds
    BY <1>4 DEF ListKinds
  <2>2. Begun(f) = <<o>>
    BY <1>2, <1>4, <2>1 DEF Begun
  <2>3. <<o>> \in Seq(Nodes)
    BY <1>2
  <2> QED
    BY <2>2, <2>3
<1>5. CASE f.rule = "property" /\ f.got # <<>>
  <2>1. f.rule \notin ListKinds
    BY <1>5 DEF ListKinds
  <2>2. f.got[1] \in Nodes
    BY <1>1, <1>5
  <2>3. f.got[1].text \in Texts
    BY <2>2, NodeParts
  <2>4. PICK i \in Nodes : i = Node("identifier", f.got[1].text, <<>>)
    BY <2>3, LeafMade DEF LeafKinds
  <2>5. Begun(f) = <<i, e>>
    BY <1>2, <1>5, <2>1, <2>4 DEF Begun
  <2>6. <<i, e>> \in Seq(Nodes)
    BY <1>2, <2>4
  <2> QED
    BY <2>5, <2>6
<1>6. CASE f.rule = "array"
  <2>1. f.rule \notin ListKinds
    BY <1>6 DEF ListKinds
  <2>2. Begun(f) = <<b>>
    BY <1>2, <1>6, <2>1 DEF Begun
  <2>3. <<b>> \in Seq(Nodes)
    BY <1>2
  <2> QED
    BY <2>2, <2>3
<1>7. CASE ~(f.rule \in ListKinds /\ f.got # <<>>) /\ f.rule # "entry"
           /\ ~(f.rule = "property" /\ f.got # <<>>) /\ f.rule # "array"
  <2>1. Begun(f) = <<>>
    BY <1>7, Zenon DEF Begun
  <2> QED
    BY <2>1
<1> QED
  BY <1>3, <1>4, <1>5, <1>6, <1>7

LEMMA BegunFunctionType ==
  MapType(BegunFunction, Frames, Nodes) /\ \A f \in Frames : BegunFunction[f] = Begun(f)
  BY BegunType DEF MapType, BegunFunction

LEMMA OpenedType == ASSUME NEW s \in Seq(Frames) PROVE Opened(s) \in Seq(Nodes)
  BY BegunFunctionType, MappedType DEF Opened

LEMMA OpenedAppend ==
  ASSUME NEW s \in Seq(Frames), NEW f \in Frames
  PROVE  Opened(Append(s, f)) = Opened(s) \o Begun(f)
  BY BegunFunctionType, MappedAppend, ZenonT(40) DEF Opened

LEMMA FrontLast ==
  ASSUME NEW S, NEW s \in Seq(S), NEW e
  PROVE  Front(Append(s, e)) = s /\ Last(Append(s, e)) = e
<1>1. PICK n \in Nat : n = Len(s)
  OBVIOUS
<1>2. PICK t : t = Append(s, e)
  OBVIOUS
<1>3. Len(t) = n + 1 /\ t[n + 1] = e /\ \A k \in 1 .. n : t[k] = s[k]
  BY <1>1, <1>2
<1>4. PICK v : v = SubSeq(t, 1, n)
  OBVIOUS
<1>5. v = [k \in 1 .. n |-> t[k]]
  BY <1>1, <1>4
<1>6. s = [k \in 1 .. n |-> s[k]]
  BY <1>1
<1>7. v = s
  BY <1>3, <1>5, <1>6
<1>8. Front(t) = SubSeq(t, 1, n) /\ Last(t) = t[n + 1]
  <2>1. Len(t) - 1 = n
    BY <1>1, <1>3
  <2> QED
    BY <1>3, <2>1 DEF Front, Last
<1> QED
  BY <1>2, <1>3, <1>4, <1>7, <1>8

LEMMA LastFront ==
  ASSUME NEW S, NEW s \in Seq(S), s # <<>>
  PROVE  Front(s) \in Seq(S) /\ Last(s) \in S /\ s = Append(Front(s), Last(s))
<1>1. PICK n \in Nat : n + 1 = Len(s)
  <2>1. Len(s) \in Nat /\ Len(s) # 0
    OBVIOUS
  <2> QED
    BY <2>1
<1>2. Front(s) = SubSeq(s, 1, n) /\ Last(s) = s[n + 1]
  <2>1. Len(s) - 1 = n
    BY <1>1
  <2> QED
    BY <1>1, <2>1 DEF Front, Last
<1>3. SubSeq(s, 1, n + 1) = Append(SubSeq(s, 1, n), s[n + 1])
  BY <1>1, PrefixAppend
<1>4. SubSeq(s, 1, n + 1) = s
  BY <1>1
<1>5. SubSeq(s, 1, n) \in Seq(S) /\ s[n + 1] \in S
  BY <1>1
<1> QED
  BY <1>2, <1>3, <1>4, <1>5

\* One call more waits.
LEMMA CallersAppend ==
  ASSUME NEW s, CallersOK(s), NEW f \in Frames, FrameShaped(f), FrameReady(f), Linked(s, f.rule)
  PROVE  /\ CallersOK(Append(s, f))
         /\ \A rule : <<f.rule, rule>> \in Calls => Linked(Append(s, f), rule)
<1>1. s \in Seq(Frames)
  BY DEF CallersOK
<1>2. PICK n \in Nat : n = Len(s)
  BY <1>1
<1>3. PICK t : t = Append(s, f)
  OBVIOUS
<1>4. t \in Seq(Frames) /\ Len(t) = n + 1 /\ t[n + 1] = f /\ (\A k \in 1 .. n : t[k] = s[k]) /\ t # <<>>
  BY <1>1, <1>2, <1>3
<1>5. ASSUME NEW i \in 1 .. n + 1
      PROVE  /\ FrameShaped(t[i]) /\ FrameReady(t[i])
             /\ IF i = 1 THEN t[i].rule = "entry_list" ELSE <<t[i - 1].rule, t[i].rule>> \in Calls
  <2>1. CASE i = n + 1
    <3>1. t[i] = f
      BY <1>4, <2>1
    <3>2. CASE n = 0
      <4>1. s = <<>> /\ i = 1
        <5>1. Len(s) = 0
          BY <1>2, <3>2
        <5>2. s = <<>>
          BY <1>1, <5>1, NoElements
        <5> QED
          BY <2>1, <3>2, <5>2
      <4> QED
        BY <3>1, <4>1 DEF Linked
    <3>3. CASE n # 0
      <4>1. s # <<>> /\ Last(s) = s[n] /\ n \in 1 .. n /\ i - 1 = n /\ i # 1
        BY <1>2, <2>1, <3>3 DEF Last
      <4>2. <<Last(s).rule, f.rule>> \in Calls
        BY <4>1 DEF Linked
      <4>3. t[i - 1] = Last(s)
        BY <1>4, <4>1
      <4> QED
        BY <3>1, <4>1, <4>2, <4>3
    <3> QED
      BY <3>2, <3>3
  <2>2. CASE i # n + 1
    <3>1. i \in 1 .. n /\ (i # 1 => i - 1 \in 1 .. n)
      BY <2>2
    <3>2. t[i] = s[i] /\ (i # 1 => t[i - 1] = s[i - 1])
      BY <1>4, <3>1
    <3>3. /\ FrameShaped(s[i]) /\ FrameReady(s[i])
          /\ IF i = 1 THEN s[i].rule = "entry_list" ELSE <<s[i - 1].rule, s[i].rule>> \in Calls
      BY <1>2, <3>1, Zenon DEF CallersOK
    <3> QED
      BY <3>2, <3>3
  <2> QED
    BY <2>1, <2>2
<1>6. CallersOK(t)
  BY <1>4, <1>5 DEF CallersOK
<1>7. Last(t) = f
  BY <1>1, <1>3, FrontLast
<1>8. \A rule : <<f.rule, rule>> \in Calls => Linked(t, rule)
  BY <1>4, <1>7 DEF Linked
<1> QED
  BY <1>3, <1>6, <1>8

\* One that is returned to.
LEMMA CallersFront ==
  ASSUME NEW s, CallersOK(s), s # <<>>
  PROVE  /\ s \in Seq(Frames) /\ Last(s) \in Frames /\ s = Append(Front(s), Last(s))
         /\ CallersOK(Front(s)) /\ Linked(Front(s), Last(s).rule)
         /\ FrameShaped(Last(s)) /\ FrameReady(Last(s))
<1>1. s \in Seq(Frames)
  BY DEF CallersOK
<1>2. PICK p : p = Front(s)
  OBVIOUS
<1>3. PICK f : f = Last(s)
  OBVIOUS
<1>4. p \in Seq(Frames) /\ f \in Frames /\ s = Append(p, f)
  BY <1>1, <1>2, <1>3, LastFront
<1>5. PICK n \in Nat : n = Len(p)
  BY <1>4
<1>6. Len(s) = n + 1 /\ s[n + 1] = f /\ (\A k \in 1 .. n : s[k] = p[k])
  BY <1>4, <1>5
<1>7. ASSUME NEW i \in 1 .. n + 1
      PROVE  /\ FrameShaped(s[i]) /\ FrameReady(s[i])
             /\ IF i = 1 THEN s[i].rule = "entry_list" ELSE <<s[i - 1].rule, s[i].rule>> \in Calls
  BY <1>6, Zenon DEF CallersOK
<1>8. n + 1 \in 1 .. n + 1
  OBVIOUS
<1>9. FrameShaped(f) /\ FrameReady(f)
  BY <1>6, <1>7, <1>8
<1>10. Linked(p, f.rule)
  <2>1. CASE p = <<>>
    <3>1. n = 0
      BY <1>5, <2>1
    <3>2. s[1] = f /\ 1 \in 1 .. n + 1
      BY <1>6, <3>1
    <3>3. s[1].rule = "entry_list"
      BY <1>7, <3>2
    <3> QED
      BY <2>1, <3>2, <3>3 DEF Linked
  <2>2. CASE p # <<>>
    <3>1. n # 0 /\ Last(p) = p[n]
      BY <1>4, <1>5, <2>2 DEF Last
    <3>2. n + 1 # 1 /\ n + 1 - 1 = n /\ n \in 1 .. n
      BY <3>1
    <3>3. <<s[n + 1 - 1].rule, s[n + 1].rule>> \in Calls
      BY <1>7, <1>8, <3>2
    <3>4. s[n] = p[n]
      BY <1>6, <3>2
    <3>5. <<Last(p).rule, f.rule>> \in Calls
      BY <1>6, <3>1, <3>2, <3>3, <3>4
    <3> QED
      BY <2>2, <3>5 DEF Linked
  <2> QED
    BY <2>1, <2>2
<1>11. CallersOK(p)
  <2>1. ASSUME NEW i \in 1 .. n
        PROVE  /\ FrameShaped(p[i]) /\ FrameReady(p[i])
               /\ IF i = 1 THEN p[i].rule = "entry_list" ELSE <<p[i - 1].rule, p[i].rule>> \in Calls
    <3>1. i \in 1 .. n + 1 /\ (i # 1 => i - 1 \in 1 .. n)
      OBVIOUS
    <3>2. s[i] = p[i] /\ (i # 1 => s[i - 1] = p[i - 1])
      BY <1>6, <3>1
    <3> QED
      BY <1>7, <3>1, <3>2
  <2> QED
    BY <1>4, <1>5, <2>1 DEF CallersOK
<1> QED
  BY <1>1, <1>2, <1>3, <1>4, <1>9, <1>10, <1>11

-----------------------------------------------------------------------------
(* What the next token adds *)

LEMMA LookFollows ==
  ASSUME FileOK, NEW q \in Seq(Nodes), NEW l, LexOK(l), Covers(q, Behind(l))
  PROVE  LexOK(Look(l)) /\ Covers(q, Behind(Look(l)))
<1>1. Idle(l, Look(l))
  BY LookIdle
<1> QED
  BY <1>1, CoverIdle DEF Idle

LEMMA HasToken ==
  ASSUME NEW l, NEW kind \in LeafKinds, Has(l, kind)
  PROVE  Look(l).next_token # NoToken /\ Look(l).next_token.type = kind
<1>1. NoToken.type = "none"
  BY DEF NoToken, Token
<1>2. kind # "none"
  BY DEF LeafKinds, Punctuation
<1> QED
  BY <1>1, <1>2 DEF Has, NextType

LEMMA TokenFollows ==
  ASSUME FileOK, NEW q \in Seq(Nodes), NEW l, LexOK(l), Covers(q, Behind(l)),
         NEW kind \in LeafKinds, kind # "rbrace", Has(l, kind)
  PROVE  /\ LexOK(Take(l))
         /\ Look(l).next_token.text \in Texts
         /\ Covers(q \o <<Node(kind, Look(l).next_token.text, <<>>)>>, Behind(Take(l)))
<1>1. PICK t : t = Look(l).next_token
  OBVIOUS
<1>2. t # NoToken /\ t.type = kind
  BY <1>1, HasToken
<1>3. Took(l, Take(l), t) /\ t \in LexerToken
  BY <1>1, <1>2, TakeTook
<1>4. PICK m : m = Take(l)
  OBVIOUS
<1>5. t.type \in LeafKinds /\ t.type # "rbrace" /\ Took(l, m, t)
  BY <1>2, <1>3, <1>4
<1>6. Covers(q \o <<Node(t.type, t.text, <<>>)>>, Behind(m))
  BY <1>3, <1>5, CoverTook
<1>7. t.text \in Texts
  BY <1>3, LexerTokens
<1> QED
  BY <1>1, <1>2, <1>4, <1>5, <1>6, <1>7 DEF Took

LEMMA PunctuationFollows ==
  ASSUME FileOK, NEW q \in Seq(Nodes), NEW l, LexOK(l), Covers(q, Behind(l)),
         NEW kind \in Punctuation, kind # "rbrace", Has(l, kind)
  PROVE  LexOK(Take(l)) /\ Covers(q \o <<Leaf(kind)>>, Behind(Take(l)))
<1>1. PICK t : t = Look(l).next_token
  OBVIOUS
<1>2. kind \in LeafKinds
  BY DEF LeafKinds
<1>3. t # NoToken /\ t.type = kind
  BY <1>1, <1>2, HasToken
<1>4. t \in LexerToken
  BY <1>1, <1>3, TakeTook
<1>5. t.text = ""
  BY <1>3, <1>4, LexerTokens
<1>6. LexOK(Take(l)) /\ Covers(q \o <<Node(kind, t.text, <<>>)>>, Behind(Take(l)))
  BY <1>1, <1>2, TokenFollows
<1>7. Leaf(kind) = Node(kind, t.text, <<>>)
  BY <1>5 DEF Leaf
<1> QED
  BY <1>6, <1>7

LEMMA BraceFollows ==
  ASSUME FileOK, NEW q \in Seq(Nodes), NEW l, LexOK(l), Covers(q, Behind(l)), Has(l, "rbrace")
  PROVE  LexOK(Take(l)) /\ Covers(q, Behind(Take(l)))
<1>1. PICK t : t = Look(l).next_token
  OBVIOUS
<1>2. "rbrace" \in LeafKinds
  BY DEF LeafKinds, Punctuation
<1>3. t # NoToken /\ t.type = "rbrace"
  BY <1>1, <1>2, HasToken
<1>4. PICK m : m = Take(l)
  OBVIOUS
<1>5. Took(l, m, t)
  BY <1>1, <1>3, <1>4, TakeTook
<1>6. Covers(q, Behind(m))
  BY <1>3, <1>5, CoverBrace
<1> QED
  BY <1>4, <1>5, <1>6 DEF Took

-----------------------------------------------------------------------------
(* The states of the descent *)

LEMMA CallAt ==
  ASSUME NEW s, CallersOK(s), NEW f \in Frames, FrameShaped(f), FrameReady(f), Linked(s, f.rule),
         NEW rule, <<f.rule, rule>> \in Calls,
         NEW l, LexOK(l), rule = "array" => l.next_token.type = "lbracket",
         Covers(Opened(s) \o Begun(f), Behind(l))
  PROVE  DescentAt(s \o <<f, Frame(rule)>>, Pending, l)
<1>1. s \in Seq(Frames)
  BY DEF CallersOK
<1>2. PICK p : p = Append(s, f)
  OBVIOUS
<1>3. rule \in Rules
  BY DEF Calls, Rules, ListKinds
<1>4. PICK c : c = Frame(rule)
  OBVIOUS
<1>5. c \in Frames /\ c.rule = rule /\ c.got = <<>>
  BY <1>3, <1>4 DEF Frames, Frame
<1>6. PICK t : t = Append(p, c)
  OBVIOUS
<1>7. s \o <<f, c>> = t
  BY <1>1, <1>2, <1>5, <1>6
<1>8. p \in Seq(Frames)
  BY <1>1, <1>2
<1>9. Front(t) = p /\ Last(t) = c
  BY <1>6, <1>8, FrontLast
<1>10. CallersOK(p) /\ Linked(p, rule)
  BY <1>2, CallersAppend
<1>11. FrameShaped(c)
  BY <1>5 DEF FrameShaped
<1>12. Started(c) = <<>>
  <2>1. CASE rule \notin ListKinds
    BY <1>5, <2>1 DEF Started
  <2>2. CASE rule \in ListKinds
    <3>1. rule # "entry" /\ rule # "array" /\ rule # "property"
      BY <2>2 DEF ListKinds
    <3>2. Begun(c) = <<>>
      BY <1>5, <3>1, Zenon DEF Begun
    <3> QED
      BY <1>5, <2>2, <3>2 DEF Started
  <2> QED
    BY <2>1, <2>2
<1>13. Opened(p) = Opened(s) \o Begun(f)
  BY <1>1, <1>2, OpenedAppend
<1>14. Opened(p) \o <<>> = Opened(p)
  BY <1>8, OpenedType, JoinNothing
<1>15. Covers(Opened(p) \o Started(c), Behind(l))
  BY <1>12, <1>13, <1>14
<1>16. PendingAt(t, l)
  BY <1>5, <1>6, <1>9, <1>10, <1>11, <1>15, Zenon DEF PendingAt
<1> QED
  BY <1>4, <1>7, <1>16 DEF DescentAt

LEMMA StayAt ==
  ASSUME NEW s, CallersOK(s), NEW f \in Frames, FrameShaped(f), Linked(s, f.rule),
         f.rule \in ListKinds, NEW l, LexOK(l), Covers(Opened(s) \o Begun(f), Behind(l))
  PROVE  DescentAt(Append(s, f), Pending, l)
<1>1. s \in Seq(Frames)
  BY DEF CallersOK
<1>2. PICK t : t = Append(s, f)
  OBVIOUS
<1>3. Front(t) = s /\ Last(t) = f
  BY <1>1, <1>2, FrontLast
<1>4. f.rule # "array" /\ f.rule # "entry"
  BY DEF ListKinds
<1>5. Started(f) = Begun(f)
  BY DEF Started
<1>6. PendingAt(t, l)
  BY <1>2, <1>3, <1>4, <1>5, Zenon DEF PendingAt
<1> QED
  BY <1>2, <1>6 DEF DescentAt

LEMMA ReturnAt ==
  ASSUME NEW s, CallersOK(s), NEW rule \in Rules, Linked(s, rule),
         NEW tree \in Nodes, tree.kind \in Gives[rule],
         NEW l, LexOK(l), Covers(Opened(s) \o Given(s, tree), Behind(l))
  PROVE  DescentAt(s, Parsed(tree), l)
<1>1. ParsedAt(s, tree, l)
  BY Zenon DEF ParsedAt
<1> QED
  BY <1>1, Zenon DEF DescentAt

LEMMA FailAt ==
  ASSUME NEW s, CallersOK(s), NEW rule \in Rules, Linked(s, rule), NEW l, LexOK(l)
  PROVE  DescentAt(s, Failed, l)
  BY Zenon DEF DescentAt, FailedAt

LEMMA AtPending ==
  ASSUME NEW s, NEW l, DescentAt(s, Pending, l)
  PROVE  LexOK(l) /\ PendingAt(s, l)
  BY Results DEF DescentAt

\* A call that has taken nothing by itself.
LEMMA AtStart ==
  ASSUME NEW s, NEW l, DescentAt(s, Pending, l), Last(s).rule \notin ListKinds
  PROVE  /\ LexOK(l) /\ CallersOK(Front(s)) /\ Linked(Front(s), Last(s).rule)
         /\ Last(s) \in Frames /\ Last(s).rule \in Rules
         /\ Opened(Front(s)) \in Seq(Nodes) /\ Covers(Opened(Front(s)), Behind(l))
<1>1. PICK p : p = Front(s)
  OBVIOUS
<1>2. PICK f : f = Last(s)
  OBVIOUS
<1>3. LexOK(l) /\ CallersOK(p) /\ f \in Frames /\ Linked(p, f.rule) /\ Covers(Opened(p) \o Started(f), Behind(l))
  BY <1>1, <1>2, AtPending DEF PendingAt
<1>4. Opened(p) \in Seq(Nodes)
  BY <1>3, OpenedType DEF CallersOK
<1>5. Started(f) = <<>>
  BY <1>2 DEF Started
<1>6. Opened(p) \o <<>> = Opened(p)
  BY <1>4, JoinNothing
<1>7. Covers(Opened(p), Behind(l))
  BY <1>3, <1>5, <1>6
<1> QED
  BY <1>1, <1>2, <1>3, <1>4, <1>7 DEF Frames

LEMMA AtFailed ==
  ASSUME NEW s, s # <<>>, NEW l, DescentAt(s, Failed, l)
  PROVE  /\ LexOK(l)
         /\ CallersOK(Front(s)) /\ Linked(Front(s), Last(s).rule) /\ Last(s).rule \in Rules
         /\ \E rule \in Rules : <<Last(s).rule, rule>> \in Calls
<1>1. LexOK(l) /\ FailedAt(s)
  BY Results DEF DescentAt
<1>2. CallersOK(s) /\ \E rule \in Rules : <<Last(s).rule, rule>> \in Calls
  BY <1>1 DEF FailedAt, Linked
<1>3. CallersOK(Front(s)) /\ Linked(Front(s), Last(s).rule) /\ Last(s) \in Frames
  BY <1>2, CallersFront
<1> QED
  BY <1>1, <1>2, <1>3 DEF Frames

\* The function a result is returned to.
ResumedAt(s, f, tree, l) ==
  /\ LexOK(l)
  /\ tree \in Nodes
  /\ CallersOK(s) /\ Linked(s, f.rule)
  /\ f \in Frames /\ FrameShaped(f) /\ FrameReady(f)
  /\ \E rule \in Rules : <<f.rule, rule>> \in Calls /\ tree.kind \in Gives[rule]
  /\ Opened(s) \in Seq(Nodes) /\ Begun(f) \in Seq(Nodes)

LEMMA AtParsed ==
  ASSUME NEW s, s # <<>>, NEW r, r # Pending, r # Failed, NEW l, DescentAt(s, r, l)
  PROVE  /\ r = Parsed(r.tree)
         /\ ResumedAt(Front(s), Last(s), r.tree, l)
         /\ Covers((Opened(Front(s)) \o Begun(Last(s))) \o Given(s, r.tree), Behind(l))
<1>1. PICK tree : r = Parsed(tree) /\ ParsedAt(s, tree, l)
  BY DEF DescentAt
<1>2. r.tree = tree /\ LexOK(l)
  BY <1>1, Results DEF DescentAt
<1>3. CallersOK(s) /\ tree \in Nodes
      /\ (\E rule \in Rules : <<Last(s).rule, rule>> \in Calls /\ tree.kind \in Gives[rule])
      /\ Covers(Opened(s) \o Given(s, tree), Behind(l))
  BY <1>1, Zenon DEF ParsedAt, Linked
<1>4. PICK p : p = Front(s)
  OBVIOUS
<1>5. PICK f : f = Last(s)
  OBVIOUS
<1>6. CallersOK(p) /\ Linked(p, f.rule) /\ f \in Frames /\ FrameShaped(f) /\ FrameReady(f) /\ s = Append(p, f)
  BY <1>3, <1>4, <1>5, CallersFront
<1>7. p \in Seq(Frames)
  BY <1>6 DEF CallersOK
<1>8. Opened(s) = Opened(p) \o Begun(f)
  BY <1>6, <1>7, OpenedAppend
<1>9. Opened(p) \in Seq(Nodes) /\ Begun(f) \in Seq(Nodes)
  BY <1>6, <1>7, OpenedType, BegunType
<1>10. ResumedAt(p, f, tree, l)
  BY <1>2, <1>3, <1>5, <1>6, <1>9, Zenon DEF ResumedAt
<1> QED
  BY <1>1, <1>2, <1>3, <1>4, <1>5, <1>8, <1>10, Zenon

\* A list with one element more.
LEMMA ListGrows ==
  ASSUME NEW f \in Frames, f.rule \in ListKinds, NEW x \in Nodes
  PROVE  Begun(f) \o <<x>> = Separated(<<x>> \o f.got)
<1>1. f.got \in Seq(Nodes)
  BY DEF Frames
<1>2. CASE f.got = <<>>
  <2>1. f.rule # "entry" /\ f.rule # "array" /\ f.rule # "property"
    BY DEF ListKinds
  <2>2. Begun(f) = <<>>
    BY <1>2, <2>1, Zenon DEF Begun
  <2>3. <<x>> \o <<>> = <<x>> /\ <<>> \o <<x>> = <<x>>
    OBVIOUS
  <2> QED
    BY <1>2, <2>2, <2>3, SeparatedOne
<1>3. CASE f.got # <<>>
  <2>1. PICK w \in Seq(Nodes) : w = Separated(f.got)
    BY <1>1, <1>3, SeparatedType
  <2>2. PICK c \in Nodes : c = Leaf("comma")
    BY LeafNode DEF Punctuation
  <2>3. Begun(f) = w \o <<c>>
    <3>1. f.rule # "entry" /\ f.rule # "array" /\ f.rule # "property"
      BY DEF ListKinds
    <3> QED
      BY <1>3, <2>1, <2>2, <3>1, Zenon DEF Begun
  <2>4. Separated(<<x>> \o f.got) = w \o <<c, x>>
    BY <1>1, <1>3, <2>1, <2>2, SeparatedNew
  <2>5. (w \o <<c>>) \o <<x>> = w \o <<c, x>>
    BY <2>1, <2>2
  <2> QED
    BY <2>3, <2>4, <2>5
<1> QED
  BY <1>2, <1>3

-----------------------------------------------------------------------------
(* The functions of the descent, one by one *)

Descent == DescentAt(stack, result, lexer)

Stepped == DescentAt(stack', result', lexer')

LEMMA GivesUp ==
  ASSUME NEW rule \in Rules, CallersOK(Front(stack)), Linked(Front(stack), rule), NEW l, LexOK(l), Return(Failed, l)
  PROVE  Stepped
<1>1. stack' = Front(stack) /\ result' = Failed /\ lexer' = l
  BY DEF Return
<1>2. DescentAt(Front(stack), Failed, l)
  BY FailAt
<1> QED
  BY <1>1, <1>2 DEF Stepped

LEMMA PassesFailure == ASSUME Descent, stack # <<>>, result = Failed, Return(Failed, lexer) PROVE Stepped
<1>1. LexOK(lexer) /\ CallersOK(Front(stack)) /\ Linked(Front(stack), Last(stack).rule) /\ Last(stack).rule \in Rules
  BY AtFailed DEF Descent
<1> QED
  BY <1>1, GivesUp

\* A call waits, with what it got, for a new one.
LEMMA CallsOn ==
  ASSUME CallersOK(Front(stack)), Linked(Front(stack), Last(stack).rule), Last(stack) \in Frames,
         NEW got \in Seq(Nodes), NEW g, g = [rule |-> Last(stack).rule, got |-> got],
         FrameShaped(g), FrameReady(g), NEW rule, <<g.rule, rule>> \in Calls,
         NEW l, LexOK(l), rule = "array" => l.next_token.type = "lbracket",
         Covers(Opened(Front(stack)) \o Begun(g), Behind(l)), Call(rule, got, l)
  PROVE  Stepped
<1>1. PICK f : f = Last(stack)
  OBVIOUS
<1>2. f \in [rule : Rules, got : Seq(Nodes)]
  BY <1>1 DEF Frames
<1>3. g \in Frames /\ g.rule = f.rule /\ g = [f EXCEPT !.got = got]
  BY <1>1, <1>2, SMTT(40) DEF Frames
<1>4. Top = f
  BY <1>1 DEF Top
<1>5. stack' = Front(stack) \o <<g, Frame(rule)>> /\ result' = Pending /\ lexer' = l
  BY <1>3, <1>4, Zenon DEF Call
<1>6. DescentAt(Front(stack) \o <<g, Frame(rule)>>, Pending, l)
  BY <1>1, <1>3, CallAt
<1> QED
  BY <1>5, <1>6 DEF Stepped

\* A list with an element more.
GotOK(list, got) == got \in Seq(Nodes) /\ got # <<>> /\ \A n \in DOMAIN got : got[n].kind \in Below[list]

LEMMA ListExtended ==
  ASSUME NEW p \in Seq(Nodes), NEW f \in Frames, FrameShaped(f), f.rule \in ListKinds,
         NEW x \in Nodes, x.kind \in Below[f.rule],
         NEW b, Covers((p \o Begun(f)) \o <<x>>, b)
  PROVE  GotOK(f.rule, <<x>> \o f.got) /\ Covers(p \o Separated(<<x>> \o f.got), b)
<1>1. PICK got : got = <<x>> \o f.got
  OBVIOUS
<1>2. GotOK(f.rule, got)
  <2>1. f.got \in Seq(Nodes)
    BY DEF Frames
  <2>2. PICK m \in Nat : m = Len(f.got)
    BY <2>1
  <2>3. got \in Seq(Nodes) /\ Len(got) = m + 1 /\ got[1] = x /\ \A n \in 1 .. m : got[n + 1] = f.got[n]
    BY <1>1, <2>1, <2>2
  <2>4. \A n \in 1 .. m : f.got[n].kind \in Below[f.rule]
    BY <2>1, <2>2 DEF FrameShaped
  <2>5. ASSUME NEW n \in 1 .. m + 1 PROVE got[n].kind \in Below[f.rule]
    <3>1. CASE n = 1
      BY <2>3, <3>1
    <3>2. CASE n # 1
      <4>1. PICK j \in 1 .. m : n = j + 1
        <5>1. n - 1 \in 1 .. m /\ n = (n - 1) + 1
          BY <3>2
        <5> QED
          BY <5>1
      <4> QED
        BY <2>3, <2>4, <4>1
    <3> QED
      BY <3>1, <3>2
  <2>6. DOMAIN got = 1 .. m + 1 /\ got # <<>>
    BY <2>3
  <2> QED
    BY <2>3, <2>5, <2>6 DEF GotOK
<1>3. Begun(f) \o <<x>> = Separated(got)
  BY <1>1, ListGrows
<1>4. Begun(f) \in Seq(Nodes) /\ <<x>> \in Seq(Nodes)
  BY BegunType
<1>5. Associates(p, Begun(f), <<x>>)
  BY <1>4, JoinSame
<1>6. (p \o Begun(f)) \o <<x>> = p \o Separated(got)
  BY <1>3, <1>5, Zenon DEF Associates
<1> QED
  BY <1>1, <1>2, <1>6, Zenon

\* A comma behind it.
LEMMA ListContinues ==
  ASSUME FileOK, NEW p \in Seq(Nodes), NEW g \in Frames, g.rule \in ListKinds, g.got # <<>>,
         NEW l, LexOK(l), Has(l, "comma"), Covers(p \o Separated(g.got), Behind(l))
  PROVE  LexOK(Take(l)) /\ Covers(p \o Begun(g), Behind(Take(l)))
<1>1. g.got \in Seq(Nodes)
  BY DEF Frames
<1>2. PICK w \in Seq(Nodes) : w = Separated(g.got)
  BY <1>1, SeparatedType
<1>3. PICK q \in Seq(Nodes) : q = p \o w
  <2>1. p \o w \in Seq(Nodes)
    BY <1>2
  <2> QED
    BY <2>1
<1>4. PICK m : m = Take(l)
  OBVIOUS
<1>5. LexOK(m) /\ Covers(q \o <<Leaf("comma")>>, Behind(m))
  <2>1. "comma" \in Punctuation
    BY DEF Punctuation
  <2>2. Covers(q, Behind(l))
    BY <1>2, <1>3
  <2> QED
    BY <1>3, <1>4, <2>1, <2>2, PunctuationFollows
<1>6. Begun(g) = w \o <<Leaf("comma")>>
  <2>1. g.rule # "entry" /\ g.rule # "array" /\ g.rule # "property"
    BY DEF ListKinds
  <2> QED
    BY <1>2, <2>1, Zenon DEF Begun
<1>7. q \o <<Leaf("comma")>> = p \o Begun(g)
  <2>1. PICK c \in Nodes : c = Leaf("comma")
    BY LeafNode DEF Punctuation
  <2>2. <<c>> \in Seq(Nodes)
    BY <2>1
  <2>3. Associates(p, w, <<c>>)
    BY <1>2, <2>2, JoinSame
  <2> QED
    BY <1>3, <1>6, <2>1, <2>3, Zenon DEF Associates
<1> QED
  BY <1>4, <1>5, <1>7, Zenon

\* A list that has no more elements is returned.
LEMMA ListReturns ==
  ASSUME FileOK, NEW s, CallersOK(s), NEW list \in ListKinds, Linked(s, list),
         NEW got, GotOK(list, got), NEW l, LexOK(l), Covers(Opened(s) \o Separated(got), Behind(l))
  PROVE  DescentAt(s, Parsed(Node(list, "", got)), Look(l))
<1>1. PICK tree : tree = Node(list, "", got)
  OBVIOUS
<1>2. list \in Kinds /\ list \in Rules /\ list \notin LeafKinds /\ list # "property"
  BY DEF Kinds, Rules, ListKinds, LeafKinds, Punctuation
<1>3. Shaped(list, got) /\ got \in Seq(Nodes) /\ got # <<>>
  BY <1>2 DEF Shaped, GotOK
<1>4. "" \in Texts
  BY DEF Texts
<1>5. tree \in Nodes
  <2>1. Named(list, "")
    BY DEF Named
  <2> QED
    BY <1>1, <1>2, <1>3, <1>4, <2>1, NodeMade
<1>6. tree.kind = list /\ tree.sub = got
  BY <1>1 DEF Node
<1>7. tree.kind \in Gives[list]
  BY <1>2, <1>6 DEF Gives, ListKinds
<1>8. Given(s, tree) = Separated(got)
  <2>1. s # <<>> => Last(s).rule \notin {"value", "property"}
    BY DEF Linked, Calls, ListKinds
  <2> QED
    BY <1>6, <2>1, Zenon DEF Given
<1>9. PICK q \in Seq(Nodes) : q = Opened(s) \o Separated(got)
  <2>1. Opened(s) \in Seq(Nodes)
    BY OpenedType DEF CallersOK
  <2>2. Separated(got) \in Seq(Nodes)
    BY <1>3, SeparatedType
  <2>3. Opened(s) \o Separated(got) \in Seq(Nodes)
    BY <2>1, <2>2
  <2> QED
    BY <2>3
<1>10. PICK m : m = Look(l)
  OBVIOUS
<1>11. LexOK(m) /\ Covers(q, Behind(m))
  BY <1>9, <1>10, LookFollows
<1>12. Covers(Opened(s) \o Given(s, tree), Behind(m))
  BY <1>8, <1>9, <1>11
<1>13. DescentAt(s, Parsed(tree), m)
  BY <1>2, <1>5, <1>7, <1>11, <1>12, ReturnAt
<1> QED
  BY <1>1, <1>10, <1>13

ElementOf == [entry_list |-> "entry", property_list |-> "property"]

LEMMA ListStep ==
  ASSUME FileOK, Descent, NEW list \in DOMAIN ElementOf, List(list, ElementOf[list])
  PROVE  Stepped
<1>1. PICK element : element = ElementOf[list]
  OBVIOUS
<1>2. list \in ListKinds /\ <<list, element>> \in Calls /\ element \in Rules /\ element # "array"
      /\ list # "property" /\ list \in Rules
  BY <1>1 DEF ElementOf, ListKinds, Calls, Rules
<1>3. In(list) /\ stack # <<>> /\ Top.rule = list
  BY DEF List, In
<1>4. PICK p : p = Front(stack)
  OBVIOUS
<1>5. PICK f : f = Last(stack)
  OBVIOUS
<1>6. f = Top /\ f.rule = list
  BY <1>3, <1>5 DEF Top
<1>7. CASE result = Pending
  <2>1. PendingAt(stack, lexer) /\ LexOK(lexer)
    BY <1>7, AtPending DEF Descent
  <2>2. CallersOK(p) /\ f \in Frames /\ FrameShaped(f) /\ Linked(p, f.rule)
        /\ Covers(Opened(p) \o Started(f), Behind(lexer))
    BY <1>4, <1>5, <2>1 DEF PendingAt
  <2>3. FrameReady(f)
    BY <1>2, <1>6 DEF FrameReady
  <2>4. Started(f) = Begun(f)
    BY <1>2, <1>6 DEF Started
  <2>5. Call(element, f.got, lexer)
    BY <1>1, <1>6, <1>7, Results, Zenon DEF List
  <2>6. [f EXCEPT !.got = f.got] = f
    BY <2>2 DEF Frames
  <2>7. stack' = p \o <<f, Frame(element)>> /\ result' = Pending /\ lexer' = lexer
    BY <1>4, <1>6, <2>5, <2>6, Zenon DEF Call
  <2>8. DescentAt(p \o <<f, Frame(element)>>, Pending, lexer)
    BY <1>2, <1>6, <2>1, <2>2, <2>3, <2>4, CallAt
  <2> QED
    BY <2>7, <2>8 DEF Stepped
<1>8. CASE result = Failed
  <2>1. Pass
    BY <1>8, Results, Zenon DEF List
  <2>2. Return(Failed, lexer)
    BY <1>8, <2>1 DEF Pass
  <2> QED
    BY <1>3, <1>8, <2>2, PassesFailure
<1>9. CASE result # Pending /\ result # Failed
  <2>1. PICK x : x = result.tree
    OBVIOUS
  <2>2. ResumedAt(p, f, x, lexer) /\ Covers((Opened(p) \o Begun(f)) \o Given(stack, x), Behind(lexer))
    BY <1>3, <1>4, <1>5, <1>9, <2>1, AtParsed DEF Descent
  <2>3. LexOK(lexer) /\ x \in Nodes /\ CallersOK(p) /\ Linked(p, list) /\ f \in Frames /\ FrameShaped(f)
        /\ Opened(p) \in Seq(Nodes) /\ Begun(f) \in Seq(Nodes)
    BY <1>6, <2>2 DEF ResumedAt
  <2>4. x.kind = element
    <3>1. PICK rule \in Rules : <<list, rule>> \in Calls /\ x.kind \in Gives[rule]
      BY <1>6, <2>2 DEF ResumedAt
    <3>2. rule = element
      BY <1>1, <3>1 DEF ElementOf, Calls
    <3>3. Gives[element] = {element}
      BY <1>1, <1>2 DEF Gives, ElementOf
    <3> QED
      BY <3>1, <3>2, <3>3
  <2>5. Given(stack, x) = <<x>>
    <3>1. x.kind \notin ListKinds
      BY <1>1, <2>4 DEF ElementOf, ListKinds
    <3> QED
      BY <3>1, Zenon DEF Given
  <2>6. PICK got : got = <<x>> \o f.got
    OBVIOUS
  <2>7. GotOK(list, got) /\ Covers(Opened(p) \o Separated(got), Behind(lexer))
    <3>1. x.kind \in Below[f.rule]
      BY <1>1, <1>6, <2>4 DEF Below, ElementOf, ListKinds
    <3>2. f.rule \in ListKinds /\ Covers((Opened(p) \o Begun(f)) \o <<x>>, Behind(lexer))
      BY <1>2, <1>6, <2>2, <2>5
    <3> QED
      BY <1>6, <2>3, <2>6, <3>1, <3>2, ListExtended
  <2>8. CASE Has(lexer, "comma")
    <3>1. Call(element, got, Take(lexer))
      BY <1>1, <1>6, <1>9, <2>1, <2>6, <2>8, Zenon DEF List
    <3>2. PICK g : g = [f EXCEPT !.got = got]
      OBVIOUS
    <3>3. g \in Frames /\ g.rule = list /\ g.got = got
      BY <1>6, <2>3, <2>7, <3>2 DEF Frames, GotOK
    <3>4. PICK l : l = Take(lexer)
      OBVIOUS
    <3>5. stack' = p \o <<g, Frame(element)>> /\ result' = Pending /\ lexer' = l
      BY <1>4, <1>6, <3>1, <3>2, <3>4, Zenon DEF Call
    <3>6. g.rule \in ListKinds /\ g.got # <<>> /\ Covers(Opened(p) \o Separated(g.got), Behind(lexer))
      BY <1>2, <2>7, <3>3 DEF GotOK
    <3>7. LexOK(l) /\ Covers(Opened(p) \o Begun(g), Behind(l))
      BY <2>3, <2>8, <3>3, <3>4, <3>6, ListContinues
    <3>8. FrameShaped(g) /\ FrameReady(g)
      BY <1>2, <2>7, <3>3 DEF FrameShaped, FrameReady, GotOK
    <3>9. DescentAt(p \o <<g, Frame(element)>>, Pending, l)
      BY <1>2, <2>3, <3>3, <3>7, <3>8, CallAt
    <3> QED
      BY <3>5, <3>9 DEF Stepped
  <2>9. CASE ~Has(lexer, "comma")
    <3>1. Return(Parsed(Node(list, "", got)), Look(lexer))
      BY <1>1, <1>6, <1>9, <2>1, <2>6, <2>9, Zenon DEF List
    <3>2. stack' = p /\ result' = Parsed(Node(list, "", got)) /\ lexer' = Look(lexer)
      BY <1>4, <3>1, Zenon DEF Return
    <3>3. DescentAt(p, Parsed(Node(list, "", got)), Look(lexer))
      BY <1>2, <2>3, <2>7, ListReturns
    <3> QED
      BY <3>2, <3>3 DEF Stepped
  <2> QED
    BY <2>8, <2>9
<1> QED
  BY <1>7, <1>8, <1>9

TokenOf == [string_list |-> "string", integer_list |-> "integer"]

LEMMA TokenListStep ==
  ASSUME FileOK, Descent, NEW list \in DOMAIN TokenOf, TokenList(list, TokenOf[list])
  PROVE  Stepped
<1>1. PICK type : type = TokenOf[list]
  OBVIOUS
<1>2. /\ list \in ListKinds /\ list \in Rules /\ list # "property" /\ (\A rule : <<list, rule>> \notin Calls)
      /\ type \in LeafKinds /\ type # "rbrace" /\ type \in Below[list]
  BY <1>1 DEF TokenOf, ListKinds, Rules, Calls, LeafKinds, Below
<1>3. In(list) /\ stack # <<>> /\ Top.rule = list
  BY DEF TokenList, In
<1>4. PICK p : p = Front(stack)
  OBVIOUS
<1>5. PICK f : f = Last(stack)
  OBVIOUS
<1>6. f = Top /\ f.rule = list
  BY <1>3, <1>5 DEF Top
<1>7. result = Pending
  <2>1. result # Failed
    BY <1>2, <1>3, <1>5, <1>6, AtFailed DEF Descent
  <2>2. ASSUME result # Pending PROVE FALSE
    <3>1. ResumedAt(p, f, result.tree, lexer)
      BY <1>3, <1>4, <1>5, <2>1, <2>2, AtParsed DEF Descent
    <3> QED
      BY <1>2, <1>6, <3>1 DEF ResumedAt
  <2> QED
    BY <2>2
<1>8. PendingAt(stack, lexer) /\ LexOK(lexer)
  BY <1>7, AtPending DEF Descent
<1>9. CallersOK(p) /\ f \in Frames /\ FrameShaped(f) /\ Linked(p, list)
      /\ Covers(Opened(p) \o Started(f), Behind(lexer))
  BY <1>4, <1>5, <1>6, <1>8 DEF PendingAt
<1>10. Started(f) = Begun(f)
  BY <1>2, <1>6 DEF Started
<1>11. Opened(p) \in Seq(Nodes) /\ Begun(f) \in Seq(Nodes)
  BY <1>9, OpenedType, BegunType DEF CallersOK
<1>12. PICK q \in Seq(Nodes) : q = Opened(p) \o Begun(f)
  <2>1. Opened(p) \o Begun(f) \in Seq(Nodes)
    BY <1>11
  <2> QED
    BY <2>1
<1>13. CASE ~Has(lexer, type)
  <2>1. Return(Failed, Look(lexer))
    BY <1>1, <1>13, Zenon DEF TokenList
  <2>2. stack' = p /\ result' = Failed /\ lexer' = Look(lexer)
    BY <1>4, <2>1, Zenon DEF Return
  <2>3. LexOK(Look(lexer))
    BY <1>8, <1>9, <1>10, <1>12, LookFollows
  <2>4. DescentAt(p, Failed, Look(lexer))
    BY <1>2, <1>9, <2>3, FailAt
  <2> QED
    BY <2>2, <2>4 DEF Stepped
<1>14. CASE Has(lexer, type)
  <2>1. PICK text : text = Look(lexer).next_token.text
    OBVIOUS
  <2>2. PICK behind : behind = Take(lexer)
    OBVIOUS
  <2>3. PICK x : x = Node(type, text, <<>>)
    OBVIOUS
  <2>4. LexOK(behind) /\ text \in Texts /\ Covers(q \o <<x>>, Behind(behind))
    <3>1. Covers(q, Behind(lexer))
      BY <1>9, <1>10, <1>12
    <3> QED
      BY <1>2, <1>8, <1>12, <1>14, <2>1, <2>2, <2>3, <3>1, TokenFollows
  <2>5. x \in Nodes /\ x.kind = type
    BY <1>2, <2>3, <2>4, LeafMade DEF Node
  <2>6. PICK got : got = <<x>> \o f.got
    OBVIOUS
  <2>7. GotOK(list, got) /\ Covers(Opened(p) \o Separated(got), Behind(behind))
    <3>1. x.kind \in Below[f.rule] /\ f.rule \in ListKinds
      BY <1>2, <1>6, <2>5
    <3>2. Covers((Opened(p) \o Begun(f)) \o <<x>>, Behind(behind))
      BY <1>12, <2>4
    <3> QED
      BY <1>6, <1>9, <1>11, <2>5, <2>6, <3>1, <3>2, ListExtended
  <2>8. CASE Has(behind, "comma")
    <3>1. /\ stack' = Append(Front(stack), [Top EXCEPT !.got = got])
          /\ lexer' = Take(behind) /\ result' = result
      BY <1>1, <1>6, <1>14, <2>1, <2>2, <2>3, <2>6, <2>8, Zenon DEF TokenList
    <3>2. PICK g : g = [f EXCEPT !.got = got]
      OBVIOUS
    <3>3. g \in Frames /\ g.rule = list /\ g.got = got
      BY <1>6, <1>9, <2>7, <3>2 DEF Frames, GotOK
    <3>4. PICK l : l = Take(behind)
      OBVIOUS
    <3>5. g.rule \in ListKinds /\ g.got # <<>> /\ Covers(Opened(p) \o Separated(g.got), Behind(behind))
      BY <1>2, <2>7, <3>3 DEF GotOK
    <3>6. LexOK(l) /\ Covers(Opened(p) \o Begun(g), Behind(l))
      BY <1>11, <2>4, <2>8, <3>3, <3>4, <3>5, ListContinues
    <3>7. FrameShaped(g)
      BY <2>7, <3>3 DEF FrameShaped, GotOK
    <3>8. DescentAt(Append(p, g), Pending, l)
      BY <1>9, <3>3, <3>5, <3>6, <3>7, StayAt
    <3>9. stack' = Append(p, g) /\ lexer' = l /\ result' = Pending
      BY <1>4, <1>6, <1>7, <3>1, <3>2, <3>4
    <3> QED
      BY <3>8, <3>9 DEF Stepped
  <2>9. CASE ~Has(behind, "comma")
    <3>1. Return(Parsed(Node(list, "", got)), Look(behind))
      BY <1>1, <1>6, <1>14, <2>1, <2>2, <2>3, <2>6, <2>9, Zenon DEF TokenList
    <3>2. stack' = p /\ result' = Parsed(Node(list, "", got)) /\ lexer' = Look(behind)
      BY <1>4, <3>1, Zenon DEF Return
    <3>3. DescentAt(p, Parsed(Node(list, "", got)), Look(behind))
      BY <1>2, <1>9, <2>4, <2>7, ListReturns
    <3> QED
      BY <3>2, <3>3 DEF Stepped
  <2> QED
    BY <2>8, <2>9
<1> QED
  BY <1>13, <1>14

\* An entry, with its closing brace or without.
LEMMA EntryStep == ASSUME FileOK, Descent, entry_parse PROVE Stepped
<1>1. In("entry") /\ stack # <<>> /\ Top.rule = "entry"
  BY DEF entry_parse, In
<1>2. PICK p : p = Front(stack)
  OBVIOUS
<1>3. PICK f : f = Last(stack)
  OBVIOUS
<1>4. f = Top /\ f.rule = "entry"
  BY <1>1, <1>3 DEF Top
<1>5. "entry" \in Rules /\ "entry" \in Kinds /\ "entry" \notin ListKinds /\ "entry" \notin LeafKinds
  BY DEF Rules, Kinds, ListKinds, LeafKinds, Punctuation
<1>6. CASE result = Pending
  <2>1. LexOK(lexer) /\ CallersOK(p) /\ f \in Frames /\ Linked(p, f.rule) /\ Opened(p) \in Seq(Nodes)
        /\ Covers(Opened(p), Behind(lexer))
    BY <1>2, <1>3, <1>4, <1>5, <1>6, AtStart DEF Descent
  <2>2. PICK q \in Seq(Nodes) : q = Opened(p)
    BY <2>1
  <2>3. Covers(q, Behind(lexer))
    BY <2>1, <2>2
  <2>4. CASE Has(lexer, "lbrace")
    <3>1. Call("property_list", <<>>, Take(lexer))
      BY <1>6, <2>4, Results, Zenon DEF entry_parse
    <3>2. PICK g : g = [rule |-> "entry", got |-> <<>>]
      OBVIOUS
    <3>3. PICK l : l = Take(lexer)
      OBVIOUS
    <3>4. LexOK(l) /\ Covers(q \o <<Leaf("lbrace")>>, Behind(l))
      <4>1. "lbrace" \in Punctuation
        BY DEF Punctuation
      <4> QED
        BY <2>1, <2>2, <2>3, <2>4, <3>3, <4>1, PunctuationFollows
    <3>5. Begun(g) = <<Leaf("lbrace")>>
      BY <1>5, <3>2, Zenon DEF Begun
    <3>6. FrameShaped(g) /\ FrameReady(g) /\ <<g.rule, "property_list">> \in Calls
      BY <1>5, <3>2 DEF FrameShaped, FrameReady, Calls
    <3>7. <<>> \in Seq(Nodes) /\ g = [rule |-> f.rule, got |-> <<>>]
      BY <1>4, <3>2
    <3>8. Covers(Opened(p) \o Begun(g), Behind(l))
      BY <2>2, <3>4, <3>5
    <3> QED
      BY <1>2, <1>3, <2>1, <3>1, <3>3, <3>4, <3>6, <3>7, <3>8, CallsOn
  <2>5. CASE ~Has(lexer, "lbrace")
    <3>1. Return(Failed, Look(lexer))
      BY <1>6, <2>5, Results, Zenon DEF entry_parse
    <3>2. LexOK(Look(lexer))
      BY <2>1, <2>2, <2>3, LookFollows
    <3> QED
      BY <1>2, <1>4, <1>5, <2>1, <3>1, <3>2, GivesUp
  <2> QED
    BY <2>4, <2>5
<1>7. CASE result = Failed
  <2>1. Pass
    BY <1>7, Results, Zenon DEF entry_parse
  <2>2. Return(Failed, lexer)
    BY <1>7, <2>1 DEF Pass
  <2> QED
    BY <1>1, <1>7, <2>2, PassesFailure
<1>8. CASE result # Pending /\ result # Failed
  <2>1. PICK x : x = result.tree
    OBVIOUS
  <2>2. ResumedAt(p, f, x, lexer) /\ Covers((Opened(p) \o Begun(f)) \o Given(stack, x), Behind(lexer))
    BY <1>1, <1>2, <1>3, <1>8, <2>1, AtParsed DEF Descent
  <2>3. LexOK(lexer) /\ x \in Nodes /\ CallersOK(p) /\ Linked(p, "entry") /\ f \in Frames
        /\ Opened(p) \in Seq(Nodes) /\ Begun(f) \in Seq(Nodes)
    BY <1>4, <2>2 DEF ResumedAt
  <2>4. x.kind = "property_list"
    <3>1. PICK rule \in Rules : <<"entry", rule>> \in Calls /\ x.kind \in Gives[rule]
      BY <1>4, <2>2 DEF ResumedAt
    <3>2. rule = "property_list"
      BY <3>1 DEF Calls
    <3>3. Gives["property_list"] = {"property_list"}
      BY DEF Gives, Rules, ListKinds
    <3> QED
      BY <3>1, <3>2, <3>3
  <2>5. PICK sub : sub = x.sub
    OBVIOUS
  <2>6. sub \in Seq(Nodes) /\ sub # <<>> /\ \A n \in DOMAIN sub : sub[n].kind = "property"
    <3>1. Shaped("property_list", sub) /\ sub \in Seq(Nodes)
      BY <2>3, <2>4, <2>5, NodeParts
    <3>2. "property_list" \notin LeafKinds /\ Below["property_list"] = {"property"}
      BY DEF LeafKinds, Punctuation, Below, ListKinds
    <3> QED
      BY <3>1, <3>2 DEF Shaped
  <2>7. PICK w \in Seq(Nodes) : w = Separated(sub) /\ Len(w) = 2 * Len(sub) - 1
    BY <2>6, SeparatedType
  <2>8. Given(stack, x) = w
    <3>1. x.kind \in ListKinds
      BY <2>4 DEF ListKinds
    <3>2. Last(stack).rule \notin {"value", "property"}
      BY <1>3, <1>4
    <3> QED
      BY <2>5, <2>7, <3>1, <3>2, Zenon DEF Given
  <2>9. PICK o, c \in Nodes : o = Leaf("lbrace") /\ c = Leaf("rbrace")
    BY LeafNode DEF Punctuation
  <2>10. Begun(f) = <<o>>
    BY <1>4, <1>5, <2>9, Zenon DEF Begun
  <2>11. PICK q \in Seq(Nodes) : q = <<o>> \o w
    <3>1. <<o>> \o w \in Seq(Nodes)
      BY <2>7, <2>9
    <3> QED
      BY <3>1
  <2>12. Covers(Opened(p) \o q, Behind(lexer))
    <3>1. <<o>> \in Seq(Nodes)
      BY <2>9
    <3>2. Associates(Opened(p), <<o>>, w)
      BY <2>3, <2>7, <3>1, JoinSame
    <3> QED
      BY <2>2, <2>8, <2>10, <2>11, <3>2, Zenon DEF Associates
  <2>13. PICK e : e = Node("entry", "", sub)
    OBVIOUS
  <2>14. e \in Nodes /\ e.kind = "entry"
    <3>1. Below["entry"] = {"property"}
      BY DEF Below
    <3>2. Shaped("entry", sub)
      BY <1>5, <2>6, <3>1 DEF Shaped
    <3>3. "" \in Texts
      BY DEF Texts
    <3>4. e \in Nodes
      <4>1. Named("entry", "")
        BY DEF Named
      <4> QED
        BY <1>5, <2>6, <2>13, <3>2, <3>3, <4>1, NodeMade
    <3> QED
      BY <2>13, <3>4 DEF Node
  <2>15. PICK r \in Seq(Nodes) : r = <<c>>
    <3>1. <<c>> \in Seq(Nodes)
      BY <2>9
    <3> QED
      BY <3>1
  <2>16. Written(<<e>>, 1) = q \o r
    <3>1. Written(<<e>>, 0 + 1) = PartsOf(Written(<<e>>, 0))
      BY WrittenLaw
    <3>2. Written(<<e>>, 0) = <<e>>
      BY WrittenLaw
    <3>3. PartsOf(<<e>>) = Parts(e)
      BY <2>14, PartsOfOne
    <3>4. Parts(e) = <<o>> \o w \o <<c>>
      BY <2>7, <2>9, <2>13, EntryParts
    <3>5. 0 + 1 = 1
      OBVIOUS
    <3> QED
      BY <2>11, <2>15, <3>1, <3>2, <3>3, <3>4, <3>5, Zenon
  <2>17. 1 + 1 <= Len(q)
    <3>1. PICK m \in Nat : m = Len(sub) /\ m >= 1
      BY <2>6
    <3>2. PICK k \in Nat : k = Len(w) /\ k >= 1
      BY <2>7, <3>1
    <3>3. Len(q) = 1 + k
      BY <2>7, <2>11, <3>2
    <3> QED
      BY <3>2, <3>3
  <2>18. Covers(Opened(p) \o <<e>>, Behind(lexer))
    <3>1. Behind(lexer) \in Nat
      BY <2>3, BehindType DEF FileOK
    <3>2. 1 \in Nat /\ r = <<Leaf("rbrace")>>
      BY <2>9, <2>15
    <3> QED
      BY <2>3, <2>11, <2>12, <2>14, <2>15, <2>16, <2>17, <3>1, <3>2, CoverFold
  <2>19. PICK v \in Seq(Nodes) : v = Opened(p) \o <<e>>
    <3>1. Opened(p) \o <<e>> \in Seq(Nodes)
      BY <2>3, <2>14
    <3> QED
      BY <3>1
  <2>20. PICK l : l = IF Has(lexer, "rbrace") THEN Take(lexer) ELSE Look(lexer)
    OBVIOUS
  <2>21. LexOK(l) /\ Covers(v, Behind(l))
    <3>1. Covers(v, Behind(lexer))
      BY <2>18, <2>19
    <3>2. CASE Has(lexer, "rbrace")
      BY <2>3, <2>19, <2>20, <3>1, <3>2, BraceFollows
    <3>3. CASE ~Has(lexer, "rbrace")
      BY <2>3, <2>19, <2>20, <3>1, <3>3, LookFollows
    <3> QED
      BY <3>2, <3>3
  <2>22. Return(Parsed(e), l)
    BY <1>8, <2>1, <2>5, <2>13, <2>20, Results, Zenon DEF entry_parse
  <2>23. stack' = p /\ result' = Parsed(e) /\ lexer' = l
    BY <1>2, <2>22, Zenon DEF Return
  <2>24. Given(p, e) = <<e>>
    BY <1>5, <2>14, Zenon DEF Given
  <2>25. e.kind \in Gives["entry"]
    BY <1>5, <2>14 DEF Gives
  <2>26. Covers(Opened(p) \o Given(p, e), Behind(l))
    BY <2>19, <2>21, <2>24
  <2>27. DescentAt(p, Parsed(e), l)
    BY <1>5, <2>3, <2>14, <2>21, <2>25, <2>26, ReturnAt
  <2> QED
    BY <2>23, <2>27 DEF Stepped
<1> QED
  BY <1>6, <1>7, <1>8

\* The text of an array, with its brackets.
Bracketed(tree) == <<Leaf("lbracket")>> \o Separated(tree.sub) \o <<Leaf("rbracket")>>

LEMMA BracketedType ==
  ASSUME NEW x \in Nodes, x.kind \in ListKinds
  PROVE  /\ x.sub \in Seq(Nodes) /\ x.sub # <<>>
         /\ Separated(x.sub) \in Seq(Nodes) /\ Len(Separated(x.sub)) >= 1
         /\ Bracketed(x) \in Seq(Nodes) /\ Len(Bracketed(x)) >= 3
<1>1. x.kind \notin LeafKinds
  BY DEF ListKinds, LeafKinds, Punctuation
<1>2. x.sub \in Seq(Nodes) /\ x.sub # <<>>
  BY <1>1, NodeParts DEF Shaped
<1>3. PICK m \in Nat : m = Len(x.sub) /\ m >= 1
  BY <1>2
<1>4. PICK w \in Seq(Nodes) : w = Separated(x.sub) /\ Len(w) = 2 * m - 1
  BY <1>2, <1>3, SeparatedType
<1>5. PICK k \in Nat : k = Len(w) /\ k >= 1
  BY <1>3, <1>4
<1>6. PICK o, c \in Nodes : o = Leaf("lbracket") /\ c = Leaf("rbracket")
  BY LeafNode DEF Punctuation
<1>7. Bracketed(x) = <<o>> \o w \o <<c>>
  BY <1>4, <1>6 DEF Bracketed
<1>8. <<o>> \o w \o <<c>> \in Seq(Nodes) /\ Len(<<o>> \o w \o <<c>>) = k + 2
  BY <1>4, <1>5, <1>6
<1> QED
  BY <1>2, <1>4, <1>5, <1>7, <1>8

LEMMA GivenLeaf ==
  ASSUME NEW s, NEW x, x.kind \notin ListKinds
  PROVE  Given(s, x) = <<x>>
  BY Zenon DEF Given

LEMMA GivenArray ==
  ASSUME NEW s, s # <<>>, Last(s).rule \in {"value", "property"}, NEW x, x.kind \in ListKinds
  PROVE  Given(s, x) = Bracketed(x)
  BY Zenon DEF Given, Bracketed

\* What the levels below a node are, one of them or more.
WrittenAs(x, nodes) == \E d \in Nat : d + 1 <= Len(nodes) /\ Written(<<x>>, d) = nodes

\* A property, written down.
LEMMA PropertyWritten ==
  ASSUME NEW text, NEW x \in Nodes, NEW e \in Nodes, e = Node("property", text, <<x>>),
         NEW s, s # <<>>, Last(s).rule = "property",
         NEW b \in Seq(Nodes), b = <<Node("identifier", text, <<>>), Leaf("equals")>>
  PROVE  /\ Given(s, x) \in Seq(Nodes)
         /\ WrittenAs(e, b \o Given(s, x))
<1>1. PICK i, c \in Nodes : i = Node("identifier", text, <<>>) /\ c = Leaf("equals")
  <2>1. b[1] \in Nodes /\ b[2] \in Nodes
    OBVIOUS
  <2>2. b[1] = Node("identifier", text, <<>>) /\ b[2] = Leaf("equals")
    OBVIOUS
  <2> QED
    BY <2>1, <2>2
<1>2. b = <<i, c>>
  BY <1>1
<1>3. Written(<<e>>, 1) = Parts(e)
  <2>1. Written(<<e>>, 0 + 1) = PartsOf(Written(<<e>>, 0)) /\ Written(<<e>>, 0) = <<e>>
    BY WrittenLaw
  <2>2. 0 + 1 = 1
    OBVIOUS
  <2>3. PartsOf(<<e>>) = Parts(e)
    BY PartsOfOne
  <2> QED
    BY <2>1, <2>2, <2>3
<1>4. Parts(e) = b \o (IF x.kind \in ListKinds THEN <<Leaf("lbracket"), x, Leaf("rbracket")>> ELSE <<x>>)
  BY PropertyParts, Zenon
<1>5. CASE x.kind \notin ListKinds
  <2>1. PICK v \in Seq(Nodes) : v = <<x>>
    <3>1. <<x>> \in Seq(Nodes)
      OBVIOUS
    <3> QED
      BY <3>1
  <2>2. Given(s, x) = v
    BY <1>5, <2>1, GivenLeaf
  <2>3. Written(<<e>>, 1) = b \o v
    BY <1>3, <1>4, <1>5, <2>1
  <2>4. Len(b \o v) = 3
    BY <1>2, <2>1
  <2>5. 1 + 1 <= Len(b \o v) /\ 1 \in Nat
    BY <2>4
  <2> QED
    BY <2>1, <2>2, <2>3, <2>5 DEF WrittenAs
<1>6. CASE x.kind \in ListKinds
  <2>1. PICK v \in Seq(Nodes) : v = Bracketed(x) /\ Len(v) >= 3
    BY <1>6, BracketedType
  <2>2. Given(s, x) = v
    BY <1>6, <2>1, GivenArray
  <2>3. PICK o, r \in Nodes : o = Leaf("lbracket") /\ r = Leaf("rbracket")
    BY LeafNode DEF Punctuation
  <2>4. PICK a \in Seq(Nodes) : a = <<i, c, o>>
    <3>1. <<i, c, o>> \in Seq(Nodes)
      BY <1>1, <2>3
    <3> QED
      BY <3>1
  <2>5. PICK m \in Seq(Nodes) : m = <<x>>
    <3>1. <<x>> \in Seq(Nodes)
      OBVIOUS
    <3> QED
      BY <3>1
  <2>6. PICK z \in Seq(Nodes) : z = <<r>>
    <3>1. <<r>> \in Seq(Nodes)
      BY <2>3
    <3> QED
      BY <3>1
  <2>7. Written(<<e>>, 1) = (a \o m) \o z
    <3>1. Written(<<e>>, 1) = b \o <<o, x, r>>
      BY <1>3, <1>4, <1>6, <2>3
    <3>2. <<i, c>> \o <<o, x, r>> = (<<i, c, o>> \o <<x>>) \o <<r>>
      OBVIOUS
    <3> QED
      BY <1>2, <2>4, <2>5, <2>6, <3>1, <3>2
  <2>8. Written(<<e>>, 2) = PartsOf((a \o m) \o z)
    <3>1. Written(<<e>>, 1 + 1) = PartsOf(Written(<<e>>, 1))
      BY WrittenLaw
    <3>2. 1 + 1 = 2
      OBVIOUS
    <3> QED
      BY <2>7, <3>1, <3>2
  <2>9. PartsOf((a \o m) \o z) = (PartsOf(a) \o PartsOf(m)) \o PartsOf(z)
    <3>1. a \o m \in Seq(Nodes)
      BY <2>4, <2>5
    <3> QED
      BY <2>4, <2>5, <2>6, <3>1, PartsOfJoin
  <2>10. PartsOf(a) = a /\ PartsOf(z) = z
    <3>1. i \in Leaves /\ c \in Leaves /\ o \in Leaves /\ r \in Leaves
      <4>1. c \in Leaves /\ o \in Leaves /\ r \in Leaves
        BY <1>1, <2>3, LeafLeaf DEF Punctuation
      <4>2. i.text \in Texts
        BY <1>1, NodeParts
      <4>3. i.text = text
        BY <1>1 DEF Node
      <4>4. "identifier" \in LeafKinds
        BY DEF LeafKinds
      <4>5. \E kind \in LeafKinds, t \in Texts : i = Node(kind, t, <<>>)
        BY <1>1, <4>2, <4>3, <4>4
      <4> QED
        BY <4>1, <4>5 DEF Leaves
    <3>2. a \in Seq(Leaves) /\ z \in Seq(Leaves)
      <4>1. <<i, c, o>> \in Seq(Leaves) /\ <<r>> \in Seq(Leaves)
        BY <3>1
      <4> QED
        BY <2>4, <2>6, <4>1
    <3> QED
      BY <3>2, SettledParts
  <2>11. PICK w \in Seq(Nodes) : w = Separated(x.sub)
    BY <1>6, BracketedType
  <2>12. PartsOf(m) = w
    <3>1. PartsOf(<<x>>) = Parts(x)
      BY PartsOfOne
    <3>2. x = Node(x.kind, x.text, x.sub)
      BY NodeParts
    <3>3. Parts(Node(x.kind, x.text, x.sub)) = Separated(x.sub)
      BY <1>6, ListParts
    <3> QED
      BY <2>5, <2>11, <3>1, <3>2, <3>3
  <2>13. (a \o w) \o z = b \o v
    <3>1. v = <<o>> \o w \o <<r>>
      BY <2>1, <2>3, <2>11 DEF Bracketed
    <3>2. PICK y \in Seq(Nodes) : y = <<o>>
      <4>1. <<o>> \in Seq(Nodes)
        BY <2>3
      <4> QED
        BY <4>1
    <3>3. a = b \o y
      BY <1>2, <2>4, <3>2
    <3>4. Associates(b, y, w)
      BY <2>11, <3>2, JoinSame
    <3>5. y \o w \in Seq(Nodes)
      BY <2>11, <3>2
    <3>6. Associates(b, y \o w, z)
      BY <2>6, <3>5, JoinSame
    <3>7. v = (y \o w) \o z
      BY <2>6, <3>1, <3>2
    <3> QED
      BY <3>3, <3>4, <3>6, <3>7, Zenon DEF Associates
  <2>14. Written(<<e>>, 2) = b \o v
    BY <2>8, <2>9, <2>10, <2>12, <2>13
  <2>15. 2 + 1 <= Len(b \o v) /\ 2 \in Nat
    <3>1. PICK k \in Nat : k = Len(v) /\ k >= 3
      BY <2>1
    <3>2. Len(b \o v) = 2 + k
      BY <1>2, <2>1, <3>1
    <3> QED
      BY <3>1, <3>2
  <2> QED
    BY <2>1, <2>2, <2>14, <2>15 DEF WrittenAs
<1> QED
  BY <1>5, <1>6

LEMMA PropertyStep == ASSUME FileOK, Descent, property_parse PROVE Stepped
<1>1. In("property") /\ stack # <<>> /\ Top.rule = "property"
  BY DEF property_parse, In
<1>2. PICK p : p = Front(stack)
  OBVIOUS
<1>3. PICK f : f = Last(stack)
  OBVIOUS
<1>4. f = Top /\ f.rule = "property"
  BY <1>1, <1>3 DEF Top
<1>5. "property" \in Rules /\ "property" \in Kinds /\ "property" \notin ListKinds /\ "property" \notin LeafKinds
  BY DEF Rules, Kinds, ListKinds, LeafKinds, Punctuation
<1>6. CASE result = Pending
  <2>1. LexOK(lexer) /\ CallersOK(p) /\ f \in Frames /\ Linked(p, f.rule) /\ Opened(p) \in Seq(Nodes)
        /\ Covers(Opened(p), Behind(lexer))
    BY <1>2, <1>3, <1>4, <1>5, <1>6, AtStart DEF Descent
  <2>2. PICK q \in Seq(Nodes) : q = Opened(p)
    BY <2>1
  <2>3. Covers(q, Behind(lexer))
    BY <2>1, <2>2
  <2>4. PICK text : text = Look(lexer).next_token.text
    OBVIOUS
  <2>5. PICK behind : behind = Take(lexer)
    OBVIOUS
  <2>6. IF ~Has(lexer, "identifier") THEN Return(Failed, Look(lexer))
        ELSE IF Has(behind, "equals") THEN Call("value", <<Node("name", text, <<>>)>>, Take(behind))
        ELSE Return(Failed, Look(behind))
    BY <1>6, <2>4, <2>5, Results, Zenon DEF property_parse
  <2>7. CASE ~Has(lexer, "identifier")
    <3>1. LexOK(Look(lexer))
      BY <2>1, <2>2, <2>3, LookFollows
    <3> QED
      BY <1>2, <1>4, <1>5, <2>1, <2>6, <2>7, <3>1, GivesUp
  <2>8. CASE Has(lexer, "identifier")
    <3>1. "identifier" \in LeafKinds /\ "name" \in LeafKinds
      BY DEF LeafKinds
    <3>2. LexOK(behind) /\ text \in Texts /\ Covers(q \o <<Node("identifier", text, <<>>)>>, Behind(behind))
      BY <2>1, <2>2, <2>3, <2>4, <2>5, <2>8, <3>1, TokenFollows
    <3>3. PICK i, n, e \in Nodes : i = Node("identifier", text, <<>>) /\ n = Node("name", text, <<>>) /\ e = Leaf("equals")
      BY <3>1, <3>2, LeafMade, LeafNode DEF Punctuation
    <3>4. PICK v \in Seq(Nodes) : v = q \o <<i>>
      <4>1. q \o <<i>> \in Seq(Nodes)
        BY <3>3
      <4> QED
        BY <4>1
    <3>5. Covers(v, Behind(behind))
      BY <3>2, <3>3, <3>4
    <3>6. CASE ~Has(behind, "equals")
      <4>1. LexOK(Look(behind))
        BY <3>2, <3>4, <3>5, LookFollows
      <4> QED
        BY <1>2, <1>4, <1>5, <2>1, <2>6, <2>8, <3>6, <4>1, GivesUp
    <3>7. CASE Has(behind, "equals")
      <4>1. PICK l : l = Take(behind)
        OBVIOUS
      <4>2. LexOK(l) /\ Covers(v \o <<e>>, Behind(l))
        <5>1. "equals" \in Punctuation
          BY DEF Punctuation
        <5>2. LexOK(l) /\ Covers(v \o <<Leaf("equals")>>, Behind(l))
          BY <3>2, <3>4, <3>5, <3>7, <4>1, <5>1, PunctuationFollows
        <5> QED
          BY <3>3, <5>2
      <4>3. PICK got \in Seq(Nodes) : got = <<n>>
        <5>1. <<n>> \in Seq(Nodes)
          BY <3>3
        <5> QED
          BY <5>1
      <4>4. PICK g : g = [rule |-> "property", got |-> got]
        OBVIOUS
      <4>5. Begun(g) = <<i, e>>
        <5>1. g.got # <<>> /\ g.rule = "property" /\ g.got[1] = n
          BY <4>3, <4>4
        <5>2. n.text = text
          BY <3>3 DEF Node
        <5>3. Begun(g) = <<Node("identifier", g.got[1].text, <<>>), Leaf("equals")>>
          BY <1>5, <5>1, Zenon DEF Begun
        <5> QED
          BY <3>3, <5>1, <5>2, <5>3
      <4>6. v \o <<e>> = q \o <<i, e>>
        BY <3>3, <3>4
      <4>7. Covers(Opened(p) \o Begun(g), Behind(l))
        BY <2>2, <4>2, <4>5, <4>6
      <4>8. FrameShaped(g) /\ FrameReady(g) /\ <<g.rule, "value">> \in Calls
        BY <1>5, <4>3, <4>4 DEF FrameShaped, FrameReady, Calls
      <4>9. Call("value", got, l)
        BY <2>6, <2>8, <3>3, <3>7, <4>1, <4>3
      <4>10. g = [rule |-> f.rule, got |-> got]
        BY <1>4, <4>4
      <4> QED
        BY <1>2, <1>3, <2>1, <4>2, <4>3, <4>7, <4>8, <4>9, <4>10, CallsOn
    <3> QED
      BY <3>6, <3>7
  <2> QED
    BY <2>7, <2>8
<1>7. CASE result = Failed
  <2>1. Pass
    BY <1>7, Results, Zenon DEF property_parse
  <2>2. Return(Failed, lexer)
    BY <1>7, <2>1 DEF Pass
  <2> QED
    BY <1>1, <1>7, <2>2, PassesFailure
<1>8. CASE result # Pending /\ result # Failed
  <2>1. PICK x : x = result.tree
    OBVIOUS
  <2>2. ResumedAt(p, f, x, lexer) /\ Covers((Opened(p) \o Begun(f)) \o Given(stack, x), Behind(lexer))
    BY <1>1, <1>2, <1>3, <1>8, <2>1, AtParsed DEF Descent
  <2>3. LexOK(lexer) /\ x \in Nodes /\ CallersOK(p) /\ Linked(p, "property") /\ f \in Frames /\ FrameReady(f)
        /\ Opened(p) \in Seq(Nodes) /\ Begun(f) \in Seq(Nodes)
    BY <1>4, <2>2 DEF ResumedAt
  <2>4. x.kind \in Below["property"]
    <3>1. PICK rule \in Rules : <<"property", rule>> \in Calls /\ x.kind \in Gives[rule]
      BY <1>4, <2>2 DEF ResumedAt
    <3>2. rule = "value"
      BY <3>1 DEF Calls
    <3>3. x.kind \in {"integer", "string"} \union ArrayKinds
      BY <3>1, <3>2 DEF Gives, Rules
    <3> QED
      BY <3>3 DEF Below, ArrayKinds
  <2>5. PICK text : text = f.got[1].text
    OBVIOUS
  <2>6. text \in Texts
    <3>1. f.got \in Seq(Nodes) /\ f.got # <<>>
      BY <1>4, <2>3 DEF Frames, FrameReady
    <3>2. f.got[1] \in Nodes
      BY <3>1
    <3> QED
      BY <2>5, <3>2, NodeParts
  <2>7. PICK e : e = Node("property", text, <<x>>)
    OBVIOUS
  <2>8. e \in Nodes /\ e.kind = "property"
    <3>1. PICK sub \in Seq(Nodes) : sub = <<x>>
      <4>1. <<x>> \in Seq(Nodes)
        BY <2>3
      <4> QED
        BY <4>1
    <3>2. Shaped("property", sub)
      <4>1. sub # <<>> /\ Len(sub) = 1 /\ \A k \in DOMAIN sub : sub[k] = x
        BY <3>1
      <4> QED
        BY <1>5, <2>4, <4>1 DEF Shaped
    <3>3. e \in Nodes
      <4>1. Named("property", text)
        BY DEF Named, ListKinds
      <4> QED
        BY <1>5, <2>6, <2>7, <3>1, <3>2, <4>1, NodeMade
    <3> QED
      BY <2>7, <3>3 DEF Node
  <2>9. PICK b \in Seq(Nodes) : b = Begun(f)
    BY <2>3
  <2>10. b = <<Node("identifier", text, <<>>), Leaf("equals")>>
    <3>1. f.got # <<>>
      BY <1>4, <2>3 DEF FrameReady
    <3> QED
      BY <1>4, <1>5, <2>5, <2>9, <3>1, Zenon DEF Begun
  <2>11. Last(stack).rule = "property"
    BY <1>3, <1>4
  <2>12. PICK g \in Seq(Nodes) : g = Given(stack, x)
    BY <1>1, <2>3, <2>7, <2>8, <2>10, <2>11, PropertyWritten
  <2>13. PICK d \in Nat : d + 1 <= Len(b \o g) /\ Written(<<e>>, d) = b \o g
    <3>1. WrittenAs(e, b \o Given(stack, x))
      BY <1>1, <2>3, <2>7, <2>8, <2>9, <2>10, <2>11, PropertyWritten
    <3> QED
      BY <2>12, <3>1 DEF WrittenAs
  <2>14. PICK q \in Seq(Nodes) : q = b \o g
    <3>1. b \o g \in Seq(Nodes)
      BY <2>9, <2>12
    <3> QED
      BY <3>1
  <2>15. Covers(Opened(p) \o q, Behind(lexer))
    <3>1. Associates(Opened(p), b, g)
      BY <2>3, <2>9, <2>12, JoinSame
    <3> QED
      BY <2>2, <2>9, <2>12, <2>14, <3>1, Zenon DEF Associates
  <2>16. Covers(Opened(p) \o <<e>>, Behind(lexer))
    <3>1. Behind(lexer) \in Nat
      BY <2>3, BehindType DEF FileOK
    <3>2. <<>> \in Seq(Nodes) /\ q \o <<>> = q
      BY <2>14, JoinNothing
    <3>3. Written(<<e>>, d) = q \o <<>> /\ d + 1 <= Len(q)
      BY <2>13, <2>14, <3>2
    <3> QED
      BY <2>3, <2>8, <2>13, <2>14, <2>15, <3>1, <3>2, <3>3, CoverFold
  <2>17. Return(Parsed(e), lexer)
    <3>1. f.got[1] = Top.got[1]
      BY <1>4
    <3> QED
      BY <1>8, <2>1, <2>5, <2>7, <3>1, Results, Zenon DEF property_parse
  <2>18. stack' = p /\ result' = Parsed(e) /\ lexer' = lexer
    BY <1>2, <2>17, Zenon DEF Return
  <2>19. Given(p, e) = <<e>>
    BY <1>5, <2>8, GivenLeaf
  <2>20. e.kind \in Gives["property"]
    BY <1>5, <2>8 DEF Gives
  <2>21. DescentAt(p, Parsed(e), lexer)
    BY <1>5, <2>3, <2>8, <2>16, <2>19, <2>20, ReturnAt
  <2> QED
    BY <2>18, <2>21 DEF Stepped
<1> QED
  BY <1>6, <1>7, <1>8

LEMMA NothingParsed == Pending.tree.kind \notin ListKinds /\ Failed.tree.kind \notin ListKinds
<1>1. Pending.tree = Absent /\ Failed.tree = Absent /\ Absent.kind = "absent"
  BY DEF Pending, Failed, Absent, Node
<1> QED
  BY <1>1 DEF ListKinds

LEMMA ValueStep == ASSUME FileOK, Descent, value_parse PROVE Stepped
<1>1. In("value") /\ stack # <<>> /\ Top.rule = "value"
  BY DEF value_parse, In
<1>2. PICK p : p = Front(stack)
  OBVIOUS
<1>3. PICK f : f = Last(stack)
  OBVIOUS
<1>4. f = Top /\ f.rule = "value"
  BY <1>1, <1>3 DEF Top
<1>5. "value" \in Rules /\ "value" \notin ListKinds
  BY DEF Rules, ListKinds
<1>6. CASE result = Pending
  <2>1. LexOK(lexer) /\ CallersOK(p) /\ f \in Frames /\ Linked(p, f.rule) /\ Opened(p) \in Seq(Nodes)
        /\ Covers(Opened(p), Behind(lexer))
    BY <1>2, <1>3, <1>4, <1>5, <1>6, AtStart DEF Descent
  <2>2. PICK q \in Seq(Nodes) : q = Opened(p)
    BY <2>1
  <2>3. Covers(q, Behind(lexer))
    BY <2>1, <2>2
  <2>4. PICK token : token = Look(lexer).next_token
    OBVIOUS
  <2>5. PICK l : l = Look(lexer)
    OBVIOUS
  <2>6. LexOK(l) /\ Covers(q, Behind(l))
    BY <2>1, <2>2, <2>3, <2>5, LookFollows
  <2>7. (CASE token.type \in {"string", "integer"} ->
                Return(Parsed(Node(token.type, token.text, <<>>)), Take(lexer))
           [] token.type = "lbracket" -> Call("array", <<>>, l)
           [] token.type = "lbrace" -> Call("entry", <<>>, l)
           [] OTHER -> Return(Failed, l))
    <3>1. result.tree.kind \notin ListKinds
      BY <1>6, NothingParsed
    <3> QED
      BY <1>6, <2>4, <2>5, <3>1, Zenon DEF value_parse
  <2>8. PICK g : g = [rule |-> "value", got |-> <<>>]
    OBVIOUS
  <2>9. /\ <<>> \in Seq(Nodes) /\ g = [rule |-> f.rule, got |-> <<>>]
        /\ FrameShaped(g) /\ FrameReady(g) /\ <<g.rule, "array">> \in Calls /\ <<g.rule, "entry">> \in Calls
    BY <1>4, <1>5, <2>8 DEF FrameShaped, FrameReady, Calls
  <2>10. Covers(Opened(p) \o Begun(g), Behind(l))
    <3>1. Begun(g) = <<>>
      BY <1>5, <2>8, Zenon DEF Begun
    <3>2. q \o <<>> = q
      BY <2>2, JoinNothing
    <3> QED
      BY <2>2, <2>6, <3>1, <3>2
  <2>11. CASE token.type \in {"string", "integer"}
    <3>1. PICK kind : kind = token.type
      OBVIOUS
    <3>2. PICK text : text = token.text
      OBVIOUS
    <3>3. kind \in LeafKinds /\ kind # "rbrace" /\ kind \notin ListKinds /\ kind \in Gives["value"]
      BY <1>5, <2>11, <3>1 DEF LeafKinds, ListKinds, Gives
    <3>4. Has(lexer, kind)
      BY <2>4, <3>1 DEF Has, NextType
    <3>5. PICK m : m = Take(lexer)
      OBVIOUS
    <3>6. PICK x : x = Node(kind, text, <<>>)
      OBVIOUS
    <3>7. LexOK(m) /\ text \in Texts /\ Covers(q \o <<x>>, Behind(m))
      BY <2>1, <2>2, <2>3, <2>4, <3>2, <3>3, <3>4, <3>5, <3>6, TokenFollows
    <3>8. x \in Nodes /\ x.kind = kind
      BY <3>3, <3>6, <3>7, LeafMade DEF Node
    <3>9. Return(Parsed(x), m)
      <4>1. token.type # "lbracket" /\ token.type # "lbrace"
        BY <2>11
      <4>2. Return(Parsed(Node(token.type, token.text, <<>>)), Take(lexer))
        BY <2>7, <2>11, <4>1, Zenon
      <4> QED
        BY <3>1, <3>2, <3>5, <3>6, <4>2
    <3>10. stack' = p /\ result' = Parsed(x) /\ lexer' = m
      BY <1>2, <3>9, Zenon DEF Return
    <3>11. Given(p, x) = <<x>>
      BY <3>3, <3>8, GivenLeaf
    <3>12. Covers(Opened(p) \o Given(p, x), Behind(m))
      BY <2>2, <3>7, <3>11
    <3>13. DescentAt(p, Parsed(x), m)
      BY <1>4, <1>5, <2>1, <3>3, <3>7, <3>8, <3>12, ReturnAt
    <3> QED
      BY <3>10, <3>13 DEF Stepped
  <2>12. CASE token.type = "lbracket"
    <3>1. token.type \notin {"string", "integer"} /\ token.type # "lbrace"
      BY <2>12
    <3>2. Call("array", <<>>, l)
      BY <2>7, <2>12, <3>1, Zenon
    <3>3. l.next_token.type = "lbracket"
      BY <2>4, <2>5, <2>12
    <3> QED
      BY <1>2, <1>3, <2>1, <2>6, <2>9, <2>10, <3>2, <3>3, CallsOn
  <2>13. CASE token.type = "lbrace"
    <3>1. token.type \notin {"string", "integer"} /\ token.type # "lbracket"
      BY <2>13
    <3>2. Call("entry", <<>>, l)
      BY <2>7, <2>13, <3>1, Zenon
    <3>3. "entry" # "array"
      OBVIOUS
    <3> QED
      BY <1>2, <1>3, <2>1, <2>6, <2>9, <2>10, <3>2, <3>3, CallsOn
  <2>14. CASE token.type \notin {"string", "integer"} /\ token.type # "lbracket" /\ token.type # "lbrace"
    <3>1. Return(Failed, l)
      BY <2>7, <2>14, Zenon
    <3> QED
      BY <1>2, <1>4, <1>5, <2>1, <2>6, <3>1, GivesUp
  <2> QED
    BY <2>11, <2>12, <2>13, <2>14
<1>7. CASE result # Pending /\ result.tree.kind \notin ListKinds
  <2>1. Return(Failed, lexer)
    BY <1>7, Zenon DEF value_parse
  <2>2. LexOK(lexer) /\ CallersOK(p) /\ Linked(p, f.rule)
    <3>1. CASE result = Failed
      BY <1>1, <1>2, <1>3, <3>1, AtFailed DEF Descent
    <3>2. CASE result # Failed
      BY <1>1, <1>2, <1>3, <1>7, <3>2, AtParsed DEF Descent, ResumedAt
    <3> QED
      BY <3>1, <3>2
  <2> QED
    BY <1>2, <1>4, <1>5, <2>1, <2>2, GivesUp
<1>8. CASE result # Pending /\ result.tree.kind \in ListKinds
  <2>1. PICK x : x = result.tree
    OBVIOUS
  <2>2. result # Failed
    BY <1>8, NothingParsed
  <2>3. result = Parsed(x) /\ ResumedAt(p, f, x, lexer)
        /\ Covers((Opened(p) \o Begun(f)) \o Given(stack, x), Behind(lexer))
    BY <1>1, <1>2, <1>3, <1>8, <2>1, <2>2, AtParsed DEF Descent
  <2>4. LexOK(lexer) /\ x \in Nodes /\ CallersOK(p) /\ Linked(p, "value") /\ f \in Frames
        /\ Opened(p) \in Seq(Nodes) /\ Begun(f) \in Seq(Nodes)
    BY <1>4, <2>3 DEF ResumedAt
  <2>5. x.kind \in Gives["value"]
    <3>1. PICK rule \in Rules : <<"value", rule>> \in Calls /\ x.kind \in Gives[rule]
      BY <1>4, <2>3 DEF ResumedAt
    <3>2. rule = "array" \/ rule = "entry"
      BY <3>1 DEF Calls
    <3>3. rule # "entry"
      BY <1>8, <2>1, <3>1 DEF Gives, Rules, ListKinds
    <3>4. x.kind \in ArrayKinds
      BY <3>1, <3>2, <3>3 DEF Gives, Rules
    <3> QED
      BY <1>5, <3>4 DEF Gives
  <2>6. p # <<>> /\ Last(p).rule = "property"
    BY <2>4 DEF Linked, Calls
  <2>7. Given(stack, x) = Bracketed(x) /\ Given(p, x) = Bracketed(x)
    BY <1>1, <1>3, <1>4, <1>8, <2>1, <2>6, GivenArray
  <2>8. Covers(Opened(p) \o Given(p, x), Behind(lexer))
    <3>1. Begun(f) = <<>>
      BY <1>4, <1>5, Zenon DEF Begun
    <3>2. Opened(p) \o <<>> = Opened(p)
      BY <2>4, JoinNothing
    <3> QED
      BY <2>3, <2>7, <3>1, <3>2
  <2>9. Pass
    BY <1>8, Zenon DEF value_parse
  <2>10. stack' = p /\ result' = Parsed(x) /\ lexer' = lexer
    BY <1>2, <2>3, <2>9, Zenon DEF Pass, Return
  <2>11. DescentAt(p, Parsed(x), lexer)
    BY <1>5, <2>4, <2>5, <2>8, ReturnAt
  <2> QED
    BY <2>10, <2>11 DEF Stepped
<1> QED
  BY <1>6, <1>7, <1>8

LEMMA ArrayStep == ASSUME FileOK, Descent, array_parse PROVE Stepped
<1>1. In("array") /\ stack # <<>> /\ Top.rule = "array"
  BY DEF array_parse, In
<1>2. PICK p : p = Front(stack)
  OBVIOUS
<1>3. PICK f : f = Last(stack)
  OBVIOUS
<1>4. f = Top /\ f.rule = "array"
  BY <1>1, <1>3 DEF Top
<1>5. "array" \in Rules /\ "array" \notin ListKinds
  BY DEF Rules, ListKinds
<1>6. PICK o, c \in Nodes : o = Leaf("lbracket") /\ c = Leaf("rbracket")
  BY LeafNode DEF Punctuation
<1>7. CASE result = Pending
  <2>1. LexOK(lexer) /\ CallersOK(p) /\ f \in Frames /\ Linked(p, f.rule) /\ Opened(p) \in Seq(Nodes)
        /\ Covers(Opened(p), Behind(lexer))
    BY <1>2, <1>3, <1>4, <1>5, <1>7, AtStart DEF Descent
  <2>2. PICK q \in Seq(Nodes) : q = Opened(p)
    BY <2>1
  <2>3. Covers(q, Behind(lexer))
    BY <2>1, <2>2
  <2>4. Has(lexer, "lbracket")
    <3>1. lexer.next_token.type = "lbracket"
      BY <1>3, <1>4, <1>7, AtPending DEF Descent, PendingAt
    <3>2. lexer.next_token # NoToken
      <4>1. NoToken.type = "none"
        BY DEF NoToken, Token
      <4> QED
        BY <3>1, <4>1
    <3>3. Look(lexer) = lexer
      BY <3>2 DEF Look
    <3> QED
      BY <3>1, <3>3 DEF Has, NextType
  <2>5. PICK behind : behind = Take(lexer)
    OBVIOUS
  <2>6. PICK v \in Seq(Nodes) : v = q \o <<o>>
    <3>1. q \o <<o>> \in Seq(Nodes)
      BY <1>6, <2>2
    <3> QED
      BY <3>1
  <2>7. LexOK(behind) /\ Covers(v, Behind(behind))
    <3>1. "lbracket" \in Punctuation
      BY DEF Punctuation
    <3>2. LexOK(behind) /\ Covers(q \o <<Leaf("lbracket")>>, Behind(behind))
      BY <2>1, <2>2, <2>3, <2>4, <2>5, <3>1, PunctuationFollows
    <3> QED
      BY <1>6, <2>6, <3>2
  <2>8. PICK l : l = Look(behind)
    OBVIOUS
  <2>9. LexOK(l) /\ Covers(v, Behind(l))
    BY <2>6, <2>7, <2>8, LookFollows
  <2>10. IF NextType(behind) \in DOMAIN ListOf THEN Call(ListOf[NextType(behind)], <<>>, l) ELSE Return(Failed, l)
    BY <1>7, <2>5, <2>8, Results, Zenon DEF array_parse
  <2>11. CASE NextType(behind) \in DOMAIN ListOf
    <3>1. PICK list : list = ListOf[NextType(behind)]
      OBVIOUS
    <3>2. <<"array", list>> \in Calls /\ list # "array"
      BY <2>11, <3>1 DEF ListOf, Calls
    <3>3. PICK g : g = [rule |-> "array", got |-> <<>>]
      OBVIOUS
    <3>4. /\ <<>> \in Seq(Nodes) /\ g = [rule |-> f.rule, got |-> <<>>]
          /\ FrameShaped(g) /\ FrameReady(g) /\ <<g.rule, list>> \in Calls
      BY <1>4, <1>5, <3>2, <3>3 DEF FrameShaped, FrameReady
    <3>5. Begun(g) = <<Leaf("lbracket")>>
      BY <1>5, <3>3, Zenon DEF Begun
    <3>6. Covers(Opened(p) \o Begun(g), Behind(l))
      BY <1>6, <2>2, <2>6, <2>9, <3>5
    <3>7. Call(list, <<>>, l)
      BY <2>10, <2>11, <3>1
    <3> QED
      BY <1>2, <1>3, <2>1, <2>9, <3>2, <3>4, <3>6, <3>7, CallsOn
  <2>12. CASE NextType(behind) \notin DOMAIN ListOf
    BY <1>2, <1>4, <1>5, <2>1, <2>9, <2>10, <2>12, GivesUp
  <2> QED
    BY <2>11, <2>12
<1>8. CASE result = Failed
  <2>1. Pass
    BY <1>8, Results, Zenon DEF array_parse
  <2>2. Return(Failed, lexer)
    BY <1>8, <2>1 DEF Pass
  <2> QED
    BY <1>1, <1>8, <2>2, PassesFailure
<1>9. CASE result # Pending /\ result # Failed
  <2>1. PICK x : x = result.tree
    OBVIOUS
  <2>2. result = Parsed(x) /\ ResumedAt(p, f, x, lexer)
        /\ Covers((Opened(p) \o Begun(f)) \o Given(stack, x), Behind(lexer))
    BY <1>1, <1>2, <1>3, <1>9, <2>1, AtParsed DEF Descent
  <2>3. LexOK(lexer) /\ x \in Nodes /\ CallersOK(p) /\ Linked(p, "array") /\ f \in Frames
        /\ Opened(p) \in Seq(Nodes) /\ Begun(f) \in Seq(Nodes)
    BY <1>4, <2>2 DEF ResumedAt
  <2>4. x.kind \in ArrayKinds
    <3>1. PICK rule \in Rules : <<"array", rule>> \in Calls /\ x.kind \in Gives[rule]
      BY <1>4, <2>2 DEF ResumedAt
    <3>2. rule \in ArrayKinds
      BY <3>1 DEF Calls, ArrayKinds, ListKinds
    <3>3. Gives[rule] = {rule}
      BY <3>1, <3>2 DEF Gives, ArrayKinds, ListKinds
    <3> QED
      BY <3>1, <3>2, <3>3
  <2>5. x.kind \in ListKinds /\ x.kind \in Gives["array"]
    BY <1>5, <2>4 DEF ArrayKinds, Gives
  <2>6. PICK w \in Seq(Nodes) : w = Separated(x.sub)
    BY <2>3, <2>5, BracketedType
  <2>7. Given(stack, x) = w
    <3>1. Last(stack).rule \notin {"value", "property"}
      BY <1>3, <1>4
    <3> QED
      BY <2>5, <2>6, <3>1, Zenon DEF Given
  <2>8. PICK b \in Seq(Nodes) : b = <<o>>
    <3>1. <<o>> \in Seq(Nodes)
      BY <1>6
    <3> QED
      BY <3>1
  <2>9. Begun(f) = b
    BY <1>4, <1>5, <1>6, <2>8, Zenon DEF Begun
  <2>10. PICK a \in Seq(Nodes) : a = Opened(p)
    BY <2>3
  <2>11. PICK v \in Seq(Nodes) : v = (a \o b) \o w
    <3>1. (a \o b) \o w \in Seq(Nodes)
      BY <2>6, <2>8, <2>10
    <3> QED
      BY <3>1
  <2>12. Covers(v, Behind(lexer))
    BY <2>2, <2>7, <2>9, <2>10, <2>11
  <2>13. CASE ~Has(lexer, "rbracket")
    <3>1. Return(Failed, Look(lexer))
      BY <1>9, <2>13, Zenon DEF array_parse
    <3>2. LexOK(Look(lexer))
      BY <2>3, <2>11, <2>12, LookFollows
    <3> QED
      BY <1>2, <1>5, <2>3, <3>1, <3>2, GivesUp
  <2>14. CASE Has(lexer, "rbracket")
    <3>1. PICK l : l = Take(lexer)
      OBVIOUS
    <3>2. PICK z \in Seq(Nodes) : z = <<c>>
      <4>1. <<c>> \in Seq(Nodes)
        BY <1>6
      <4> QED
        BY <4>1
    <3>3. LexOK(l) /\ Covers(v \o z, Behind(l))
      <4>1. "rbracket" \in Punctuation /\ "rbracket" # "rbrace"
        BY DEF Punctuation
      <4>2. LexOK(l) /\ Covers(v \o <<Leaf("rbracket")>>, Behind(l))
        BY <2>3, <2>11, <2>12, <2>14, <3>1, <4>1, PunctuationFollows
      <4> QED
        BY <1>6, <3>2, <4>2
    <3>4. p # <<>> /\ Last(p).rule = "value"
      BY <2>3 DEF Linked, Calls
    <3>5. Given(p, x) = Bracketed(x)
      BY <2>5, <3>4, GivenArray
    <3>6. v \o z = a \o Bracketed(x)
      <4>1. Bracketed(x) = (b \o w) \o z
        BY <1>6, <2>6, <2>8, <3>2 DEF Bracketed
      <4>2. Associates(a, b, w)
        BY <2>6, <2>8, <2>10, JoinSame
      <4>3. b \o w \in Seq(Nodes)
        BY <2>6, <2>8
      <4>4. Associates(a, b \o w, z)
        BY <2>10, <3>2, <4>3, JoinSame
      <4> QED
        BY <2>11, <4>1, <4>2, <4>4, Zenon DEF Associates
    <3>7. Covers(Opened(p) \o Given(p, x), Behind(l))
      BY <2>10, <3>3, <3>5, <3>6
    <3>8. Return(result, l)
      BY <1>9, <2>14, <3>1, Zenon DEF array_parse
    <3>9. stack' = p /\ result' = Parsed(x) /\ lexer' = l
      BY <1>2, <2>2, <3>8, Zenon DEF Return
    <3>10. DescentAt(p, Parsed(x), l)
      BY <1>5, <2>3, <2>5, <3>3, <3>7, ReturnAt
    <3> QED
      BY <3>9, <3>10 DEF Stepped
  <2> QED
    BY <2>13, <2>14
<1> QED
  BY <1>7, <1>8, <1>9

-----------------------------------------------------------------------------
(* What is parsed and what was consumed *)

Whole(list) == Node("entry_list", "", list)

ListRead(list, l) ==
  \/ list = <<>>
  \/ /\ list # <<>> /\ Whole(list) \in Nodes
     /\ Covers(Separated(list), Behind(l))

ParseInv ==
  /\ FileOK /\ Levels \in Nat /\ Len(file) < Levels
  /\ phase = "parse" => Descent
  /\ phase # "parse" => LexOK(lexer) /\ ListRead(entry_list, lexer)

LEMMA OpenedNone == Opened(<<>>) = <<>>
  BY BegunFunctionType, MappedNone DEF Opened

LEMMA ParseInit == Init => ParseInv
<1> SUFFICES ASSUME Init PROVE ParseInv
  OBVIOUS
<1>1. FileOK /\ Levels \in Nat /\ Len(file) < Levels
  BY FileAssumption DEF Init, FileOK
<1>2. phase = "parse" /\ result = Pending /\ lexer = [made |-> 0, next_token |-> NoToken]
  BY DEF Init
<1>3. LexOK(lexer) /\ Behind(lexer) = 0
  <2>1. Len(file) \in Nat
    BY <1>1 DEF FileOK
  <2>2. 0 \in 0 .. Len(file)
    BY <2>1
  <2> QED
    BY <1>2, <2>2 DEF LexOK, Behind
<1>4. PICK f : f = Frame("entry_list")
  OBVIOUS
<1>5. f \in Frames /\ f.rule = "entry_list" /\ f.got = <<>>
  BY <1>4 DEF Frame, Frames, Rules, ListKinds
<1>6. PICK s \in Seq(Frames) : s = <<>>
  <2>1. <<>> \in Seq(Frames)
    OBVIOUS
  <2> QED
    BY <2>1
<1>7. stack = Append(s, f)
  BY <1>4, <1>6 DEF Init
<1>8. Front(stack) = s /\ Last(stack) = f
  BY <1>6, <1>7, FrontLast
<1>9. CallersOK(s) /\ Linked(s, f.rule) /\ FrameShaped(f)
  <2>1. Len(s) = 0 /\ 1 .. 0 = {}
    BY <1>6
  <2>2. CallersOK(s)
    BY <1>6, <2>1 DEF CallersOK
  <2> QED
    BY <1>5, <1>6, <2>2 DEF Linked, FrameShaped
<1>10. Started(f) = <<>>
  <2>1. Begun(f) = <<>>
    BY <1>5, Zenon DEF Begun
  <2> QED
    BY <2>1 DEF Started
<1>11. Covers(Opened(s) \o Started(f), Behind(lexer))
  <2>1. <<>> \o <<>> = <<>>
    OBVIOUS
  <2> QED
    BY <1>3, <1>6, <1>10, <2>1, OpenedNone, CoverNone
<1>12. PendingAt(stack, lexer)
  <2>1. f.rule # "array"
    BY <1>5
  <2> QED
    BY <1>5, <1>7, <1>8, <1>9, <1>11, <2>1, Zenon DEF PendingAt
<1>13. Descent
  BY <1>2, <1>3, <1>12 DEF Descent, DescentAt
<1> QED
  BY <1>1, <1>2, <1>13 DEF ParseInv

\* What follows does not look at the tokens.
LEMMA DescentPrime ==
  ASSUME file' = file, DescentAt(stack', result', lexer')
  PROVE  Descent'
<1> QED
  BY DEF Descent, DescentAt, LexOK, PendingAt, FailedAt, ParsedAt, Covers, CoversBy, Segment, Behind

\* The list of the dictionary is what the descent ends with.
LEMMA NewList ==
  ASSUME FileOK, Descent, dict_parser_new
  PROVE  LexOK(lexer) /\ ListRead(entry_list', lexer) /\ lexer' = lexer
<1>1. stack = <<>> /\ entry_list' = result.tree.sub /\ lexer' = lexer
  BY DEF dict_parser_new, parseVars
<1>2. LexOK(lexer)
  BY DEF Descent, DescentAt
<1>3. result # Pending
  <2>1. SUFFICES ASSUME result = Pending PROVE FALSE
    OBVIOUS
  <2>2. CallersOK(Front(stack)) /\ stack = Append(Front(stack), Last(stack))
    BY <2>1, AtPending DEF Descent, PendingAt
  <2>3. Front(stack) \in Seq(Frames)
    BY <2>2 DEF CallersOK
  <2>4. PICK s \in Seq(Frames) : s = Front(stack)
    BY <2>3
  <2>5. Append(s, Last(stack)) # <<>>
    BY <2>4
  <2> QED
    BY <1>1, <2>2, <2>4, <2>5
<1>4. CASE result = Failed
  <2>1. entry_list' = <<>>
    BY <1>1, <1>4 DEF Failed, Absent, Node
  <2> QED
    BY <1>1, <1>2, <2>1 DEF ListRead
<1>5. CASE result # Failed
  <2>1. PICK tree : result = Parsed(tree) /\ ParsedAt(stack, tree, lexer)
    BY <1>3, <1>5 DEF Descent, DescentAt
  <2>2. tree \in Nodes /\ Covers(Opened(stack) \o Given(stack, tree), Behind(lexer))
        /\ entry_list' = tree.sub
    BY <1>1, <2>1, Results DEF ParsedAt
  <2>3. tree.kind = "entry_list"
    <3>1. PICK rule \in Rules : Linked(stack, rule) /\ tree.kind \in Gives[rule]
      BY <2>1 DEF ParsedAt
    <3>2. rule = "entry_list"
      BY <1>1, <3>1 DEF Linked
    <3> QED
      BY <3>1, <3>2 DEF Gives, Rules, ListKinds
  <2>4. tree.kind \in ListKinds
    BY <2>3 DEF ListKinds
  <2>5. PICK w \in Seq(Nodes) : w = Separated(tree.sub)
    BY <2>2, <2>4, BracketedType
  <2>6. tree.sub \in Seq(Nodes) /\ tree.sub # <<>>
    BY <2>2, <2>4, BracketedType
  <2>7. Given(stack, tree) = w
    BY <1>1, <2>4, <2>5, Zenon DEF Given
  <2>8. Covers(w, Behind(lexer))
    <3>1. <<>> \o w = w
      BY <2>5
    <3> QED
      BY <1>1, <2>2, <2>7, <3>1, OpenedNone
  <2>9. Whole(tree.sub) \in Nodes
    <3>1. "entry_list" \in Kinds /\ "entry_list" \notin LeafKinds /\ "" \in Texts
      BY DEF Kinds, ListKinds, LeafKinds, Punctuation, Texts
    <3>2. Shaped("entry_list", tree.sub)
      BY <2>2, <2>3, NodeParts
    <3>3. Named("entry_list", "")
      BY DEF Named
    <3> QED
      BY <2>6, <3>1, <3>2, <3>3, NodeMade DEF Whole
  <2> QED
    BY <1>1, <1>2, <2>2, <2>5, <2>6, <2>8, <2>9 DEF ListRead
<1> QED
  BY <1>4, <1>5

\* One step of the descent.
Descends ==
  \/ entry_list_parse
  \/ property_list_parse
  \/ string_list_parse
  \/ integer_list_parse
  \/ entry_parse
  \/ property_parse
  \/ value_parse
  \/ array_parse

LEMMA DescentStep == ASSUME FileOK, Descent, Descends PROVE Stepped
<1>1. CASE entry_list_parse
  <2>1. "entry_list" \in DOMAIN ElementOf /\ ElementOf["entry_list"] = "entry"
    BY DEF ElementOf
  <2> QED
    BY <1>1, <2>1, ListStep DEF entry_list_parse
<1>2. CASE property_list_parse
  <2>1. "property_list" \in DOMAIN ElementOf /\ ElementOf["property_list"] = "property"
    BY DEF ElementOf
  <2> QED
    BY <1>2, <2>1, ListStep DEF property_list_parse
<1>3. CASE string_list_parse
  <2>1. "string_list" \in DOMAIN TokenOf /\ TokenOf["string_list"] = "string"
    BY DEF TokenOf
  <2> QED
    BY <1>3, <2>1, TokenListStep DEF string_list_parse
<1>4. CASE integer_list_parse
  <2>1. "integer_list" \in DOMAIN TokenOf /\ TokenOf["integer_list"] = "integer"
    BY DEF TokenOf
  <2> QED
    BY <1>4, <2>1, TokenListStep DEF integer_list_parse
<1> QED
  BY <1>1, <1>2, <1>3, <1>4, EntryStep, PropertyStep, ValueStep, ArrayStep DEF Descends

\* A step of the descent leaves everything else alone.
LEMMA DescentFrame ==
  ASSUME Descends
  PROVE  phase = "parse" /\ UNCHANGED <<file, entry_list, next, dict, err, phase>>
  BY Zenon DEF Descends, entry_list_parse, property_list_parse, string_list_parse, integer_list_parse,
     entry_parse, property_parse, value_parse, array_parse, List, TokenList, In, Call, Return, Pass

LEMMA ParseStep ==
  ASSUME ParseInv, [Next]_vars
  PROVE  ParseInv'
<1>1. FileOK /\ Levels \in Nat /\ Len(file) < Levels
  BY DEF ParseInv
<1>2. CASE Descends
  <2>1. phase = "parse" /\ file' = file /\ phase' = phase
    BY <1>2, DescentFrame
  <2>2. Stepped
    BY <1>1, <1>2, <2>1, DescentStep DEF ParseInv
  <2>3. Descent'
    BY <2>1, <2>2, DescentPrime DEF Stepped
  <2> QED
    BY <1>1, <2>1, <2>3 DEF ParseInv, FileOK
<1>3. CASE dict_parser_new
  <2>1. phase = "parse" /\ file' = file /\ phase' = "get" /\ lexer' = lexer
    BY <1>3 DEF dict_parser_new, parseVars
  <2>2. LexOK(lexer) /\ ListRead(entry_list', lexer)
    BY <1>1, <1>3, <2>1, NewList DEF ParseInv
  <2>3. LexOK(lexer)' /\ ListRead(entry_list, lexer)'
    BY <2>1, <2>2 DEF LexOK, ListRead, Covers, CoversBy, Segment, Behind
  <2> QED
    BY <1>1, <2>1, <2>3 DEF ParseInv, FileOK
<1>4. CASE get_dict_entry \/ get_dict_ends \/ UNCHANGED vars
  <2>1. /\ file' = file /\ stack' = stack /\ result' = result /\ lexer' = lexer /\ entry_list' = entry_list
        /\ (phase = "parse" <=> phase' = "parse")
    BY <1>4, Zenon DEF get_dict_entry, get_dict_ends, vars, parseVars
  <2>2. LexOK(lexer)' <=> LexOK(lexer)
    BY <2>1 DEF LexOK
  <2>3. ListRead(entry_list, lexer)' <=> ListRead(entry_list, lexer)
    BY <2>1 DEF ListRead, Covers, CoversBy, Segment, Behind
  <2>4. ASSUME Descent PROVE Descent'
    <3>1. DescentAt(stack', result', lexer')
      BY <2>1, <2>4 DEF Descent
    <3> QED
      BY <2>1, <3>1, DescentPrime
  <2> QED
    BY <1>1, <2>1, <2>2, <2>3, <2>4 DEF ParseInv, FileOK
<1> QED
  BY <1>2, <1>3, <1>4 DEF Next, Descends

LEMMA WholeParts ==
  ASSUME NEW list, Whole(list) \in Nodes
  PROVE  /\ Whole(list).kind = "entry_list" /\ Whole(list).sub = list
         /\ Parts(Whole(list)) = Separated(list)
<1>1. "entry_list" \in ListKinds
  BY DEF ListKinds
<1> QED
  BY <1>1, ListParts, Zenon DEF Whole, Node

\* The list of entries, written down with all its levels.
LEMMA TextOfList ==
  ASSUME NEW list, Whole(list) \in Nodes, Levels \in Nat,
         NEW b \in Nat, b < Levels, Covers(Separated(list), b)
  PROVE  \E v \in Seq(Nodes) : Text(list) = Tokens(v) /\ Plain(v) = Segment(b)
<1>1. PICK r \in Nodes : r = Whole(list)
  OBVIOUS
<1>2. r.kind = "entry_list" /\ r.sub = list /\ Parts(r) = Separated(list)
  BY <1>1, WholeParts
<1>3. PICK w \in Seq(Nodes) : w = Separated(list) /\ Len(w) >= 1
  BY <1>2, BracketedType DEF ListKinds
<1>4. PICK k \in Nat : CoversBy(w, b, k)
  BY <1>3 DEF Covers
<1>5. k + Len(w) <= b /\ Written(w, k) \in Seq(Leaves) /\ Plain(Written(w, k)) = Segment(b)
  BY <1>4 DEF CoversBy
<1>6. PICK m \in Nat : Levels = 1 + (k + m)
  <2>1. PICK n \in Nat : n = Len(w)
    BY <1>3
  <2>2. k + 1 <= b
    BY <1>3, <1>5, <2>1
  <2>3. Levels - (k + 1) \in Nat /\ Levels = 1 + (k + (Levels - (k + 1)))
    BY <2>2
  <2> QED
    BY <2>3
<1>7. <<r>> \in Seq(Nodes)
  OBVIOUS
<1>8. Written(<<r>>, 1) = w
  <2>1. Written(<<r>>, 0 + 1) = PartsOf(Written(<<r>>, 0)) /\ Written(<<r>>, 0) = <<r>>
    BY WrittenLaw
  <2>2. 0 + 1 = 1
    OBVIOUS
  <2>3. PartsOf(<<r>>) = Parts(r)
    BY PartsOfOne
  <2> QED
    BY <1>2, <1>3, <2>1, <2>2, <2>3
<1>9. Written(<<r>>, 1 + (k + m)) = Written(Written(<<r>>, 1), k + m)
  <2>1. k + m \in Nat /\ 1 \in Nat
    OBVIOUS
  <2> QED
    BY <2>1, WrittenPlus
<1>10. Written(w, k + m) = Written(w, k)
  BY <1>5, SettledWritten
<1>11. Text(list) = Tokens(Written(w, k))
  BY <1>1, <1>6, <1>8, <1>9, <1>10, Zenon DEF Text, Whole
<1>12. Written(w, k) \in Seq(Nodes)
  BY <1>3, WrittenType
<1> QED
  BY <1>5, <1>11, <1>12

LEMMA RoundTripHolds == ParseInv => RoundTrip
<1> SUFFICES ASSUME ParseInv, phase = "get", entry_list # <<>> PROVE RoundTrip
  BY DEF RoundTrip
<1>1. FileOK /\ Levels \in Nat /\ Len(file) < Levels /\ LexOK(lexer)
      /\ Whole(entry_list) \in Nodes /\ Covers(Separated(entry_list), Behind(lexer))
  BY DEF ParseInv, ListRead
<1>2. PICK S : S = AnyToken \union LexerToken
  OBVIOUS
<1>3. file \in Seq(S)
  BY <1>1, <1>2, SeqLarger DEF FileOK
<1>4. PICK b \in Nat : b = Behind(lexer) /\ b <= Len(file) /\ b < Levels
  <2>1. Behind(lexer) \in 0 .. Len(file)
    BY <1>1, BehindType
  <2>2. Len(file) \in Nat
    BY <1>3
  <2> QED
    BY <1>1, <2>1, <2>2
<1>5. PICK v \in Seq(Nodes) : Text(entry_list) = Tokens(v) /\ Plain(v) = Segment(b)
  BY <1>1, <1>4, TextOfList
<1>6. PICK u \in Seq(S) : u = Tokens(v)
  <2>1. Tokens(v) \in Seq(S)
    BY <1>2, TokensType, SeqLarger
  <2> QED
    BY <2>1
<1>7. PICK x : x = IF lexer.next_token = NoToken THEN <<>> ELSE <<lexer.next_token>>
  OBVIOUS
<1>8. Segment(b) \in Seq(S)
  BY <1>3, <1>4, SegmentType
<1>9. Without({"rbrace"}, u) = Segment(b)
  BY <1>5, <1>6 DEF Plain
<1>10. /\ x \in Seq(S)
       /\ Segment(b) \o Without({"rbrace"}, x) = Segment(lexer.made)
  <2>1. <<>> \in Seq(S)
    OBVIOUS
  <2>2. CASE lexer.next_token = NoToken
    <3>1. x = <<>> /\ b = lexer.made
      BY <1>4, <1>7, <2>2 DEF Behind
    <3>2. Without({"rbrace"}, x) = <<>>
      BY <3>1, WithoutNone
    <3>3. Segment(b) \o <<>> = Segment(b)
      BY <1>8, JoinNothing
    <3> QED
      BY <2>1, <3>1, <3>2, <3>3, Zenon
  <2>3. CASE lexer.next_token # NoToken
    <3>1. PICK t : t = lexer.next_token
      OBVIOUS
    <3>2. /\ lexer.made \in 0 .. Len(file) /\ lexer.made >= 1
          /\ t = file[lexer.made] /\ t.type \notin {"blank", "error"}
      BY <1>1, <2>3, <3>1 DEF LexOK
    <3>3. b = lexer.made - 1
      BY <1>4, <2>3 DEF Behind
    <3>4. lexer.made = b + 1 /\ b + 1 <= Len(file) /\ b + 1 \in 1 .. Len(file)
      <4>1. Len(file) \in Nat
        BY <1>3
      <4> QED
        BY <3>2, <3>3, <4>1
    <3>5. t = file[b + 1] /\ t \in S
      BY <1>3, <3>2, <3>4
    <3>6. x = <<t>>
      BY <1>7, <2>3, <3>1
    <3>7. Segment(b + 1) = IF t.type \in Skipped THEN Segment(b) ELSE Segment(b) \o <<t>>
      BY <1>3, <3>4, <3>5, SegmentNext
    <3>8. Without({"rbrace"}, <<t>>) = IF t.type \in {"rbrace"} THEN <<>> ELSE <<t>>
      BY WithoutOne
    <3>9. t.type \in Skipped <=> t.type \in {"rbrace"}
      BY <3>2 DEF Skipped
    <3>10. Segment(b) \o <<>> = Segment(b)
      BY <1>8, JoinNothing
    <3>11. Segment(b) \o Without({"rbrace"}, x) = Segment(lexer.made)
      BY <3>4, <3>6, <3>7, <3>8, <3>9, <3>10, Zenon
    <3>12. <<t>> \in Seq(S)
      BY <3>5
    <3> QED
      BY <3>6, <3>11, <3>12, Zenon
  <2> QED
    BY <2>2, <2>3
<1>11. Without({"rbrace"}, u \o x) = Without({"rbrace"}, u) \o Without({"rbrace"}, x)
  BY <1>6, <1>10, WithoutJoin
<1>12. Without({"rbrace"}, Text(entry_list) \o x) = Segment(lexer.made)
  BY <1>5, <1>6, <1>9, <1>10, <1>11, Zenon
<1> QED
  BY <1>7, <1>12, Zenon DEF RoundTrip, Segment

\* Whatever stands in a file, and wherever the parser gives up: what was parsed,
\* written down again, is what was consumed, but for closing braces
\* (lexer_get_token and every _parse function).
THEOREM ConsumedIsParsed == Spec => []RoundTrip
<1>1. Init => ParseInv
  BY ParseInit
<1>2. ParseInv /\ [Next]_vars => ParseInv'
  BY ParseStep
<1>3. ParseInv => RoundTrip
  BY RoundTripHolds
<1> QED
  BY <1>1, <1>2, <1>3, PTL DEF Spec

-----------------------------------------------------------------------------
(* What is left out of the dictionary *)

\* The entries that are loaded, of the first "n" ones.
LoadedOf(n) == {m \in 1 .. n : Complete(entry_list[m])}

GetInv ==
  /\ phase # "parse" => \E S : entry_list \in Seq(S)
  /\ \E S : dict \in Seq(S)
  /\ phase = "parse" => next = 1 /\ err = FALSE /\ dict = <<>>
  /\ phase # "parse" => next \in 1 .. Len(entry_list) + 1
  /\ phase \in {"get", "loaded", "discarded"} =>
       /\ err <=> (next > 1 /\ ~Complete(entry_list[next - 1]))
       /\ Len(dict) = Cardinality(LoadedOf(next - 1))
  /\ phase \in {"loaded", "discarded"} =>
       /\ next = Len(entry_list) + 1
       /\ phase = "discarded" <=> err

LEMMA LoadedNone == LoadedOf(0) = {} /\ Cardinality(LoadedOf(0)) = 0
<1>1. LoadedOf(0) = {}
  BY DEF LoadedOf
<1> QED
  BY <1>1, FS_EmptySet

LEMMA LoadedNext ==
  ASSUME NEW n \in Nat
  PROVE  /\ Cardinality(LoadedOf(n)) \in Nat
         /\ Cardinality(LoadedOf(n + 1)) =
              IF Complete(entry_list[n + 1]) THEN Cardinality(LoadedOf(n)) + 1 ELSE Cardinality(LoadedOf(n))
<1>1. IsFiniteSet(1 .. n)
  BY FS_Interval
<1>2. LoadedOf(n) \subseteq 1 .. n
  BY DEF LoadedOf
<1>3. IsFiniteSet(LoadedOf(n))
  BY <1>1, <1>2, FS_Subset
<1>4. CASE Complete(entry_list[n + 1])
  <2>1. LoadedOf(n + 1) = LoadedOf(n) \union {n + 1} /\ n + 1 \notin LoadedOf(n)
    BY <1>4 DEF LoadedOf
  <2> QED
    BY <1>3, <1>4, <2>1, FS_AddElement, FS_CardinalityType
<1>5. CASE ~Complete(entry_list[n + 1])
  <2>1. LoadedOf(n + 1) = LoadedOf(n)
    BY <1>5 DEF LoadedOf
  <2> QED
    BY <1>3, <1>5, <2>1, FS_CardinalityType
<1> QED
  BY <1>4, <1>5

LEMMA GetInit == Init => GetInv
  BY DEF Init, GetInv

LEMMA GetStep == ParseInv /\ GetInv /\ [Next]_vars => GetInv'
<1> SUFFICES ASSUME ParseInv, GetInv, [Next]_vars PROVE GetInv'
  OBVIOUS
<1>1. CASE Descends
  <2>1. phase = "parse" /\ UNCHANGED <<file, entry_list, next, dict, err, phase>>
    BY <1>1, DescentFrame
  <2> QED
    BY <2>1 DEF GetInv, LoadedOf
<1>2. CASE dict_parser_new
  <2>1. phase = "parse" /\ phase' = "get" /\ next' = 1 /\ err' = FALSE /\ dict' = <<>>
    BY <1>2 DEF dict_parser_new, GetInv
  <2>2. ListRead(entry_list', lexer)
    BY <1>2, <2>1, NewList DEF ParseInv
  <2>3. \E S : entry_list' \in Seq(S)
    <3>1. CASE entry_list' = <<>>
      <4>1. <<>> \in Seq({})
        OBVIOUS
      <4> QED
        BY <3>1, <4>1
    <3>2. CASE entry_list' # <<>>
      <4>1. PICK r \in Nodes : r = Whole(entry_list')
        BY <2>2, <3>2 DEF ListRead
      <4>2. r.sub = entry_list'
        BY <4>1, WholeParts
      <4> QED
        BY <4>1, <4>2, NodeParts
    <3> QED
      BY <3>1, <3>2
  <2>4. \E S : dict' \in Seq(S)
    <3>1. <<>> \in Seq({})
      OBVIOUS
    <3> QED
      BY <2>1, <3>1
  <2>5. Len(entry_list') \in Nat /\ Len(dict') = 0
    BY <2>1, <2>3
  <2>6. next' \in 1 .. Len(entry_list') + 1 /\ next' - 1 = 0 /\ ~(next' > 1)
    BY <2>1, <2>5
  <2>7. Cardinality(LoadedOf(0))' = 0
    <3>1. LoadedOf(0)' = {}
      BY DEF LoadedOf
    <3> QED
      BY <3>1, FS_EmptySet
  <2>8. Cardinality(LoadedOf(next - 1))' = 0
    BY <2>6, <2>7
  <2> QED
    BY <2>1, <2>3, <2>4, <2>5, <2>6, <2>8 DEF GetInv
<1>3. CASE get_dict_entry
  <2>1. PICK e : e = entry_list[next]
    OBVIOUS
  <2>2. /\ phase = "get" /\ next <= Len(entry_list)
        /\ phase' = IF GoesAstray(e) THEN "astray" ELSE phase
        /\ dict' = IF Complete(e) /\ ~GoesAstray(e) THEN Append(dict, Added(e)) ELSE dict
        /\ err' = ~Complete(e)
        /\ next' = next + 1
        /\ entry_list' = entry_list
    BY <1>3, <2>1 DEF get_dict_entry
  <2>3. PICK k \in Nat : k = Len(entry_list)
    BY <2>2 DEF GetInv
  <2>4. PICK n \in Nat : next = n + 1
    <3>1. next - 1 \in Nat /\ next = (next - 1) + 1
      BY <2>2, <2>3 DEF GetInv
    <3> QED
      BY <3>1
  <2>5. e = entry_list[n + 1] /\ n + 1 <= k /\ next' = (n + 1) + 1
    BY <2>1, <2>2, <2>3, <2>4
  <2>6. PICK S : dict \in Seq(S)
    BY DEF GetInv
  <2>7. PICK a : a = Added(e)
    OBVIOUS
  <2>8. \E T : dict' \in Seq(T)
    <3>1. dict \in Seq(S \union {a})
      BY <2>6, SeqLarger
    <3>2. Append(dict, a) \in Seq(S \union {a})
      BY <3>1
    <3> QED
      BY <2>2, <2>6, <2>7, <3>2
  <2>9. Len(dict) = Cardinality(LoadedOf(n))
    <3>1. next - 1 = n
      BY <2>4
    <3> QED
      BY <2>2, <3>1 DEF GetInv
  <2>10. LoadedOf(next - 1)' = LoadedOf(n + 1)
    <3>1. next' - 1 = n + 1
      BY <2>5
    <3> QED
      BY <2>2, <3>1 DEF LoadedOf
  <2>11. PICK c \in Nat : c = Cardinality(LoadedOf(n))
    BY LoadedNext
  <2>12. Cardinality(LoadedOf(n + 1)) = IF Complete(e) THEN c + 1 ELSE c
    BY <2>5, <2>11, LoadedNext
  <2>13. ASSUME ~GoesAstray(e) PROVE Len(dict') = Cardinality(LoadedOf(n + 1))
    <3>1. Len(dict) = c
      BY <2>9, <2>11
    <3>2. Len(Append(dict, a)) = c + 1
      BY <2>6, <3>1
    <3> QED
      BY <2>2, <2>7, <2>12, <2>13, <3>1, <3>2
  <2>14. next' - 1 = n + 1 /\ next' > 1 /\ next' \in 1 .. k + 1
    BY <2>5
  <2>15. phase' \in {"astray", "get"} /\ (phase' = "get" => ~GoesAstray(e))
    BY <2>2
  <2>16. \E T : entry_list' \in Seq(T)
    BY <2>2 DEF GetInv
  <2>17. phase' = "get" => Len(dict') = Cardinality(LoadedOf(next - 1)')
    BY <2>10, <2>13, <2>15
  <2>18. err' <=> (next' > 1 /\ ~Complete(entry_list'[next' - 1]))
    BY <2>2, <2>5, <2>14
  <2>19. phase' # "parse" /\ phase' \notin {"loaded", "discarded"}
    BY <2>15
  <2>20. next' \in 1 .. Len(entry_list') + 1
    BY <2>2, <2>3, <2>14
  <2> QED
    BY <2>8, <2>16, <2>17, <2>18, <2>19, <2>20 DEF GetInv
<1>4. CASE get_dict_ends
  <2>1. /\ phase = "get" /\ next > Len(entry_list) /\ phase' = IF err THEN "discarded" ELSE "loaded"
        /\ UNCHANGED <<file, parseVars, entry_list, next, dict, err>>
    BY <1>4 DEF get_dict_ends
  <2>2. PICK n \in Nat : n = Len(entry_list)
    BY <2>1 DEF GetInv
  <2>3. next = n + 1
    BY <2>1, <2>2 DEF GetInv
  <2>4. LoadedOf(next - 1)' = LoadedOf(next - 1)
    BY <2>1 DEF LoadedOf
  <2> QED
    BY <2>1, <2>2, <2>3, <2>4 DEF GetInv
<1>5. CASE UNCHANGED vars
  BY <1>5 DEF GetInv, LoadedOf, vars
<1> QED
  BY <1>1, <1>2, <1>3, <1>4, <1>5 DEF Next, Descends

LEMMA OnlyFirstHolds == GetInv => OnlyFirstEntryDiscards
<1> SUFFICES ASSUME GetInv, phase \in {"loaded", "discarded"}
             PROVE  /\ phase = "discarded" <=> entry_list # <<>> /\ ~Complete(Last(entry_list))
                    /\ Len(dict) = Cardinality({n \in DOMAIN entry_list : Complete(entry_list[n])})
  BY DEF OnlyFirstEntryDiscards
<1>1. PICK S : entry_list \in Seq(S)
  BY DEF GetInv
<1>2. PICK k \in Nat : k = Len(entry_list) /\ DOMAIN entry_list = 1 .. k
  BY <1>1
<1>3. /\ next = k + 1
      /\ phase = "discarded" <=> err
      /\ err <=> (next > 1 /\ ~Complete(entry_list[next - 1]))
      /\ Len(dict) = Cardinality(LoadedOf(next - 1))
  BY <1>2 DEF GetInv
<1>4. next - 1 = k
  BY <1>3
<1>5. LoadedOf(k) = {n \in DOMAIN entry_list : Complete(entry_list[n])}
  BY <1>2 DEF LoadedOf
<1>6. next > 1 <=> entry_list # <<>>
  <2>1. k = 0 <=> entry_list = <<>>
    BY <1>1, <1>2, NoElements
  <2> QED
    BY <1>3, <2>1
<1>7. Last(entry_list) = entry_list[k]
  BY <1>2 DEF Last
<1>8. phase = "discarded" <=> entry_list # <<>> /\ ~Complete(Last(entry_list))
  BY <1>3, <1>4, <1>6, <1>7
<1> QED
  BY <1>3, <1>4, <1>5, <1>8

\* The dictionary has the entries with a key and candidates, and is discarded
\* exactly when the first entry of the file is not one of them
\* (dict_parser_get_dict).
THEOREM DiscardedOrLoaded == Spec => []OnlyFirstEntryDiscards
<1>1. Init => ParseInv /\ GetInv
  BY ParseInit, GetInit
<1>2. ParseInv /\ GetInv /\ [Next]_vars => ParseInv' /\ GetInv'
  BY ParseStep, GetStep
<1>3. GetInv => OnlyFirstEntryDiscards
  BY OnlyFirstHolds
<1> QED
  BY <1>1, <1>2, <1>3, PTL DEF Spec

-----------------------------------------------------------------------------
(* From the text back to the file *)

\* Lists that agree on the tokens "t" and "u".
Alike(s, v, t, u) ==
  /\ Occurs(s, t) <=> Occurs(v, t)
  /\ Precede(s, t, u) <=> Precede(v, t, u)

LEMMA WithoutAlike ==
  ASSUME NEW types, NEW S, NEW t, t.type \notin types, NEW u, u.type \notin types
  PROVE  \A s \in Seq(S) : Alike(s, Without(types, s), t, u)
<1>1. PICK P : P = {s \in Seq(S) : Alike(s, Without(types, s), t, u)}
  OBVIOUS
<1>2. <<>> \in P
  <2>1. Without(types, <<>>) = <<>>
    BY WithoutNone
  <2> QED
    BY <1>1, <2>1 DEF Alike
<1>3. ASSUME NEW s \in Seq(S), NEW e \in S, s \in P PROVE Append(s, e) \in P
  <2>1. PICK v \in Seq(S) : v = Without(types, s)
    BY WithoutType
  <2>2. Alike(s, v, t, u)
    BY <1>1, <1>3, <2>1
  <2>3. <<e>> \in Seq(S) /\ Append(s, e) = s \o <<e>> /\ Append(s, e) \in Seq(S)
    OBVIOUS
  <2>4. Without(types, Append(s, e)) = v \o (IF e.type \in types THEN <<>> ELSE <<e>>)
    <3>1. PICK o \in Seq(S) : o = <<e>>
      BY <2>3
    <3>2. Without(types, s \o o) = v \o Without(types, o)
      BY <2>1, <3>1, WithoutJoin
    <3>3. Without(types, <<e>>) = IF e.type \in types THEN <<>> ELSE <<e>>
      BY WithoutOne
    <3> QED
      BY <2>3, <3>1, <3>2, <3>3, Zenon
  <2>5. CASE e.type \in types
    <3>1. Without(types, Append(s, e)) = v
      BY <2>1, <2>4, <2>5
    <3>2. e # t /\ e # u
      BY <2>5
    <3>3. Alike(Append(s, e), v, t, u)
      BY <2>2, <3>2, AppendOccurs, AppendPrecede, Zenon DEF Alike
    <3> QED
      BY <1>1, <2>3, <3>1, <3>3
  <2>6. CASE e.type \notin types
    <3>1. Without(types, Append(s, e)) = Append(v, e)
      BY <2>1, <2>4, <2>6
    <3>2. Occurs(Append(v, e), t) <=> Occurs(v, t) \/ e = t
      BY <2>1, AppendOccurs
    <3>3. Precede(Append(v, e), t, u) <=> Precede(v, t, u) \/ (Occurs(v, t) /\ e = u)
      BY <2>1, AppendPrecede
    <3>4. Alike(Append(s, e), Append(v, e), t, u)
      BY <2>2, <3>2, <3>3, AppendOccurs, AppendPrecede, ZenonT(40) DEF Alike
    <3> QED
      BY <1>1, <2>3, <3>1, <3>4
  <2> QED
    BY <2>5, <2>6
<1>4. Seq(S) \subseteq P
  BY <1>2, <1>3, SeqInduct
<1> QED
  BY <1>1, <1>4

StringNode(text) == Node("string", text, <<>>)
StringToken(text) == Token("string", text)

\* No text stands twice in the file.
StringsDiffer ==
  \A i, j \in DOMAIN file :
    file[i].type = "string" /\ file[j].type = "string" /\ file[i].text = file[j].text => i = j

LEMMA PlaceIs ==
  ASSUME FileOK, StringsDiffer, NEW text, NEW i \in DOMAIN file, file[i] = StringToken(text)
  PROVE  Place(text) = i
<1>1. PICK n \in Nat : n = Len(file) /\ DOMAIN file = 1 .. n
  BY DEF FileOK
<1>2. PICK I : I = {k \in 1 .. n : file[k].type = "string" /\ file[k].text = text}
  OBVIOUS
<1>3. Place(text) = IF I # {} THEN Min(I) ELSE 0
  BY <1>1, <1>2 DEF Place, SelectInSeq, SelectInSubSeq
<1>4. file[i].type = "string" /\ file[i].text = text
  BY DEF StringToken, Token
<1>5. i \in I
  BY <1>1, <1>2, <1>4
<1>6. Min(I) \in I
  BY <1>2, <1>5, SmallestOf
<1>7. Min(I) = i
  BY <1>1, <1>2, <1>4, <1>6 DEF StringsDiffer
<1> QED
  BY <1>3, <1>5, <1>7

\* Strings of nodes whose text was consumed stand in the file in that order.
LEMMA FilePlaces ==
  ASSUME FileOK, StringsDiffer, NEW v \in Seq(Nodes), NEW b \in Nat, b <= Len(file), Plain(v) = Segment(b)
  PROVE  /\ \A a : Occurs(v, StringNode(a)) => Place(a) \in 1 .. Len(file)
         /\ \A a, c : Precede(v, StringNode(a), StringNode(c)) => Place(a) < Place(c)
<1> SUFFICES ASSUME NEW a, NEW c
             PROVE  /\ Occurs(v, StringNode(a)) => Place(a) \in 1 .. Len(file)
                    /\ Precede(v, StringNode(a), StringNode(c)) => Place(a) < Place(c)
  OBVIOUS
<1>1. PICK n \in Nat : n = Len(file) /\ DOMAIN file = 1 .. n
  BY DEF FileOK
<1>2. PICK t : t = StringToken(a)
  OBVIOUS
<1>3. PICK u : u = StringToken(c)
  OBVIOUS
<1>4. t.type = "string" /\ u.type = "string"
  BY <1>2, <1>3 DEF StringToken, Token
<1>5. PICK w \in Seq(AnyToken) : w = Tokens(v)
  BY TokensType
<1>6. /\ Occurs(v, StringNode(a)) => Occurs(w, t)
      /\ Precede(v, StringNode(a), StringNode(c)) => Precede(w, t, u)
  <2>1. DOMAIN w = DOMAIN v /\ \A i \in DOMAIN v : w[i] = Token(v[i].kind, v[i].text)
    BY <1>5 DEF Tokens
  <2>2. \A x : Token(StringNode(x).kind, StringNode(x).text) = StringToken(x)
    BY DEF StringNode, Node, StringToken
  <2>3. \A i \in DOMAIN v : (v[i] = StringNode(a) => w[i] = t) /\ (v[i] = StringNode(c) => w[i] = u)
    BY <1>2, <1>3, <2>1, <2>2
  <2> QED
    BY <2>1, <2>3 DEF Occurs, Precede
<1>7. PICK f \in Seq(LexerToken) : f = SubSeq(file, 1, b)
  <2>1. SubSeq(file, 1, b) \in Seq(LexerToken)
    BY <1>1 DEF FileOK
  <2> QED
    BY <2>1
<1>8. PICK g \in Seq(LexerToken) : g = Without({"blank", "error"}, f)
  BY <1>7, WithoutType
<1>9. Without({"rbrace"}, w) = Without({"rbrace"}, g)
  BY <1>5, <1>7, <1>8 DEF Plain, Segment
<1>10. Alike(w, Without({"rbrace"}, w), t, u)
  BY <1>4, <1>5, WithoutAlike
<1>11. Alike(g, Without({"rbrace"}, g), t, u)
  BY <1>4, <1>8, WithoutAlike
<1>12. Alike(f, g, t, u)
  BY <1>4, <1>7, <1>8, WithoutAlike
<1>13. Alike(w, f, t, u)
  BY <1>9, <1>10, <1>11, <1>12 DEF Alike
<1>14. DOMAIN f = 1 .. b /\ \A i \in 1 .. b : f[i] = file[i] /\ i \in 1 .. n
  BY <1>1, <1>7 DEF FileOK
<1>15. ASSUME Occurs(f, t) PROVE Place(a) \in 1 .. n
  <2>1. PICK i \in 1 .. b : f[i] = t
    BY <1>14, <1>15 DEF Occurs
  <2>2. i \in 1 .. n /\ file[i] = StringToken(a)
    BY <1>2, <1>14, <2>1
  <2>3. Place(a) = i
    BY <1>1, <2>2, PlaceIs
  <2> QED
    BY <2>2, <2>3
<1>16. ASSUME Precede(f, t, u) PROVE Place(a) < Place(c)
  <2>1. PICK i \in 1 .. b, j \in 1 .. b : i < j /\ f[i] = t /\ f[j] = u
    BY <1>14, <1>16 DEF Precede
  <2>2. i \in 1 .. n /\ file[i] = StringToken(a) /\ j \in 1 .. n /\ file[j] = StringToken(c)
    BY <1>2, <1>3, <1>14, <2>1
  <2>3. Place(a) = i /\ Place(c) = j
    BY <1>1, <2>2, PlaceIs
  <2> QED
    BY <2>1, <2>3
<1> QED
  BY <1>1, <1>6, <1>13, <1>15, <1>16 DEF Alike

-----------------------------------------------------------------------------
(* From the nodes to the text *)

\* What "n" levels below say of the nodes "z" and "z2", from what "s" says of them.
Unfolds(s, n) ==
  \A z, x : Occurs(s, z) /\ Occurs(Written(<<z>>, n), x) => Occurs(Written(s, n), x)

UnfoldsWithin(s, n) ==
  \A z, x, y : Occurs(s, z) /\ Precede(Written(<<z>>, n), x, y) => Precede(Written(s, n), x, y)

UnfoldsApart(s, n) ==
  \A z, z2, x, y : Precede(s, z, z2) /\ Occurs(Written(<<z>>, n), x) /\ Occurs(Written(<<z2>>, n), y)
                     => Precede(Written(s, n), x, y)

UnfoldsAll(s, n) == Unfolds(s, n) /\ UnfoldsWithin(s, n) /\ UnfoldsApart(s, n)

LEMMA WrittenUnfolds ==
  ASSUME NEW n \in Nat
  PROVE  \A s \in Seq(Nodes) : UnfoldsAll(s, n)
<1>1. PICK P : P = {s \in Seq(Nodes) : UnfoldsAll(s, n)}
  OBVIOUS
<1>2. <<>> \in P
  <2>1. UnfoldsAll(<<>>, n)
    BY NothingThere, Zenon DEF UnfoldsAll, Unfolds, UnfoldsWithin, UnfoldsApart
  <2> QED
    BY <1>1, <2>1
<1>3. ASSUME NEW s \in Seq(Nodes), NEW e \in Nodes, s \in P PROVE Append(s, e) \in P
  <2>1. UnfoldsAll(s, n)
    BY <1>1, <1>3
  <2>2. PICK o \in Seq(Nodes) : o = <<e>>
    <3>1. <<e>> \in Seq(Nodes)
      OBVIOUS
    <3> QED
      BY <3>1
  <2>3. PICK a \in Seq(Nodes) : a = Written(s, n)
    BY WrittenType
  <2>4. PICK b \in Seq(Nodes) : b = Written(o, n)
    BY WrittenType
  <2>5. PICK r \in Seq(Nodes) : r = Append(s, e)
    <3>1. Append(s, e) \in Seq(Nodes)
      OBVIOUS
    <3> QED
      BY <3>1
  <2>6. PICK w : w = Written(r, n)
    OBVIOUS
  <2>7. w = a \o b
    <3>1. Append(s, e) = s \o o
      <4>1. Append(s, e) = s \o <<e>>
        OBVIOUS
      <4> QED
        BY <2>2, <4>1
    <3>2. Written(s \o o, n) = a \o b
      BY <2>2, <2>3, <2>4, WrittenJoin
    <3> QED
      BY <2>5, <2>6, <3>1, <3>2
  <2>8. Joined(a, b, w)
    BY <2>3, <2>4, <2>7, JoinedLists
  <2>9. \A z : Occurs(r, z) <=> Occurs(s, z) \/ e = z
    BY <2>5, AppendOccurs
  <2>10. \A z, z2 : Precede(r, z, z2) <=> Precede(s, z, z2) \/ (Occurs(s, z) /\ e = z2)
    BY <2>5, AppendPrecede
  <2>11. Unfolds(r, n)
    BY <2>1, <2>2, <2>3, <2>4, <2>6, <2>8, <2>9, Zenon DEF UnfoldsAll, Unfolds, Joined
  <2>12. UnfoldsWithin(r, n)
    BY <2>1, <2>2, <2>3, <2>4, <2>6, <2>8, <2>9, Zenon DEF UnfoldsAll, UnfoldsWithin, Joined
  <2>13. UnfoldsApart(r, n)
    BY <2>1, <2>2, <2>3, <2>4, <2>6, <2>8, <2>10, Zenon DEF UnfoldsAll, Unfolds, UnfoldsApart, Joined
  <2> QED
    BY <1>1, <2>5, <2>11, <2>12, <2>13 DEF UnfoldsAll
<1>4. Seq(Nodes) \subseteq P
  BY <1>2, <1>3, SeqInduct
<1> QED
  BY <1>1, <1>4

\* One level down, a node is its parts.
LEMMA WrittenDown ==
  ASSUME NEW z \in Nodes, NEW n \in Nat
  PROVE  Parts(z) \in Seq(Nodes) /\ Written(<<z>>, n + 1) = Written(Parts(z), n)
<1>1. <<z>> \in Seq(Nodes)
  OBVIOUS
<1>2. Written(<<z>>, 1) = Parts(z)
  <2>1. Written(<<z>>, 0 + 1) = PartsOf(Written(<<z>>, 0)) /\ Written(<<z>>, 0) = <<z>>
    BY WrittenLaw
  <2>2. 0 + 1 = 1
    OBVIOUS
  <2>3. PartsOf(<<z>>) = Parts(z)
    BY PartsOfOne
  <2> QED
    BY <2>1, <2>2, <2>3
<1>3. Written(<<z>>, 1 + n) = Written(Written(<<z>>, 1), n)
  <2>1. 1 \in Nat
    OBVIOUS
  <2> QED
    BY <2>1, WrittenPlus
<1>4. 1 + n = n + 1
  OBVIOUS
<1> QED
  BY <1>2, <1>3, <1>4, PartsType

\* "x" stands in the text of "z", "n" levels down or further.
Within(z, n, x) == \A m \in Nat : Occurs(Written(<<z>>, n + m), x)

WithinOrdered(z, n, x, y) == \A m \in Nat : Precede(Written(<<z>>, n + m), x, y)

LEMMA PartWithin ==
  ASSUME NEW z \in Nodes, NEW p, Occurs(Parts(z), p), NEW n \in Nat
  PROVE  /\ \A x : Within(p, n, x) => Within(z, n + 1, x)
         /\ \A x, y : WithinOrdered(p, n, x, y) => WithinOrdered(z, n + 1, x, y)
<1>1. PICK s \in Seq(Nodes) : s = Parts(z)
  BY PartsType
<1>2. ASSUME NEW m \in Nat
      PROVE  UnfoldsAll(s, n + m) /\ Written(<<z>>, (n + 1) + m) = Written(s, n + m)
  <2>1. PICK k \in Nat : k = n + m
    OBVIOUS
  <2>2. (n + 1) + m = k + 1
    BY <2>1
  <2>3. Written(<<z>>, k + 1) = Written(s, k)
    BY <1>1, WrittenDown
  <2>4. UnfoldsAll(s, k)
    BY WrittenUnfolds
  <2> QED
    BY <2>1, <2>2, <2>3, <2>4
<1>3. ASSUME NEW x, Within(p, n, x) PROVE Within(z, n + 1, x)
  BY <1>1, <1>2, <1>3, Zenon DEF Within, UnfoldsAll, Unfolds
<1>4. ASSUME NEW x, NEW y, WithinOrdered(p, n, x, y) PROVE WithinOrdered(z, n + 1, x, y)
  BY <1>1, <1>2, <1>4, Zenon DEF WithinOrdered, UnfoldsAll, UnfoldsWithin
<1> QED
  BY <1>3, <1>4

LEMMA PartsApart ==
  ASSUME NEW z \in Nodes, NEW p, NEW q, Precede(Parts(z), p, q), NEW n \in Nat,
         NEW x, Within(p, n, x), NEW y, Within(q, n, y)
  PROVE  WithinOrdered(z, n + 1, x, y)
<1>1. PICK s \in Seq(Nodes) : s = Parts(z)
  BY PartsType
<1>2. ASSUME NEW m \in Nat
      PROVE  UnfoldsAll(s, n + m) /\ Written(<<z>>, (n + 1) + m) = Written(s, n + m)
  <2>1. PICK k \in Nat : k = n + m
    OBVIOUS
  <2>2. (n + 1) + m = k + 1
    BY <2>1
  <2>3. Written(<<z>>, k + 1) = Written(s, k)
    BY <1>1, WrittenDown
  <2>4. UnfoldsAll(s, k)
    BY WrittenUnfolds
  <2> QED
    BY <2>1, <2>2, <2>3, <2>4
<1> QED
  BY <1>1, <1>2, Zenon DEF Within, WithinOrdered, UnfoldsAll, UnfoldsApart

LEMMA StringWithin ==
  ASSUME NEW v \in Nodes, v.kind = "string"
  PROVE  v = StringNode(v.text) /\ Within(v, 0, v)
<1>1. v.sub = <<>> /\ v = Node("string", v.text, v.sub) /\ v.text \in Texts
  BY NodeParts DEF Shaped, LeafKinds
<1>2. v = StringNode(v.text)
  BY <1>1 DEF StringNode
<1>3. v \in Leaves
  <2>1. "string" \in LeafKinds
    BY DEF LeafKinds
  <2>2. Node("string", v.text, <<>>) \in Leaves
    BY <1>1, <2>1 DEF Leaves
  <2> QED
    BY <1>2, <2>2 DEF StringNode
<1>4. ASSUME NEW m \in Nat PROVE Occurs(Written(<<v>>, 0 + m), v)
  <2>1. <<v>> \in Seq(Leaves)
    BY <1>3
  <2>2. Written(<<v>>, m) = <<v>>
    BY <2>1, LeavesWritten
  <2>3. Occurs(<<v>>, v)
    <3>1. 1 \in DOMAIN <<v>> /\ <<v>>[1] = v
      OBVIOUS
    <3> QED
      BY <3>1 DEF Occurs
  <2>4. 0 + m = m
    OBVIOUS
  <2> QED
    BY <2>2, <2>3, <2>4
<1> QED
  BY <1>2, <1>4 DEF Within

\* A list is written backwards.
LEMMA SeparatedOrder ==
  ASSUME NEW list \in Seq(Nodes), list # <<>>
  PROVE  /\ \A i \in DOMAIN list : Occurs(Separated(list), list[i])
         /\ \A i, j \in DOMAIN list : i < j => Precede(Separated(list), list[j], list[i])
<1>1. PICK n \in Nat : n = Len(list) /\ DOMAIN list = 1 .. n
  OBVIOUS
<1>2. PICK s : s = Separated(list)
  OBVIOUS
<1>3. /\ DOMAIN s = 1 .. 2 * n - 1
      /\ \A m \in 1 .. 2 * n - 1 : s[m] = IF m % 2 = 0 THEN Leaf("comma") ELSE list[n - m \div 2]
  BY <1>1, <1>2 DEF Separated
<1>4. PICK at : at = [i \in 1 .. n |-> 2 * (n - i) + 1]
  OBVIOUS
<1>5. ASSUME NEW i \in 1 .. n PROVE at[i] \in DOMAIN s /\ s[at[i]] = list[i]
  <2>1. PICK k \in Nat : k = n - i /\ k <= n - 1
    <3>1. n - i \in Nat /\ n - i <= n - 1
      OBVIOUS
    <3> QED
      BY <3>1
  <2>2. at[i] = 2 * k + 1
    BY <1>4, <2>1
  <2>3. 2 * k + 1 \in 1 .. 2 * n - 1
    BY <2>1
  <2>4. (2 * k + 1) % 2 = 1 /\ (2 * k + 1) \div 2 = k
    OBVIOUS
  <2>5. s[2 * k + 1] = list[n - k]
    <3>1. PICK m \in 1 .. 2 * n - 1 : m = 2 * k + 1
      BY <2>3
    <3>2. m % 2 # 0 /\ m \div 2 = k
      BY <2>4, <3>1
    <3>3. s[m] = list[n - m \div 2]
      BY <1>3, <3>2
    <3> QED
      BY <3>1, <3>2, <3>3
  <2>6. n - k = i
    BY <2>1
  <2> QED
    BY <1>3, <2>2, <2>3, <2>5, <2>6
<1>6. ASSUME NEW i \in 1 .. n, NEW j \in 1 .. n, i < j PROVE at[j] < at[i]
  BY <1>4, <1>6
<1>7. \A i \in 1 .. n : Occurs(s, list[i])
  BY <1>5 DEF Occurs
<1>8. ASSUME NEW i \in 1 .. n, NEW j \in 1 .. n, i < j PROVE Precede(s, list[j], list[i])
  BY <1>5, <1>6, <1>8 DEF Precede
<1> QED
  BY <1>1, <1>2, <1>7, <1>8

-----------------------------------------------------------------------------
(* From the entries to the dictionary *)

LEMMA WithinMore ==
  ASSUME NEW z, NEW n \in Nat, NEW x, Within(z, n, x), NEW k \in Nat
  PROVE  Within(z, n + k, x)
<1>1. ASSUME NEW m \in Nat PROVE Occurs(Written(<<z>>, (n + k) + m), x)
  <2>1. k + m \in Nat /\ (n + k) + m = n + (k + m)
    OBVIOUS
  <2> QED
    BY <2>1, Zenon DEF Within
<1> QED
  BY <1>1 DEF Within

\* What _get_property finds is the value of a property of the entry.
LEMMA PropertyFound ==
  ASSUME NEW e \in Nodes, e.kind = "entry", NEW name, NEW x, x = Property(e, name), x # Absent
  PROVE  /\ x \in Nodes
         /\ \E q \in Nodes : Occurs(Parts(e), q) /\ Occurs(Parts(q), x)
<1>1. /\ e.text \in Texts /\ e.sub \in Seq(Nodes) /\ e.sub # <<>>
      /\ \A n \in DOMAIN e.sub : e.sub[n].kind = "property"
      /\ Parts(e) = <<Leaf("lbrace")>> \o Separated(e.sub) \o <<Leaf("rbrace")>>
  <2>1. "entry" \notin LeafKinds
    BY DEF LeafKinds, Punctuation
  <2>2. Below["entry"] = {"property"}
    BY DEF Below, ListKinds
  <2>3. e = Node("entry", e.text, e.sub) /\ Shaped("entry", e.sub)
    BY NodeParts
  <2>4. e.sub # <<>> /\ \A n \in DOMAIN e.sub : e.sub[n].kind \in Below["entry"]
    BY <2>1, <2>3, Zenon DEF Shaped
  <2>5. Parts(e) = <<Leaf("lbrace")>> \o Separated(e.sub) \o <<Leaf("rbrace")>>
    BY <2>3, EntryParts
  <2> QED
    BY <2>2, <2>4, <2>5, NodeParts
<1>2. PICK s \in Seq(Nodes) : s = e.sub
  BY <1>1
<1>3. PICK n \in Nat : n = Len(s) /\ DOMAIN s = 1 .. n
  OBVIOUS
<1>4. PICK I : I = {i \in 1 .. n : s[i].text = name}
  OBVIOUS
<1>5. PICK i : i = SelectInSeq(e.sub, LAMBDA p : p.text = name)
  OBVIOUS
<1>6. i = IF I # {} THEN Min(I) ELSE 0
  BY <1>2, <1>3, <1>4, <1>5 DEF SelectInSeq, SelectInSubSeq
<1>7. x = IF i = 0 THEN Absent ELSE e.sub[i].sub[1]
  BY <1>5, Zenon DEF Property
<1>8. i \in 1 .. n
  <2>1. I # {}
    BY <1>6, <1>7
  <2>2. I \subseteq Nat
    BY <1>4
  <2>3. Min(I) \in I
    BY <2>1, <2>2, SmallestOf
  <2> QED
    BY <1>4, <1>6, <2>1, <2>3
<1>9. PICK q \in Nodes : q = s[i]
  BY <1>3, <1>8
<1>10. q.kind = "property" /\ x = q.sub[1]
  <2>1. i # 0
    BY <1>8
  <2> QED
    BY <1>1, <1>2, <1>3, <1>7, <1>8, <1>9, <2>1
<1>11. /\ q.sub \in Seq(Nodes) /\ Len(q.sub) = 1
       /\ q = Node("property", q.text, q.sub)
  <2>1. "property" \notin LeafKinds
    BY DEF LeafKinds, Punctuation
  <2>2. Shaped("property", q.sub) /\ q.sub \in Seq(Nodes) /\ q = Node("property", q.text, q.sub)
    BY <1>10, NodeParts
  <2>3. Len(q.sub) = 1
    BY <2>1, <2>2, Zenon DEF Shaped
  <2> QED
    BY <2>2, <2>3
<1>12. x \in Nodes /\ q = Node("property", q.text, <<x>>)
  <2>1. q.sub[1] \in Nodes /\ q.sub = <<q.sub[1]>>
    BY <1>11
  <2> QED
    BY <1>10, <1>11, <2>1
<1>13. PICK a \in Seq(Nodes) : a = <<Leaf("lbrace")>>
  <2>1. <<Leaf("lbrace")>> \in Seq(Nodes)
    BY LeafNode DEF Punctuation
  <2> QED
    BY <2>1
<1>14. PICK b \in Seq(Nodes) : b = <<Leaf("rbrace")>>
  <2>1. <<Leaf("rbrace")>> \in Seq(Nodes)
    BY LeafNode DEF Punctuation
  <2> QED
    BY <2>1
<1>15. PICK w \in Seq(Nodes) : w = Separated(s)
  BY <1>1, <1>2, SeparatedType
<1>16. Occurs(Parts(e), q)
  <2>1. Occurs(w, q)
    BY <1>1, <1>2, <1>3, <1>8, <1>9, <1>15, SeparatedOrder
  <2>2. a \o w \in Seq(Nodes)
    OBVIOUS
  <2>3. Joined(a, w, a \o w) /\ Joined(a \o w, b, (a \o w) \o b)
    BY <2>2, JoinedLists
  <2>4. Parts(e) = (a \o w) \o b
    BY <1>1, <1>2, <1>13, <1>14, <1>15
  <2> QED
    BY <2>1, <2>3, <2>4, Zenon DEF Joined
<1>17. Occurs(Parts(q), x)
  <2>1. PICK h : h = <<Node("identifier", q.text, <<>>), Leaf("equals")>>
    OBVIOUS
  <2>2. Parts(q) = h \o (IF x.kind \in ListKinds THEN <<Leaf("lbracket"), x, Leaf("rbracket")>> ELSE <<x>>)
    BY <1>12, <2>1, PropertyParts
  <2>3. PICK c, d : c = Leaf("lbracket") /\ d = Leaf("rbracket")
    OBVIOUS
  <2>4. PICK S : S = {Node("identifier", q.text, <<>>), Leaf("equals"), c, d, x}
    OBVIOUS
  <2>5. h \in Seq(S) /\ <<x>> \in Seq(S) /\ <<c, x, d>> \in Seq(S)
    BY <2>1, <2>4
  <2>6. Occurs(<<x>>, x) /\ Occurs(<<c, x, d>>, x)
    <3>1. 1 \in DOMAIN <<x>> /\ <<x>>[1] = x
      OBVIOUS
    <3>2. 2 \in DOMAIN <<c, x, d>> /\ <<c, x, d>>[2] = x
      OBVIOUS
    <3> QED
      BY <3>1, <3>2, Zenon DEF Occurs
  <2>7. Joined(h, <<x>>, h \o <<x>>) /\ Joined(h, <<c, x, d>>, h \o <<c, x, d>>)
    BY <2>5, JoinedLists
  <2> QED
    BY <2>2, <2>3, <2>6, <2>7, Zenon DEF Joined
<1> QED
  BY <1>12, <1>16, <1>17

LEMMA PropertyWithin ==
  ASSUME NEW e \in Nodes, e.kind = "entry", NEW name, NEW x, x = Property(e, name), x # Absent,
         NEW n \in Nat
  PROVE  /\ \A y : Within(x, n, y) => Within(e, n + 2, y)
         /\ \A y, z : WithinOrdered(x, n, y, z) => WithinOrdered(e, n + 2, y, z)
<1>1. PICK q \in Nodes : Occurs(Parts(e), q) /\ Occurs(Parts(q), x)
  BY PropertyFound
<1>2. /\ \A y : Within(x, n, y) => Within(q, n + 1, y)
      /\ \A y, z : WithinOrdered(x, n, y, z) => WithinOrdered(q, n + 1, y, z)
  BY <1>1, PartWithin
<1>3. PICK m \in Nat : m = n + 1
  OBVIOUS
<1>4. /\ \A y : Within(q, m, y) => Within(e, m + 1, y)
      /\ \A y, z : WithinOrdered(q, m, y, z) => WithinOrdered(e, m + 1, y, z)
  BY <1>1, PartWithin
<1>5. m + 1 = n + 2
  BY <1>3
<1> QED
  BY <1>2, <1>3, <1>4, <1>5

\* A text that the dictionary takes is that of a string of the entry.
LEMMA TextTaken ==
  ASSUME NEW e \in Nodes, e.kind = "entry", NEW types, ~Misread(e, types),
         NEW name \in DOMAIN types, types[name] = "string", Property(e, name) # Absent
  PROVE  Within(e, 2, StringNode(Property(e, name).text)) /\ Property(e, name).text \in Texts
<1>1. PICK x : x = Property(e, name)
  OBVIOUS
<1>2. x \in Nodes
  BY <1>1, PropertyFound
<1>3. x.kind = "string"
  <2>1. x.kind \in {"string", "absent"}
    BY <1>1, Zenon DEF Misread
  <2>2. x.kind \in Kinds
    BY <1>2, NodeParts
  <2>3. "absent" \notin Kinds
    BY DEF Kinds, ListKinds, LeafKinds, Punctuation
  <2> QED
    BY <2>1, <2>2, <2>3
<1>4. x = StringNode(x.text) /\ Within(x, 0, x)
  BY <1>2, <1>3, StringWithin
<1>5. 0 \in Nat /\ 0 + 2 = 2
  OBVIOUS
<1>6. Within(e, 0 + 2, x)
  BY <1>1, <1>4, <1>5, PropertyWithin
<1> QED
  BY <1>1, <1>2, <1>4, <1>5, <1>6, NodeParts

\* The entry "d" of the dictionary has the strings of the entry "e" of the
\* file, at most five levels down, and its candidates are newest first.
Drawn(d, e) ==
  /\ Within(e, 5, StringNode(d.key))
  /\ \E m \in Nat : d.candidates = [i \in 1 .. m |-> d.candidates[i]]
  /\ \A i \in DOMAIN d.candidates : Within(e, 5, StringNode(d.candidates[i]))
  /\ \A i, j \in DOMAIN d.candidates :
       i < j => WithinOrdered(e, 5, StringNode(d.candidates[j]), StringNode(d.candidates[i]))

\* The candidates in front of the first hole.
LEMMA CandidatesSeen ==
  ASSUME NEW e, NEW list, list = Property(e, "candidates").sub, NEW S, list \in Seq(S)
  PROVE  \E m \in 0 .. Len(list) :
           /\ \A i \in 1 .. m : Property(list[i], "value") # Absent
           /\ Candidates(e) = [i \in 1 .. m |-> Property(list[i], "value").text]
<1>1. PICK n \in Nat : n = Len(list) /\ DOMAIN list = 1 .. n
  OBVIOUS
<1>2. PICK I : I = {i \in 1 .. n : Property(list[i], "value") = Absent}
  OBVIOUS
<1>3. PICK hole : hole = SelectInSeq(list, LAMBDA c : Property(c, "value") = Absent)
  OBVIOUS
<1>4. hole = IF I # {} THEN Min(I) ELSE 0
  BY <1>1, <1>2, <1>3 DEF SelectInSeq, SelectInSubSeq
<1>5. PICK seen : seen = IF hole = 0 THEN list ELSE SubSeq(list, 1, hole - 1)
  OBVIOUS
<1>6. Candidates(e) = [i \in 1 .. Len(seen) |-> Property(seen[i], "value").text]
  BY <1>3, <1>5, Zenon DEF Candidates
<1>7. PICK m \in 0 .. n : /\ m = Len(seen)
                         /\ \A i \in 1 .. m : seen[i] = list[i] /\ i \in 1 .. n /\ i \notin I
  <2>1. CASE I = {}
    <3>1. seen = list
      BY <1>4, <1>5, <2>1
    <3> QED
      BY <1>1, <2>1, <3>1
  <2>2. CASE I # {}
    <3>1. I \subseteq Nat
      BY <1>2
    <3>2. hole \in I /\ \A k \in I : hole <= k
      BY <1>4, <2>2, <3>1, SmallestOf
    <3>3. PICK h \in 1 .. n : h = hole
      BY <1>2, <3>2
    <3>4. seen = SubSeq(list, 1, h - 1)
      BY <1>5, <3>3
    <3>5. Len(seen) = h - 1 /\ \A i \in 1 .. h - 1 : seen[i] = list[i]
      BY <1>1, <3>4
    <3>6. \A i \in 1 .. h - 1 : i \notin I
      BY <3>2, <3>3
    <3>7. h - 1 \in 0 .. n /\ \A i \in 1 .. h - 1 : i \in 1 .. n
      OBVIOUS
    <3> QED
      BY <3>5, <3>6, <3>7
  <2> QED
    BY <2>1, <2>2
<1>8. \A i \in 1 .. m : Property(list[i], "value") # Absent
  BY <1>2, <1>7
<1>9. Candidates(e) = [i \in 1 .. m |-> Property(list[i], "value").text]
  BY <1>6, <1>7
<1> QED
  BY <1>1, <1>8, <1>9

LEMMA AddedDrawn ==
  ASSUME NEW e \in Nodes, e.kind = "entry", Complete(e), ~GoesAstray(e)
  PROVE  Drawn(Added(e), e)
<1>1. PICK l : l = Property(e, "candidates")
  OBVIOUS
<1>2. /\ ~Misread(e, EntryTypes) /\ Property(e, "key") # Absent /\ l # Absent
      /\ l.kind = "entry_list" /\ \A c \in ToSet(l.sub) : ~Misread(c, CandidateTypes)
  BY <1>1, Zenon DEF GoesAstray, Complete
<1>3. l \in Nodes
  BY <1>1, <1>2, PropertyFound
<1>4. /\ l.sub \in Seq(Nodes) /\ l.sub # <<>> /\ Parts(l) = Separated(l.sub)
      /\ \A i \in DOMAIN l.sub : l.sub[i].kind = "entry"
  <2>1. "entry_list" \notin LeafKinds /\ "entry_list" \in ListKinds
    BY DEF LeafKinds, Punctuation, ListKinds
  <2>2. Below["entry_list"] = {"entry"}
    BY DEF Below, ListKinds
  <2>3. l = Node("entry_list", l.text, l.sub) /\ Shaped("entry_list", l.sub) /\ l.sub \in Seq(Nodes)
    BY <1>2, <1>3, NodeParts
  <2>4. l.sub # <<>> /\ \A n \in DOMAIN l.sub : l.sub[n].kind \in Below["entry_list"]
    BY <2>1, <2>3, Zenon DEF Shaped
  <2>5. Parts(l) = Separated(l.sub)
    BY <2>1, <2>3, ListParts
  <2> QED
    BY <2>2, <2>3, <2>4, <2>5
<1>5. PICK list \in Seq(Nodes) : list = l.sub
  BY <1>4
<1>6. PICK n \in Nat : n = Len(list) /\ DOMAIN list = 1 .. n
  OBVIOUS
<1>7. PICK m \in 0 .. n :
        /\ \A i \in 1 .. m : Property(list[i], "value") # Absent
        /\ Candidates(e) = [i \in 1 .. m |-> Property(list[i], "value").text]
  BY <1>1, <1>5, <1>6, CandidatesSeen
<1>8. PICK c : c = Candidates(e)
  OBVIOUS
<1>9. DOMAIN c = 1 .. m /\ c = [i \in 1 .. m |-> c[i]]
      /\ \A i \in 1 .. m : c[i] = Property(list[i], "value").text
  BY <1>7, <1>8
<1>10. ASSUME NEW i \in 1 .. m
       PROVE  i \in 1 .. n /\ list[i] \in Nodes /\ Within(list[i], 2, StringNode(c[i]))
  <2>1. i \in 1 .. n
    BY <1>7
  <2>2. list[i] \in Nodes /\ list[i].kind = "entry" /\ list[i] \in ToSet(l.sub)
    BY <1>4, <1>5, <1>6, <2>1 DEF ToSet
  <2>3. PICK d \in Nodes : d = list[i]
    BY <2>2
  <2>4. ~Misread(d, CandidateTypes)
    BY <1>2, <2>2, <2>3
  <2>5. "value" \in DOMAIN CandidateTypes /\ CandidateTypes["value"] = "string"
    BY DEF CandidateTypes
  <2>6. Property(d, "value") # Absent
    BY <1>7, <2>3
  <2>7. Within(d, 2, StringNode(Property(d, "value").text))
    BY <2>2, <2>3, <2>4, <2>5, <2>6, TextTaken
  <2> QED
    BY <1>9, <2>1, <2>3, <2>7
<1>11. /\ \A x : Within(l, 3, x) => Within(e, 5, x)
       /\ \A x, y : WithinOrdered(l, 3, x, y) => WithinOrdered(e, 5, x, y)
  <2>1. PICK k \in Nat : k = 3 /\ k + 2 = 5
    OBVIOUS
  <2>2. /\ \A x : Within(l, k, x) => Within(e, k + 2, x)
        /\ \A x, y : WithinOrdered(l, k, x, y) => WithinOrdered(e, k + 2, x, y)
    BY <1>1, <1>2, PropertyWithin
  <2> QED
    BY <2>1, <2>2
<1>12. PICK two \in Nat : two = 2 /\ two + 1 = 3
  OBVIOUS
<1>13. ASSUME NEW i \in 1 .. m PROVE Within(e, 5, StringNode(c[i]))
  <2>1. Occurs(Parts(l), list[i])
    BY <1>4, <1>5, <1>6, <1>10, SeparatedOrder
  <2>2. Within(l, two + 1, StringNode(c[i]))
    BY <1>3, <1>10, <1>12, <2>1, PartWithin
  <2> QED
    BY <1>11, <1>12, <2>2
<1>14. ASSUME NEW i \in 1 .. m, NEW j \in 1 .. m, i < j
       PROVE  WithinOrdered(e, 5, StringNode(c[j]), StringNode(c[i]))
  <2>1. Precede(Parts(l), list[j], list[i])
    BY <1>4, <1>5, <1>6, <1>10, <1>14, SeparatedOrder
  <2>2. Within(list[i], two, StringNode(c[i])) /\ Within(list[j], two, StringNode(c[j]))
    BY <1>10, <1>12
  <2>3. WithinOrdered(l, two + 1, StringNode(c[j]), StringNode(c[i]))
    BY <1>3, <2>1, <2>2, PartsApart
  <2> QED
    BY <1>11, <1>12, <2>3
<1>15. PICK a : a = Property(e, "key").text
  OBVIOUS
<1>16. Within(e, 5, StringNode(a))
  <2>1. "key" \in DOMAIN EntryTypes /\ EntryTypes["key"] = "string"
    BY DEF EntryTypes
  <2>2. Within(e, 2, StringNode(a))
    BY <1>2, <1>15, <2>1, TextTaken
  <2>3. 3 \in Nat /\ 2 \in Nat /\ 2 + 3 = 5
    OBVIOUS
  <2> QED
    BY <2>2, <2>3, WithinMore
<1>17. Added(e).key = a /\ Added(e).candidates = c
  BY <1>8, <1>15 DEF Added
<1>18. m \in Nat
  OBVIOUS
<1> QED
  BY <1>9, <1>13, <1>14, <1>16, <1>17, <1>18, Zenon DEF Drawn

\* Every entry of the dictionary is drawn from one of the list, and those of
\* the dictionary stand in the order of the list.
ApartInv ==
  /\ \A i \in 1 .. Len(dict) : \E m \in 1 .. next - 1 : Drawn(dict[i], entry_list[m])
  /\ \A i, j \in 1 .. Len(dict) :
       i < j => \E m, k \in 1 .. next - 1 :
                  m < k /\ Drawn(dict[i], entry_list[m]) /\ Drawn(dict[j], entry_list[k])

\* The entries that were parsed.
LEMMA EntriesParsed ==
  ASSUME ParseInv, phase # "parse", entry_list # <<>>
  PROVE  /\ entry_list \in Seq(Nodes)
         /\ \A m \in DOMAIN entry_list : entry_list[m].kind = "entry"
<1>1. Whole(entry_list) \in Nodes
  BY DEF ParseInv, ListRead
<1>2. PICK r \in Nodes : r = Whole(entry_list)
  BY <1>1
<1>3. r.kind = "entry_list" /\ r.sub = entry_list
  BY <1>1, <1>2, WholeParts
<1>4. "entry_list" \notin LeafKinds
  BY DEF LeafKinds, Punctuation
<1>5. Below["entry_list"] = {"entry"}
  BY DEF Below, ListKinds
<1>6. r.sub \in Seq(Nodes) /\ Shaped("entry_list", r.sub)
  BY <1>3, NodeParts
<1>7. \A n \in DOMAIN r.sub : r.sub[n].kind \in Below["entry_list"]
  BY <1>4, <1>6, Zenon DEF Shaped
<1> QED
  BY <1>3, <1>5, <1>6, <1>7

LEMMA ApartInit == Init => ApartInv
<1> SUFFICES ASSUME Init PROVE ApartInv
  OBVIOUS
<1>1. dict = <<>> /\ Len(dict) = 0 /\ 1 .. 0 = {}
  BY DEF Init
<1> QED
  BY <1>1 DEF ApartInv

LEMMA ApartStep == ParseInv /\ GetInv /\ ApartInv /\ [Next]_vars => ApartInv'
<1> SUFFICES ASSUME ParseInv, GetInv, ApartInv, [Next]_vars PROVE ApartInv'
  OBVIOUS
<1>1. CASE Descends
  <2>1. UNCHANGED <<file, entry_list, next, dict, err, phase>>
    BY <1>1, DescentFrame
  <2> QED
    BY <2>1 DEF ApartInv
<1>2. CASE dict_parser_new
  <2>1. dict = <<>> /\ dict' = dict
    BY <1>2 DEF dict_parser_new, GetInv
  <2>2. Len(dict') = 0 /\ 1 .. 0 = {}
    BY <2>1
  <2> QED
    BY <2>2 DEF ApartInv
<1>3. CASE get_dict_entry
  <2>1. PICK e : e = entry_list[next]
    OBVIOUS
  <2>2. /\ phase = "get" /\ next <= Len(entry_list)
        /\ dict' = IF Complete(e) /\ ~GoesAstray(e) THEN Append(dict, Added(e)) ELSE dict
        /\ next' = next + 1
        /\ entry_list' = entry_list
    BY <1>3, <2>1 DEF get_dict_entry
  <2>3. PICK k \in Nat : k = Len(entry_list) /\ DOMAIN entry_list = 1 .. k
    BY <2>2 DEF GetInv
  <2>4. next \in 1 .. k
    BY <2>2, <2>3 DEF GetInv
  <2>5. next' - 1 = next /\ \A m \in 1 .. next - 1 : m \in 1 .. next /\ m < next
    BY <2>2, <2>4
  <2>6. CASE Complete(e) /\ ~GoesAstray(e)
    <3>1. entry_list # <<>>
      <4>1. SUFFICES ASSUME entry_list = <<>> PROVE FALSE
        OBVIOUS
      <4>2. Len(entry_list) = 0
        BY <4>1
      <4> QED
        BY <2>3, <2>4, <4>2
    <3>2. e \in Nodes /\ e.kind = "entry"
      BY <2>1, <2>2, <2>3, <2>4, <3>1, EntriesParsed
    <3>3. PICK a : a = Added(e)
      OBVIOUS
    <3>4. Drawn(a, e)
      BY <2>6, <3>2, <3>3, AddedDrawn
    <3>5. PICK n \in Nat : n = Len(dict)
      BY DEF GetInv
    <3>6. Len(dict') = n + 1 /\ dict'[n + 1] = a /\ \A i \in 1 .. n : dict'[i] = dict[i]
      <4>1. PICK S : dict \in Seq(S)
        BY DEF GetInv
      <4> QED
        BY <2>2, <2>6, <3>3, <3>5, <4>1
    <3>7. \A i \in 1 .. n : \E m \in 1 .. next - 1 : Drawn(dict'[i], entry_list[m])
      BY <3>5, <3>6 DEF ApartInv
    <3>8. ASSUME NEW i \in 1 .. n + 1
          PROVE  \E m \in 1 .. next : Drawn(dict'[i], entry_list[m])
      <4>1. CASE i = n + 1
        <5>1. next \in 1 .. next
          BY <2>4
        <5> QED
          BY <2>1, <3>4, <3>6, <4>1, <5>1
      <4>2. CASE i # n + 1
        BY <2>5, <3>7, <4>2
      <4> QED
        BY <4>1, <4>2
    <3>9. ASSUME NEW i \in 1 .. n + 1, NEW j \in 1 .. n + 1, i < j
          PROVE  \E m, q \in 1 .. next :
                   m < q /\ Drawn(dict'[i], entry_list[m]) /\ Drawn(dict'[j], entry_list[q])
      <4>1. i \in 1 .. n
        BY <3>9
      <4>2. CASE j = n + 1
        <5>1. PICK m \in 1 .. next - 1 : Drawn(dict'[i], entry_list[m])
          BY <3>7, <4>1
        <5>2. next \in 1 .. next
          BY <2>4
        <5> QED
          BY <2>1, <2>5, <3>4, <3>6, <4>2, <5>1, <5>2
      <4>3. CASE j # n + 1
        <5>1. j \in 1 .. n
          BY <4>3
        <5>2. \E m, q \in 1 .. next - 1 :
                m < q /\ Drawn(dict[i], entry_list[m]) /\ Drawn(dict[j], entry_list[q])
          BY <3>5, <3>9, <4>1, <5>1 DEF ApartInv
        <5> QED
          BY <2>5, <3>6, <4>1, <5>1, <5>2
      <4> QED
        BY <4>2, <4>3
    <3>10. \A i \in 1 .. Len(dict') : \E m \in 1 .. next' - 1 : Drawn(dict'[i], entry_list'[m])
      BY <2>2, <2>5, <3>6, <3>8
    <3>11. \A i, j \in 1 .. Len(dict') :
             i < j => \E m, q \in 1 .. next' - 1 :
                        m < q /\ Drawn(dict'[i], entry_list'[m]) /\ Drawn(dict'[j], entry_list'[q])
      <4>1. ASSUME NEW i \in 1 .. Len(dict'), NEW j \in 1 .. Len(dict'), i < j
            PROVE  \E m, q \in 1 .. next' - 1 :
                     m < q /\ Drawn(dict'[i], entry_list'[m]) /\ Drawn(dict'[j], entry_list'[q])
        <5>1. i \in 1 .. n + 1 /\ j \in 1 .. n + 1
          BY <3>6
        <5>2. PICK m \in 1 .. next, q \in 1 .. next :
                m < q /\ Drawn(dict'[i], entry_list[m]) /\ Drawn(dict'[j], entry_list[q])
          BY <3>9, <4>1, <5>1
        <5>3. m \in 1 .. next' - 1 /\ q \in 1 .. next' - 1
          BY <2>5
        <5> QED
          BY <2>2, <5>2, <5>3
      <4> QED
        BY <4>1
    <3> QED
      BY <3>10, <3>11 DEF ApartInv
  <2>7. CASE ~(Complete(e) /\ ~GoesAstray(e))
    <3>1. dict' = dict
      BY <2>2, <2>7
    <3>2. \A i \in 1 .. Len(dict) : \E m \in 1 .. next : Drawn(dict[i], entry_list[m])
      BY <2>5 DEF ApartInv
    <3>3. ASSUME NEW i \in 1 .. Len(dict), NEW j \in 1 .. Len(dict), i < j
          PROVE  \E m, q \in 1 .. next :
                   m < q /\ Drawn(dict[i], entry_list[m]) /\ Drawn(dict[j], entry_list[q])
      <4>1. PICK m \in 1 .. next - 1, q \in 1 .. next - 1 :
              m < q /\ Drawn(dict[i], entry_list[m]) /\ Drawn(dict[j], entry_list[q])
        BY <3>3 DEF ApartInv
      <4> QED
        BY <2>5, <4>1
    <3> QED
      BY <2>2, <2>5, <3>1, <3>2, <3>3 DEF ApartInv
  <2> QED
    BY <2>6, <2>7
<1>4. CASE get_dict_ends \/ UNCHANGED vars
  <2>1. entry_list' = entry_list /\ dict' = dict /\ next' = next
    BY <1>4 DEF get_dict_ends, vars
  <2> QED
    BY <2>1 DEF ApartInv
<1> QED
  BY <1>1, <1>2, <1>3, <1>4 DEF Next, Descends

TextsOf(d) == {d.key} \union ToSet(d.candidates)

LEMMA PlacesOf ==
  ASSUME NEW d
  PROVE  /\ Places(d) = {Place(x) : x \in TextsOf(d)}
         /\ \A e : Drawn(d, e) => \A x \in TextsOf(d) : Within(e, 5, StringNode(x))
<1>1. Places(d) = {Place(x) : x \in TextsOf(d)}
  BY DEF Places, TextsOf
<1>2. ASSUME NEW e, Drawn(d, e), NEW x \in TextsOf(d) PROVE Within(e, 5, StringNode(x))
  <2>1. CASE x = d.key
    BY <1>2, <2>1 DEF Drawn
  <2>2. CASE x \in ToSet(d.candidates)
    <3>1. PICK i \in DOMAIN d.candidates : x = d.candidates[i]
      BY <2>2 DEF ToSet
    <3> QED
      BY <1>2, <3>1 DEF Drawn
  <2> QED
    BY <1>2, <2>1, <2>2 DEF TextsOf
<1> QED
  BY <1>1, <1>2

\* What the entries of the list say of the places in the file.
EntryPlaces(e) ==
  /\ \A x : Within(e, 5, StringNode(x)) => Place(x) \in 1 .. Len(file)
  /\ \A x, y : WithinOrdered(e, 5, StringNode(x), StringNode(y)) => Place(x) < Place(y)

PlacesApart(e, f) ==
  \A x, y : Within(e, 5, StringNode(x)) /\ Within(f, 5, StringNode(y)) => Place(x) < Place(y)

LEMMA ListPlaces ==
  ASSUME ParseInv, phase # "parse", entry_list # <<>>, StringsDiffer
  PROVE  /\ \A m \in DOMAIN entry_list : EntryPlaces(entry_list[m])
         /\ \A m, q \in DOMAIN entry_list : m < q => PlacesApart(entry_list[q], entry_list[m])
<1>1. FileOK /\ LexOK(lexer) /\ Covers(Separated(entry_list), Behind(lexer))
  BY DEF ParseInv, ListRead
<1>2. PICK list \in Seq(Nodes) : list = entry_list
  BY EntriesParsed
<1>3. PICK w \in Seq(Nodes) : w = Separated(list)
  BY <1>2, SeparatedType
<1>4. PICK b \in Nat : b = Behind(lexer) /\ b <= Len(file)
  <2>1. Behind(lexer) \in 0 .. Len(file)
    BY <1>1, BehindType
  <2>2. Len(file) \in Nat
    BY <1>1 DEF FileOK
  <2> QED
    BY <2>1, <2>2
<1>5. PICK k \in Nat : CoversBy(w, b, k)
  BY <1>1, <1>2, <1>3, <1>4 DEF Covers
<1>6. PICK v \in Seq(Nodes) : v = Written(w, k)
  BY <1>3, WrittenType
<1>7. Plain(v) = Segment(b) /\ v = Written(w, 5 + k)
  <2>1. Written(w, k) \in Seq(Leaves) /\ Plain(v) = Segment(b)
    BY <1>5, <1>6 DEF CoversBy
  <2>2. 5 \in Nat /\ k + 5 = 5 + k
    OBVIOUS
  <2>3. Written(w, k + 5) = Written(w, k)
    BY <2>1, <2>2, SettledWritten
  <2> QED
    BY <1>6, <2>1, <2>2, <2>3
<1>8. /\ \A a : Occurs(v, StringNode(a)) => Place(a) \in 1 .. Len(file)
      /\ \A a, c : Precede(v, StringNode(a), StringNode(c)) => Place(a) < Place(c)
  BY <1>1, <1>4, <1>6, <1>7, FilePlaces
<1>9. UnfoldsAll(w, 5 + k)
  <2>1. 5 + k \in Nat
    OBVIOUS
  <2> QED
    BY <1>3, <2>1, WrittenUnfolds
<1>10. /\ \A m \in DOMAIN list : Occurs(w, list[m])
       /\ \A m, q \in DOMAIN list : m < q => Precede(w, list[q], list[m])
  BY <1>2, <1>3, SeparatedOrder
<1>11. ASSUME NEW m \in DOMAIN list PROVE EntryPlaces(list[m])
  <2>1. ASSUME NEW x, Within(list[m], 5, StringNode(x)) PROVE Place(x) \in 1 .. Len(file)
    BY <1>7, <1>8, <1>9, <1>10, <2>1, Zenon DEF Within, UnfoldsAll, Unfolds
  <2>2. ASSUME NEW x, NEW y, WithinOrdered(list[m], 5, StringNode(x), StringNode(y))
        PROVE  Place(x) < Place(y)
    BY <1>7, <1>8, <1>9, <1>10, <2>2, Zenon DEF WithinOrdered, UnfoldsAll, UnfoldsWithin
  <2> QED
    BY <2>1, <2>2 DEF EntryPlaces
<1>12. ASSUME NEW m \in DOMAIN list, NEW q \in DOMAIN list, m < q PROVE PlacesApart(list[q], list[m])
  <2>1. Precede(w, list[q], list[m])
    BY <1>10, <1>12
  <2> QED
    BY <1>7, <1>8, <1>9, <2>1, Zenon DEF PlacesApart, Within, UnfoldsAll, UnfoldsApart
<1> QED
  BY <1>2, <1>11, <1>12

LEMMA ApartHolds == ParseInv /\ GetInv /\ ApartInv /\ StringsDiffer => EntriesStayApart
<1> SUFFICES ASSUME ParseInv, GetInv, ApartInv, StringsDiffer, NEW i \in 1 .. Len(dict)
             PROVE  /\ 0 \notin Places(dict[i])
                    /\ \A k, l \in 1 .. Len(dict[i].candidates) :
                         k < l => Place(dict[i].candidates[k]) > Place(dict[i].candidates[l])
                    /\ \A j \in i + 1 .. Len(dict) :
                         \A p \in Places(dict[i]), q \in Places(dict[j]) : p > q
  BY DEF EntriesStayApart
<1>1. PICK m \in 1 .. next - 1 : Drawn(dict[i], entry_list[m])
  BY DEF ApartInv
<1>2. PICK n \in Nat : n = Len(entry_list) /\ DOMAIN entry_list = 1 .. n /\ next - 1 <= n
  <2>1. phase # "parse"
    BY <1>1 DEF GetInv
  <2>2. PICK S : entry_list \in Seq(S)
    BY <2>1 DEF GetInv
  <2>3. next \in 1 .. Len(entry_list) + 1 /\ Len(entry_list) \in Nat
    BY <2>1, <2>2 DEF GetInv
  <2> QED
    BY <2>2, <2>3
<1>3. next \in Int /\ \A q \in 1 .. next - 1 : q \in DOMAIN entry_list
  BY <1>1, <1>2 DEF GetInv
<1>4. phase # "parse" /\ entry_list # <<>>
  <2>1. phase # "parse"
    BY <1>1 DEF GetInv
  <2>2. n # 0
    BY <1>1, <1>2, <1>3
  <2>3. Len(<<>>) = 0
    OBVIOUS
  <2> QED
    BY <1>2, <2>1, <2>2, <2>3
<1>5. /\ \A q \in DOMAIN entry_list : EntryPlaces(entry_list[q])
      /\ \A q, s \in DOMAIN entry_list : q < s => PlacesApart(entry_list[s], entry_list[q])
  BY <1>4, ListPlaces
<1>6. PICK d : d = dict[i]
  OBVIOUS
<1>7. PICK e : e = entry_list[m]
  OBVIOUS
<1>8. Drawn(d, e) /\ EntryPlaces(e)
  BY <1>1, <1>3, <1>5, <1>6, <1>7
<1>9. Len(file) \in Nat
  BY DEF ParseInv, FileOK
<1>10. 0 \notin Places(d)
  <2>1. \A x \in TextsOf(d) : Place(x) \in 1 .. Len(file)
    BY <1>8, PlacesOf DEF EntryPlaces
  <2>2. \A x \in TextsOf(d) : Place(x) # 0
    BY <1>9, <2>1
  <2> QED
    BY <2>2, PlacesOf
<1>11. ASSUME NEW k \in 1 .. Len(d.candidates), NEW l \in 1 .. Len(d.candidates), k < l
       PROVE  Place(d.candidates[k]) > Place(d.candidates[l])
  <2>1. PICK c : c = d.candidates
    OBVIOUS
  <2>2. PICK z \in Nat : c = [q \in 1 .. z |-> c[q]]
    BY <1>8, <2>1 DEF Drawn
  <2>3. Len(c) = z /\ DOMAIN c = 1 .. z
    BY <2>2
  <2>4. WithinOrdered(e, 5, StringNode(c[l]), StringNode(c[k]))
    BY <1>8, <1>11, <2>1, <2>3 DEF Drawn
  <2>5. Place(c[l]) < Place(c[k])
    BY <1>8, <2>4 DEF EntryPlaces
  <2>6. Place(c[l]) \in Int /\ Place(c[k]) \in Int
    <3>1. Within(e, 5, StringNode(c[l])) /\ Within(e, 5, StringNode(c[k]))
      BY <1>8, <1>11, <2>1, <2>3 DEF Drawn
    <3> QED
      BY <1>8, <1>9, <3>1 DEF EntryPlaces
  <2> QED
    BY <2>1, <2>5, <2>6
<1>12. ASSUME NEW j \in i + 1 .. Len(dict), NEW p \in Places(dict[i]), NEW q \in Places(dict[j])
       PROVE  p > q
  <2>1. Len(dict) \in Nat
    BY DEF GetInv
  <2>2. j \in 1 .. Len(dict) /\ i < j
    BY <1>12, <2>1
  <2>3. PICK r \in 1 .. next - 1, s \in 1 .. next - 1 :
          r < s /\ Drawn(dict[i], entry_list[r]) /\ Drawn(dict[j], entry_list[s])
    BY <2>2 DEF ApartInv
  <2>4. r \in DOMAIN entry_list /\ s \in DOMAIN entry_list
    BY <1>3
  <2>5. PlacesApart(entry_list[s], entry_list[r]) /\ EntryPlaces(entry_list[s]) /\ EntryPlaces(entry_list[r])
    BY <1>5, <2>3, <2>4
  <2>6. PICK x \in TextsOf(dict[i]) : p = Place(x)
    BY <1>12, PlacesOf
  <2>7. PICK y \in TextsOf(dict[j]) : q = Place(y)
    BY <1>12, PlacesOf
  <2>8. Within(entry_list[r], 5, StringNode(x)) /\ Within(entry_list[s], 5, StringNode(y))
    BY <2>3, <2>6, <2>7, PlacesOf
  <2>9. Place(y) < Place(x)
    BY <2>5, <2>8, Zenon DEF PlacesApart
  <2>10. Place(x) \in Int /\ Place(y) \in Int
    BY <1>9, <2>5, <2>8 DEF EntryPlaces
  <2> QED
    BY <2>6, <2>7, <2>9, <2>10
<1> QED
  BY <1>6, <1>10, <1>11, <1>12

\* In a file whose strings differ, every key and every candidate that reaches
\* the dictionary stands where its entry stands, and nothing of one entry among
\* the strings of another: no candidate comes under the key of a neighbour,
\* however damaged the file is (_property_list_parse, _get_property,
\* _get_dict_candidates).
THEOREM NeighboursStayApart == Spec => [](StringsDiffer => EntriesStayApart)
<1>1. Init => ParseInv /\ GetInv /\ ApartInv
  BY ParseInit, GetInit, ApartInit
<1>2. ParseInv /\ GetInv /\ ApartInv /\ [Next]_vars => ParseInv' /\ GetInv' /\ ApartInv'
  BY ParseStep, GetStep, ApartStep
<1>3. ParseInv /\ GetInv /\ ApartInv => (StringsDiffer => EntriesStayApart)
  BY ApartHolds
<1> QED
  BY <1>1, <1>2, <1>3, PTL DEF Spec

-----------------------------------------------------------------------------
(* What a well-formed file has ahead *)

\* The tokens behind the first "b" of the file.
Ahead(b) == Without({"blank"}, SubSeq(file, b + 1, Len(file)))

LEMMA AheadType == ASSUME FileOK, NEW b \in Nat PROVE Ahead(b) \in Seq(LexerToken)
<1>1. SubSeq(file, b + 1, Len(file)) \in Seq(LexerToken)
  BY DEF FileOK
<1> QED
  BY <1>1, WithoutType DEF Ahead

LEMMA AheadEnd == ASSUME FileOK PROVE Ahead(Len(file)) = <<>>
<1>1. PICK n \in Nat : n = Len(file)
  BY DEF FileOK
<1>2. SubSeq(file, n + 1, n) = <<>>
  BY <1>1 DEF FileOK
<1> QED
  BY <1>1, <1>2, WithoutNone DEF Ahead

LEMMA AheadNext ==
  ASSUME FileOK, NEW b \in Nat, b + 1 <= Len(file)
  PROVE  Ahead(b) = IF file[b + 1].type = "blank" THEN Ahead(b + 1) ELSE <<file[b + 1]>> \o Ahead(b + 1)
<1>1. PICK n \in Nat : n = Len(file)
  BY DEF FileOK
<1>2. PICK t \in LexerToken : t = file[b + 1]
  BY DEF FileOK
<1>3. PICK s \in Seq(LexerToken) : s = SubSeq(file, (b + 1) + 1, n)
  <2>1. SubSeq(file, (b + 1) + 1, n) \in Seq(LexerToken)
    BY <1>1 DEF FileOK
  <2> QED
    BY <2>1
<1>4. PICK o \in Seq(LexerToken) : o = <<t>>
  <2>1. <<t>> \in Seq(LexerToken)
    OBVIOUS
  <2> QED
    BY <2>1
<1>5. SubSeq(file, b + 1, n) = o \o s
  <2>1. PICK u \in Seq(LexerToken) : u = SubSeq(file, b + 1, n)
    <3>1. SubSeq(file, b + 1, n) \in Seq(LexerToken)
      BY <1>1 DEF FileOK
    <3> QED
      BY <3>1
  <2>2. Len(u) = n - b /\ \A k \in 1 .. n - b : u[k] = file[b + k]
    BY <1>1, <2>1 DEF FileOK
  <2>3. Len(s) = n - b - 1 /\ \A k \in 1 .. n - b - 1 : s[k] = file[b + 1 + k]
    BY <1>1, <1>3 DEF FileOK
  <2>4. PICK v \in Seq(LexerToken) : v = o \o s
    <3>1. o \o s \in Seq(LexerToken)
      OBVIOUS
    <3> QED
      BY <3>1
  <2>5. Len(o) = 1 /\ o[1] = t
    BY <1>4
  <2>6. Len(v) = n - b /\ v[1] = t /\ \A k \in 2 .. n - b : v[k] = s[k - 1]
    <3>1. PICK d \in Nat : d = Len(s)
      OBVIOUS
    <3>2. Len(v) = d + 1 /\ v[1] = t /\ \A k \in 2 .. d + 1 : v[k] = s[k - 1]
      <4>1. 1 \in Nat /\ 1 = Len(o)
        BY <2>5
      <4>2. JoinShape(v, o, s, 1, d)
        BY <2>4, <3>1, <4>1, JoinedAt
      <4> QED
        BY <2>5, <4>2 DEF JoinShape
    <3>3. d + 1 = n - b
      BY <1>1, <2>3, <3>1
    <3> QED
      BY <3>2, <3>3
  <2>7. ASSUME NEW k \in 1 .. n - b PROVE u[k] = v[k]
    <3>1. CASE k = 1
      BY <1>2, <2>2, <2>6, <3>1
    <3>2. CASE k # 1
      <4>1. k \in 2 .. n - b /\ k - 1 \in 1 .. n - b - 1 /\ b + 1 + (k - 1) = b + k
        BY <1>1, <3>2
      <4>2. s[k - 1] = file[b + k]
        BY <2>3, <4>1
      <4> QED
        BY <2>2, <2>6, <4>1, <4>2
    <3> QED
      BY <3>1, <3>2
  <2>8. u = v
    BY <2>2, <2>6, <2>7, SameElements
  <2> QED
    BY <2>1, <2>4, <2>8
<1>6. Without({"blank"}, o \o s) = Without({"blank"}, o) \o Without({"blank"}, s)
  BY WithoutJoin
<1>7. Without({"blank"}, <<t>>) = IF t.type \in {"blank"} THEN <<>> ELSE <<t>>
  BY WithoutOne
<1>8. Ahead(b) = Without({"blank"}, o) \o Ahead(b + 1)
  BY <1>1, <1>3, <1>5, <1>6 DEF Ahead
<1>9. <<>> \o Ahead(b + 1) = Ahead(b + 1)
  <2>1. b + 1 \in Nat
    OBVIOUS
  <2> QED
    BY <2>1, AheadType, JoinNothing
<1> QED
  BY <1>2, <1>4, <1>7, <1>8, <1>9

LEMMA AheadStays ==
  ASSUME FileOK, NEW a \in Nat, NEW b \in Nat, a <= b, b <= Len(file),
         \A i \in a + 1 .. b : file[i].type = "blank"
  PROVE  Ahead(b) = Ahead(a)
<1> DEFINE P == {n \in Nat : a + n <= b => Ahead(a + n) = Ahead(a)}
<1>1. 0 \in P
  <2>1. a + 0 = a
    OBVIOUS
  <2> QED
    BY <2>1
<1>2. ASSUME NEW n \in Nat, n \in P PROVE n + 1 \in P
  <2> SUFFICES ASSUME a + (n + 1) <= b PROVE Ahead(a + (n + 1)) = Ahead(a)
    OBVIOUS
  <2>1. Ahead(a + n) = Ahead(a)
    BY <1>2
  <2>2. PICK m \in Nat : m = a + n
    OBVIOUS
  <2>3. PICK k \in Nat : k = Len(file)
    BY DEF FileOK
  <2>4. a + (n + 1) = m + 1 /\ m + 1 <= Len(file) /\ m + 1 \in a + 1 .. b
    BY <2>2, <2>3
  <2>5. Ahead(m + 1) = Ahead(m)
    BY <2>4, AheadNext
  <2> QED
    BY <2>1, <2>2, <2>4, <2>5
<1> HIDE DEF P
<1>3. Nat \subseteq P
  BY <1>1, <1>2, NatInduct
<1>4. PICK n \in Nat : b = a + n
  <2>1. b - a \in Nat /\ b = a + (b - a)
    OBVIOUS
  <2> QED
    BY <2>1
<1> QED
  BY <1>3, <1>4 DEF P

\* What a request for a token finds, and leaves.
Finds(l, m) ==
  IF Ahead(l.made) = <<>> THEN m.next_token = NoToken /\ Ahead(m.made) = <<>>
  ELSE \E t \in LexerToken :
         /\ Ahead(l.made) = <<t>> \o Ahead(m.made)
         /\ t.type # "error" => m.next_token = t

LEMMA RelevantFinds ==
  ASSUME FileOK, NEW l, LexOK(l), l.next_token = NoToken
  PROVE  Finds(l, Relevant(l))
<1>1. PICK n \in Nat : n = Len(file)
  BY DEF FileOK
<1>2. PICK a \in 0 .. n : a = l.made
  BY <1>1 DEF LexOK
<1>3. PICK I : I = {i \in a + 1 .. n : file[i].type # "blank"}
  OBVIOUS
<1>4. PICK tried : tried = SelectInSubSeq(file, l.made + 1, Len(file), LAMBDA t : t.type # "blank")
  OBVIOUS
<1>5. tried = IF I # {} THEN Min(I) ELSE 0
  BY <1>1, <1>2, <1>3, <1>4 DEF SelectInSubSeq
<1>6. Relevant(l) = IF tried = 0 THEN [l EXCEPT !.made = Len(file)]
                    ELSE IF file[tried].type = "error" THEN [l EXCEPT !.made = tried]
                    ELSE [made |-> tried, next_token |-> file[tried]]
  BY <1>4, Zenon DEF Relevant
<1>7. l = [made |-> a, next_token |-> NoToken]
  BY <1>2 DEF LexOK
<1>8. \A k : [l EXCEPT !.made = k] = [made |-> k, next_token |-> NoToken]
  BY <1>7
<1>9. CASE I = {}
  <2>1. tried = 0
    BY <1>5, <1>9
  <2>2. PICK m : m = Relevant(l)
    OBVIOUS
  <2>3. m = [made |-> n, next_token |-> NoToken]
    BY <1>1, <1>6, <1>8, <2>1, <2>2
  <2>4. \A i \in a + 1 .. n : file[i].type = "blank"
    BY <1>3, <1>9
  <2>5. a \in Nat /\ a <= n /\ n <= Len(file)
    BY <1>1, <1>2
  <2>6. Ahead(n) = Ahead(a)
    BY <2>4, <2>5, AheadStays
  <2>7. Ahead(n) = <<>>
    BY <1>1, AheadEnd
  <2>8. m.made = n /\ m.next_token = NoToken
    BY <2>3
  <2> QED
    BY <1>2, <2>2, <2>6, <2>7, <2>8 DEF Finds
<1>10. CASE I # {}
  <2>1. I \subseteq Nat
    BY <1>1, <1>2, <1>3
  <2>2. tried \in I /\ \A k \in I : tried <= k
    BY <1>5, <1>10, <2>1, SmallestOf
  <2>3. tried \in a + 1 .. n /\ file[tried].type # "blank"
    BY <1>3, <2>2
  <2>4. PICK c \in Nat : tried = c + 1 /\ a <= c /\ c + 1 <= n
    <3>1. tried - 1 \in Nat /\ tried = (tried - 1) + 1 /\ a <= tried - 1 /\ (tried - 1) + 1 <= n
      BY <1>2, <2>3
    <3> QED
      BY <3>1
  <2>5. \A i \in a + 1 .. c : file[i].type = "blank"
    <3> TAKE i \in a + 1 .. c
    <3>1. i \in a + 1 .. n /\ ~(tried <= i)
      BY <1>1, <1>2, <2>4
    <3>2. i \notin I
      BY <2>2, <3>1
    <3> QED
      BY <1>3, <3>1, <3>2
  <2>6. a \in Nat /\ c <= Len(file) /\ c + 1 <= Len(file)
    BY <1>1, <1>2, <2>4
  <2>7. Ahead(c) = Ahead(a)
    BY <2>4, <2>5, <2>6, AheadStays
  <2>8. PICK t \in LexerToken : t = file[tried]
    BY <1>1, <1>2, <2>3 DEF FileOK
  <2>9. Ahead(a) = <<t>> \o Ahead(tried)
    BY <2>3, <2>4, <2>6, <2>7, <2>8, AheadNext
  <2>10. PICK m : m = Relevant(l)
    OBVIOUS
  <2>11. m.made = tried /\ (t.type # "error" => m.next_token = t)
    <3>1. tried # 0
      BY <2>4
    <3>2. CASE t.type = "error"
      <4>1. m = [made |-> tried, next_token |-> NoToken]
        BY <1>6, <1>8, <2>8, <2>10, <3>1, <3>2
      <4> QED
        BY <3>2, <4>1
    <3>3. CASE t.type # "error"
      <4>1. m = [made |-> tried, next_token |-> t]
        BY <1>6, <2>8, <2>10, <3>1, <3>3
      <4> QED
        BY <4>1
    <3> QED
      BY <3>2, <3>3
  <2>12. Ahead(a) # <<>>
    <3>1. PICK w \in Seq(LexerToken) : w = Ahead(tried)
      BY <2>4, AheadType
    <3>2. <<t>> \o w # <<>>
      OBVIOUS
    <3> QED
      BY <2>9, <3>1, <3>2
  <2> QED
    BY <1>2, <2>9, <2>10, <2>11, <2>12 DEF Finds
<1> QED
  BY <1>9, <1>10

\* The next token is the first one ahead, unless that is an error.
LEMMA TokenAhead ==
  ASSUME FileOK, NEW l, LexOK(l), NEW t \in LexerToken, t.type # "error", NEW w \in Seq(LexerToken),
         Ahead(Behind(l)) = <<t>> \o w
  PROVE  /\ LexOK(Look(l)) /\ Look(l).next_token = t /\ Ahead(Behind(Look(l))) = <<t>> \o w
         /\ LexOK(Take(l)) /\ Ahead(Behind(Take(l))) = w
<1>1. PICK n \in Nat : n = Len(file)
  BY DEF FileOK
<1>2. PICK m : m = Look(l)
  OBVIOUS
<1>3. LexOK(m)
  BY <1>2, LookIdle DEF Idle
<1>4. m.next_token = t /\ Ahead(m.made) = w
  <2>1. CASE l.next_token = NoToken
    <3>1. m = Relevant(l)
      BY <1>2, <2>1 DEF Look
    <3>2. Behind(l) = l.made
      BY <2>1 DEF Behind
    <3>3. <<t>> \o w # <<>>
      OBVIOUS
    <3>4. Finds(l, m)
      BY <2>1, <3>1, RelevantFinds
    <3>5. PICK u \in LexerToken : /\ Ahead(l.made) = <<u>> \o Ahead(m.made)
                                  /\ u.type # "error" => m.next_token = u
      BY <3>2, <3>3, <3>4 DEF Finds
    <3>6. m.made \in Nat
      BY <1>3 DEF LexOK
    <3>7. PICK v \in Seq(LexerToken) : v = Ahead(m.made)
      BY <3>6, AheadType
    <3>8. u = t /\ v = w
      <4>1. <<u>> \o v = <<t>> \o w
        BY <3>2, <3>5, <3>7
      <4> QED
        BY <4>1, SameHead, SMTT(40)
    <3> QED
      BY <3>5, <3>7, <3>8
  <2>2. CASE l.next_token # NoToken
    <3>1. m = l
      BY <1>2, <2>2, LookIdle
    <3>2. /\ l.made \in 1 .. n /\ l.next_token = file[l.made]
          /\ l.next_token.type \notin {"blank", "error"}
      BY <1>1, <2>2 DEF LexOK
    <3>3. Behind(l) = l.made - 1
      BY <2>2 DEF Behind
    <3>4. PICK b \in Nat : b = Behind(l) /\ l.made = b + 1 /\ b + 1 <= n
      <4>1. l.made - 1 \in Nat
        BY <3>2
      <4> QED
        BY <3>2, <3>3, <4>1
    <3>5. PICK u \in LexerToken : u = file[b + 1]
      BY <1>1, <3>4 DEF FileOK
    <3>6. u = l.next_token /\ u.type # "blank"
      BY <3>2, <3>4, <3>5
    <3>7. Ahead(b) = <<u>> \o Ahead(b + 1)
      BY <1>1, <3>4, <3>5, <3>6, AheadNext
    <3>8. PICK v \in Seq(LexerToken) : v = Ahead(b + 1)
      BY <3>4, AheadType
    <3>9. u = t /\ v = w
      BY <3>4, <3>7, <3>8, SameHead
    <3> QED
      BY <3>1, <3>4, <3>6, <3>8, <3>9
  <2> QED
    BY <2>1, <2>2
<1>5. t # NoToken
  BY LexerTokens
<1>6. /\ m.made \in 1 .. n /\ m.next_token = file[m.made] /\ t.type # "blank"
      /\ Behind(m) = m.made - 1
  BY <1>1, <1>3, <1>4, <1>5 DEF LexOK, Behind
<1>7. Ahead(Behind(m)) = <<t>> \o w
  <2>1. PICK b \in Nat : b = Behind(m) /\ m.made = b + 1 /\ b + 1 <= n
    <3>1. m.made - 1 \in Nat
      BY <1>6
    <3> QED
      BY <1>6, <3>1
  <2>2. file[b + 1] = t
    BY <1>4, <1>6, <2>1
  <2>3. Ahead(b) = <<t>> \o Ahead(b + 1)
    BY <1>1, <1>6, <2>1, <2>2, AheadNext
  <2> QED
    BY <1>4, <2>1, <2>3
<1>8. LexOK(Take(l))
  <2>1. t # NoToken /\ t = Look(l).next_token
    BY <1>2, <1>4, <1>5
  <2> QED
    BY <2>1, TakeTook DEF Took
<1>9. Behind(Take(l)) = m.made
  <2>1. Take(l) = [m EXCEPT !.next_token = NoToken]
    BY <1>2 DEF Take
  <2>2. m = [made |-> m.made, next_token |-> m.next_token]
    BY <1>3 DEF LexOK
  <2>3. Take(l) = [made |-> m.made, next_token |-> NoToken]
    BY <2>1, <2>2
  <2> QED
    BY <2>3 DEF Behind
<1> QED
  BY <1>2, <1>3, <1>4, <1>7, <1>8, <1>9

LEMMA NothingAhead ==
  ASSUME FileOK, NEW l, LexOK(l), Ahead(Behind(l)) = <<>>
  PROVE  LexOK(Look(l)) /\ Look(l).next_token = NoToken /\ Ahead(Behind(Look(l))) = <<>>
<1>1. PICK n \in Nat : n = Len(file)
  BY DEF FileOK
<1>2. PICK m : m = Look(l)
  OBVIOUS
<1>3. LexOK(m)
  BY <1>2, LookIdle DEF Idle
<1>4. CASE l.next_token = NoToken
  <2>1. m = Relevant(l)
    BY <1>2, <1>4 DEF Look
  <2>2. Behind(l) = l.made
    BY <1>4 DEF Behind
  <2>3. Finds(l, m)
    BY <1>4, <2>1, RelevantFinds
  <2>4. m.next_token = NoToken /\ Ahead(m.made) = <<>>
    BY <2>2, <2>3 DEF Finds
  <2> QED
    BY <1>2, <1>3, <2>4 DEF Behind
<1>5. CASE l.next_token # NoToken
  <2>1. /\ l.made \in 1 .. n /\ l.next_token = file[l.made]
        /\ l.next_token.type \notin {"blank", "error"}
    BY <1>1, <1>5 DEF LexOK
  <2>2. Behind(l) = l.made - 1
    BY <1>5 DEF Behind
  <2>3. PICK b \in Nat : b = Behind(l) /\ l.made = b + 1 /\ b + 1 <= n
    <3>1. l.made - 1 \in Nat
      BY <2>1
    <3> QED
      BY <2>1, <2>2, <3>1
  <2>4. PICK u \in LexerToken : u = file[b + 1]
    BY <1>1, <2>3 DEF FileOK
  <2>5. u.type # "blank"
    BY <2>1, <2>3, <2>4
  <2>6. Ahead(b) = <<u>> \o Ahead(b + 1)
    BY <1>1, <2>3, <2>4, <2>5, AheadNext
  <2>7. PICK v \in Seq(LexerToken) : v = Ahead(b + 1)
    BY <2>3, AheadType
  <2>8. <<u>> \o v # <<>>
    OBVIOUS
  <2> QED
    BY <2>3, <2>6, <2>7, <2>8
<1> QED
  BY <1>4, <1>5

\* The nodes, written down, are what is ahead.
RemainsBy(nodes, b, k) == Written(nodes, k) \in Seq(Leaves) /\ Tokens(Written(nodes, k)) = Ahead(b)

Remains(nodes, b) == \E k \in Nat : RemainsBy(nodes, b, k)

LEMMA LeavesJoin ==
  ASSUME NEW x \in Nodes, NEW q \in Seq(Nodes), NEW k \in Nat, Written(<<x>> \o q, k) \in Seq(Leaves)
  PROVE  /\ Written(<<x>> \o q, k) = Written(<<x>>, k) \o Written(q, k)
         /\ Written(<<x>>, k) \in Seq(Leaves) /\ Written(q, k) \in Seq(Leaves)
<1>1. PICK o \in Seq(Nodes) : o = <<x>>
  <2>1. <<x>> \in Seq(Nodes)
    OBVIOUS
  <2> QED
    BY <2>1
<1>2. PICK a \in Seq(Nodes) : a = Written(o, k)
  BY WrittenType
<1>3. PICK b \in Seq(Nodes) : b = Written(q, k)
  BY WrittenType
<1>4. Written(o \o q, k) = a \o b
  BY <1>2, <1>3, WrittenJoin
<1>5. a \o b \in Seq(Leaves)
  BY <1>1, <1>4
<1>6. a \in Seq(Leaves) /\ b \in Seq(Leaves)
  BY <1>5, LeavesSplit
<1> QED
  BY <1>1, <1>2, <1>3, <1>4, <1>6

\* A node may be replaced by its parts.
LEMMA RemainsParts ==
  ASSUME NEW x \in Nodes, NEW q \in Seq(Nodes), NEW b, Remains(<<x>> \o q, b)
  PROVE  Remains(Parts(x) \o q, b)
<1>1. PICK k \in Nat : RemainsBy(<<x>> \o q, b, k)
  BY DEF Remains
<1>2. /\ Written(<<x>> \o q, k) = Written(<<x>>, k) \o Written(q, k)
      /\ Written(<<x>>, k) \in Seq(Leaves)
  BY <1>1, LeavesJoin DEF RemainsBy
<1>3. PICK p \in Seq(Nodes) : p = Parts(x)
  BY PartsType
<1>4. Written(p, k) = Written(<<x>>, k)
  <2>1. Written(<<x>>, k + 1) = Written(p, k)
    BY <1>3, WrittenDown
  <2>2. 1 \in Nat
    OBVIOUS
  <2>3. Written(<<x>>, k + 1) = Written(<<x>>, k)
    BY <1>2, <2>2, SettledWritten
  <2> QED
    BY <2>1, <2>3
<1>5. Written(p \o q, k) = Written(p, k) \o Written(q, k)
  BY WrittenJoin
<1>6. RemainsBy(p \o q, b, k)
  BY <1>1, <1>2, <1>4, <1>5 DEF RemainsBy
<1> QED
  BY <1>3, <1>6 DEF Remains

\* A leaf that is next is the next token.
LEMMA RemainsToken ==
  ASSUME FileOK, NEW l, LexOK(l), NEW x \in Leaves, NEW q \in Seq(Nodes), Remains(<<x>> \o q, Behind(l))
  PROVE  /\ LexOK(Look(l)) /\ Look(l).next_token = Token(x.kind, x.text)
         /\ Remains(<<x>> \o q, Behind(Look(l)))
         /\ LexOK(Take(l)) /\ Remains(q, Behind(Take(l)))
<1>1. PICK k \in Nat : RemainsBy(<<x>> \o q, Behind(l), k)
  BY DEF Remains
<1>2. x \in Nodes /\ x.kind \in LeafKinds
  <2>1. x.kind \in LeafKinds
    BY DEF Leaves, Node
  <2> QED
    BY <2>1, LeavesAreNodes
<1>3. PICK v \in Seq(Leaves) : v = Written(q, k)
  BY <1>1, <1>2, LeavesJoin DEF RemainsBy
<1>4. PICK o \in Seq(Leaves) : o = <<x>>
  <2>1. <<x>> \in Seq(Leaves)
    OBVIOUS
  <2> QED
    BY <2>1
<1>5. Written(<<x>> \o q, k) = o \o v
  <2>1. Written(<<x>> \o q, k) = Written(<<x>>, k) \o Written(q, k)
    BY <1>1, <1>2, LeavesJoin DEF RemainsBy
  <2>2. Written(o, k) = o
    BY LeavesWritten
  <2> QED
    BY <1>3, <1>4, <2>1, <2>2
<1>6. v \in Seq(Nodes) /\ o \in Seq(Nodes)
  BY LeavesAreNodes, SeqLarger
<1>7. PICK t : t = Token(x.kind, x.text)
  OBVIOUS
<1>8. PICK u \in Seq(AnyToken) : u = Tokens(v)
  BY <1>6, TokensType
<1>9. Ahead(Behind(l)) = <<t>> \o u
  <2>1. Tokens(o \o v) = Tokens(o) \o Tokens(v)
    BY <1>6, TokensJoin
  <2>2. Tokens(<<x>>) = <<Token(x.kind, x.text)>>
    BY TokensOne
  <2> QED
    BY <1>1, <1>4, <1>5, <1>7, <1>8, <2>1, <2>2 DEF RemainsBy
<1>10. Ahead(Behind(l)) \in Seq(LexerToken)
  <2>1. Behind(l) \in Nat
    BY BehindType DEF FileOK
  <2> QED
    BY <2>1, AheadType
<1>11. t \in LexerToken /\ u \in Seq(LexerToken)
  BY <1>9, <1>10, HeadIn
<1>12. t.type # "error"
  <2>1. t.type = x.kind
    BY <1>7 DEF Token
  <2>2. "error" \notin LeafKinds
    BY DEF LeafKinds, Punctuation
  <2> QED
    BY <1>2, <2>1, <2>2
<1>13. /\ LexOK(Look(l)) /\ Look(l).next_token = t /\ Ahead(Behind(Look(l))) = <<t>> \o u
       /\ LexOK(Take(l)) /\ Ahead(Behind(Take(l))) = u
  BY <1>9, <1>11, <1>12, TokenAhead
<1>14. Remains(<<x>> \o q, Behind(Look(l)))
  <2>1. RemainsBy(<<x>> \o q, Behind(Look(l)), k)
    BY <1>1, <1>9, <1>13 DEF RemainsBy
  <2> QED
    BY <2>1 DEF Remains
<1>15. Remains(q, Behind(Take(l)))
  <2>1. RemainsBy(q, Behind(Take(l)), k)
    BY <1>3, <1>8, <1>13 DEF RemainsBy
  <2> QED
    BY <2>1 DEF Remains
<1> QED
  BY <1>7, <1>13, <1>14, <1>15

LEMMA LookRemains ==
  ASSUME FileOK, NEW l, LexOK(l), NEW nodes \in Seq(Nodes), Remains(nodes, Behind(l))
  PROVE  /\ LexOK(Look(l)) /\ Remains(nodes, Behind(Look(l)))
         /\ nodes = <<>> => Look(l).next_token = NoToken
<1>1. PICK k \in Nat : RemainsBy(nodes, Behind(l), k)
  BY DEF Remains
<1>2. PICK v \in Seq(Leaves) : v = Written(nodes, k)
  BY <1>1 DEF RemainsBy
<1>3. PICK w : w = Tokens(v)
  OBVIOUS
<1>4. Ahead(Behind(l)) = w
  BY <1>1, <1>2, <1>3 DEF RemainsBy
<1>5. w \in Seq(LexerToken)
  <2>1. Behind(l) \in Nat
    BY BehindType DEF FileOK
  <2> QED
    BY <1>4, <2>1, AheadType
<1>6. PICK n \in Nat : n = Len(v) /\ DOMAIN v = 1 .. n
  OBVIOUS
<1>7. Len(w) = n /\ \A i \in 1 .. n : w[i].type = v[i].kind
  <2>1. w = [i \in 1 .. n |-> Token(v[i].kind, v[i].text)]
    BY <1>3, <1>6 DEF Tokens
  <2>2. Len(w) = n
    BY <1>5, <1>6, <2>1
  <2>3. \A i \in 1 .. n : w[i] = Token(v[i].kind, v[i].text)
    BY <2>1
  <2> QED
    BY <2>2, <2>3 DEF Token
<1>8. Ahead(Behind(Look(l))) = w /\ LexOK(Look(l)) /\ (w = <<>> => Look(l).next_token = NoToken)
  <2>1. CASE w = <<>>
    BY <1>4, <2>1, NothingAhead
  <2>2. CASE w # <<>>
    <3>1. PICK t \in LexerToken : t = w[1]
      BY <1>5, <2>2
    <3>2. PICK u \in Seq(LexerToken) : u = Tail(w)
      <4>1. Tail(w) \in Seq(LexerToken)
        BY <1>5, <2>2
      <4> QED
        BY <4>1
    <3>3. w = <<t>> \o u
      BY <1>5, <2>2, <3>1, <3>2
    <3>4. t.type # "error"
      <4>1. n # 0 /\ 1 \in 1 .. n
        BY <1>5, <1>7, <2>2
      <4>2. v[1] \in Leaves
        BY <1>6, <4>1
      <4>3. v[1].kind \in LeafKinds
        BY <4>2 DEF Leaves, Node
      <4>4. "error" \notin LeafKinds
        BY DEF LeafKinds, Punctuation
      <4> QED
        BY <1>7, <3>1, <4>1, <4>3, <4>4
    <3>5. Ahead(Behind(l)) = <<t>> \o u
      BY <1>4, <3>3
    <3>6. LexOK(Look(l)) /\ Ahead(Behind(Look(l))) = <<t>> \o u
      BY <3>4, <3>5, TokenAhead
    <3> QED
      BY <2>2, <3>3, <3>6
  <2> QED
    BY <2>1, <2>2
<1>9. Remains(nodes, Behind(Look(l)))
  <2>1. RemainsBy(nodes, Behind(Look(l)), k)
    BY <1>1, <1>4, <1>8 DEF RemainsBy
  <2> QED
    BY <2>1 DEF Remains
<1>10. nodes = <<>> => w = <<>>
  <2>1. SUFFICES ASSUME nodes = <<>> PROVE w = <<>>
    OBVIOUS
  <2>2. <<>> \in Seq(Leaves)
    OBVIOUS
  <2>3. Written(<<>>, k) = <<>>
    BY <2>2, LeavesWritten
  <2>4. n = 0
    BY <1>2, <1>6, <2>1, <2>3
  <2> QED
    BY <1>5, <1>7, <2>4, NoElements
<1> QED
  BY <1>8, <1>9, <1>10

\* The last element of a list comes first in the text.
LEMMA SeparatedLast ==
  ASSUME NEW list \in Seq(Nodes), list # <<>>, NEW x \in Nodes
  PROVE  Separated(list \o <<x>>) = <<x, Leaf("comma")>> \o Separated(list)
<1>1. PICK m \in Nat : m = Len(list) /\ m >= 1
  OBVIOUS
<1>2. PICK l : l = list \o <<x>>
  OBVIOUS
<1>3. l \in Seq(Nodes) /\ l # <<>> /\ Len(l) = m + 1 /\ l[m + 1] = x /\ \A n \in 1 .. m : l[n] = list[n]
  BY <1>1, <1>2
<1>4. PICK c \in Nodes : c = Leaf("comma")
  BY LeafNode DEF Punctuation
<1>5. PICK v \in Seq(Nodes) : v = Separated(list) /\ Len(v) = 2 * m - 1
  BY <1>1, SeparatedType
<1>6. PICK w \in Seq(Nodes) : w = Separated(l) /\ Len(w) = 2 * (m + 1) - 1
  BY <1>3, SeparatedType
<1>7. \A n \in 1 .. 2 * m - 1 : v[n] = IF n % 2 = 0 THEN c ELSE list[m - n \div 2]
  <2>1. v = [n \in 1 .. 2 * m - 1 |-> IF n % 2 = 0 THEN c ELSE list[m - n \div 2]]
    BY <1>1, <1>4, <1>5, Zenon DEF Separated
  <2> QED
    BY <2>1, Zenon
<1>8. \A n \in 1 .. 2 * (m + 1) - 1 : w[n] = IF n % 2 = 0 THEN c ELSE l[m + 1 - n \div 2]
  <2>1. w = [n \in 1 .. 2 * (m + 1) - 1 |-> IF n % 2 = 0 THEN c ELSE l[m + 1 - n \div 2]]
    <3>1. w = [n \in 1 .. 2 * Len(l) - 1 |-> IF n % 2 = 0 THEN c ELSE l[Len(l) - n \div 2]]
      BY <1>4, <1>6, Zenon DEF Separated
    <3>2. Len(l) = m + 1
      BY <1>3
    <3> QED
      BY <3>1, <3>2
  <2> QED
    BY <2>1, Zenon
<1>9. PICK o \in Seq(Nodes) : o = <<x, c>> /\ Len(o) = 2 /\ o[1] = x /\ o[2] = c
  <2>1. <<x, c>> \in Seq(Nodes) /\ Len(<<x, c>>) = 2 /\ <<x, c>>[1] = x /\ <<x, c>>[2] = c
    BY <1>4
  <2> QED
    BY <2>1
<1>10. PICK u \in Seq(Nodes) : u = o \o v
  <2>1. o \o v \in Seq(Nodes)
    OBVIOUS
  <2> QED
    BY <2>1
<1>11. PICK d \in Nat : d = 2 * m - 1
  <2>1. 2 * m - 1 \in Nat
    BY <1>1
  <2> QED
    BY <2>1
<1>12. JoinShape(u, o, v, 2, d)
  <2>1. 2 \in Nat /\ 2 = Len(o) /\ d = Len(v)
    BY <1>5, <1>9, <1>11
  <2> QED
    BY <1>10, <2>1, JoinedAt
<1>13. ASSUME NEW n \in 1 .. 2 + d PROVE w[n] = u[n]
  <2>1. n \in 1 .. 2 * (m + 1) - 1
    BY <1>11
  <2>2. CASE n = 1
    <3>1. n % 2 # 0 /\ m + 1 - n \div 2 = m + 1
      BY <2>2
    <3>2. w[n] = l[m + 1]
      BY <1>8, <2>1, <3>1
    <3>3. u[n] = o[1]
      BY <1>12, <2>2 DEF JoinShape
    <3> QED
      BY <1>3, <1>9, <3>2, <3>3
  <2>3. CASE n = 2
    <3>1. n % 2 = 0
      BY <2>3
    <3>2. w[n] = c
      BY <1>8, <2>1, <3>1
    <3>3. u[n] = o[2]
      BY <1>12, <2>3 DEF JoinShape
    <3> QED
      BY <1>9, <3>2, <3>3
  <2>4. CASE n > 2
    <3>1. PICK r \in 1 .. 2 * m - 1 : n = r + 2
      <4>1. n - 2 \in 1 .. 2 * m - 1 /\ n = (n - 2) + 2
        BY <1>11, <2>4
      <4> QED
        BY <4>1
    <3>2. u[n] = v[r]
      <4>1. ~(n <= 2) /\ n - 2 = r
        BY <2>4, <3>1
      <4> QED
        BY <1>12, <4>1 DEF JoinShape
    <3>3. n % 2 = r % 2 /\ n \div 2 = r \div 2 + 1
      BY <3>1
    <3>4. CASE r % 2 = 0
      BY <1>7, <1>8, <2>1, <3>1, <3>2, <3>3, <3>4
    <3>5. CASE r % 2 # 0
      <4>1. w[n] = l[m + 1 - n \div 2] /\ v[r] = list[m - r \div 2]
        BY <1>7, <1>8, <2>1, <3>1, <3>3, <3>5
      <4>2. PICK j \in 1 .. m : j = m - r \div 2
        <5>1. m - r \div 2 \in 1 .. m
          BY <1>1, <3>1
        <5> QED
          BY <5>1
      <4>3. m + 1 - n \div 2 = j
        BY <3>3, <4>2
      <4> QED
        BY <1>3, <3>2, <4>1, <4>2, <4>3
    <3> QED
      BY <3>4, <3>5
  <2> QED
    BY <2>2, <2>3, <2>4
<1>14. w = u
  <2>1. Len(w) = 2 + d /\ Len(u) = 2 + d
    BY <1>1, <1>6, <1>11, <1>12 DEF JoinShape
  <2> QED
    BY <1>13, <2>1, SameElements
<1> QED
  BY <1>2, <1>4, <1>5, <1>6, <1>9, <1>10, <1>14

-----------------------------------------------------------------------------
(* What the calls of the descent wait for in a well-formed file *)

\* What is behind an element of a list: the elements still to come, last one
\* first, and what is behind the list.
Rest(pre, q) == IF pre = <<>> THEN q ELSE <<Leaf("comma")>> \o (Separated(pre) \o q)

\* A call that is to make the node "z", with "q" behind it, waits for one that
\* is to make "y", with "r" behind it.
Passes(f, z, q, y, r) ==
  \/ /\ f.rule \in ListKinds /\ z.kind = f.rule
     /\ \E pre \in Seq(Nodes) : z.sub = pre \o (<<y>> \o f.got) /\ r = Rest(pre, q)
  \/ /\ f.rule = "entry" /\ z.kind = "entry"
     /\ y = Node("property_list", "", z.sub) /\ r = <<Leaf("rbrace")>> \o q
  \/ f.rule = "property" /\ z = Node("property", f.got[1].text, <<y>>) /\ r = q
  \/ f.rule = "value" /\ y = z /\ z.kind \in ArrayKinds /\ r = q
  \/ f.rule = "array" /\ y = z /\ z.kind \in ArrayKinds /\ r = <<Leaf("rbracket")>> \o q

Goals == [node : Nodes, rest : Seq(Nodes)]

Goal(z, q) == [node |-> z, rest |-> q]

Aims(tree, s, h, n) ==
  /\ h \in Seq(Goals) /\ Len(h) = n + 1 /\ n = Len(s)
  /\ h[1] = Goal(Whole(tree), <<>>)
  /\ \A i \in 1 .. n : Passes(s[i], h[i].node, h[i].rest, h[i + 1].node, h[i + 1].rest)

\* With the calls "s" waiting, the next one is to make "z".
Waits(tree, s, z, q) == \E h, n : Aims(tree, s, h, n) /\ h[n + 1] = Goal(z, q)

LEMMA WaitsNone ==
  ASSUME NEW tree, Whole(tree) \in Nodes
  PROVE  /\ Waits(tree, <<>>, Whole(tree), <<>>)
         /\ \A z, q : Waits(tree, <<>>, z, q) => z = Whole(tree) /\ q = <<>>
<1>1. PICK g : g = Goal(Whole(tree), <<>>)
  OBVIOUS
<1>2. g \in Goals
  <2>1. <<>> \in Seq(Nodes)
    OBVIOUS
  <2> QED
    BY <1>1, <2>1 DEF Goal, Goals
<1>3. Aims(tree, <<>>, <<g>>, 0) /\ <<g>>[1] = g
  <2>1. <<g>> \in Seq(Goals) /\ Len(<<g>>) = 1 /\ <<g>>[1] = g
    BY <1>2
  <2>2. Len(<<>>) = 0 /\ 0 + 1 = 1 /\ 1 .. 0 = {}
    OBVIOUS
  <2> QED
    BY <1>1, <2>1, <2>2 DEF Aims
<1>4. Waits(tree, <<>>, Whole(tree), <<>>)
  <2>1. 0 + 1 = 1
    OBVIOUS
  <2> QED
    BY <1>1, <1>3, <2>1 DEF Waits
<1>5. ASSUME NEW z, NEW q, Waits(tree, <<>>, z, q)
      PROVE  z = Whole(tree) /\ q = <<>>
  <2>1. PICK h, n : Aims(tree, <<>>, h, n) /\ h[n + 1] = Goal(z, q)
    BY <1>5 DEF Waits
  <2>2. n + 1 = 1
    BY <2>1 DEF Aims
  <2>3. Goal(z, q) = Goal(Whole(tree), <<>>)
    BY <2>1, <2>2 DEF Aims
  <2> QED
    BY <2>3 DEF Goal
<1> QED
  BY <1>4, <1>5

\* One call more waits.
LEMMA WaitsPush ==
  ASSUME NEW tree, NEW s \in Seq(Frames), NEW z, NEW q, Waits(tree, s, z, q), NEW f \in Frames,
         NEW y \in Nodes, NEW r \in Seq(Nodes), Passes(f, z, q, y, r)
  PROVE  Waits(tree, Append(s, f), y, r)
<1>1. PICK h, m : Aims(tree, s, h, m) /\ h[m + 1] = Goal(z, q)
  BY DEF Waits
<1>2. PICK n \in Nat : n = Len(s)
  OBVIOUS
<1>3. /\ n = m /\ h \in Seq(Goals) /\ Len(h) = n + 1 /\ h[1] = Goal(Whole(tree), <<>>)
      /\ \A i \in 1 .. n : Passes(s[i], h[i].node, h[i].rest, h[i + 1].node, h[i + 1].rest)
  BY <1>1, <1>2 DEF Aims
<1>4. PICK g \in Goals : g = Goal(y, r)
  <2>1. Goal(y, r) \in Goals
    BY DEF Goal, Goals
  <2> QED
    BY <2>1
<1>5. PICK k : k = Append(h, g)
  OBVIOUS
<1>6. /\ k \in Seq(Goals) /\ Len(k) = (n + 1) + 1 /\ k[(n + 1) + 1] = g
      /\ \A i \in 1 .. n + 1 : k[i] = h[i]
  BY <1>3, <1>4, <1>5
<1>7. PICK t : t = Append(s, f)
  OBVIOUS
<1>8. Len(t) = n + 1 /\ t[n + 1] = f /\ \A i \in 1 .. n : t[i] = s[i]
  BY <1>2, <1>7
<1>9. ASSUME NEW i \in 1 .. n + 1
      PROVE  Passes(t[i], k[i].node, k[i].rest, k[i + 1].node, k[i + 1].rest)
  <2>1. CASE i = n + 1
    <3>1. k[i] = Goal(z, q) /\ k[i + 1] = Goal(y, r) /\ t[i] = f
      BY <1>1, <1>3, <1>4, <1>6, <1>8, <2>1
    <3>2. k[i].node = z /\ k[i].rest = q /\ k[i + 1].node = y /\ k[i + 1].rest = r
      BY <3>1 DEF Goal
    <3> QED
      BY <3>1, <3>2, Zenon
  <2>2. CASE i # n + 1
    <3>1. i \in 1 .. n /\ i + 1 \in 1 .. n + 1
      BY <2>2
    <3>2. k[i] = h[i] /\ k[i + 1] = h[i + 1] /\ t[i] = s[i]
      BY <1>6, <1>8, <3>1
    <3> QED
      BY <1>3, <3>1, <3>2, Zenon
  <2> QED
    BY <2>1, <2>2
<1>10. k[1] = Goal(Whole(tree), <<>>)
  <2>1. 1 \in 1 .. n + 1
    OBVIOUS
  <2> QED
    BY <1>3, <1>6, <2>1
<1>11. Aims(tree, t, k, n + 1)
  BY <1>6, <1>8, <1>9, <1>10, Zenon DEF Aims
<1>12. k[(n + 1) + 1] = Goal(y, r)
  BY <1>4, <1>6
<1> QED
  BY <1>7, <1>11, <1>12 DEF Waits

\* The last call that waits, and what it waits for.
Caller(tree, s, f, z, q, y, r) ==
  z \in Nodes /\ q \in Seq(Nodes) /\ Waits(tree, s, z, q) /\ Passes(f, z, q, y, r)

LEMMA WaitsPop ==
  ASSUME NEW tree, NEW s \in Seq(Frames), s # <<>>, NEW y, NEW r, Waits(tree, s, y, r)
  PROVE  \E z, q : Caller(tree, Front(s), Last(s), z, q, y, r)
<1>1. PICK h, m : Aims(tree, s, h, m) /\ h[m + 1] = Goal(y, r)
  BY DEF Waits
<1>2. PICK p : p = Front(s)
  OBVIOUS
<1>3. PICK f : f = Last(s)
  OBVIOUS
<1>4. p \in Seq(Frames) /\ f \in Frames /\ s = Append(p, f)
  BY <1>2, <1>3, LastFront
<1>5. PICK n \in Nat : n = Len(p)
  BY <1>4
<1>6. Len(s) = n + 1 /\ s[n + 1] = f /\ \A i \in 1 .. n : s[i] = p[i]
  BY <1>4, <1>5
<1>7. /\ m = n + 1 /\ h \in Seq(Goals) /\ Len(h) = (n + 1) + 1 /\ h[1] = Goal(Whole(tree), <<>>)
      /\ \A i \in 1 .. n + 1 : Passes(s[i], h[i].node, h[i].rest, h[i + 1].node, h[i + 1].rest)
  BY <1>1, <1>6 DEF Aims
<1>8. PICK g \in Goals : g = h[n + 1]
  BY <1>7
<1>9. g.node \in Nodes /\ g.rest \in Seq(Nodes) /\ g = Goal(g.node, g.rest)
  BY DEF Goals, Goal
<1>10. PICK k : k = SubSeq(h, 1, n + 1)
  OBVIOUS
<1>11. k \in Seq(Goals) /\ Len(k) = n + 1 /\ \A i \in 1 .. n + 1 : k[i] = h[i]
  BY <1>7, <1>10
<1>12. ASSUME NEW i \in 1 .. n
       PROVE  Passes(p[i], k[i].node, k[i].rest, k[i + 1].node, k[i + 1].rest)
  <2>1. i \in 1 .. n + 1 /\ i + 1 \in 1 .. n + 1
    OBVIOUS
  <2>2. k[i] = h[i] /\ k[i + 1] = h[i + 1] /\ p[i] = s[i]
    BY <1>6, <1>11, <2>1
  <2> QED
    BY <1>7, <2>1, <2>2, Zenon
<1>13. k[1] = Goal(Whole(tree), <<>>) /\ k[n + 1] = Goal(g.node, g.rest)
  <2>1. 1 \in 1 .. n + 1 /\ n + 1 \in 1 .. n + 1
    OBVIOUS
  <2> QED
    BY <1>7, <1>8, <1>9, <1>11, <2>1
<1>14. Aims(tree, p, k, n)
  BY <1>5, <1>11, <1>12, <1>13, Zenon DEF Aims
<1>15. Waits(tree, p, g.node, g.rest)
  BY <1>13, <1>14 DEF Waits
<1>16. Passes(f, g.node, g.rest, y, r)
  <2>1. n + 1 \in 1 .. n + 1
    OBVIOUS
  <2>2. h[(n + 1) + 1].node = y /\ h[(n + 1) + 1].rest = r
    BY <1>1, <1>7 DEF Goal
  <2>3. Passes(s[n + 1], h[n + 1].node, h[n + 1].rest, h[(n + 1) + 1].node, h[(n + 1) + 1].rest)
    BY <1>7, <2>1
  <2> QED
    BY <1>6, <1>8, <2>2, <2>3
<1> QED
  BY <1>2, <1>3, <1>9, <1>15, <1>16 DEF Caller

\* What a call that is to make "z" needs to find.
Due(rule, z, q) ==
  IF rule \in {"value", "array"} /\ z.kind \in ListKinds
  THEN <<Leaf("lbracket")>> \o (<<z>> \o (<<Leaf("rbracket")>> \o q))
  ELSE <<z>> \o q

Needs(f, z, q, b) ==
  IF f.rule \in ListKinds
  THEN \E todo \in Seq(Nodes) :
         todo # <<>> /\ z.sub = todo \o f.got /\ Remains(Separated(todo) \o q, b)
  ELSE Remains(Due(f.rule, z, q), b)

\* The state of the descent in a well-formed file: a call that is about to
\* begin is to make a node that is next; what was returned is what was to be made.
Makes(tree, s, f, l, z, q) ==
  /\ z \in Nodes /\ q \in Seq(Nodes)
  /\ Waits(tree, s, z, q) /\ z.kind \in Gives[f.rule] /\ Needs(f, z, q, Behind(l))

Made(tree, s, l, z, q) ==
  z \in Nodes /\ q \in Seq(Nodes) /\ Waits(tree, s, z, q) /\ Remains(q, Behind(l))

Follows(tree, s, r, l) ==
  \/ r = Pending /\ \E z, q : Makes(tree, Front(s), Last(s), l, z, q)
  \/ \E z, q : r = Parsed(z) /\ Made(tree, s, l, z, q)

LEMMA FollowsCall ==
  ASSUME NEW tree, NEW s \in Seq(Frames), NEW z, NEW q, Waits(tree, s, z, q), NEW f \in Frames,
         NEW y \in Nodes, NEW r \in Seq(Nodes), Passes(f, z, q, y, r),
         NEW rule \in Rules, y.kind \in Gives[rule], NEW l, Needs(Frame(rule), y, r, Behind(l))
  PROVE  Follows(tree, s \o <<f, Frame(rule)>>, Pending, l)
<1>1. PICK p : p = Append(s, f)
  OBVIOUS
<1>2. PICK c : c = Frame(rule)
  OBVIOUS
<1>3. c \in Frames /\ c.rule = rule
  BY <1>2 DEF Frames, Frame
<1>4. PICK t : t = Append(p, c)
  OBVIOUS
<1>5. s \o <<f, c>> = t
  BY <1>1, <1>3, <1>4
<1>6. p \in Seq(Frames)
  BY <1>1
<1>7. Front(t) = p /\ Last(t) = c
  BY <1>4, <1>6, FrontLast
<1>8. Waits(tree, p, y, r)
  BY <1>1, WaitsPush
<1>9. Makes(tree, p, c, l, y, r)
  BY <1>2, <1>3, <1>8, Zenon DEF Makes
<1> QED
  BY <1>2, <1>5, <1>7, <1>9 DEF Follows

LEMMA FollowsReturn ==
  ASSUME NEW tree, NEW s, NEW z \in Nodes, NEW q \in Seq(Nodes), Waits(tree, s, z, q),
         NEW l, Remains(q, Behind(l))
  PROVE  Follows(tree, s, Parsed(z), l)
<1>1. Made(tree, s, l, z, q)
  BY DEF Made
<1> QED
  BY <1>1 DEF Follows

LEMMA NeedsList ==
  ASSUME NEW rule \in ListKinds, NEW y \in Nodes, y.kind = rule, NEW r \in Seq(Nodes), NEW b,
         Remains(Separated(y.sub) \o r, b)
  PROVE  Needs(Frame(rule), y, r, b)
<1>1. PICK c : c = Frame(rule)
  OBVIOUS
<1>2. c.rule = rule /\ c.got = <<>>
  BY <1>1 DEF Frame
<1>3. y.sub \in Seq(Nodes) /\ y.sub # <<>>
  <2>1. rule \notin LeafKinds
    BY DEF ListKinds, LeafKinds, Punctuation
  <2> QED
    BY <2>1, NodeParts DEF Shaped
<1>4. y.sub = y.sub \o c.got
  BY <1>2, <1>3, JoinNothing
<1> QED
  BY <1>1, <1>2, <1>3, <1>4 DEF Needs

LEMMA NeedsOther ==
  ASSUME NEW rule, rule \notin ListKinds, NEW y, NEW r, NEW b, Remains(Due(rule, y, r), b)
  PROVE  Needs(Frame(rule), y, r, b)
<1>1. Frame(rule).rule = rule
  BY DEF Frame
<1> QED
  BY <1>1 DEF Needs

LEMMA RestType == ASSUME NEW pre \in Seq(Nodes), NEW q \in Seq(Nodes) PROVE Rest(pre, q) \in Seq(Nodes)
<1>1. CASE pre = <<>>
  BY <1>1 DEF Rest
<1>2. CASE pre # <<>>
  <2>1. PICK w \in Seq(Nodes) : w = Separated(pre)
    BY <1>2, SeparatedType
  <2>2. PICK c \in Nodes : c = Leaf("comma")
    BY LeafNode DEF Punctuation
  <2>3. <<c>> \o (w \o q) \in Seq(Nodes)
    OBVIOUS
  <2> QED
    BY <1>2, <2>1, <2>2, <2>3 DEF Rest
<1> QED
  BY <1>1, <1>2

\* What a list has to come, with what is behind it: the next element and the rest.
Splits(todo, q, pre, y) ==
  /\ pre \in Seq(Nodes) /\ y \in Nodes
  /\ todo = pre \o <<y>>
  /\ Separated(todo) \o q = <<y>> \o Rest(pre, q)

LEMMA NextElement ==
  ASSUME NEW todo \in Seq(Nodes), todo # <<>>, NEW q \in Seq(Nodes)
  PROVE  \E pre, y : Splits(todo, q, pre, y)
<1>1. PICK pre \in Seq(Nodes) : pre = Front(todo)
  BY LastFront
<1>2. PICK y \in Nodes : y = Last(todo)
  BY LastFront
<1>3. todo = pre \o <<y>>
  <2>1. todo = Append(pre, y)
    BY <1>1, <1>2, LastFront
  <2> QED
    BY <2>1
<1>4. Separated(todo) \o q = <<y>> \o Rest(pre, q)
  <2>1. CASE pre = <<>>
    <3>1. <<>> \o <<y>> = <<y>>
      OBVIOUS
    <3>2. Separated(todo) = <<y>>
      BY <1>3, <2>1, <3>1, SeparatedOne
    <3> QED
      BY <2>1, <3>2 DEF Rest
  <2>2. CASE pre # <<>>
    <3>1. PICK w \in Seq(Nodes) : w = Separated(pre)
      BY <2>2, SeparatedType
    <3>2. PICK c \in Nodes : c = Leaf("comma")
      BY LeafNode DEF Punctuation
    <3>3. Separated(todo) = <<y, c>> \o w
      BY <1>3, <2>2, <3>1, <3>2, SeparatedLast
    <3>4. (<<y, c>> \o w) \o q = <<y>> \o (<<c>> \o (w \o q))
      <4>1. PICK a \in Seq(Nodes) : a = <<y>>
        <5>1. <<y>> \in Seq(Nodes)
          OBVIOUS
        <5> QED
          BY <5>1
      <4>2. PICK d \in Seq(Nodes) : d = <<c>>
        <5>1. <<c>> \in Seq(Nodes)
          OBVIOUS
        <5> QED
          BY <5>1
      <4>3. <<y, c>> = a \o d
        BY <4>1, <4>2
      <4>4. a \o d \in Seq(Nodes) /\ w \o q \in Seq(Nodes)
        OBVIOUS
      <4>5. Associates(a \o d, w, q) /\ Associates(a, d, w \o q)
        BY <4>4, JoinSame
      <4> QED
        BY <4>1, <4>2, <4>3, <4>5, Zenon DEF Associates
    <3> QED
      BY <2>2, <3>1, <3>2, <3>3, <3>4 DEF Rest
  <2> QED
    BY <2>1, <2>2
<1> QED
  BY <1>1, <1>2, <1>3, <1>4 DEF Splits

\* The kind of an element.
LEMMA ElementKind ==
  ASSUME NEW z \in Nodes, NEW list \in ListKinds, z.kind = list,
         NEW pre \in Seq(Nodes), NEW y \in Nodes, NEW got \in Seq(Nodes), z.sub = pre \o (<<y>> \o got)
  PROVE  y.kind \in Below[list]
<1>1. list \notin LeafKinds
  BY DEF ListKinds, LeafKinds, Punctuation
<1>2. z.sub \in Seq(Nodes) /\ \A n \in DOMAIN z.sub : z.sub[n].kind \in Below[list]
  BY <1>1, NodeParts DEF Shaped
<1>3. PICK n \in Nat : n = Len(pre)
  OBVIOUS
<1>4. PICK v \in Seq(Nodes) : v = <<y>> \o got
  <2>1. <<y>> \o got \in Seq(Nodes)
    OBVIOUS
  <2> QED
    BY <2>1
<1>5. PICK m \in Nat : m = Len(v)
  OBVIOUS
<1>6. v[1] = y /\ m >= 1
  BY <1>4, <1>5
<1>7. JoinShape(pre \o v, pre, v, n, m)
  BY <1>3, <1>5, JoinedAt
<1>8. Len(z.sub) = n + m /\ z.sub[n + 1] = v[1]
  <2>1. n + 1 \in 1 .. n + m /\ ~(n + 1 <= n) /\ (n + 1) - n = 1
    BY <1>6
  <2> QED
    BY <1>4, <1>7, <2>1 DEF JoinShape
<1>9. n + 1 \in DOMAIN z.sub
  BY <1>2, <1>6, <1>8
<1> QED
  BY <1>2, <1>6, <1>8, <1>9

\* Behind a list no comma comes.
LEMMA NoComma ==
  ASSUME FileOK, NEW tree, Whole(tree) \in Nodes, NEW s, CallersOK(s), NEW list \in ListKinds, Linked(s, list),
         NEW z, NEW q \in Seq(Nodes), Waits(tree, s, z, q), NEW l, LexOK(l), Remains(q, Behind(l))
  PROVE  ~Has(l, "comma")
<1>1. CASE s = <<>>
  <2>1. q = <<>>
    BY <1>1, WaitsNone
  <2>2. Look(l).next_token = NoToken
    BY <2>1, LookRemains
  <2>3. NoToken.type # "comma"
    BY DEF NoToken, Token
  <2> QED
    BY <2>2, <2>3 DEF Has, NextType
<1>2. CASE s # <<>>
  <2>1. PICK f : f = Last(s)
    OBVIOUS
  <2>2. s \in Seq(Frames) /\ f \in Frames
    BY <1>2, <2>1, CallersFront
  <2>3. f.rule \in {"entry", "array"}
    BY <1>2, <2>1 DEF Linked, Calls, ListKinds
  <2>4. PICK y, r : Caller(tree, Front(s), f, y, r, z, q)
    BY <1>2, <2>1, <2>2, WaitsPop
  <2>5. r \in Seq(Nodes) /\ Passes(f, y, r, z, q)
    BY <2>4 DEF Caller
  <2>6. PICK kind \in {"rbrace", "rbracket"} : q = <<Leaf(kind)>> \o r
    <3>1. f.rule \notin ListKinds /\ f.rule # "property" /\ f.rule # "value"
      BY <2>3 DEF ListKinds
    <3>2. q = <<Leaf("rbrace")>> \o r \/ q = <<Leaf("rbracket")>> \o r
      BY <2>5, <3>1, Zenon DEF Passes
    <3> QED
      BY <3>2
  <2>7. PICK x \in Leaves : x = Leaf(kind)
    <3>1. kind \in Punctuation
      BY DEF Punctuation
    <3>2. Leaf(kind) \in Leaves
      BY <3>1, LeafLeaf
    <3> QED
      BY <3>2
  <2>8. Look(l).next_token = Token(x.kind, x.text)
    BY <2>5, <2>6, <2>7, RemainsToken
  <2>9. x.kind = kind
    BY <2>7 DEF Leaf, Node
  <2>10. Look(l).next_token.type # "comma"
    BY <2>8, <2>9 DEF Token
  <2> QED
    BY <2>10 DEF Has, NextType
<1> QED
  BY <1>1, <1>2

\* What a list does behind an element.
GoesOn(z, q, l, list, pre, got) ==
  IF Has(l, "comma")
  THEN pre # <<>> /\ LexOK(Take(l)) /\ Remains(Separated(pre) \o q, Behind(Take(l)))
  ELSE z = Node(list, "", got) /\ LexOK(Look(l)) /\ Remains(q, Behind(Look(l)))

LEMMA AfterElement ==
  ASSUME FileOK, NEW tree, Whole(tree) \in Nodes, NEW s, CallersOK(s), NEW list \in ListKinds, Linked(s, list),
         NEW z \in Nodes, z.kind = list, NEW q \in Seq(Nodes), Waits(tree, s, z, q),
         NEW pre \in Seq(Nodes), NEW got \in Seq(Nodes), z.sub = pre \o got,
         NEW l, LexOK(l), Remains(Rest(pre, q), Behind(l))
  PROVE  GoesOn(z, q, l, list, pre, got)
<1>1. CASE pre = <<>>
  <2>1. Remains(q, Behind(l))
    BY <1>1 DEF Rest
  <2>2. ~Has(l, "comma")
    BY <2>1, NoComma
  <2>3. z = Node(list, "", got)
    <3>1. z.text = "" /\ z = Node(z.kind, z.text, z.sub)
      BY NodeParts DEF Named
    <3>2. z.sub = got
      BY <1>1, JoinNothing
    <3> QED
      BY <3>1, <3>2
  <2>4. LexOK(Look(l)) /\ Remains(q, Behind(Look(l)))
    BY <2>1, LookRemains
  <2> QED
    BY <2>2, <2>3, <2>4 DEF GoesOn
<1>2. CASE pre # <<>>
  <2>1. PICK w \in Seq(Nodes) : w = Separated(pre)
    BY <1>2, SeparatedType
  <2>2. PICK v \in Seq(Nodes) : v = w \o q
    <3>1. w \o q \in Seq(Nodes)
      OBVIOUS
    <3> QED
      BY <3>1
  <2>3. PICK c \in Leaves : c = Leaf("comma")
    <3>1. "comma" \in Punctuation
      BY DEF Punctuation
    <3>2. Leaf("comma") \in Leaves
      BY <3>1, LeafLeaf
    <3> QED
      BY <3>2
  <2>4. Remains(<<c>> \o v, Behind(l))
    BY <1>2, <2>1, <2>2, <2>3 DEF Rest
  <2>5. Look(l).next_token = Token(c.kind, c.text) /\ LexOK(Take(l)) /\ Remains(v, Behind(Take(l)))
    BY <2>4, RemainsToken
  <2>6. Has(l, "comma")
    <3>1. c.kind = "comma"
      BY <2>3 DEF Leaf, Node
    <3> QED
      BY <2>5, <3>1 DEF Has, NextType, Token
  <2> QED
    BY <1>2, <2>1, <2>2, <2>5, <2>6 DEF GoesOn
<1> QED
  BY <1>1, <1>2

-----------------------------------------------------------------------------
(* The functions of the descent in a well-formed file *)

WellRead(tree) == FileOK /\ Descent /\ Whole(tree) \in Nodes /\ Follows(tree, stack, result, lexer)

StillFollows(tree) == Follows(tree, stack', result', lexer')

\* A call that begins, and one that is returned to.
LEMMA MakesAt ==
  ASSUME NEW tree, WellRead(tree), result = Pending
  PROVE  /\ LexOK(lexer)
         /\ CallersOK(Front(stack)) /\ Front(stack) \in Seq(Frames) /\ Linked(Front(stack), Last(stack).rule)
         /\ Last(stack) \in Frames
         /\ \E z, q : Makes(tree, Front(stack), Last(stack), lexer, z, q)
<1>1. LexOK(lexer) /\ PendingAt(stack, lexer)
  BY AtPending DEF WellRead, Descent
<1>2. \E z, q : Makes(tree, Front(stack), Last(stack), lexer, z, q)
  BY Results DEF WellRead, Follows
<1> QED
  BY <1>1, <1>2 DEF PendingAt, CallersOK

Resumes(tree, s, f, l, x, z, q, r) ==
  /\ x \in Nodes /\ r \in Seq(Nodes) /\ Remains(r, Behind(l))
  /\ z \in Nodes /\ q \in Seq(Nodes) /\ Waits(tree, s, z, q) /\ Passes(f, z, q, x, r)

LEMMA MadeAt ==
  ASSUME NEW tree, WellRead(tree), result # Pending, stack # <<>>
  PROVE  /\ LexOK(lexer)
         /\ CallersOK(Front(stack)) /\ Front(stack) \in Seq(Frames) /\ Linked(Front(stack), Last(stack).rule)
         /\ Last(stack) \in Frames
         /\ result = Parsed(result.tree) /\ result # Failed
         /\ \E z, q, r : Resumes(tree, Front(stack), Last(stack), lexer, result.tree, z, q, r)
<1>1. PICK x, r : result = Parsed(x) /\ Made(tree, stack, lexer, x, r)
  BY DEF WellRead, Follows
<1>2. result # Failed /\ result.tree = x
  BY <1>1, Results
<1>3. /\ LexOK(lexer) /\ CallersOK(Front(stack)) /\ Linked(Front(stack), Last(stack).rule)
      /\ Last(stack) \in Frames
  BY <1>2, AtParsed DEF WellRead, Descent, ResumedAt
<1>4. stack \in Seq(Frames)
  <2>1. stack = Append(Front(stack), Last(stack))
    <3>1. CallersOK(stack)
      BY <1>1, <1>2, Results DEF WellRead, Descent, DescentAt, ParsedAt
    <3> QED
      BY <3>1, CallersFront
  <2>2. Front(stack) \in Seq(Frames)
    BY <1>3 DEF CallersOK
  <2> QED
    BY <1>3, <2>1, <2>2
<1>5. PICK z, q : Caller(tree, Front(stack), Last(stack), z, q, x, r)
  BY <1>1, <1>4, WaitsPop DEF Made
<1>6. Resumes(tree, Front(stack), Last(stack), lexer, x, z, q, r)
  BY <1>1, <1>5, Zenon DEF Caller, Made, Resumes
<1> QED
  BY <1>1, <1>2, <1>3, <1>6 DEF CallersOK

\* A list that has elements to come calls for the next one.
LEMMA ListFollows ==
  ASSUME NEW tree, NEW s \in Seq(Frames), NEW list \in DOMAIN ElementOf, NEW g \in Frames, g.rule = list,
         NEW z \in Nodes, z.kind = list, NEW q \in Seq(Nodes), Waits(tree, s, z, q),
         NEW todo \in Seq(Nodes), todo # <<>>, z.sub = todo \o g.got,
         NEW l, Remains(Separated(todo) \o q, Behind(l))
  PROVE  Follows(tree, s \o <<g, Frame(ElementOf[list])>>, Pending, l)
<1>1. PICK element : element = ElementOf[list]
  OBVIOUS
<1>2. /\ list \in ListKinds /\ element \in Rules /\ element \notin ListKinds
      /\ element \notin {"value", "array"} /\ Below[list] = {element} /\ Gives[element] = {element}
  BY <1>1 DEF ElementOf, ListKinds, Rules, Below, Gives
<1>3. PICK pre, y : Splits(todo, q, pre, y)
  BY NextElement
<1>4. pre \in Seq(Nodes) /\ y \in Nodes /\ g.got \in Seq(Nodes)
  BY <1>3 DEF Splits, Frames
<1>5. z.sub = pre \o (<<y>> \o g.got)
  <2>1. PICK o \in Seq(Nodes) : o = <<y>>
    <3>1. <<y>> \in Seq(Nodes)
      BY <1>4
    <3> QED
      BY <3>1
  <2>2. Associates(pre, o, g.got)
    BY <1>4, JoinSame
  <2> QED
    BY <1>3, <2>1, <2>2, Zenon DEF Splits, Associates
<1>6. y.kind = element
  <2>1. y.kind \in Below[list]
    BY <1>2, <1>4, <1>5, ElementKind
  <2> QED
    BY <1>2, <2>1
<1>7. PICK r \in Seq(Nodes) : r = Rest(pre, q)
  BY <1>4, RestType
<1>8. Passes(g, z, q, y, r)
  BY <1>2, <1>4, <1>5, <1>7, Zenon DEF Passes
<1>9. Needs(Frame(element), y, r, Behind(l))
  <2>1. Remains(<<y>> \o r, Behind(l))
    BY <1>3, <1>7 DEF Splits
  <2>2. Due(element, y, r) = <<y>> \o r
    BY <1>2 DEF Due
  <2>3. Remains(Due(element, y, r), Behind(l))
    BY <2>1, <2>2
  <2> QED
    BY <1>2, <2>3, NeedsOther
<1>10. y.kind \in Gives[element]
  BY <1>2, <1>6
<1>11. Follows(tree, s \o <<g, Frame(element)>>, Pending, l)
  BY <1>2, <1>4, <1>7, <1>8, <1>9, <1>10, FollowsCall
<1> QED
  BY <1>1, <1>11

LEMMA ListKeeps ==
  ASSUME NEW tree, WellRead(tree), NEW list \in DOMAIN ElementOf, List(list, ElementOf[list])
  PROVE  StillFollows(tree)
<1>1. PICK element : element = ElementOf[list]
  OBVIOUS
<1>2. list \in ListKinds /\ list \in Rules /\ list # "property" /\ Gives[list] = {list}
  BY DEF ElementOf, ListKinds, Rules, Gives
<1>3. In(list) /\ stack # <<>> /\ Top.rule = list
  BY DEF List, In
<1>4. PICK p : p = Front(stack)
  OBVIOUS
<1>5. PICK f : f = Last(stack)
  OBVIOUS
<1>6. f = Top /\ f.rule = list
  BY <1>3, <1>5 DEF Top
<1>7. CASE result = Pending
  <2>1. p \in Seq(Frames) /\ f \in Frames
    BY <1>4, <1>5, <1>7, MakesAt
  <2>2. PICK z, q : Makes(tree, p, f, lexer, z, q)
    BY <1>4, <1>5, <1>7, MakesAt
  <2>3. z \in Nodes /\ q \in Seq(Nodes) /\ Waits(tree, p, z, q) /\ z.kind = list
    BY <1>2, <1>6, <2>2 DEF Makes
  <2>4. PICK todo \in Seq(Nodes) :
          todo # <<>> /\ z.sub = todo \o f.got /\ Remains(Separated(todo) \o q, Behind(lexer))
    BY <1>2, <1>6, <2>2 DEF Makes, Needs
  <2>5. Call(element, f.got, lexer)
    BY <1>1, <1>6, <1>7, Results, Zenon DEF List
  <2>6. [f EXCEPT !.got = f.got] = f
    BY <2>1 DEF Frames
  <2>7. stack' = p \o <<f, Frame(element)>> /\ result' = Pending /\ lexer' = lexer
    BY <1>4, <1>6, <2>5, <2>6, Zenon DEF Call
  <2>8. Follows(tree, p \o <<f, Frame(ElementOf[list])>>, Pending, lexer)
    BY <1>6, <2>1, <2>3, <2>4, ListFollows
  <2> QED
    BY <1>1, <2>7, <2>8 DEF StillFollows
<1>8. CASE result # Pending
  <2>1. PICK x : x = result.tree
    OBVIOUS
  <2>2. LexOK(lexer) /\ CallersOK(p) /\ p \in Seq(Frames) /\ Linked(p, list) /\ f \in Frames /\ result # Failed
    BY <1>3, <1>4, <1>5, <1>6, <1>8, MadeAt
  <2>3. PICK z, q, r : Resumes(tree, p, f, lexer, x, z, q, r)
    BY <1>3, <1>4, <1>5, <1>8, <2>1, MadeAt
  <2>4. /\ x \in Nodes /\ Remains(r, Behind(lexer)) /\ z \in Nodes /\ q \in Seq(Nodes)
        /\ Waits(tree, p, z, q) /\ Passes(f, z, q, x, r)
    BY <2>3 DEF Resumes
  <2>5. list # "entry" /\ list # "value" /\ list # "array"
    BY <1>2 DEF ListKinds
  <2>6. z.kind = list
    BY <1>2, <1>6, <2>4, <2>5, Zenon DEF Passes
  <2>7. PICK pre \in Seq(Nodes) : z.sub = pre \o (<<x>> \o f.got) /\ r = Rest(pre, q)
    BY <1>2, <1>6, <2>4, <2>5, Zenon DEF Passes
  <2>8. PICK got \in Seq(Nodes) : got = <<x>> \o f.got
    <3>1. f.got \in Seq(Nodes)
      BY <2>2 DEF Frames
    <3>2. <<x>> \o f.got \in Seq(Nodes)
      BY <2>4, <3>1
    <3> QED
      BY <3>2
  <2>9. GoesOn(z, q, lexer, list, pre, got)
    <3>1. FileOK /\ Whole(tree) \in Nodes
      BY DEF WellRead
    <3>2. z.sub = pre \o got /\ Remains(Rest(pre, q), Behind(lexer))
      BY <2>4, <2>7, <2>8
    <3> QED
      BY <1>2, <2>2, <2>4, <2>6, <3>1, <3>2, AfterElement
  <2>10. CASE Has(lexer, "comma")
    <3>1. Call(element, got, Take(lexer))
      BY <1>1, <1>6, <1>8, <2>1, <2>2, <2>8, <2>10, Zenon DEF List
    <3>2. PICK g : g = [f EXCEPT !.got = got]
      OBVIOUS
    <3>3. g \in Frames /\ g.rule = list /\ g.got = got
      BY <1>6, <2>2, <2>8, <3>2 DEF Frames
    <3>4. PICK l : l = Take(lexer)
      OBVIOUS
    <3>5. stack' = p \o <<g, Frame(element)>> /\ result' = Pending /\ lexer' = l
      BY <1>4, <1>6, <3>1, <3>2, <3>4, Zenon DEF Call
    <3>6. pre # <<>> /\ Remains(Separated(pre) \o q, Behind(l))
      BY <2>9, <2>10, <3>4 DEF GoesOn
    <3>7. z.sub = pre \o g.got
      BY <2>7, <2>8, <3>3
    <3>8. Follows(tree, p \o <<g, Frame(ElementOf[list])>>, Pending, l)
      BY <2>2, <2>4, <2>6, <3>3, <3>6, <3>7, ListFollows
    <3> QED
      BY <1>1, <3>5, <3>8 DEF StillFollows
  <2>11. CASE ~Has(lexer, "comma")
    <3>1. Return(Parsed(Node(list, "", got)), Look(lexer))
      BY <1>1, <1>6, <1>8, <2>1, <2>2, <2>8, <2>11, Zenon DEF List
    <3>2. stack' = p /\ result' = Parsed(Node(list, "", got)) /\ lexer' = Look(lexer)
      BY <1>4, <3>1, Zenon DEF Return
    <3>3. z = Node(list, "", got) /\ Remains(q, Behind(Look(lexer)))
      BY <2>9, <2>11, Zenon DEF GoesOn
    <3>4. Follows(tree, p, Parsed(z), Look(lexer))
      BY <2>4, <3>3, FollowsReturn
    <3> QED
      BY <3>2, <3>3, <3>4, Zenon DEF StillFollows
  <2> QED
    BY <2>10, <2>11
<1> QED
  BY <1>7, <1>8

LEMMA TokenListKeeps ==
  ASSUME NEW tree, WellRead(tree), NEW list \in DOMAIN TokenOf, TokenList(list, TokenOf[list])
  PROVE  StillFollows(tree)
<1>1. PICK type : type = TokenOf[list]
  OBVIOUS
<1>2. /\ list \in ListKinds /\ list \in Rules /\ list # "property" /\ (\A rule : <<list, rule>> \notin Calls)
      /\ type \in LeafKinds /\ Below[list] = {type} /\ Gives[list] = {list}
  BY <1>1 DEF TokenOf, ListKinds, Rules, Calls, LeafKinds, Below, Gives
<1>3. In(list) /\ stack # <<>> /\ Top.rule = list
  BY DEF TokenList, In
<1>4. PICK p : p = Front(stack)
  OBVIOUS
<1>5. PICK f : f = Last(stack)
  OBVIOUS
<1>6. f = Top /\ f.rule = list
  BY <1>3, <1>5 DEF Top
<1>7. FileOK /\ Whole(tree) \in Nodes /\ Descent
  BY DEF WellRead
<1>8. result = Pending
  <2>1. SUFFICES ASSUME result # Pending PROVE FALSE
    OBVIOUS
  <2>2. result # Failed
    BY <1>3, <2>1, MadeAt
  <2>3. ResumedAt(p, f, result.tree, lexer)
    BY <1>3, <1>4, <1>5, <1>7, <2>1, <2>2, AtParsed DEF Descent
  <2> QED
    BY <1>2, <1>6, <2>3 DEF ResumedAt
<1>9. LexOK(lexer) /\ CallersOK(p) /\ p \in Seq(Frames) /\ Linked(p, list) /\ f \in Frames
  BY <1>4, <1>5, <1>6, <1>8, MakesAt
<1>10. PICK z, q : Makes(tree, p, f, lexer, z, q)
  BY <1>4, <1>5, <1>8, MakesAt
<1>11. z \in Nodes /\ q \in Seq(Nodes) /\ Waits(tree, p, z, q) /\ z.kind = list
  BY <1>2, <1>6, <1>10 DEF Makes
<1>12. PICK todo \in Seq(Nodes) :
         todo # <<>> /\ z.sub = todo \o f.got /\ Remains(Separated(todo) \o q, Behind(lexer))
  BY <1>2, <1>6, <1>10 DEF Makes, Needs
<1>13. PICK pre, y : Splits(todo, q, pre, y)
  BY <1>11, <1>12, NextElement
<1>14. pre \in Seq(Nodes) /\ y \in Nodes /\ f.got \in Seq(Nodes)
  BY <1>9, <1>13 DEF Splits, Frames
<1>15. PICK got \in Seq(Nodes) : got = <<y>> \o f.got
  <2>1. <<y>> \o f.got \in Seq(Nodes)
    BY <1>14
  <2> QED
    BY <2>1
<1>16. z.sub = pre \o got
  <2>1. PICK o \in Seq(Nodes) : o = <<y>>
    <3>1. <<y>> \in Seq(Nodes)
      BY <1>14
    <3> QED
      BY <3>1
  <2>2. Associates(pre, o, f.got)
    BY <1>14, JoinSame
  <2> QED
    BY <1>12, <1>13, <1>15, <2>1, <2>2, Zenon DEF Splits, Associates
<1>17. y.kind = type
  <2>1. y.kind \in Below[list]
    BY <1>2, <1>11, <1>14, <1>15, <1>16, ElementKind
  <2> QED
    BY <1>2, <2>1
<1>18. y \in Leaves /\ y = Node(type, y.text, <<>>)
  <2>1. y.sub = <<>> /\ y = Node(y.kind, y.text, y.sub) /\ y.text \in Texts
    BY <1>2, <1>14, <1>17, NodeParts DEF Shaped
  <2>2. y = Node(type, y.text, <<>>)
    BY <1>17, <2>1
  <2> QED
    BY <1>2, <2>1, <2>2 DEF Leaves
<1>19. PICK r \in Seq(Nodes) : r = Rest(pre, q)
  BY <1>11, <1>14, RestType
<1>20. PICK behind : behind = Take(lexer)
  OBVIOUS
<1>21. Look(lexer).next_token = Token(y.kind, y.text) /\ LexOK(behind) /\ Remains(r, Behind(behind))
  <2>1. Remains(<<y>> \o r, Behind(lexer))
    BY <1>12, <1>13, <1>19 DEF Splits
  <2> QED
    BY <1>7, <1>9, <1>18, <1>20, <2>1, RemainsToken
<1>22. Has(lexer, type) /\ y = Node(type, Look(lexer).next_token.text, <<>>)
  BY <1>17, <1>18, <1>21 DEF Has, NextType, Token
<1>23. GoesOn(z, q, behind, list, pre, got)
  BY <1>2, <1>7, <1>9, <1>11, <1>14, <1>16, <1>19, <1>21, AfterElement
<1>24. CASE Has(behind, "comma")
  <2>1. /\ stack' = Append(Front(stack), [Top EXCEPT !.got = got])
        /\ lexer' = Take(behind) /\ result' = result
    BY <1>1, <1>6, <1>15, <1>20, <1>22, <1>24, Zenon DEF TokenList
  <2>2. PICK g : g = [f EXCEPT !.got = got]
    OBVIOUS
  <2>3. g \in Frames /\ g.rule = list /\ g.got = got
    BY <1>6, <1>9, <2>2 DEF Frames
  <2>4. PICK l : l = Take(behind)
    OBVIOUS
  <2>5. PICK t : t = Append(p, g)
    OBVIOUS
  <2>6. stack' = t /\ lexer' = l /\ result' = Pending
    BY <1>4, <1>6, <1>8, <2>1, <2>2, <2>4, <2>5
  <2>7. Front(t) = p /\ Last(t) = g
    BY <1>9, <2>5, FrontLast
  <2>8. pre # <<>> /\ Remains(Separated(pre) \o q, Behind(l))
    BY <1>23, <1>24, <2>4 DEF GoesOn
  <2>9. Needs(g, z, q, Behind(l))
    BY <1>2, <1>14, <1>16, <2>3, <2>8 DEF Needs
  <2>10. Makes(tree, p, g, l, z, q)
    BY <1>2, <1>11, <2>3, <2>9 DEF Makes
  <2> QED
    BY <2>6, <2>7, <2>10 DEF StillFollows, Follows
<1>25. CASE ~Has(behind, "comma")
  <2>1. Return(Parsed(Node(list, "", got)), Look(behind))
    BY <1>1, <1>6, <1>15, <1>20, <1>22, <1>25, Zenon DEF TokenList
  <2>2. stack' = p /\ result' = Parsed(Node(list, "", got)) /\ lexer' = Look(behind)
    BY <1>4, <2>1, Zenon DEF Return
  <2>3. z = Node(list, "", got) /\ Remains(q, Behind(Look(behind)))
    BY <1>23, <1>25, Zenon DEF GoesOn
  <2>4. Follows(tree, p, Parsed(z), Look(behind))
    BY <1>11, <2>3, FollowsReturn
  <2> QED
    BY <2>2, <2>3, <2>4, Zenon DEF StillFollows
<1> QED
  BY <1>24, <1>25

\* An entry is a brace, its properties and a brace.
LEMMA EntryAhead ==
  ASSUME NEW z \in Nodes, z.kind = "entry", NEW q \in Seq(Nodes), NEW b, Remains(<<z>> \o q, b)
  PROVE  \E o \in Leaves, v \in Seq(Nodes) :
           /\ o.kind = "lbrace" /\ v = Separated(z.sub) \o (<<Leaf("rbrace")>> \o q)
           /\ Remains(<<o>> \o v, b)
<1>1. PICK text, sub : z = Node("entry", text, sub)
  BY NodeParts
<1>2. z.sub = sub
  BY <1>1 DEF Node
<1>3. sub \in Seq(Nodes) /\ sub # <<>>
  <2>1. "entry" \notin LeafKinds
    BY DEF LeafKinds, Punctuation
  <2> QED
    BY <1>2, <2>1, NodeParts DEF Shaped
<1>4. PICK w \in Seq(Nodes) : w = Separated(sub)
  BY <1>3, SeparatedType
<1>5. PICK o \in Leaves : o = Leaf("lbrace") /\ o.kind = "lbrace"
  BY LeafLeaf DEF Punctuation
<1>6. PICK c \in Nodes : c = Leaf("rbrace")
  BY LeafNode DEF Punctuation
<1>7. PICK a \in Seq(Nodes) : a = <<o>>
  <2>1. <<o>> \in Seq(Nodes)
    BY LeavesAreNodes
  <2> QED
    BY <2>1
<1>8. PICK d \in Seq(Nodes) : d = <<c>>
  <2>1. <<c>> \in Seq(Nodes)
    OBVIOUS
  <2> QED
    BY <2>1
<1>9. PICK v \in Seq(Nodes) : v = w \o (d \o q)
  <2>1. w \o (d \o q) \in Seq(Nodes)
    OBVIOUS
  <2> QED
    BY <2>1
<1>10. (a \o w \o d) \o q = a \o v
  <2>1. a \o w \in Seq(Nodes) /\ d \o q \in Seq(Nodes)
    OBVIOUS
  <2>2. Associates(a \o w, d, q) /\ Associates(a, w, d \o q)
    BY <2>1, JoinSame
  <2> QED
    BY <1>9, <2>2, Zenon DEF Associates
<1>11. Remains(<<o>> \o v, b)
  <2>1. Remains(Parts(z) \o q, b)
    BY RemainsParts
  <2>2. Parts(z) = a \o w \o d
    BY <1>1, <1>4, <1>5, <1>6, <1>7, <1>8, EntryParts
  <2> QED
    BY <1>7, <1>10, <2>1, <2>2
<1>12. v = Separated(z.sub) \o (<<Leaf("rbrace")>> \o q)
  BY <1>2, <1>4, <1>6, <1>8, <1>9
<1> QED
  BY <1>5, <1>11, <1>12

LEMMA EntryKeeps == ASSUME NEW tree, WellRead(tree), entry_parse PROVE StillFollows(tree)
<1>1. In("entry") /\ stack # <<>> /\ Top.rule = "entry"
  BY DEF entry_parse, In
<1>2. PICK p : p = Front(stack)
  OBVIOUS
<1>3. PICK f : f = Last(stack)
  OBVIOUS
<1>4. f = Top /\ f.rule = "entry"
  BY <1>1, <1>3 DEF Top
<1>5. /\ "entry" \in Rules /\ "entry" \notin ListKinds /\ "entry" \notin LeafKinds /\ Gives["entry"] = {"entry"}
      /\ Below["entry"] = {"property"}
  BY DEF Rules, ListKinds, LeafKinds, Punctuation, Gives, Below
<1>6. FileOK /\ Whole(tree) \in Nodes
  BY DEF WellRead
<1>7. CASE result = Pending
  <2>1. LexOK(lexer) /\ p \in Seq(Frames) /\ f \in Frames
    BY <1>2, <1>3, <1>7, MakesAt
  <2>2. PICK z, q : Makes(tree, p, f, lexer, z, q)
    BY <1>2, <1>3, <1>7, MakesAt
  <2>3. z \in Nodes /\ q \in Seq(Nodes) /\ Waits(tree, p, z, q) /\ z.kind = "entry"
    BY <1>4, <1>5, <2>2 DEF Makes
  <2>4. Remains(<<z>> \o q, Behind(lexer))
    <3>1. Remains(Due("entry", z, q), Behind(lexer))
      BY <1>4, <1>5, <2>2 DEF Makes, Needs
    <3>2. Due("entry", z, q) = <<z>> \o q
      BY DEF Due
    <3> QED
      BY <3>1, <3>2
  <2>5. PICK sub \in Seq(Nodes) : z.sub = sub /\ sub # <<>> /\ \A n \in DOMAIN sub : sub[n].kind = "property"
    <3>1. Shaped("entry", z.sub) /\ z.sub \in Seq(Nodes)
      BY <2>3, NodeParts
    <3> QED
      BY <1>5, <3>1 DEF Shaped
  <2>6. PICK r \in Seq(Nodes) : r = <<Leaf("rbrace")>> \o q
    <3>1. Leaf("rbrace") \in Nodes
      BY LeafNode DEF Punctuation
    <3>2. <<Leaf("rbrace")>> \o q \in Seq(Nodes)
      BY <2>3, <3>1
    <3> QED
      BY <3>2
  <2>7. PICK o \in Leaves, v \in Seq(Nodes) :
          o.kind = "lbrace" /\ v = Separated(sub) \o r /\ Remains(<<o>> \o v, Behind(lexer))
    BY <2>3, <2>4, <2>5, <2>6, EntryAhead
  <2>8. PICK l : l = Take(lexer)
    OBVIOUS
  <2>9. Look(lexer).next_token = Token(o.kind, o.text) /\ Remains(v, Behind(l))
    BY <1>6, <2>1, <2>7, <2>8, RemainsToken
  <2>10. Has(lexer, "lbrace")
    BY <2>7, <2>9 DEF Has, NextType, Token
  <2>11. Call("property_list", <<>>, l)
    BY <1>7, <2>8, <2>10, Results, Zenon DEF entry_parse
  <2>12. PICK g : g = [f EXCEPT !.got = <<>>]
    OBVIOUS
  <2>13. g \in Frames /\ g.rule = "entry"
    <3>1. <<>> \in Seq(Nodes)
      OBVIOUS
    <3> QED
      BY <1>4, <2>1, <2>12, <3>1 DEF Frames
  <2>14. stack' = p \o <<g, Frame("property_list")>> /\ result' = Pending /\ lexer' = l
    BY <1>2, <1>4, <2>11, <2>12, Zenon DEF Call
  <2>15. PICK y \in Nodes : y = Node("property_list", "", sub) /\ y.kind = "property_list" /\ y.sub = sub
    <3>1. "property_list" \in Kinds /\ "property_list" \notin LeafKinds /\ "" \in Texts
          /\ Below["property_list"] = {"property"} /\ "property_list" # "property"
      BY DEF Kinds, ListKinds, LeafKinds, Punctuation, Texts, Below
    <3>2. Shaped("property_list", sub)
      BY <2>5, <3>1 DEF Shaped
    <3>3. Named("property_list", "")
      BY DEF Named
    <3>4. Node("property_list", "", sub) \in Nodes
      BY <2>5, <3>1, <3>2, <3>3, NodeMade
    <3> QED
      BY <3>4 DEF Node
  <2>16. Passes(g, z, q, y, r)
    BY <2>3, <2>5, <2>6, <2>13, <2>15, Zenon DEF Passes
  <2>17. "property_list" \in ListKinds /\ "property_list" \in Rules /\ y.kind \in Gives["property_list"]
    BY <2>15 DEF ListKinds, Rules, Gives
  <2>18. Needs(Frame("property_list"), y, r, Behind(l))
    <3>1. Remains(Separated(y.sub) \o r, Behind(l))
      BY <2>7, <2>9, <2>15
    <3> QED
      BY <2>15, <2>17, <3>1, NeedsList
  <2>19. Follows(tree, p \o <<g, Frame("property_list")>>, Pending, l)
    BY <2>1, <2>3, <2>6, <2>13, <2>16, <2>17, <2>18, FollowsCall
  <2> QED
    BY <2>14, <2>19 DEF StillFollows
<1>8. CASE result # Pending
  <2>1. PICK x : x = result.tree
    OBVIOUS
  <2>2. LexOK(lexer) /\ result # Failed
    BY <1>1, <1>8, MadeAt
  <2>3. PICK z, q, r : Resumes(tree, p, f, lexer, x, z, q, r)
    BY <1>1, <1>2, <1>3, <1>8, <2>1, MadeAt
  <2>4. /\ x \in Nodes /\ Remains(r, Behind(lexer)) /\ z \in Nodes /\ q \in Seq(Nodes)
        /\ Waits(tree, p, z, q) /\ Passes(f, z, q, x, r)
    BY <2>3 DEF Resumes
  <2>5. z.kind = "entry" /\ x = Node("property_list", "", z.sub) /\ r = <<Leaf("rbrace")>> \o q
    BY <1>4, <1>5, <2>4, Zenon DEF Passes
  <2>6. PICK c \in Leaves : c = Leaf("rbrace") /\ c.kind = "rbrace"
    BY LeafLeaf DEF Punctuation
  <2>7. PICK l : l = Take(lexer)
    OBVIOUS
  <2>8. Look(lexer).next_token = Token(c.kind, c.text) /\ Remains(q, Behind(l))
    BY <1>6, <2>2, <2>4, <2>5, <2>6, <2>7, RemainsToken
  <2>9. Has(lexer, "rbrace")
    BY <2>6, <2>8 DEF Has, NextType, Token
  <2>10. Return(Parsed(Node("entry", "", x.sub)), l)
    BY <1>8, <2>1, <2>2, <2>7, <2>9, Zenon DEF entry_parse
  <2>11. Node("entry", "", x.sub) = z
    <3>1. x.sub = z.sub
      BY <2>5 DEF Node
    <3>2. z.text = "" /\ z = Node(z.kind, z.text, z.sub)
      BY <2>4, <2>5, NodeParts DEF Named
    <3> QED
      BY <2>5, <3>1, <3>2
  <2>12. stack' = p /\ result' = Parsed(z) /\ lexer' = l
    BY <1>2, <2>10, <2>11, Zenon DEF Return
  <2>13. Follows(tree, p, Parsed(z), l)
    BY <2>4, <2>8, FollowsReturn
  <2> QED
    BY <2>12, <2>13 DEF StillFollows
<1> QED
  BY <1>7, <1>8

LEMMA PropertyKeeps == ASSUME NEW tree, WellRead(tree), property_parse PROVE StillFollows(tree)
<1>1. In("property") /\ stack # <<>> /\ Top.rule = "property"
  BY DEF property_parse, In
<1>2. PICK p : p = Front(stack)
  OBVIOUS
<1>3. PICK f : f = Last(stack)
  OBVIOUS
<1>4. f = Top /\ f.rule = "property"
  BY <1>1, <1>3 DEF Top
<1>5. /\ "property" \in Rules /\ "property" \notin ListKinds /\ "property" \notin LeafKinds
      /\ Gives["property"] = {"property"} /\ Below["property"] = Gives["value"]
  BY DEF Rules, ListKinds, LeafKinds, Punctuation, Gives, Below, ArrayKinds
<1>6. FileOK /\ Whole(tree) \in Nodes
  BY DEF WellRead
<1>7. CASE result = Pending
  <2>1. LexOK(lexer) /\ p \in Seq(Frames) /\ f \in Frames
    BY <1>2, <1>3, <1>7, MakesAt
  <2>2. PICK z, q : Makes(tree, p, f, lexer, z, q)
    BY <1>2, <1>3, <1>7, MakesAt
  <2>3. z \in Nodes /\ q \in Seq(Nodes) /\ Waits(tree, p, z, q) /\ z.kind = "property"
    BY <1>4, <1>5, <2>2 DEF Makes
  <2>4. Remains(<<z>> \o q, Behind(lexer))
    <3>1. Remains(Due("property", z, q), Behind(lexer))
      BY <1>4, <1>5, <2>2 DEF Makes, Needs
    <3>2. Due("property", z, q) = <<z>> \o q
      BY DEF Due
    <3> QED
      BY <3>1, <3>2
  <2>5. PICK text \in Texts : text = z.text
    BY <2>3, NodeParts
  <2>6. PICK y \in Nodes : z = Node("property", text, <<y>>) /\ y.kind \in Gives["value"]
    <3>1. PICK sub \in Seq(Nodes) : sub = z.sub
      BY <2>3, NodeParts
    <3>2. z = Node("property", text, sub) /\ Shaped("property", sub)
      BY <2>3, <2>5, <3>1, NodeParts
    <3>3. Len(sub) = 1 /\ \A n \in DOMAIN sub : sub[n].kind \in Gives["value"]
      BY <1>5, <3>2 DEF Shaped
    <3>4. sub[1] \in Nodes /\ sub = <<sub[1]>> /\ sub[1].kind \in Gives["value"]
      BY <3>1, <3>3
    <3> QED
      BY <3>2, <3>4
  <2>7. PICK n \in Leaves : n = Node("identifier", text, <<>>) /\ n.kind = "identifier" /\ n.text = text
    <3>1. "identifier" \in LeafKinds
      BY DEF LeafKinds
    <3>2. Node("identifier", text, <<>>) \in Leaves
      BY <3>1 DEF Leaves
    <3> QED
      BY <3>2 DEF Node
  <2>8. PICK e \in Leaves : e = Leaf("equals") /\ e.kind = "equals"
    BY LeafLeaf DEF Punctuation
  <2>9. PICK w \in Seq(Nodes) : w = Due("value", y, q) /\ Parts(z) \o q = <<n>> \o (<<e>> \o w)
    <3>1. PICK i, j \in Nodes : i = Leaf("lbracket") /\ j = Leaf("rbracket")
      BY LeafNode DEF Punctuation
    <3>2. n \in Nodes /\ e \in Nodes
      BY LeavesAreNodes
    <3>3. PICK v \in Seq(Nodes) : v = IF y.kind \in ListKinds THEN <<i, y, j>> ELSE <<y>>
      <4>1. <<i, y, j>> \in Seq(Nodes) /\ <<y>> \in Seq(Nodes)
        OBVIOUS
      <4> QED
        BY <4>1
    <3>4. Parts(z) = <<n, e>> \o v
      BY <2>6, <2>7, <2>8, <3>1, <3>3, PropertyParts
    <3>5. v \o q \in Seq(Nodes) /\ v \o q = Due("value", y, q)
      <4>1. v \o q \in Seq(Nodes)
        BY <2>3
      <4>2. CASE y.kind \in ListKinds
        <5>1. i \in Nodes /\ y \in Nodes /\ j \in Nodes /\ q \in Seq(Nodes)
          BY <2>3, <2>6, <3>1
        <5>2. OneByOne(i, y, j, q)
          BY <5>1, ThreeAhead
        <5>3. <<i, y, j>> \o q = <<i>> \o (<<y>> \o (<<j>> \o q))
          BY <5>2, Zenon DEF OneByOne
        <5> QED
          BY <3>1, <3>3, <4>1, <4>2, <5>3 DEF Due
      <4>3. CASE y.kind \notin ListKinds
        BY <3>3, <4>1, <4>3 DEF Due
      <4> QED
        BY <4>2, <4>3
    <3>6. (<<n, e>> \o v) \o q = <<n>> \o (<<e>> \o (v \o q))
      BY <2>3, <3>2
    <3> QED
      BY <3>4, <3>5, <3>6
  <2>10. PICK u \in Seq(Nodes) : u = <<e>> \o w
    <3>1. <<e>> \o w \in Seq(Nodes)
      BY LeavesAreNodes
    <3> QED
      BY <3>1
  <2>11. PICK behind : behind = Take(lexer)
    OBVIOUS
  <2>12. Look(lexer).next_token = Token(n.kind, n.text) /\ LexOK(behind) /\ Remains(u, Behind(behind))
    <3>1. Remains(<<n>> \o u, Behind(lexer))
      BY <2>3, <2>4, <2>9, <2>10, RemainsParts
    <3> QED
      BY <1>6, <2>1, <2>11, <3>1, RemainsToken
  <2>13. Has(lexer, "identifier") /\ Look(lexer).next_token.text = text
    BY <2>7, <2>12 DEF Has, NextType, Token
  <2>14. PICK l : l = Take(behind)
    OBVIOUS
  <2>15. Look(behind).next_token = Token(e.kind, e.text) /\ Remains(w, Behind(l))
    BY <1>6, <2>10, <2>12, <2>14, RemainsToken
  <2>16. Has(behind, "equals")
    BY <2>8, <2>15 DEF Has, NextType, Token
  <2>17. PICK got : got = <<Node("name", text, <<>>)>>
    OBVIOUS
  <2>18. Call("value", got, l)
    BY <1>7, <2>11, <2>13, <2>14, <2>16, <2>17, Results, Zenon DEF property_parse
  <2>19. got \in Seq(Nodes) /\ got[1].text = text
    <3>1. "name" \in LeafKinds
      BY DEF LeafKinds
    <3>2. Node("name", text, <<>>) \in Nodes /\ Node("name", text, <<>>).text = text
      BY <3>1, LeafMade DEF Node
    <3> QED
      BY <2>17, <3>2
  <2>20. PICK g : g = [f EXCEPT !.got = got]
    OBVIOUS
  <2>21. g \in Frames /\ g.rule = "property" /\ g.got = got
    BY <1>4, <2>1, <2>19, <2>20 DEF Frames
  <2>22. stack' = p \o <<g, Frame("value")>> /\ result' = Pending /\ lexer' = l
    BY <1>2, <1>4, <2>18, <2>20, Zenon DEF Call
  <2>23. Passes(g, z, q, y, q)
    <3>1. z = Node("property", g.got[1].text, <<y>>)
      BY <2>6, <2>19, <2>21
    <3> QED
      BY <2>21, <3>1, Zenon DEF Passes
  <2>24. Needs(Frame("value"), y, q, Behind(l)) /\ "value" \in Rules
    <3>1. Remains(Due("value", y, q), Behind(l)) /\ "value" \notin ListKinds /\ "value" \in Rules
      BY <2>9, <2>15 DEF ListKinds, Rules
    <3> QED
      BY <3>1, NeedsOther
  <2>25. Follows(tree, p \o <<g, Frame("value")>>, Pending, l)
    BY <2>1, <2>3, <2>6, <2>21, <2>23, <2>24, FollowsCall
  <2> QED
    BY <2>22, <2>25 DEF StillFollows
<1>8. CASE result # Pending
  <2>1. PICK x : x = result.tree
    OBVIOUS
  <2>2. LexOK(lexer) /\ result # Failed
    BY <1>1, <1>8, MadeAt
  <2>3. PICK z, q, r : Resumes(tree, p, f, lexer, x, z, q, r)
    BY <1>1, <1>2, <1>3, <1>8, <2>1, MadeAt
  <2>4. /\ x \in Nodes /\ Remains(r, Behind(lexer)) /\ z \in Nodes /\ q \in Seq(Nodes)
        /\ Waits(tree, p, z, q) /\ Passes(f, z, q, x, r)
    BY <2>3 DEF Resumes
  <2>5. z = Node("property", f.got[1].text, <<x>>) /\ r = q
    BY <1>4, <1>5, <2>4, Zenon DEF Passes
  <2>6. Return(Parsed(Node("property", Top.got[1].text, <<x>>)), lexer)
    BY <1>8, <2>1, <2>2, Zenon DEF property_parse
  <2>7. stack' = p /\ result' = Parsed(z) /\ lexer' = lexer
    BY <1>2, <1>4, <2>5, <2>6, Zenon DEF Return
  <2>8. Follows(tree, p, Parsed(z), lexer)
    BY <2>4, <2>5, FollowsReturn
  <2> QED
    BY <2>7, <2>8 DEF StillFollows
<1> QED
  BY <1>7, <1>8

LEMMA ValueKeeps == ASSUME NEW tree, WellRead(tree), value_parse PROVE StillFollows(tree)
<1>1. In("value") /\ stack # <<>> /\ Top.rule = "value"
  BY DEF value_parse, In
<1>2. PICK p : p = Front(stack)
  OBVIOUS
<1>3. PICK f : f = Last(stack)
  OBVIOUS
<1>4. f = Top /\ f.rule = "value"
  BY <1>1, <1>3 DEF Top
<1>5. /\ "value" \in Rules /\ "value" \notin ListKinds /\ Gives["value"] = {"integer", "string"} \union ArrayKinds
      /\ "array" \in Rules /\ "array" \notin ListKinds /\ Gives["array"] = ArrayKinds
      /\ ArrayKinds \subseteq ListKinds /\ "integer" \notin ListKinds /\ "string" \notin ListKinds
  BY DEF Rules, ListKinds, ArrayKinds, Gives
<1>6. FileOK /\ Whole(tree) \in Nodes
  BY DEF WellRead
<1>7. CASE result = Pending
  <2>1. LexOK(lexer) /\ p \in Seq(Frames) /\ f \in Frames
    BY <1>2, <1>3, <1>7, MakesAt
  <2>2. PICK z, q : Makes(tree, p, f, lexer, z, q)
    BY <1>2, <1>3, <1>7, MakesAt
  <2>3. z \in Nodes /\ q \in Seq(Nodes) /\ Waits(tree, p, z, q) /\ z.kind \in Gives["value"]
    BY <1>4, <2>2 DEF Makes
  <2>4. Remains(Due("value", z, q), Behind(lexer))
    BY <1>4, <1>5, <2>2 DEF Makes, Needs
  <2>5. PICK l : l = Look(lexer)
    OBVIOUS
  <2>6. PICK token : token = l.next_token
    OBVIOUS
  <2>7. (CASE token.type \in {"string", "integer"} ->
                Return(Parsed(Node(token.type, token.text, <<>>)), Take(lexer))
           [] token.type = "lbracket" -> Call("array", <<>>, l)
           [] token.type = "lbrace" -> Call("entry", <<>>, l)
           [] OTHER -> Return(Failed, l))
    <3>1. result.tree.kind \notin ListKinds
      BY <1>7, NothingParsed
    <3> QED
      BY <1>7, <2>5, <2>6, <3>1, Zenon DEF value_parse
  <2>8. CASE z.kind \in {"integer", "string"}
    <3>1. z.kind \in LeafKinds /\ z.kind \notin ListKinds
      BY <1>5, <2>8 DEF LeafKinds
    <3>2. z.sub = <<>> /\ z = Node(z.kind, z.text, z.sub) /\ z.text \in Texts
      BY <2>3, <3>1, NodeParts DEF Shaped
    <3>3. z \in Leaves
      BY <3>1, <3>2 DEF Leaves
    <3>4. Remains(<<z>> \o q, Behind(lexer))
      BY <2>4, <3>1 DEF Due
    <3>5. PICK m : m = Take(lexer)
      OBVIOUS
    <3>6. token = Token(z.kind, z.text) /\ Remains(q, Behind(m))
      BY <1>6, <2>1, <2>3, <2>5, <2>6, <3>3, <3>4, <3>5, RemainsToken
    <3>7. token.type = z.kind /\ token.text = z.text
      BY <3>6 DEF Token
    <3>8. Return(Parsed(Node(token.type, token.text, <<>>)), Take(lexer))
      <4>1. token.type \in {"string", "integer"} /\ token.type # "lbracket" /\ token.type # "lbrace"
        BY <2>8, <3>7
      <4> QED
        BY <2>7, <4>1, Zenon
    <3>9. Node(token.type, token.text, <<>>) = z
      BY <3>2, <3>7
    <3>10. stack' = p /\ result' = Parsed(z) /\ lexer' = m
      BY <1>2, <3>5, <3>8, <3>9, Zenon DEF Return
    <3>11. Follows(tree, p, Parsed(z), m)
      BY <2>3, <3>6, FollowsReturn
    <3> QED
      BY <3>10, <3>11 DEF StillFollows
  <2>9. CASE z.kind \in ArrayKinds
    <3>1. z.kind \in ListKinds
      BY <1>5, <2>9
    <3>2. PICK i \in Leaves : i = Leaf("lbracket") /\ i.kind = "lbracket"
      BY LeafLeaf DEF Punctuation
    <3>3. PICK j \in Nodes : j = Leaf("rbracket")
      BY LeafNode DEF Punctuation
    <3>4. PICK w \in Seq(Nodes) : w = <<z>> \o (<<j>> \o q)
      <4>1. <<z>> \o (<<j>> \o q) \in Seq(Nodes)
        BY <2>3
      <4> QED
        BY <4>1
    <3>5. Due("value", z, q) = <<i>> \o w /\ Due("array", z, q) = <<i>> \o w
      BY <3>1, <3>2, <3>3, <3>4 DEF Due
    <3>6. token = Token(i.kind, i.text) /\ Remains(<<i>> \o w, Behind(l))
      <4>1. Remains(<<i>> \o w, Behind(lexer))
        BY <2>4, <3>5
      <4> QED
        BY <1>6, <2>1, <2>5, <2>6, <4>1, RemainsToken
    <3>7. Call("array", <<>>, l)
      <4>1. token.type = "lbracket"
        BY <3>2, <3>6 DEF Token
      <4>2. token.type \notin {"string", "integer"} /\ token.type # "lbrace"
        BY <4>1
      <4> QED
        BY <2>7, <4>1, <4>2, Zenon
    <3>8. PICK g : g = [f EXCEPT !.got = <<>>]
      OBVIOUS
    <3>9. g \in Frames /\ g.rule = "value"
      <4>1. <<>> \in Seq(Nodes)
        OBVIOUS
      <4> QED
        BY <1>4, <2>1, <3>8, <4>1 DEF Frames
    <3>10. stack' = p \o <<g, Frame("array")>> /\ result' = Pending /\ lexer' = l
      BY <1>2, <1>4, <3>7, <3>8, Zenon DEF Call
    <3>11. Passes(g, z, q, z, q)
      BY <2>9, <3>9, Zenon DEF Passes
    <3>12. Needs(Frame("array"), z, q, Behind(l))
      <4>1. Remains(Due("array", z, q), Behind(l))
        BY <3>5, <3>6
      <4> QED
        BY <1>5, <4>1, NeedsOther
    <3>13. z.kind \in Gives["array"]
      BY <1>5, <2>9
    <3>14. Follows(tree, p \o <<g, Frame("array")>>, Pending, l)
      BY <1>5, <2>1, <2>3, <3>9, <3>11, <3>12, <3>13, FollowsCall
    <3> QED
      BY <3>10, <3>14 DEF StillFollows
  <2> QED
    BY <1>5, <2>3, <2>8, <2>9
<1>8. CASE result # Pending
  <2>1. PICK x : x = result.tree
    OBVIOUS
  <2>2. result # Failed /\ result = Parsed(x)
    BY <1>1, <1>8, <2>1, MadeAt
  <2>3. PICK z, q, r : Resumes(tree, p, f, lexer, x, z, q, r)
    BY <1>1, <1>2, <1>3, <1>8, <2>1, MadeAt
  <2>4. /\ x \in Nodes /\ Remains(r, Behind(lexer)) /\ z \in Nodes /\ q \in Seq(Nodes)
        /\ Waits(tree, p, z, q) /\ Passes(f, z, q, x, r)
    BY <2>3 DEF Resumes
  <2>5. x = z /\ z.kind \in ArrayKinds /\ r = q
    BY <1>4, <1>5, <2>4, Zenon DEF Passes
  <2>6. result.tree.kind \in ListKinds
    BY <1>5, <2>1, <2>5
  <2>7. Pass
    BY <1>8, <2>6, Zenon DEF value_parse
  <2>8. stack' = p /\ result' = Parsed(z) /\ lexer' = lexer
    BY <1>2, <2>2, <2>5, <2>7, Zenon DEF Pass, Return
  <2>9. Follows(tree, p, Parsed(z), lexer)
    BY <2>4, <2>5, FollowsReturn
  <2> QED
    BY <2>8, <2>9 DEF StillFollows
<1> QED
  BY <1>7, <1>8

\* The token a list begins with.
LEMMA ListBegins ==
  ASSUME FileOK, NEW z \in Nodes, z.kind \in ArrayKinds, NEW q \in Seq(Nodes),
         NEW l, LexOK(l), Remains(Separated(z.sub) \o q, Behind(l))
  PROVE  NextType(l) \in DOMAIN ListOf /\ ListOf[NextType(l)] = z.kind
<1>1. PICK list \in ListKinds : list = z.kind
  BY DEF ArrayKinds
<1>2. list \in ArrayKinds /\ list \notin LeafKinds
  BY <1>1 DEF ListKinds, LeafKinds, Punctuation
<1>3. z.sub \in Seq(Nodes) /\ z.sub # <<>>
  BY <1>1, <1>2, NodeParts DEF Shaped
<1>4. PICK pre, y : Splits(z.sub, q, pre, y)
  BY <1>3, NextElement
<1>5. pre \in Seq(Nodes) /\ y \in Nodes /\ z.sub = pre \o <<y>>
  BY <1>4 DEF Splits
<1>6. y.kind \in Below[list]
  <2>1. PICK got \in Seq(Nodes) : got = <<>>
    <3>1. <<>> \in Seq(Nodes)
      OBVIOUS
    <3> QED
      BY <3>1
  <2>2. <<y>> \o got = <<y>>
    BY <1>5, <2>1
  <2> QED
    BY <1>1, <1>5, <2>1, <2>2, ElementKind
<1>7. PICK r \in Seq(Nodes) : r = Rest(pre, q)
  BY <1>5, RestType
<1>8. Remains(<<y>> \o r, Behind(l))
  BY <1>4, <1>7 DEF Splits
<1>9. CASE list = "entry_list"
  <2>1. y.kind = "entry"
    BY <1>6, <1>9 DEF Below, ListKinds
  <2>2. PICK o \in Leaves, v \in Seq(Nodes) : o.kind = "lbrace" /\ Remains(<<o>> \o v, Behind(l))
    BY <1>5, <1>8, <2>1, EntryAhead
  <2>3. Look(l).next_token = Token(o.kind, o.text)
    BY <2>2, RemainsToken
  <2>4. NextType(l) = "lbrace"
    BY <2>2, <2>3 DEF NextType, Token
  <2> QED
    BY <1>1, <1>9, <2>4 DEF ListOf
<1>10. CASE list # "entry_list"
  <2>1. y.kind \in {"string", "integer"} /\ y.kind \in DOMAIN ListOf /\ ListOf[y.kind] = list
    BY <1>2, <1>6, <1>10 DEF Below, ListKinds, ArrayKinds, ListOf
  <2>2. y.kind \in LeafKinds
    BY <2>1 DEF LeafKinds
  <2>3. y.sub = <<>> /\ y = Node(y.kind, y.text, y.sub) /\ y.text \in Texts
    BY <1>5, <2>2, NodeParts DEF Shaped
  <2>4. y \in Leaves
    BY <2>2, <2>3 DEF Leaves
  <2>5. Look(l).next_token = Token(y.kind, y.text)
    BY <1>8, <2>4, RemainsToken
  <2>6. NextType(l) = y.kind
    BY <2>5 DEF NextType, Token
  <2> QED
    BY <1>1, <2>1, <2>6
<1> QED
  BY <1>9, <1>10

LEMMA ArrayKeeps == ASSUME NEW tree, WellRead(tree), array_parse PROVE StillFollows(tree)
<1>1. In("array") /\ stack # <<>> /\ Top.rule = "array"
  BY DEF array_parse, In
<1>2. PICK p : p = Front(stack)
  OBVIOUS
<1>3. PICK f : f = Last(stack)
  OBVIOUS
<1>4. f = Top /\ f.rule = "array"
  BY <1>1, <1>3 DEF Top
<1>5. "array" \in Rules /\ "array" \notin ListKinds /\ Gives["array"] = ArrayKinds
  BY DEF Rules, ListKinds, Gives
<1>6. FileOK /\ Whole(tree) \in Nodes
  BY DEF WellRead
<1>7. CASE result = Pending
  <2>1. LexOK(lexer) /\ p \in Seq(Frames) /\ f \in Frames
    BY <1>2, <1>3, <1>7, MakesAt
  <2>2. PICK z, q : Makes(tree, p, f, lexer, z, q)
    BY <1>2, <1>3, <1>7, MakesAt
  <2>3. z \in Nodes /\ q \in Seq(Nodes) /\ Waits(tree, p, z, q) /\ z.kind \in ArrayKinds
    BY <1>4, <1>5, <2>2 DEF Makes
  <2>4. Remains(Due("array", z, q), Behind(lexer))
    BY <1>4, <1>5, <2>2 DEF Makes, Needs
  <2>5. PICK list \in ListKinds : list = z.kind
    BY <2>3 DEF ArrayKinds
  <2>6. PICK i \in Leaves : i = Leaf("lbracket")
    BY LeafLeaf DEF Punctuation
  <2>7. PICK j \in Nodes : j = Leaf("rbracket")
    BY LeafNode DEF Punctuation
  <2>8. PICK r \in Seq(Nodes) : r = <<j>> \o q
    <3>1. <<j>> \o q \in Seq(Nodes)
      BY <2>3
    <3> QED
      BY <3>1
  <2>9. PICK behind : behind = Take(lexer)
    OBVIOUS
  <2>10. LexOK(behind) /\ Remains(<<z>> \o r, Behind(behind))
    <3>1. <<z>> \o r \in Seq(Nodes)
      BY <2>3
    <3>2. Remains(<<i>> \o (<<z>> \o r), Behind(lexer))
      BY <2>4, <2>5, <2>6, <2>7, <2>8 DEF Due
    <3> QED
      BY <1>6, <2>1, <2>9, <3>1, <3>2, RemainsToken
  <2>11. PICK w \in Seq(Nodes) : w = Separated(z.sub)
    <3>1. list \notin LeafKinds
      BY DEF ListKinds, LeafKinds, Punctuation
    <3>2. z.sub \in Seq(Nodes) /\ z.sub # <<>>
      BY <2>3, <2>5, <3>1, NodeParts DEF Shaped
    <3> QED
      BY <3>2, SeparatedType
  <2>12. PICK v \in Seq(Nodes) : v = w \o r
    <3>1. w \o r \in Seq(Nodes)
      OBVIOUS
    <3> QED
      BY <3>1
  <2>13. Remains(v, Behind(behind))
    <3>1. Remains(Parts(z) \o r, Behind(behind))
      BY <2>3, <2>10, RemainsParts
    <3>2. z = Node(list, z.text, z.sub)
      BY <2>3, <2>5, NodeParts
    <3>3. Parts(z) = w
      BY <2>11, <3>2, ListParts
    <3> QED
      BY <2>12, <3>1, <3>3
  <2>14. NextType(behind) \in DOMAIN ListOf /\ ListOf[NextType(behind)] = list
    BY <1>6, <2>3, <2>5, <2>10, <2>11, <2>12, <2>13, ListBegins
  <2>15. PICK l : l = Look(behind)
    OBVIOUS
  <2>16. Remains(v, Behind(l))
    BY <1>6, <2>10, <2>13, <2>15, LookRemains
  <2>17. Call(list, <<>>, l)
    <3>1. IF NextType(behind) \in DOMAIN ListOf
          THEN Call(ListOf[NextType(behind)], <<>>, Look(behind))
          ELSE Return(Failed, Look(behind))
      BY <1>7, <2>9, Results, Zenon DEF array_parse
    <3> QED
      BY <2>14, <2>15, <3>1, Zenon
  <2>18. PICK g : g = [f EXCEPT !.got = <<>>]
    OBVIOUS
  <2>19. g \in Frames /\ g.rule = "array"
    <3>1. <<>> \in Seq(Nodes)
      OBVIOUS
    <3> QED
      BY <1>4, <2>1, <2>18, <3>1 DEF Frames
  <2>20. stack' = p \o <<g, Frame(list)>> /\ result' = Pending /\ lexer' = l
    BY <1>2, <1>4, <2>17, <2>18, Zenon DEF Call
  <2>21. Passes(g, z, q, z, r)
    BY <2>3, <2>7, <2>8, <2>19, Zenon DEF Passes
  <2>22. list \in Rules /\ z.kind \in Gives[list]
    BY <2>5 DEF Rules, Gives, ListKinds
  <2>23. Needs(Frame(list), z, r, Behind(l))
    <3>1. Remains(Separated(z.sub) \o r, Behind(l))
      BY <2>11, <2>12, <2>16
    <3> QED
      BY <2>3, <2>5, <3>1, NeedsList
  <2>24. Follows(tree, p \o <<g, Frame(list)>>, Pending, l)
    BY <2>1, <2>3, <2>19, <2>21, <2>22, <2>23, FollowsCall
  <2> QED
    BY <2>20, <2>24 DEF StillFollows
<1>8. CASE result # Pending
  <2>1. PICK x : x = result.tree
    OBVIOUS
  <2>2. LexOK(lexer) /\ result # Failed /\ result = Parsed(x)
    BY <1>1, <1>8, <2>1, MadeAt
  <2>3. PICK z, q, r : Resumes(tree, p, f, lexer, x, z, q, r)
    BY <1>1, <1>2, <1>3, <1>8, <2>1, MadeAt
  <2>4. /\ x \in Nodes /\ Remains(r, Behind(lexer)) /\ z \in Nodes /\ q \in Seq(Nodes)
        /\ Waits(tree, p, z, q) /\ Passes(f, z, q, x, r)
    BY <2>3 DEF Resumes
  <2>5. x = z /\ r = <<Leaf("rbracket")>> \o q
    BY <1>4, <1>5, <2>4, Zenon DEF Passes
  <2>6. PICK c \in Leaves : c = Leaf("rbracket") /\ c.kind = "rbracket"
    BY LeafLeaf DEF Punctuation
  <2>7. PICK l : l = Take(lexer)
    OBVIOUS
  <2>8. Look(lexer).next_token = Token(c.kind, c.text) /\ Remains(q, Behind(l))
    BY <1>6, <2>2, <2>4, <2>5, <2>6, <2>7, RemainsToken
  <2>9. Has(lexer, "rbracket")
    BY <2>6, <2>8 DEF Has, NextType, Token
  <2>10. Return(result, l)
    BY <1>8, <2>2, <2>7, <2>9, Zenon DEF array_parse
  <2>11. stack' = p /\ result' = Parsed(z) /\ lexer' = l
    BY <1>2, <2>2, <2>5, <2>10, Zenon DEF Return
  <2>12. Follows(tree, p, Parsed(z), l)
    BY <2>4, <2>8, FollowsReturn
  <2> QED
    BY <2>11, <2>12 DEF StillFollows
<1> QED
  BY <1>7, <1>8

\* One step of the descent.
LEMMA DescentKeeps == ASSUME NEW tree, WellRead(tree), Descends PROVE StillFollows(tree)
<1>1. CASE entry_list_parse
  <2>1. "entry_list" \in DOMAIN ElementOf /\ ElementOf["entry_list"] = "entry"
    BY DEF ElementOf
  <2> QED
    BY <1>1, <2>1, ListKeeps DEF entry_list_parse
<1>2. CASE property_list_parse
  <2>1. "property_list" \in DOMAIN ElementOf /\ ElementOf["property_list"] = "property"
    BY DEF ElementOf
  <2> QED
    BY <1>2, <2>1, ListKeeps DEF property_list_parse
<1>3. CASE string_list_parse
  <2>1. "string_list" \in DOMAIN TokenOf /\ TokenOf["string_list"] = "string"
    BY DEF TokenOf
  <2> QED
    BY <1>3, <2>1, TokenListKeeps DEF string_list_parse
<1>4. CASE integer_list_parse
  <2>1. "integer_list" \in DOMAIN TokenOf /\ TokenOf["integer_list"] = "integer"
    BY DEF TokenOf
  <2> QED
    BY <1>4, <2>1, TokenListKeeps DEF integer_list_parse
<1> QED
  BY <1>1, <1>2, <1>3, <1>4, EntryKeeps, PropertyKeeps, ValueKeeps, ArrayKeeps DEF Descends

\* The file is the text of "tree", blanks aside.
Spells(tree) == Whole(tree) \in Nodes /\ Without({"blank"}, file) = Text(tree)

WellInv ==
  \A tree : Spells(tree) =>
    /\ phase = "parse" => Follows(tree, stack, result, lexer)
    /\ phase # "parse" => entry_list = tree

\* At first the whole text is ahead.
LEMMA TextAhead ==
  ASSUME FileOK, Levels \in Nat, NEW tree, Spells(tree)
  PROVE  Remains(<<Whole(tree)>>, 0)
<1>1. PICK o \in Seq(Nodes) : o = <<Whole(tree)>>
  <2>1. <<Whole(tree)>> \in Seq(Nodes)
    BY DEF Spells
  <2> QED
    BY <2>1
<1>2. PICK v \in Seq(Nodes) : v = Written(o, Levels)
  BY WrittenType
<1>3. Ahead(0) = Tokens(v)
  <2>1. SubSeq(file, 0 + 1, Len(file)) = file
    BY DEF FileOK
  <2>2. Ahead(0) = Text(tree)
    BY <2>1 DEF Ahead, Spells
  <2>3. Text(tree) = Tokens(v)
    BY <1>1, <1>2, Zenon DEF Text, Whole
  <2> QED
    BY <2>2, <2>3
<1>4. PICK w \in Seq(LexerToken) : w = Tokens(v)
  <2>1. Ahead(0) \in Seq(LexerToken)
    BY AheadType
  <2> QED
    BY <1>3, <2>1
<1>5. PICK n \in Nat : n = Len(v) /\ DOMAIN v = 1 .. n
  OBVIOUS
<1>6. \A i \in 1 .. n : v[i] \in Leaves
  <2> TAKE i \in 1 .. n
  <2>1. w = [k \in 1 .. n |-> Token(v[k].kind, v[k].text)]
    BY <1>4, <1>5 DEF Tokens
  <2>2. w[i] \in LexerToken /\ w[i].type = v[i].kind
    <3>1. w[i] = Token(v[i].kind, v[i].text) /\ DOMAIN w = 1 .. n
      BY <2>1
    <3>2. w[i] \in LexerToken
      BY <1>4, <3>1
    <3> QED
      BY <3>1, <3>2 DEF Token
  <2>3. PICK x \in Nodes : x = v[i]
    BY <1>5
  <2>4. PICK t \in LexerToken : t = w[i]
    BY <2>2
  <2>5. x.kind \in LeafKinds
    <3>1. t.type \in LeafKinds \union {"blank", "error"} /\ x.kind = t.type
      BY <2>2, <2>3, <2>4, LexerTokens
    <3>2. x.kind \in Kinds
      BY NodeParts
    <3>3. "blank" \notin Kinds /\ "error" \notin Kinds
      BY DEF Kinds, ListKinds, LeafKinds, Punctuation
    <3> QED
      BY <3>1, <3>2, <3>3
  <2>6. x.sub = <<>> /\ x = Node(x.kind, x.text, x.sub) /\ x.text \in Texts
    BY <2>5, NodeParts DEF Shaped
  <2>7. x \in Leaves
    BY <2>5, <2>6 DEF Leaves
  <2> QED
    BY <2>3, <2>7
<1>7. v \in Seq(Leaves)
  BY <1>5, <1>6
<1>8. RemainsBy(o, 0, Levels)
  BY <1>2, <1>3, <1>7 DEF RemainsBy
<1> QED
  BY <1>1, <1>8 DEF Remains

LEMMA WellInit == Init => WellInv
<1> SUFFICES ASSUME Init, NEW tree, Spells(tree)
             PROVE  phase = "parse" /\ Follows(tree, stack, result, lexer)
  BY DEF Init, WellInv
<1>1. FileOK /\ Levels \in Nat
  BY ParseInit DEF ParseInv
<1>2. phase = "parse" /\ result = Pending /\ lexer = [made |-> 0, next_token |-> NoToken]
  BY DEF Init
<1>3. Behind(lexer) = 0
  BY <1>2 DEF Behind
<1>4. PICK f : f = Frame("entry_list")
  OBVIOUS
<1>5. f \in Frames /\ f.rule = "entry_list"
  BY <1>4 DEF Frame, Frames, Rules, ListKinds
<1>6. PICK s \in Seq(Frames) : s = <<>>
  <2>1. <<>> \in Seq(Frames)
    OBVIOUS
  <2> QED
    BY <2>1
<1>7. stack = Append(s, f)
  BY <1>4, <1>6 DEF Init
<1>8. Front(stack) = s /\ Last(stack) = f
  BY <1>6, <1>7, FrontLast
<1>9. PICK z \in Nodes : z = Whole(tree)
  BY DEF Spells
<1>10. z.kind = "entry_list" /\ z.sub = tree /\ Parts(z) = Separated(tree)
  BY <1>9, WholeParts
<1>11. PICK q \in Seq(Nodes) : q = <<>>
  <2>1. <<>> \in Seq(Nodes)
    OBVIOUS
  <2> QED
    BY <2>1
<1>12. Waits(tree, s, z, q)
  BY <1>6, <1>9, <1>11, WaitsNone
<1>13. Needs(f, z, q, Behind(lexer))
  <2>1. <<z>> \o q = <<z>>
    BY <1>11
  <2>2. Remains(<<z>> \o q, 0)
    BY <1>1, <1>9, <2>1, TextAhead
  <2>3. Remains(Separated(z.sub) \o q, Behind(lexer))
    BY <1>3, <1>10, <2>2, RemainsParts
  <2> QED
    BY <1>4, <1>10, <2>3, NeedsList DEF ListKinds
<1>14. z.kind \in Gives[f.rule]
  BY <1>5, <1>10 DEF Gives, Rules, ListKinds
<1>15. Makes(tree, s, f, lexer, z, q)
  BY <1>12, <1>13, <1>14 DEF Makes
<1> QED
  BY <1>2, <1>8, <1>15 DEF Follows

LEMMA FollowsPrime ==
  ASSUME NEW tree, file' = file, Follows(tree, stack', result', lexer')
  PROVE  Follows(tree, stack, result, lexer)'
  BY DEF Follows, Makes, Made, Needs, Waits, Aims, Remains, RemainsBy, Ahead, Behind

LEMMA WellStep == ASSUME ParseInv, WellInv, [Next]_vars PROVE WellInv'
<1>1. file' = file /\ FileOK
  BY Zenon DEF ParseInv, Next, vars, parseVars, entry_list_parse, property_list_parse, string_list_parse,
     integer_list_parse, entry_parse, property_parse, value_parse, array_parse, List, TokenList, Call, Return,
     Pass, dict_parser_new, get_dict_entry, get_dict_ends
<1> SUFFICES ASSUME NEW tree, Spells(tree)
             PROVE  /\ phase' = "parse" => Follows(tree, stack, result, lexer)'
                    /\ phase' # "parse" => entry_list' = tree
  BY <1>1 DEF WellInv, Spells
<1>2. CASE Descends
  <2>1. phase = "parse" /\ phase' = phase
    BY <1>2, DescentFrame
  <2>2. WellRead(tree)
    BY <1>1, <2>1 DEF ParseInv, WellInv, Spells, WellRead
  <2>3. Follows(tree, stack, result, lexer)'
    BY <1>1, <1>2, <2>2, DescentKeeps, FollowsPrime DEF StillFollows
  <2> QED
    BY <2>1, <2>3
<1>3. CASE dict_parser_new
  <2>1. phase = "parse" /\ phase' = "get" /\ stack = <<>> /\ entry_list' = result.tree.sub
    BY <1>3 DEF dict_parser_new
  <2>2. Descent /\ Whole(tree) \in Nodes /\ Follows(tree, stack, result, lexer)
    BY <2>1 DEF ParseInv, WellInv, Spells
  <2>3. result # Pending
    <3>1. SUFFICES ASSUME result = Pending PROVE FALSE
      OBVIOUS
    <3>2. CallersOK(Front(stack)) /\ stack = Append(Front(stack), Last(stack))
      BY <2>2, <3>1, AtPending DEF Descent, PendingAt
    <3>3. PICK s \in Seq(Frames) : s = Front(stack)
      BY <3>2 DEF CallersOK
    <3>4. Append(s, Last(stack)) # <<>>
      BY <3>3
    <3> QED
      BY <2>1, <3>2, <3>3, <3>4
  <2>4. PICK z, q : result = Parsed(z) /\ Waits(tree, <<>>, z, q)
    BY <2>1, <2>2, <2>3 DEF Follows, Made
  <2>5. z = Whole(tree)
    BY <2>2, <2>4, WaitsNone
  <2>6. result.tree.sub = tree
    BY <2>2, <2>4, <2>5, Results, WholeParts
  <2> QED
    BY <2>1, <2>6
<1>4. CASE get_dict_entry \/ get_dict_ends \/ UNCHANGED vars
  <2>1. /\ stack' = stack /\ result' = result /\ lexer' = lexer /\ entry_list' = entry_list
        /\ (phase = "parse" <=> phase' = "parse")
    BY <1>4, Zenon DEF get_dict_entry, get_dict_ends, vars, parseVars
  <2>2. ASSUME phase = "parse" PROVE Follows(tree, stack, result, lexer)'
    <3>1. Follows(tree, stack', result', lexer')
      BY <2>1, <2>2 DEF WellInv
    <3> QED
      BY <1>1, <3>1, FollowsPrime
  <2> QED
    BY <2>1, <2>2 DEF WellInv
<1> QED
  BY <1>2, <1>3, <1>4 DEF Next, Descends

\* The trees are such as the parser can make.
TreesMade == \A tree \in Tree : Whole(tree) \in Nodes

\* A file that is the text of a list of entries, blanks and comments aside, is
\* parsed as that list, however deep it goes: the one token of lookahead is
\* never lost, and no list ends too early or too late (lexer_get_token,
\* lexer_next_token_type and every _parse function).
THEOREM TextIsParsed == Spec => [](TreesMade => WellFormedParses)
<1>1. Init => ParseInv /\ WellInv
  BY ParseInit, WellInit
<1>2. ParseInv /\ WellInv /\ [Next]_vars => ParseInv' /\ WellInv'
  BY ParseStep, WellStep
<1>3. ParseInv /\ WellInv => (TreesMade => WellFormedParses)
  <2> SUFFICES ASSUME WellInv, TreesMade, phase = "get", NEW tree \in Tree, Without({"blank"}, file) = Text(tree)
               PROVE  entry_list = tree
    BY DEF WellFormedParses
  <2>1. Spells(tree)
    BY DEF TreesMade, Spells
  <2> QED
    BY <2>1 DEF WellInv
<1> QED
  BY <1>1, <1>2, <1>3, PTL DEF Spec

=============================================================================
