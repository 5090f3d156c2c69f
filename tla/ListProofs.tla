----------------------------- MODULE ListProofs -----------------------------
(***************************************************************************)
(* What the proofs about the modules share: induction over the numbers,    *)
(* the elements of sequences, what FlattenSeq makes of a sequence of       *)
(* sequences, sequences that list a set, each of its elements once, and    *)
(* sequences in which each element is replaced by a sequence.              *)
(***************************************************************************)
EXTENDS Integers, SequencesExt, FiniteSetTheorems, WellFoundedInduction, TLAPS

-----------------------------------------------------------------------------
(* Induction, and the smallest of some numbers *)

\* Induction over the numbers, for a set of numbers.
LEMMA NatInduct ==
  ASSUME NEW P, 0 \in P, \A n \in Nat : n \in P => n + 1 \in P
  PROVE  Nat \subseteq P
<1> SUFFICES ASSUME Nat \ P # {} PROVE FALSE
  OBVIOUS
<1> DEFINE Rest == Nat \ P
<1>1. PICK m \in Rest : \A k \in Rest : <<k, m>> \notin OpToRel(<, Nat)
  BY NatLessThanWellFounded, WFMin
<1>2. m \in Nat /\ m # 0 /\ m - 1 \in Nat
  OBVIOUS
<1>3. OpToRel(<, Nat) = {ss \in Nat \X Nat : ss[1] < ss[2]}
  BY Zenon DEF OpToRel
<1>4. <<m - 1, m>> \in {ss \in Nat \X Nat : ss[1] < ss[2]}
  BY <1>2
<1>5. m - 1 \notin Rest
  BY <1>1, <1>3, <1>4
<1>6. m - 1 \in P /\ m - 1 + 1 = m
  BY <1>2, <1>5
<1> QED
  BY <1>2, <1>6

LEMMA SmallestOf ==
  ASSUME NEW I, I \subseteq Nat, I # {}
  PROVE  Min(I) \in I /\ \A k \in I : Min(I) <= k
<1>1. PICK m \in I : \A k \in I : <<k, m>> \notin OpToRel(<, Nat)
  BY NatLessThanWellFounded, WFMin
<1>2. \A k \in I : m <= k
  <2>1. OpToRel(<, Nat) = {ss \in Nat \X Nat : ss[1] < ss[2]}
    BY Zenon DEF OpToRel
  <2>2. \A k \in I : <<k, m>> \notin {ss \in Nat \X Nat : ss[1] < ss[2]}
    BY <1>1, <2>1, Zenon
  <2>3. SUFFICES ASSUME NEW k \in I PROVE m <= k
    OBVIOUS
  <2>4. k \in Nat /\ m \in Nat /\ <<k, m>> \in Nat \X Nat
    BY <1>1
  <2>5. ~(<<k, m>>[1] < <<k, m>>[2])
    BY <2>2, <2>4, Zenon
  <2> QED
    BY <2>4, <2>5
<1>3. \E e \in I : \A k \in I : e <= k
  BY <1>1, <1>2
<1>4. Min(I) = CHOOSE e \in I : \A k \in I : e <= k
  BY DEF Min
<1> QED
  BY <1>3, <1>4, Zenon

-----------------------------------------------------------------------------
(* The elements of sequences *)

\* Sequences with the same elements are the same.
LEMMA SameElements ==
  ASSUME NEW S, NEW s \in Seq(S), NEW t \in Seq(S), Len(s) = Len(t),
         \A k \in 1 .. Len(s) : s[k] = t[k]
  PROVE  s = t
  OBVIOUS

InsertShape(u, t, p, e, l) ==
  /\ Len(u) = l + 1 /\ DOMAIN u = 1 .. l + 1
  /\ \A q \in 1 .. l + 1 : u[q] = IF q < p THEN t[q] ELSE IF q = p THEN e ELSE t[q - 1]

LEMMA InsertedAt ==
  ASSUME NEW S, NEW t \in Seq(S), NEW e \in S, NEW l \in Nat, l = Len(t), NEW p \in 1 .. l + 1
  PROVE  InsertShape(InsertAt(t, p, e), t, p, e, l)
<1>1. p \in Nat /\ p - 1 \in 0 .. l /\ l - (p - 1) \in Nat
  OBVIOUS
<1>2. PICK a : a = SubSeq(t, 1, p - 1)
  OBVIOUS
<1>3. PICK b : b = SubSeq(t, p, Len(t))
  OBVIOUS
<1>4. a \in Seq(S) /\ Len(a) = p - 1 /\ \A q \in 1 .. p - 1 : a[q] = t[q]
  BY <1>1, <1>2
<1>5. b \in Seq(S) /\ Len(b) = l - (p - 1) /\ \A q \in 1 .. l - (p - 1) : b[q] = t[p + q - 1]
  BY <1>1, <1>3
<1>6. PICK c : c = Append(a, e)
  OBVIOUS
<1>7. c \in Seq(S) /\ Len(c) = p /\ \A q \in 1 .. p : c[q] = IF q < p THEN t[q] ELSE e
  BY <1>1, <1>4, <1>6
<1>8. PICK u : u = c \o b
  OBVIOUS
<1>9. u \in Seq(S) /\ Len(u) = p + (l - (p - 1))
      /\ \A q \in 1 .. p + (l - (p - 1)) : u[q] = IF q <= p THEN c[q] ELSE b[q - p]
  BY <1>1, <1>5, <1>7, <1>8
<1>10. p + (l - (p - 1)) = l + 1
  BY <1>1
<1>11. ASSUME NEW q \in 1 .. l + 1
       PROVE  u[q] = IF q < p THEN t[q] ELSE IF q = p THEN e ELSE t[q - 1]
  <2>1. u[q] = IF q <= p THEN c[q] ELSE b[q - p]
    BY <1>9, <1>10
  <2>2. CASE q <= p
    <3>1. q \in 1 .. p
      BY <1>1, <2>2
    <3>2. c[q] = IF q < p THEN t[q] ELSE e
      BY <1>7, <3>1
    <3> QED
      BY <2>1, <2>2, <3>1, <3>2
  <2>3. CASE ~(q <= p)
    <3>1. q - p \in 1 .. l - (p - 1) /\ p + (q - p) - 1 = q - 1
      BY <1>1, <2>3
    <3>2. b[q - p] = t[q - 1]
      BY <1>5, <3>1
    <3>3. ~(q < p) /\ q # p
      BY <1>1, <2>3
    <3> QED
      BY <2>1, <2>3, <3>2, <3>3
  <2> QED
    BY <2>2, <2>3
<1>12. Len(u) = l + 1 /\ DOMAIN u = 1 .. l + 1
  BY <1>9, <1>10
<1>13. u = InsertAt(t, p, e)
  <2>1. a \o <<e>> = Append(a, e)
    BY <1>4
  <2> QED
    BY <1>2, <1>3, <1>6, <1>8, <2>1, Zenon DEF InsertAt
<1> QED
  BY <1>11, <1>12, <1>13, Zenon DEF InsertShape

LEMMA SuffixElements ==
  ASSUME NEW S, NEW s \in Seq(S), NEW T, NEW t \in Seq(T), IsSuffix(s, t)
  PROVE  Len(s) <= Len(t) /\ \A q \in 1 .. Len(s) : s[q] = t[Len(t) - Len(s) + q]
<1>1. PICK a, b : a = Reverse(s) /\ b = Reverse(t)
  OBVIOUS
<1>2. PICK n \in Nat : n = Len(s)
  OBVIOUS
<1>3. PICK l \in Nat : l = Len(t)
  OBVIOUS
<1>4. a = [k \in 1 .. n |-> s[n - k + 1]] /\ b = [k \in 1 .. l |-> t[l - k + 1]]
  BY <1>1, <1>2, <1>3 DEF Reverse
<1>5. a \in Seq(S) /\ Len(a) = n /\ \A k \in 1 .. n : a[k] = s[n - k + 1]
  <2>1. \A k \in 1 .. n : s[n - k + 1] \in S
    BY <1>2
  <2> QED
    BY <1>4, <2>1
<1>6. b \in Seq(T) /\ Len(b) = l /\ \A k \in 1 .. l : b[k] = t[l - k + 1]
  <2>1. \A k \in 1 .. l : t[l - k + 1] \in T
    BY <1>3
  <2> QED
    BY <1>4, <2>1
<1>7. n <= l /\ SubSeq(a, 1, n) = SubSeq(b, 1, n)
  BY <1>1, <1>5, <1>6 DEF IsSuffix, IsPrefix
<1>8. \A k \in 1 .. n : SubSeq(a, 1, n)[k] = a[k] /\ SubSeq(b, 1, n)[k] = b[k]
  BY <1>5, <1>6, <1>7
<1>9. \A k \in 1 .. n : a[k] = b[k]
  BY <1>7, <1>8
<1>10. ASSUME NEW q \in 1 .. n PROVE s[q] = t[l - n + q]
  <2>1. PICK k \in 1 .. n : k = n - q + 1
    OBVIOUS
  <2>2. a[k] = s[n - k + 1] /\ b[k] = t[l - k + 1]
    BY <1>5, <1>6, <1>7, SMTT(40)
  <2>3. n - k + 1 = q /\ l - k + 1 = l - n + q
    BY <2>1
  <2> QED
    BY <1>9, <2>2, <2>3
<1> QED
  BY <1>2, <1>3, <1>7, <1>10

LEMMA PrefixElements ==
  ASSUME NEW S, NEW s \in Seq(S), NEW T, NEW t \in Seq(T)
  PROVE  IsPrefix(s, t) <=> Len(s) <= Len(t) /\ \A q \in 1 .. Len(s) : s[q] = t[q]
<1>1. PICK n \in Nat : n = Len(s)
  OBVIOUS
<1>2. CASE n <= Len(t)
  <2>1. PICK a, b : a = SubSeq(s, 1, n) /\ b = SubSeq(t, 1, n)
    OBVIOUS
  <2>2. a \in Seq(S) /\ Len(a) = n /\ \A q \in 1 .. n : a[q] = s[q]
    BY <1>1, <2>1
  <2>3. b \in Seq(T) /\ Len(b) = n /\ \A q \in 1 .. n : b[q] = t[q]
    BY <1>1, <1>2, <2>1
  <2>4. PICK U : U = S \union T
    OBVIOUS
  <2>5. a \in Seq(U) /\ b \in Seq(U)
    BY <2>2, <2>3, <2>4
  <2>6. a = b <=> \A q \in 1 .. n : a[q] = b[q]
    BY <2>2, <2>3, <2>5, SameElements
  <2> QED
    BY <1>1, <1>2, <2>1, <2>2, <2>3, <2>6 DEF IsPrefix
<1>3. CASE ~(n <= Len(t))
  BY <1>1, <1>3 DEF IsPrefix
<1> QED
  BY <1>2, <1>3

JoinShape(s, a, b, n, m) ==
  /\ Len(s) = n + m
  /\ \A q \in 1 .. n + m : s[q] = IF q <= n THEN a[q] ELSE b[q - n]

LEMMA JoinedAt ==
  ASSUME NEW S, NEW a \in Seq(S), NEW b \in Seq(S),
         NEW n \in Nat, n = Len(a), NEW m \in Nat, m = Len(b)
  PROVE  JoinShape(a \o b, a, b, n, m)
  BY DEF JoinShape

LEMMA PrefixContinued ==
  ASSUME NEW S, NEW a \in Seq(S), NEW T, NEW b \in Seq(T), NEW c \in Seq(T),
         IsPrefix(a, b), IsStrictPrefix(b, c)
  PROVE  IsStrictPrefix(a, c)
<1>1. PICK n \in Nat : n = Len(a)
  OBVIOUS
<1>2. PICK m \in Nat : m = Len(b)
  OBVIOUS
<1>3. PICK l \in Nat : l = Len(c)
  OBVIOUS
<1>4. n <= m /\ \A q \in 1 .. n : a[q] = b[q]
  BY <1>1, <1>2, PrefixElements
<1>5. IsPrefix(b, c) /\ b # c
  BY DEF IsStrictPrefix
<1>6. m <= l /\ \A q \in 1 .. m : b[q] = c[q]
  BY <1>2, <1>3, <1>5, PrefixElements
<1>7. m # l
  BY <1>2, <1>3, <1>5, <1>6, SameElements
<1>8. n <= l /\ n # l /\ \A q \in 1 .. n : a[q] = c[q]
  <2>1. \A q \in 1 .. n : q \in 1 .. m
    BY <1>4
  <2> QED
    BY <1>4, <1>6, <1>7, <2>1
<1>9. IsPrefix(a, c)
  BY <1>1, <1>3, <1>8, PrefixElements
<1> QED
  BY <1>1, <1>3, <1>8, <1>9 DEF IsStrictPrefix

-----------------------------------------------------------------------------
(* What FlattenSeq makes of a sequence of sequences *)

\* FlattenSeq joins by a recursive function; Flat says that the function exists
\* and that every such function ends with "t".
Joins(u, ss) == u = [k \in 1 .. Len(ss) |-> IF k = 1 THEN ss[k] ELSE u[k - 1] \o ss[k]]

Flat(ss, t) ==
  /\ \E u : Joins(u, ss)
  /\ \A u : Joins(u, ss) /\ ss # <<>> => u[Len(ss)] = t
  /\ ss = <<>> => t = <<>>

LEMMA FlatIs ==
  ASSUME NEW S, NEW ss \in Seq(S), NEW t, Flat(ss, t)
  PROVE  FlattenSeq(ss) = t
<1>1. CASE ss = <<>>
  BY <1>1 DEF Flat, FlattenSeq
<1>2. CASE ss # <<>>
  <2> DEFINE F == CHOOSE u : u = [k \in 1 .. Len(ss) |-> IF k = 1 THEN ss[k] ELSE u[k - 1] \o ss[k]]
  <2>1. Len(ss) # 0
    BY <1>2
  <2>2. FlattenSeq(ss) = F[Len(ss)]
    BY <2>1 DEF FlattenSeq
  <2>3. F = [k \in 1 .. Len(ss) |-> IF k = 1 THEN ss[k] ELSE F[k - 1] \o ss[k]]
    <3>1. \E u : u = [k \in 1 .. Len(ss) |-> IF k = 1 THEN ss[k] ELSE u[k - 1] \o ss[k]]
      BY DEF Flat, Joins
    <3> QED
      BY <3>1
  <2> HIDE DEF F
  <2>4. Joins(F, ss)
    BY <2>3 DEF Joins
  <2> QED
    BY <1>2, <2>2, <2>4 DEF Flat
<1> QED
  BY <1>1, <1>2

LEMMA FlatNone == Flat(<<>>, <<>>)
<1>1. Joins(<<>>, <<>>)
  BY DEF Joins
<1> QED
  BY <1>1 DEF Flat

LEMMA NoElements == ASSUME NEW S, NEW s \in Seq(S), Len(s) = 0 PROVE s = <<>>
  OBVIOUS

LEMMA FlatMore ==
  ASSUME NEW S, NEW ss \in Seq(Seq(S)), NEW s \in Seq(S), NEW t \in Seq(S), Flat(ss, t)
  PROVE  Flat(Append(ss, s), t \o s)
<1>1. PICK n \in Nat : n = Len(ss)
  OBVIOUS
<1>2. PICK tt : tt = Append(ss, s)
  OBVIOUS
<1>3. Len(tt) = n + 1 /\ tt[n + 1] = s /\ (\A k \in 1 .. n : tt[k] = ss[k]) /\ tt # <<>>
  BY <1>1, <1>2
<1>4. \E u : Joins(u, tt)
  <2>1. PICK u : Joins(u, ss)
    BY DEF Flat
  <2>2. u = [k \in 1 .. n |-> IF k = 1 THEN ss[k] ELSE u[k - 1] \o ss[k]]
    BY <1>1, <2>1 DEF Joins
  <2>3. PICK e : e = IF n + 1 = 1 THEN s ELSE u[n] \o s
    OBVIOUS
  <2>4. PICK v : v = [k \in 1 .. n + 1 |-> IF k = n + 1 THEN e ELSE u[k]]
    OBVIOUS
  <2>5. \A k \in 1 .. n + 1 : v[k] = IF k = 1 THEN tt[k] ELSE v[k - 1] \o tt[k]
    <3> TAKE k \in 1 .. n + 1
    <3>1. CASE k = n + 1
      <4>1. v[k] = e /\ tt[k] = s
        BY <1>3, <2>4, <3>1
      <4>2. k # 1 => v[k - 1] = u[n]
        BY <2>4, <3>1
      <4> QED
        BY <2>3, <3>1, <4>1, <4>2
    <3>2. CASE k \in 1 .. n
      <4>1. v[k] = u[k] /\ tt[k] = ss[k] /\ (k # 1 => v[k - 1] = u[k - 1])
        BY <1>3, <2>4, <3>2
      <4>2. u[k] = IF k = 1 THEN ss[k] ELSE u[k - 1] \o ss[k]
        BY <2>2, <3>2
      <4> QED
        BY <4>1, <4>2
    <3> QED
      BY <3>1, <3>2
  <2>6. v = [k \in 1 .. n + 1 |-> v[k]]
    BY <2>4
  <2>7. v = [k \in 1 .. n + 1 |-> IF k = 1 THEN tt[k] ELSE v[k - 1] \o tt[k]]
    BY <2>5, <2>6
  <2> QED
    BY <1>3, <2>7 DEF Joins
<1>5. ASSUME NEW v, Joins(v, tt) PROVE v[n + 1] = t \o s
  <2>1. v = [k \in 1 .. n + 1 |-> IF k = 1 THEN tt[k] ELSE v[k - 1] \o tt[k]]
    BY <1>3, <1>5 DEF Joins
  <2>2. \A k \in 1 .. n + 1 : v[k] = IF k = 1 THEN tt[k] ELSE v[k - 1] \o tt[k]
    BY <2>1, Zenon
  <2>3. n + 1 \in 1 .. n + 1 /\ (n + 1) - 1 = n
    OBVIOUS
  <2>4. CASE n = 0
    <3>1. ss = <<>>
      BY <1>1, <2>4, NoElements, Zenon
    <3>2. t = <<>>
      BY <3>1 DEF Flat
    <3>3. v[n + 1] = s
      BY <1>3, <2>2, <2>3, <2>4
    <3> QED
      BY <3>2, <3>3
  <2>5. CASE n # 0
    <3>1. PICK w : w = [k \in 1 .. n |-> v[k]]
      OBVIOUS
    <3>2. \A k \in 1 .. n : w[k] = IF k = 1 THEN ss[k] ELSE w[k - 1] \o ss[k]
      <4> TAKE k \in 1 .. n
      <4>1. w[k] = v[k] /\ tt[k] = ss[k] /\ (k # 1 => w[k - 1] = v[k - 1]) /\ k \in 1 .. n + 1
        BY <1>3, <3>1
      <4>2. v[k] = IF k = 1 THEN tt[k] ELSE v[k - 1] \o tt[k]
        BY <2>2, <4>1
      <4> QED
        BY <4>1, <4>2
    <3>3. w = [k \in 1 .. n |-> w[k]]
      BY <3>1
    <3>4. w = [k \in 1 .. n |-> IF k = 1 THEN ss[k] ELSE w[k - 1] \o ss[k]]
      BY <3>2, <3>3
    <3>5. Joins(w, ss)
      BY <1>1, <3>4 DEF Joins
    <3>6. ss # <<>>
      BY <1>1, <2>5
    <3>7. w[n] = t
      BY <1>1, <3>5, <3>6 DEF Flat
    <3>8. v[n] = t
      BY <2>5, <3>1, <3>7
    <3>9. n + 1 # 1
      BY <2>5
    <3>10. v[n + 1] = v[n] \o tt[n + 1]
      BY <2>2, <2>3, <3>9
    <3> QED
      BY <1>3, <3>8, <3>10, Zenon
  <2> QED
    BY <2>4, <2>5
<1> QED
  BY <1>2, <1>3, <1>4, <1>5 DEF Flat

\* The elements of t are those of the first n sequences ss: the k-th one is the
\* at[k]-th of the of[k]-th.
Laid(l, t, ss, n, of, at) ==
  /\ of \in [1 .. l -> Nat] /\ at \in [1 .. l -> Nat]
  /\ \A k \in 1 .. l : of[k] \in 1 .. n /\ at[k] \in 1 .. Len(ss[of[k]]) /\ t[k] = ss[of[k]][at[k]]
  /\ \A a \in 1 .. n : \A b \in 1 .. Len(ss[a]) : \E k \in 1 .. l : of[k] = a /\ at[k] = b
  /\ \A k \in 1 .. l : \A j \in 1 .. k - 1 : of[j] < of[k] \/ (of[j] = of[k] /\ at[j] < at[k])

IsLaid(t, ss, n) == \E l \in Nat : l = Len(t) /\ \E of, at : Laid(l, t, ss, n, of, at)

LEMMA LaidMore ==
  ASSUME NEW S, NEW ss \in Seq(Seq(S)), NEW n \in Nat, n + 1 <= Len(ss),
         NEW t \in Seq(S), IsLaid(t, ss, n)
  PROVE  IsLaid(t \o ss[n + 1], ss, n + 1)
<1>1. PICK l \in Nat : l = Len(t) /\ \E of, at : Laid(l, t, ss, n, of, at)
  BY DEF IsLaid
<1>2. PICK of, at : Laid(l, t, ss, n, of, at)
  BY <1>1
<1>3. PICK s : s = ss[n + 1]
  OBVIOUS
<1>4. s \in Seq(S)
  BY <1>3
<1>5. l \in Nat /\ l = Len(t)
  BY <1>1
<1>6. PICK m \in Nat : m = Len(s)
  BY <1>4
<1>7. PICK u : u = t \o s
  OBVIOUS
<1>8. /\ Len(u) = l + m
      /\ \A k \in 1 .. l : u[k] = t[k]
      /\ \A k \in l + 1 .. l + m : u[k] = s[k - l]
  BY <1>4, <1>5, <1>6, <1>7
<1>9. /\ of \in [1 .. l -> Nat] /\ at \in [1 .. l -> Nat]
      /\ \A k \in 1 .. l : of[k] \in 1 .. n /\ at[k] \in 1 .. Len(ss[of[k]]) /\ t[k] = ss[of[k]][at[k]]
      /\ \A a \in 1 .. n : \A b \in 1 .. Len(ss[a]) : \E k \in 1 .. l : of[k] = a /\ at[k] = b
      /\ \A k \in 1 .. l : \A j \in 1 .. k - 1 :
           of[j] < of[k] \/ (of[j] = of[k] /\ at[j] < at[k])
  BY <1>2, Zenon DEF Laid
<1>10. PICK off : off = [k \in 1 .. l + m |-> IF k <= l THEN of[k] ELSE n + 1]
  OBVIOUS
<1>11. PICK att : att = [k \in 1 .. l + m |-> IF k <= l THEN at[k] ELSE k - l]
  OBVIOUS
<1>12. \A k \in 1 .. l : off[k] = of[k] /\ att[k] = at[k]
  BY <1>10, <1>11
<1>13. \A k \in l + 1 .. l + m : off[k] = n + 1 /\ att[k] = k - l /\ att[k] \in 1 .. m
  BY <1>10, <1>11
<1>14. \A k \in 1 .. l + m : k \in 1 .. l \/ k \in l + 1 .. l + m
  OBVIOUS
<1>15. off \in [1 .. l + m -> Nat] /\ att \in [1 .. l + m -> Nat]
  BY <1>9, <1>10, <1>11, SMTT(40)
<1>16. ASSUME NEW k \in 1 .. l + m
       PROVE  off[k] \in 1 .. n + 1 /\ att[k] \in 1 .. Len(ss[off[k]]) /\ u[k] = ss[off[k]][att[k]]
  <2>1. CASE k \in 1 .. l
    <3>1. of[k] \in 1 .. n + 1
      BY <1>9, <2>1
    <3> QED
      BY <1>8, <1>9, <1>12, <2>1, <3>1, Zenon
  <2>2. CASE k \in l + 1 .. l + m
    <3>1. n + 1 \in 1 .. n + 1
      OBVIOUS
    <3> QED
      BY <1>3, <1>6, <1>8, <1>13, <2>2, <3>1, Zenon
  <2> QED
    BY <1>14, <2>1, <2>2
<1>17. ASSUME NEW a \in 1 .. n + 1, NEW b \in 1 .. Len(ss[a])
       PROVE  \E k \in 1 .. l + m : off[k] = a /\ att[k] = b
  <2>1. CASE a \in 1 .. n
    <3>1. PICK k \in 1 .. l : of[k] = a /\ at[k] = b
      BY <1>9, <1>17, <2>1
    <3>2. k \in 1 .. l + m
      BY <3>1
    <3> QED
      BY <1>12, <3>1, <3>2
  <2>2. CASE a = n + 1
    <3>1. b \in 1 .. m
      BY <1>3, <1>6, <1>17, <2>2
    <3>2. l + b \in l + 1 .. l + m /\ l + b \in 1 .. l + m /\ (l + b) - l = b
      BY <3>1
    <3> QED
      BY <1>13, <2>2, <3>2
  <2> QED
    BY <2>1, <2>2
<1>18. ASSUME NEW k \in 1 .. l + m, NEW j \in 1 .. k - 1
       PROVE  off[j] < off[k] \/ (off[j] = off[k] /\ att[j] < att[k])
  <2>1. CASE k \in 1 .. l
    <3>1. j \in 1 .. l
      BY <2>1
    <3> QED
      BY <1>9, <1>12, <2>1, <3>1, SMTT(40)
  <2>2. CASE k \in l + 1 .. l + m
    <3>1. CASE j \in 1 .. l
      <4>1. off[j] = of[j] /\ of[j] \in 1 .. n /\ off[k] = n + 1
        BY <1>9, <1>12, <1>13, <2>2, <3>1
      <4> QED
        BY <4>1
    <3>2. CASE j \in l + 1 .. l + m
      BY <1>13, <2>2, <3>2
    <3> QED
      BY <3>1, <3>2
  <2> QED
    BY <1>14, <2>1, <2>2
<1>19. Laid(l + m, u, ss, n + 1, off, att)
  BY <1>15, <1>16, <1>17, <1>18, Zenon DEF Laid
<1>20. l + m \in Nat /\ l + m = Len(u)
  BY <1>8
<1> QED
  BY <1>3, <1>7, <1>19, <1>20, Zenon DEF IsLaid

LEMMA FlatLaid ==
  ASSUME NEW S, NEW ss \in Seq(Seq(S))
  PROVE  FlattenSeq(ss) \in Seq(S) /\ IsLaid(FlattenSeq(ss), ss, Len(ss))
<1> DEFINE Done(n) == \E t \in Seq(S) : Flat(SubSeq(ss, 1, n), t) /\ IsLaid(t, ss, n)
           P == {n \in Nat : n <= Len(ss) => Done(n)}
<1>1. 0 \in P
  <2>1. SubSeq(ss, 1, 0) = <<>>
    OBVIOUS
  <2>2. Laid(0, <<>>, ss, 0, [k \in 1 .. 0 |-> 0], [k \in 1 .. 0 |-> 0])
    BY DEF Laid
  <2>3. <<>> \in Seq(S) /\ IsLaid(<<>>, ss, 0)
    BY <2>2 DEF IsLaid
  <2> QED
    BY <2>1, <2>3, FlatNone
<1>2. ASSUME NEW n \in Nat, n \in P PROVE n + 1 \in P
  <2> SUFFICES ASSUME n + 1 <= Len(ss) PROVE Done(n + 1)
    OBVIOUS
  <2>1. PICK t \in Seq(S) : Flat(SubSeq(ss, 1, n), t) /\ IsLaid(t, ss, n)
    BY <1>2
  <2>2. PICK pre : pre = SubSeq(ss, 1, n)
    OBVIOUS
  <2>3. pre \in Seq(Seq(S)) /\ ss[n + 1] \in Seq(S)
    BY <2>2
  <2>4. SubSeq(ss, 1, n + 1) = Append(pre, ss[n + 1])
    <3>1. PICK w : w = SubSeq(ss, 1, n + 1)
      OBVIOUS
    <3>2. PICK v : v = Append(pre, ss[n + 1])
      OBVIOUS
    <3>3. w \in Seq(Seq(S)) /\ Len(w) = n + 1 /\ \A k \in 1 .. n + 1 : w[k] = ss[k]
      BY <3>1
    <3>4. Len(pre) = n /\ \A k \in 1 .. n : pre[k] = ss[k]
      BY <2>2
    <3>5. v \in Seq(Seq(S)) /\ Len(v) = n + 1 /\ \A k \in 1 .. n + 1 : v[k] = ss[k]
      BY <2>3, <3>2, <3>4
    <3>6. w = v
      BY <3>3, <3>5, SameElements
    <3> QED
      BY <3>1, <3>2, <3>6
  <2>5. Flat(pre, t)
    BY <2>1, <2>2
  <2>6. Flat(Append(pre, ss[n + 1]), t \o ss[n + 1])
    BY <2>1, <2>3, <2>5, FlatMore
  <2>7. IsLaid(t \o ss[n + 1], ss, n + 1)
    BY <2>1, LaidMore
  <2>8. t \o ss[n + 1] \in Seq(S)
    BY <2>1, <2>3
  <2> QED
    BY <2>4, <2>6, <2>7, <2>8
<1> HIDE DEF P, Done
<1>3. Nat \subseteq P
  BY <1>1, <1>2, NatInduct
<1>4. Len(ss) \in P
  BY <1>3
<1>5. Done(Len(ss))
  BY <1>4 DEF P
<1>6. PICK t \in Seq(S) : Flat(SubSeq(ss, 1, Len(ss)), t) /\ IsLaid(t, ss, Len(ss))
  BY <1>5 DEF Done
<1>7. SubSeq(ss, 1, Len(ss)) = ss
  OBVIOUS
<1>8. FlattenSeq(ss) = t
  BY <1>6, <1>7, FlatIs
<1>9. FlattenSeq(ss) = FlattenSeq(ss)
  BY DEF FlattenSeq, FlattenSeq
<1> QED
  BY <1>6, <1>8, <1>9

-----------------------------------------------------------------------------
(* The order of the elements *)

\* No pair of elements stands in an order that is bad.
InOrder(s, Bad) == \A k \in DOMAIN s : \A j \in 1 .. k - 1 : <<s[j], s[k]>> \notin Bad

\* No pair of an element of s and one of t.
Apart(s, t, Bad) == \A a \in DOMAIN s : \A b \in DOMAIN t : <<s[a], t[b]>> \notin Bad

LEMMA FlattenOrder ==
  ASSUME NEW S, NEW N \in Nat, NEW ss, ss = [k \in 1 .. N |-> ss[k]], NEW Bad,
         \A k \in 1 .. N : ss[k] \in Seq(S) /\ InOrder(ss[k], Bad),
         \A k \in 1 .. N : \A j \in 1 .. k - 1 : Apart(ss[j], ss[k], Bad)
  PROVE  FlattenSeq(ss) \in Seq(S) /\ InOrder(FlattenSeq(ss), Bad)
<1>1. ss \in Seq(Seq(S)) /\ Len(ss) = N
  <2>1. PICK Q : Q = Seq(S)
    OBVIOUS
  <2>2. \A k \in 1 .. N : ss[k] \in Q
    BY <2>1
  <2>3. ss \in Seq(Q) /\ Len(ss) = N
    BY <2>2
  <2> QED
    BY <2>1, <2>3
<1>2. PICK t : t = FlattenSeq(ss)
  OBVIOUS
<1>3. t \in Seq(S) /\ IsLaid(t, ss, N)
  BY <1>1, <1>2, FlatLaid
<1>4. PICK l \in Nat : l = Len(t) /\ \E of, at : Laid(l, t, ss, N, of, at)
  BY <1>3 DEF IsLaid
<1>5. PICK of, at : Laid(l, t, ss, N, of, at)
  BY <1>4
<1>6. \A k \in 1 .. l : of[k] \in 1 .. N /\ at[k] \in 1 .. Len(ss[of[k]]) /\ t[k] = ss[of[k]][at[k]]
  BY <1>5, Zenon DEF Laid
<1>7. \A k \in 1 .. l : \A j \in 1 .. k - 1 : of[j] < of[k] \/ (of[j] = of[k] /\ at[j] < at[k])
  BY <1>5, Zenon DEF Laid
<1>8. ASSUME NEW k \in 1 .. l, NEW j \in 1 .. k - 1 PROVE <<t[j], t[k]>> \notin Bad
  <2>1. j \in 1 .. l
    OBVIOUS
  <2>2. PICK a, b : a = of[j] /\ b = of[k]
    OBVIOUS
  <2>3. PICK c, d : c = at[j] /\ d = at[k]
    OBVIOUS
  <2>4. a \in 1 .. N /\ b \in 1 .. N /\ c \in 1 .. Len(ss[a]) /\ d \in 1 .. Len(ss[b])
        /\ t[j] = ss[a][c] /\ t[k] = ss[b][d]
    BY <1>6, <2>1, <2>2, <2>3
  <2>5. a < b \/ (a = b /\ c < d)
    BY <1>7, <2>2, <2>3
  <2>6. ss[a] \in Seq(S) /\ ss[b] \in Seq(S) /\ InOrder(ss[b], Bad)
    BY <2>4
  <2>7. c \in DOMAIN ss[a] /\ d \in DOMAIN ss[b]
    BY <2>4, <2>6
  <2>8. CASE a < b
    <3>1. a \in 1 .. b - 1
      BY <2>4, <2>8
    <3>2. Apart(ss[a], ss[b], Bad)
      BY <2>4, <3>1
    <3> QED
      BY <2>4, <2>7, <3>2 DEF Apart
  <2>9. CASE a = b /\ c < d
    <3>1. c \in 1 .. d - 1
      BY <2>4, <2>9
    <3> QED
      BY <2>4, <2>6, <2>7, <2>9, <3>1, Zenon DEF InOrder
  <2> QED
    BY <2>5, <2>8, <2>9
<1>9. DOMAIN t = 1 .. l
  BY <1>3, <1>4
<1> QED
  BY <1>2, <1>3, <1>8, <1>9, Zenon DEF InOrder

-----------------------------------------------------------------------------
(* Sequences that list a set *)

\* The elements of s are what f makes of those of A, each of them once: b numbers
\* the elements of A.
Listing(s, n, b, A, f) ==
  /\ n \in Nat /\ s = [k \in 1 .. n |-> f[b[k]]]
  /\ b \in [1 .. n -> A]
  /\ \A j, k \in 1 .. n : b[j] = b[k] => j = k
  /\ \A a \in A : \E k \in 1 .. n : b[k] = a

Lists(s, A, f) == \E n, b : Listing(s, n, b, A, f)

Shape(s, n, b, A, f) ==
  /\ n \in Nat /\ Len(s) = n /\ DOMAIN s = 1 .. n /\ s \in Seq({f[a] : a \in A})
  /\ \A k \in 1 .. n : b[k] \in A /\ s[k] = f[b[k]]
  /\ \A j, k \in 1 .. n : b[j] = b[k] => j = k
  /\ \A a \in A : \E k \in 1 .. n : b[k] = a

LEMMA ListsShape ==
  ASSUME NEW s, NEW A, NEW f, NEW n, NEW b, Listing(s, n, b, A, f)
  PROVE  Shape(s, n, b, A, f)
<1>1. /\ n \in Nat /\ s = [k \in 1 .. n |-> f[b[k]]] /\ b \in [1 .. n -> A]
      /\ \A j, k \in 1 .. n : b[j] = b[k] => j = k
      /\ \A a \in A : \E k \in 1 .. n : b[k] = a
  BY Zenon DEF Listing
<1>2. DOMAIN s = 1 .. n /\ \A k \in 1 .. n : s[k] = f[b[k]] /\ b[k] \in A
  BY <1>1
<1>3. s \in Seq({f[a] : a \in A}) /\ Len(s) = n
  BY <1>1, <1>2
<1> QED
  BY <1>1, <1>3, Zenon DEF Shape

LEMMA ListsIntro ==
  ASSUME NEW A, NEW f, NEW n \in Nat, NEW b \in [1 .. n -> A],
         \A j, k \in 1 .. n : b[j] = b[k] => j = k,
         \A a \in A : \E k \in 1 .. n : b[k] = a,
         NEW s, s = [k \in 1 .. n |-> f[b[k]]]
  PROVE  Lists(s, A, f)
<1>1. Listing(s, n, b, A, f)
  BY Zenon DEF Listing
<1> QED
  BY <1>1, Zenon DEF Lists

LEMMA ListsType ==
  ASSUME NEW s, NEW A, NEW f, Lists(s, A, f), NEW S, \A a \in A : f[a] \in S
  PROVE  s \in Seq(S)
<1>1. PICK n, b : Listing(s, n, b, A, f)
  BY Zenon DEF Lists
<1>2. Shape(s, n, b, A, f)
  BY <1>1, ListsShape, Zenon
<1>3. /\ n \in Nat /\ Len(s) = n /\ DOMAIN s = 1 .. n /\ s \in Seq({f[c] : c \in A})
      /\ \A k \in 1 .. n : b[k] \in A /\ s[k] = f[b[k]]
  BY <1>2, Zenon DEF Shape
<1>4. \A j, k \in 1 .. n : b[j] = b[k] => j = k
  BY <1>2, Zenon DEF Shape
<1>5. \A c \in A : \E k \in 1 .. n : b[k] = c
  BY <1>2, Zenon DEF Shape
<1> QED
  BY <1>3

LEMMA ListsNone == ASSUME NEW f PROVE Lists(<<>>, {}, f)
<1>1. PICK b : b = [k \in 1 .. 0 |-> 0]
  OBVIOUS
<1>2. b \in [1 .. 0 -> {}] /\ 0 \in Nat
  BY <1>1
<1>3. <<>> = [k \in 1 .. 0 |-> f[b[k]]]
  OBVIOUS
<1>4. \A j, k \in 1 .. 0 : b[j] = b[k] => j = k
  OBVIOUS
<1> QED
  BY <1>2, <1>3, <1>4, ListsIntro, Zenon

LEMMA ListsEmpty == ASSUME NEW A, NEW f, Lists(<<>>, A, f) PROVE A = {}
<1>1. PICK n, b : Listing(<<>>, n, b, A, f)
  BY Zenon DEF Lists
<1>2. Shape(<<>>, n, b, A, f)
  BY <1>1, ListsShape, Zenon
<1>3. /\ n \in Nat /\ Len(<<>>) = n /\ DOMAIN <<>> = 1 .. n /\ <<>> \in Seq({f[c] : c \in A})
      /\ \A k \in 1 .. n : b[k] \in A /\ <<>>[k] = f[b[k]]
  BY <1>2, Zenon DEF Shape
<1>4. \A j, k \in 1 .. n : b[j] = b[k] => j = k
  BY <1>2, Zenon DEF Shape
<1>5. \A c \in A : \E k \in 1 .. n : b[k] = c
  BY <1>2, Zenon DEF Shape
<1>6. n = 0
  BY <1>3
<1> QED
  BY <1>6, <1>5

LEMMA ListsAgree ==
  ASSUME NEW s, NEW A, NEW f, NEW g, Lists(s, A, f), \A a \in A : g[a] = f[a]
  PROVE  Lists(s, A, g)
<1>1. PICK n, b : Listing(s, n, b, A, f)
  BY Zenon DEF Lists
<1>2. Shape(s, n, b, A, f)
  BY <1>1, ListsShape, Zenon
<1>3. /\ n \in Nat /\ Len(s) = n /\ DOMAIN s = 1 .. n /\ s \in Seq({f[c] : c \in A})
      /\ \A k \in 1 .. n : b[k] \in A /\ s[k] = f[b[k]]
  BY <1>2, Zenon DEF Shape
<1>4. \A j, k \in 1 .. n : b[j] = b[k] => j = k
  BY <1>2, Zenon DEF Shape
<1>5. \A c \in A : \E k \in 1 .. n : b[k] = c
  BY <1>2, Zenon DEF Shape
<1>6. s = [k \in 1 .. n |-> g[b[k]]]
  BY <1>3
<1>7. b \in [1 .. n -> A]
  BY <1>1, Zenon DEF Listing
<1>8. Listing(s, n, b, A, g)
  BY <1>3, <1>6, <1>7, <1>4, <1>5, Zenon DEF Listing
<1> QED
  BY <1>8, Zenon DEF Lists

\* Every element is that of a member of the set.
HasElements(s, A, f) ==
  /\ DOMAIN s = 1 .. Len(s)
  /\ \A k \in DOMAIN s : \E a \in A : s[k] = f[a]
  /\ \A a \in A : \E k \in DOMAIN s : s[k] = f[a]

LEMMA ListsElement == ASSUME NEW s, NEW A, NEW f, Lists(s, A, f) PROVE HasElements(s, A, f)
<1>1. PICK n, b : Listing(s, n, b, A, f)
  BY Zenon DEF Lists
<1>2. Shape(s, n, b, A, f)
  BY <1>1, ListsShape, Zenon
<1>3. /\ n \in Nat /\ Len(s) = n /\ DOMAIN s = 1 .. n /\ s \in Seq({f[c] : c \in A})
      /\ \A k \in 1 .. n : b[k] \in A /\ s[k] = f[b[k]]
  BY <1>2, Zenon DEF Shape
<1>4. \A j, k \in 1 .. n : b[j] = b[k] => j = k
  BY <1>2, Zenon DEF Shape
<1>5. \A c \in A : \E k \in 1 .. n : b[k] = c
  BY <1>2, Zenon DEF Shape
<1> QED
  BY <1>3, <1>5 DEF HasElements

LEMMA ListsMap ==
  ASSUME NEW s, NEW A, NEW f, NEW g, Lists(s, A, f), NEW t, t = [k \in DOMAIN s |-> t[k]],
         \A k \in DOMAIN s : \A a \in A : s[k] = f[a] => t[k] = g[a]
  PROVE  Lists(t, A, g)
<1>1. PICK n, b : Listing(s, n, b, A, f)
  BY Zenon DEF Lists
<1>2. Shape(s, n, b, A, f)
  BY <1>1, ListsShape, Zenon
<1>3. /\ n \in Nat /\ Len(s) = n /\ DOMAIN s = 1 .. n /\ s \in Seq({f[c] : c \in A})
      /\ \A k \in 1 .. n : b[k] \in A /\ s[k] = f[b[k]]
  BY <1>2, Zenon DEF Shape
<1>4. \A j, k \in 1 .. n : b[j] = b[k] => j = k
  BY <1>2, Zenon DEF Shape
<1>5. \A c \in A : \E k \in 1 .. n : b[k] = c
  BY <1>2, Zenon DEF Shape
<1>6. \A k \in 1 .. n : t[k] = g[b[k]]
  BY <1>3
<1>7. t = [k \in 1 .. n |-> t[k]]
  BY <1>3
<1>8. t = [k \in 1 .. n |-> g[b[k]]]
  BY <1>6, <1>7
<1>9. b \in [1 .. n -> A]
  BY <1>1, Zenon DEF Listing
<1> QED
  BY <1>3, <1>8, <1>9, <1>4, <1>5, ListsIntro, ZenonT(40)

\* The same elements under other names.
LEMMA ListsRename ==
  ASSUME NEW s, NEW A, NEW f, Lists(s, A, f), NEW B, NEW g, NEW name,
         \A a \in A : name[a] \in B,
         \A a, c \in A : name[a] = name[c] => a = c,
         \A d \in B : \E a \in A : name[a] = d,
         \A a \in A : g[name[a]] = f[a]
  PROVE  Lists(s, B, g)
<1>1. PICK n, b : Listing(s, n, b, A, f)
  BY Zenon DEF Lists
<1>2. Shape(s, n, b, A, f)
  BY <1>1, ListsShape, Zenon
<1>3. /\ n \in Nat /\ Len(s) = n /\ DOMAIN s = 1 .. n /\ s \in Seq({f[c] : c \in A})
      /\ \A k \in 1 .. n : b[k] \in A /\ s[k] = f[b[k]]
  BY <1>2, Zenon DEF Shape
<1>4. \A j, k \in 1 .. n : b[j] = b[k] => j = k
  BY <1>2, Zenon DEF Shape
<1>5. \A c \in A : \E k \in 1 .. n : b[k] = c
  BY <1>2, Zenon DEF Shape
<1>6. PICK e : e = [k \in 1 .. n |-> name[b[k]]]
  OBVIOUS
<1>7. \A k \in 1 .. n : e[k] = name[b[k]] /\ e[k] \in B
  BY <1>3, <1>6
<1>8. e \in [1 .. n -> B]
  BY <1>6, <1>7
<1>9. \A j, k \in 1 .. n : e[j] = e[k] => j = k
  <2> SUFFICES ASSUME NEW j \in 1 .. n, NEW k \in 1 .. n, e[j] = e[k] PROVE j = k
    OBVIOUS
  <2>1. b[j] \in A /\ b[k] \in A /\ name[b[j]] = name[b[k]]
    BY <1>3, <1>7
  <2>2. b[j] = b[k]
    BY <2>1
  <2> QED
    BY <1>4, <2>2
<1>10. \A d \in B : \E k \in 1 .. n : e[k] = d
  <2> SUFFICES ASSUME NEW d \in B PROVE \E k \in 1 .. n : e[k] = d
    OBVIOUS
  <2>1. PICK a \in A : name[a] = d
    OBVIOUS
  <2>2. PICK k \in 1 .. n : b[k] = a
    BY <1>5, <2>1, Zenon
  <2> QED
    BY <1>7, <2>1, <2>2, Zenon
<1>11. s = [k \in 1 .. n |-> g[e[k]]]
  <2>1. \A k \in 1 .. n : g[e[k]] = f[b[k]]
    BY <1>3, <1>7
  <2>2. s = [k \in 1 .. n |-> f[b[k]]]
    BY <1>1, Zenon DEF Listing
  <2> QED
    BY <2>1, <2>2
<1>12. Listing(s, n, e, B, g)
  BY <1>3, <1>8, <1>9, <1>10, <1>11, Zenon DEF Listing
<1> QED
  BY <1>12, Zenon DEF Lists

LEMMA ListsInsert ==
  ASSUME NEW s, NEW A, NEW f, Lists(s, A, f), NEW a, a \notin A, NEW p \in 1 .. Len(s) + 1
  PROVE  Lists(InsertAt(s, p, f[a]), A \union {a}, f)
<1>1. PICK n, b : Listing(s, n, b, A, f)
  BY Zenon DEF Lists
<1>2. Shape(s, n, b, A, f)
  BY <1>1, ListsShape, Zenon
<1>3. /\ n \in Nat /\ Len(s) = n /\ DOMAIN s = 1 .. n /\ s \in Seq({f[c] : c \in A})
      /\ \A k \in 1 .. n : b[k] \in A /\ s[k] = f[b[k]]
  BY <1>2, Zenon DEF Shape
<1>4. \A j, k \in 1 .. n : b[j] = b[k] => j = k
  BY <1>2, Zenon DEF Shape
<1>5. \A c \in A : \E k \in 1 .. n : b[k] = c
  BY <1>2, Zenon DEF Shape
<1>6. PICK e : e = [k \in 1 .. n + 1 |-> IF k < p THEN b[k] ELSE IF k = p THEN a ELSE b[k - 1]]
  OBVIOUS
<1>7. p \in 1 .. n + 1 /\ p \in Nat
  BY <1>3
<1>8. /\ \A k \in 1 .. p - 1 : e[k] = b[k] /\ k \in 1 .. n
      /\ e[p] = a
      /\ \A k \in p + 1 .. n + 1 : e[k] = b[k - 1] /\ k - 1 \in 1 .. n
  BY <1>3, <1>6, <1>7
<1>9. \A k \in 1 .. n + 1 : k \in 1 .. p - 1 \/ k = p \/ k \in p + 1 .. n + 1
  BY <1>3, <1>7
<1>10. \A k \in 1 .. n + 1 : e[k] \in A \union {a}
  BY <1>3, <1>8, <1>9
<1>11. e \in [1 .. n + 1 -> A \union {a}] /\ n + 1 \in Nat
  BY <1>3, <1>6, <1>10
<1>12. ASSUME NEW j \in 1 .. n + 1, NEW k \in 1 .. n + 1, e[j] = e[k] PROVE j = k
  <2>1. CASE j = p \/ k = p
    BY <1>3, <1>8, <1>9, <1>12, <2>1
  <2>2. CASE j # p /\ k # p
    <3>1. PICK q : q = IF j < p THEN j ELSE j - 1
      OBVIOUS
    <3>2. PICK r : r = IF k < p THEN k ELSE k - 1
      OBVIOUS
    <3>3. q \in 1 .. n /\ r \in 1 .. n /\ (q = r => j = k)
      BY <1>3, <1>7, <2>2, <3>1, <3>2
    <3>4. e[j] = b[q] /\ e[k] = b[r]
      BY <1>3, <1>6, <2>2, <3>1, <3>2, <1>7
    <3> QED
      BY <1>12, <1>4, <3>3, <3>4, Zenon
  <2> QED
    BY <2>1, <2>2
<1>13. ASSUME NEW c \in A \union {a} PROVE \E k \in 1 .. n + 1 : e[k] = c
  <2>1. CASE c = a
    BY <1>7, <1>8, <2>1
  <2>2. CASE c \in A
    <3>1. PICK k \in 1 .. n : b[k] = c
      BY <1>5, <2>2
    <3>2. CASE k < p
      <4>1. k \in 1 .. n + 1 /\ e[k] = b[k]
        BY <1>3, <1>6, <3>2
      <4> QED
        BY <3>1, <4>1
    <3>3. CASE ~(k < p)
      <4>1. k + 1 \in p + 1 .. n + 1 /\ k + 1 \in 1 .. n + 1 /\ (k + 1) - 1 = k
        BY <1>3, <1>7, <3>3
      <4>2. e[k + 1] = b[k]
        BY <1>8, <4>1
      <4> QED
        BY <3>1, <4>1, <4>2
    <3> QED
      BY <3>2, <3>3
  <2> QED
    BY <1>13, <2>1, <2>2
<1>14. InsertAt(s, p, f[a]) = [k \in 1 .. n + 1 |-> f[e[k]]]
  <2>1. PICK S : S = {f[c] : c \in A \union {a}}
    OBVIOUS
  <2>2. s \in Seq(S) /\ f[a] \in S
    BY <1>3, <2>1
  <2>3. PICK v : v = f[a]
    OBVIOUS
  <2>4. PICK t : t = InsertAt(s, p, v)
    OBVIOUS
  <2>5. n \in Nat /\ Len(s) = n
    BY <1>3
  <2>6. Len(t) = n + 1 /\ t \in Seq(S) /\ \A k \in 1 .. n + 1 :
          t[k] = IF k < p THEN s[k] ELSE IF k = p THEN v ELSE s[k - 1]
    BY <1>7, <2>2, <2>3, <2>4, <2>5 DEF InsertAt
  <2>7. \A k \in 1 .. n + 1 : t[k] = f[e[k]]
    <3> SUFFICES ASSUME NEW k \in 1 .. n + 1 PROVE t[k] = f[e[k]]
      OBVIOUS
    <3>1. t[k] = IF k < p THEN s[k] ELSE IF k = p THEN v ELSE s[k - 1]
      BY <2>6
    <3>2. e[k] = IF k < p THEN b[k] ELSE IF k = p THEN a ELSE b[k - 1]
      BY <1>6
    <3>3. CASE k < p
      <4>1. k \in 1 .. n
        BY <1>3, <1>7, <3>3
      <4> QED
        BY <1>3, <3>1, <3>2, <3>3, <4>1
    <3>4. CASE k = p
      BY <2>3, <3>1, <3>2, <3>4
    <3>5. CASE k > p
      <4>1. k - 1 \in 1 .. n /\ ~(k < p) /\ k # p
        BY <1>3, <1>7, <3>5
      <4> QED
        BY <1>3, <3>1, <3>2, <4>1
    <3> QED
      BY <1>7, <3>3, <3>4, <3>5
  <2>8. t = [k \in 1 .. n + 1 |-> t[k]]
    BY <1>3, <2>6
  <2>9. t = [k \in 1 .. n + 1 |-> f[e[k]]]
    BY <2>7, <2>8
  <2> QED
    BY <2>3, <2>4, <2>9
<1>15. Listing(InsertAt(s, p, f[a]), n + 1, e, A \union {a}, f)
  BY <1>11, <1>12, <1>13, <1>14, Zenon DEF Listing
<1> QED
  BY <1>15, Zenon DEF Lists

LEMMA ListsAppend ==
  ASSUME NEW s, NEW A, NEW f, Lists(s, A, f), NEW a, a \notin A
  PROVE  Lists(Append(s, f[a]), A \union {a}, f)
<1>1. PICK n, b : Listing(s, n, b, A, f)
  BY Zenon DEF Lists
<1>2. Shape(s, n, b, A, f)
  BY <1>1, ListsShape, Zenon
<1>3. /\ n \in Nat /\ Len(s) = n /\ DOMAIN s = 1 .. n /\ s \in Seq({f[c] : c \in A})
      /\ \A k \in 1 .. n : b[k] \in A /\ s[k] = f[b[k]]
  BY <1>2, Zenon DEF Shape
<1>4. \A j, k \in 1 .. n : b[j] = b[k] => j = k
  BY <1>2, Zenon DEF Shape
<1>5. \A c \in A : \E k \in 1 .. n : b[k] = c
  BY <1>2, Zenon DEF Shape
<1>6. n + 1 \in 1 .. Len(s) + 1
  BY <1>3
<1>7. Lists(InsertAt(s, n + 1, f[a]), A \union {a}, f)
  BY <1>6, ListsInsert
<1>8. InsertAt(s, n + 1, f[a]) = Append(s, f[a])
  <2>1. PICK S : S = {f[c] : c \in A \union {a}}
    OBVIOUS
  <2>2. s \in Seq(S) /\ f[a] \in S
    BY <1>3, <2>1
  <2>3. PICK v : v = f[a]
    OBVIOUS
  <2>4. PICK t : t = InsertAt(s, n + 1, v)
    OBVIOUS
  <2>5. PICK u : u = Append(s, v)
    OBVIOUS
  <2>6. /\ Len(t) = n + 1 /\ t \in Seq(S)
        /\ \A k \in 1 .. n + 1 : t[k] = IF k < n + 1 THEN s[k] ELSE v
    BY <1>3, <2>2, <2>3, <2>4 DEF InsertAt
  <2>7. /\ Len(u) = n + 1 /\ u \in Seq(S)
        /\ \A k \in 1 .. n + 1 : u[k] = IF k < n + 1 THEN s[k] ELSE v
    BY <1>3, <2>2, <2>3, <2>5
  <2>8. t = u
    BY <2>6, <2>7, SameElements
  <2> QED
    BY <2>3, <2>4, <2>5, <2>8
<1> QED
  BY <1>7, <1>8

\* The first one is taken off.
WithoutHead(s, A, f) == \E a \in A : Head(s) = f[a] /\ Lists(Tail(s), A \ {a}, f)

LEMMA ListsTail ==
  ASSUME NEW s, NEW A, NEW f, Lists(s, A, f), s # <<>>
  PROVE  WithoutHead(s, A, f)
<1>1. PICK n, b : Listing(s, n, b, A, f)
  BY Zenon DEF Lists
<1>2. Shape(s, n, b, A, f)
  BY <1>1, ListsShape, Zenon
<1>3. /\ n \in Nat /\ Len(s) = n /\ DOMAIN s = 1 .. n /\ s \in Seq({f[c] : c \in A})
      /\ \A k \in 1 .. n : b[k] \in A /\ s[k] = f[b[k]]
  BY <1>2, Zenon DEF Shape
<1>4. \A j, k \in 1 .. n : b[j] = b[k] => j = k
  BY <1>2, Zenon DEF Shape
<1>5. \A c \in A : \E k \in 1 .. n : b[k] = c
  BY <1>2, Zenon DEF Shape
<1>6. n # 0
  BY <1>3
<1>7. PICK m \in Nat : n = m + 1
  <2>1. n - 1 \in Nat /\ n = (n - 1) + 1
    BY <1>3, <1>6
  <2> QED
    BY <2>1
<1>8. PICK a : a = b[1]
  OBVIOUS
<1>9. a \in A /\ Head(s) = f[a]
  BY <1>3, <1>7, <1>8
<1>10. PICK e : e = [k \in 1 .. m |-> b[k + 1]]
  OBVIOUS
<1>11. \A k \in 1 .. m : k + 1 \in 1 .. n /\ 1 \in 1 .. n /\ k + 1 # 1
  BY <1>7
<1>12. \A k \in 1 .. m : e[k] = b[k + 1]
  BY <1>10
<1>13. e \in [1 .. m -> A \ {a}]
  <2>1. ASSUME NEW k \in 1 .. m PROVE e[k] \in A \ {a}
    <3>1. k + 1 \in 1 .. n /\ 1 \in 1 .. n /\ k + 1 # 1 /\ e[k] = b[k + 1]
      BY <1>11, <1>12
    <3>2. PICK j : j = k + 1
      OBVIOUS
    <3>3. b[j] \in A /\ b[j] # b[1]
      BY <1>3, <1>4, <3>1, <3>2, Zenon
    <3> QED
      BY <1>8, <3>1, <3>2, <3>3
  <2> QED
    BY <1>10, <2>1
<1>14. ASSUME NEW j \in 1 .. m, NEW k \in 1 .. m, e[j] = e[k] PROVE j = k
  <2>1. PICK q : q = j + 1
    OBVIOUS
  <2>2. PICK r : r = k + 1
    OBVIOUS
  <2>3. q \in 1 .. n /\ r \in 1 .. n /\ b[q] = b[r]
    BY <1>11, <1>12, <1>14, <2>1, <2>2
  <2>4. q = r
    BY <1>4, <2>3, Zenon
  <2> QED
    BY <2>1, <2>2, <2>4
<1>15. ASSUME NEW c \in A \ {a} PROVE \E k \in 1 .. m : e[k] = c
  <2>1. PICK k \in 1 .. n : b[k] = c
    BY <1>15, <1>5
  <2>2. k - 1 \in 1 .. m /\ (k - 1) + 1 = k
    BY <1>7, <1>8, <1>15, <2>1
  <2>3. e[k - 1] = c
    BY <1>10, <2>1, <2>2
  <2> QED
    BY <2>2, <2>3
<1>16. Tail(s) = [k \in 1 .. m |-> f[e[k]]]
  <2>1. PICK t : t = Tail(s)
    OBVIOUS
  <2>2. Len(t) = m /\ t \in Seq({f[c] : c \in A}) /\ \A k \in 1 .. m : t[k] = s[k + 1]
    BY <1>3, <1>6, <1>7, <2>1
  <2>3. \A k \in 1 .. m : t[k] = f[e[k]]
    <3> SUFFICES ASSUME NEW k \in 1 .. m PROVE t[k] = f[e[k]]
      OBVIOUS
    <3>1. k + 1 \in 1 .. n /\ e[k] = b[k + 1] /\ t[k] = s[k + 1]
      BY <1>11, <1>12, <2>2
    <3> QED
      BY <1>3, <3>1
  <2>4. t = [k \in 1 .. m |-> t[k]]
    BY <2>2
  <2> QED
    BY <2>1, <2>3, <2>4
<1>17. Lists(Tail(s), A \ {a}, f)
  <2>1. Listing(Tail(s), m, e, A \ {a}, f)
    BY <1>7, <1>13, <1>14, <1>15, <1>16, Zenon DEF Listing
  <2> QED
    BY <2>1, Zenon DEF Lists
<1> QED
  BY <1>9, <1>17, Zenon DEF WithoutHead

LEMMA ListsOne == ASSUME NEW f, NEW a PROVE Lists(<<f[a]>>, {a}, f)
<1>1. Lists(Append(<<>>, f[a]), {} \union {a}, f)
  BY ListsNone, ListsAppend
<1>2. Append(<<>>, f[a]) = <<f[a]>> /\ {} \union {a} = {a}
  OBVIOUS
<1> QED
  BY <1>1, <1>2

LEMMA ListsFlatten ==
  ASSUME NEW N \in Nat, NEW ss, ss = [k \in 1 .. N |-> ss[k]], NEW f, NEW AA,
         \A k \in 1 .. N : Lists(ss[k], AA[k], f),
         \A j, k \in 1 .. N : \A a \in AA[j] : a \in AA[k] => j = k
  PROVE  Lists(FlattenSeq(ss), UNION {AA[k] : k \in 1 .. N}, f)
<1> DEFINE U == UNION {AA[k] : k \in 1 .. N}
           S == {f[c] : c \in U}
<1>1. \A k \in 1 .. N : ss[k] \in Seq(S)
  <2> SUFFICES ASSUME NEW k \in 1 .. N PROVE ss[k] \in Seq(S)
    OBVIOUS
  <2>1. \A c \in AA[k] : f[c] \in S
    OBVIOUS
  <2>2. Lists(ss[k], AA[k], f)
    OBVIOUS
  <2> HIDE DEF S
  <2> QED
    BY <2>1, <2>2, ListsType
<1>2. ss \in Seq(Seq(S)) /\ Len(ss) = N
  <2>1. PICK Q : Q = Seq(S)
    OBVIOUS
  <2>2. \A k \in 1 .. N : ss[k] \in Q
    BY <1>1, <2>1
  <2> HIDE DEF S
  <2>3. ss \in Seq(Q) /\ Len(ss) = N
    BY <2>2
  <2> QED
    BY <2>1, <2>3
<1>3. PICK t : t = FlattenSeq(ss)
  OBVIOUS
<1>4. t \in Seq(S) /\ IsLaid(t, ss, N)
  <2> HIDE DEF S
  <2> QED
    BY <1>2, <1>3, FlatLaid
<1> HIDE DEF S
<1>5. PICK l \in Nat : l = Len(t) /\ \E of, at : Laid(l, t, ss, N, of, at)
  BY <1>4 DEF IsLaid
<1>6. PICK of, at : Laid(l, t, ss, N, of, at)
  BY <1>5
<1>7. \A k \in 1 .. l : of[k] \in 1 .. N /\ at[k] \in 1 .. Len(ss[of[k]]) /\ t[k] = ss[of[k]][at[k]]
  BY <1>6, Zenon DEF Laid
<1>8. \A c \in 1 .. N : \A d \in 1 .. Len(ss[c]) : \E k \in 1 .. l : of[k] = c /\ at[k] = d
  BY <1>6, Zenon DEF Laid
<1>9. \A k \in 1 .. l : \A j \in 1 .. k - 1 : of[j] < of[k] \/ (of[j] = of[k] /\ at[j] < at[k])
  BY <1>6, Zenon DEF Laid
<1>10. PICK bb : bb = [k \in 1 .. N |-> CHOOSE b : \E n : Listing(ss[k], n, b, AA[k], f)]
  OBVIOUS
<1>11. ASSUME NEW k \in 1 .. N PROVE Shape(ss[k], Len(ss[k]), bb[k], AA[k], f)
  <2>1. \E b : \E n : Listing(ss[k], n, b, AA[k], f)
    BY Zenon DEF Lists
  <2>2. \E n : Listing(ss[k], n, bb[k], AA[k], f)
    BY <1>10, <2>1
  <2>3. PICK n : Listing(ss[k], n, bb[k], AA[k], f)
    BY <2>2
  <2>4. Shape(ss[k], n, bb[k], AA[k], f)
    BY <2>3, ListsShape, Zenon
  <2>5. n = Len(ss[k])
    BY <2>4, Zenon DEF Shape
  <2> QED
    BY <2>4, <2>5
<1>12. ASSUME NEW k \in 1 .. N
       PROVE  \A j \in 1 .. Len(ss[k]) : bb[k][j] \in AA[k] /\ ss[k][j] = f[bb[k][j]]
  BY <1>11, Zenon DEF Shape
<1>13. ASSUME NEW k \in 1 .. N
       PROVE  \A i_, j \in 1 .. Len(ss[k]) : bb[k][i_] = bb[k][j] => i_ = j
  BY <1>11, Zenon DEF Shape
<1>14. ASSUME NEW k \in 1 .. N, NEW a \in AA[k]
       PROVE  \E j \in 1 .. Len(ss[k]) : bb[k][j] = a
  BY <1>11, <1>14, Zenon DEF Shape
<1>15. PICK e : e = [k \in 1 .. l |-> bb[of[k]][at[k]]]
  OBVIOUS
<1>16. \A k \in 1 .. l : e[k] = bb[of[k]][at[k]] /\ e[k] \in AA[of[k]]
  BY <1>7, <1>12, <1>15
<1>17. e \in [1 .. l -> U]
  BY <1>7, <1>15, <1>16
<1>18. ASSUME NEW j \in 1 .. l, NEW k \in 1 .. l, e[j] = e[k] PROVE j = k
  <2>1. of[j] = of[k]
    BY <1>7, <1>16, <1>18
  <2>2. at[j] = at[k]
    BY <1>7, <1>13, <1>16, <1>18, <2>1, SMTT(40)
  <2>3. j < k \/ k < j \/ j = k
    OBVIOUS
  <2>4. of[j] \in Nat /\ at[j] \in Nat
    BY <1>7
  <2>5. ASSUME j < k PROVE FALSE
    BY <1>9, <2>1, <2>2, <2>4, <2>5
  <2>6. ASSUME k < j PROVE FALSE
    BY <1>9, <2>1, <2>2, <2>4, <2>6
  <2> QED
    BY <2>3, <2>5, <2>6
<1>19. ASSUME NEW a \in U PROVE \E k \in 1 .. l : e[k] = a
  <2>1. PICK c \in 1 .. N : a \in AA[c]
    BY <1>19
  <2>2. PICK d \in 1 .. Len(ss[c]) : bb[c][d] = a
    BY <1>14, <2>1
  <2>3. PICK k \in 1 .. l : of[k] = c /\ at[k] = d
    BY <1>8
  <2> QED
    BY <1>16, <2>2, <2>3
<1>20. \A k \in 1 .. l : t[k] = f[e[k]]
  BY <1>7, <1>12, <1>16, SMTT(40)
<1>21. t = [k \in 1 .. l |-> f[e[k]]]
  <2>1. t = [k \in 1 .. l |-> t[k]]
    BY <1>4, <1>5
  <2> QED
    BY <1>20, <2>1
<1> HIDE DEF U
<1>22. Listing(t, l, e, U, f)
  BY <1>5, <1>17, <1>18, <1>19, <1>21, Zenon DEF Listing
<1>23. Lists(t, U, f)
  BY <1>22, Zenon DEF Lists
<1> QED
  BY <1>3, <1>23 DEF U

LEMMA NumberedCount ==
  ASSUME NEW n \in Nat, NEW A, NEW b \in [1 .. n -> A],
         \A j, k \in 1 .. n : b[j] = b[k] => j = k,
         \A a \in A : \E k \in 1 .. n : b[k] = a
  PROVE  Cardinality(A) = n
<1>1. b \in Bijection(1 .. n, A)
  BY DEF Bijection, Injection, Surjection, IsInjective
<1>2. ExistsBijection(1 .. n, A)
  BY <1>1 DEF ExistsBijection
<1> QED
  BY <1>2, FS_CountingElements

LEMMA ListsCount ==
  ASSUME NEW s, NEW m \in Nat, NEW f, Lists(s, 1 .. m, f) PROVE Len(s) = m
<1>1. PICK n, b : Listing(s, n, b, 1 .. m, f)
  BY Zenon DEF Lists
<1>2. Shape(s, n, b, 1 .. m, f)
  BY <1>1, ListsShape, Zenon
<1>3. n \in Nat /\ Len(s) = n
  BY <1>2, Zenon DEF Shape
<1>4. /\ b \in [1 .. n -> 1 .. m]
      /\ \A j, k \in 1 .. n : b[j] = b[k] => j = k
      /\ \A a \in 1 .. m : \E k \in 1 .. n : b[k] = a
  BY <1>1, Zenon DEF Listing
<1>5. Cardinality(1 .. m) = n
  BY <1>3, <1>4, NumberedCount
<1>6. PICK e : e = [k \in 1 .. m |-> k]
  OBVIOUS
<1>7. /\ e \in [1 .. m -> 1 .. m]
      /\ \A j, k \in 1 .. m : e[j] = e[k] => j = k
      /\ \A a \in 1 .. m : \E k \in 1 .. m : e[k] = a
  BY <1>6
<1>8. Cardinality(1 .. m) = m
  BY <1>7, NumberedCount
<1> QED
  BY <1>3, <1>5, <1>8

-----------------------------------------------------------------------------
(* Induction over a sequence, and each of its elements replaced by a sequence *)

LEMMA PrefixAppend ==
  ASSUME NEW S, NEW s \in Seq(S), NEW n \in Nat, n + 1 <= Len(s)
  PROVE  SubSeq(s, 1, n + 1) = Append(SubSeq(s, 1, n), s[n + 1])
<1>1. PICK p : p = SubSeq(s, 1, n)
  OBVIOUS
<1>2. PICK w : w = SubSeq(s, 1, n + 1)
  OBVIOUS
<1>3. PICK v : v = Append(p, s[n + 1])
  OBVIOUS
<1>4. w \in Seq(S) /\ Len(w) = n + 1 /\ \A k \in 1 .. n + 1 : w[k] = s[k]
  BY <1>2
<1>5. p \in Seq(S) /\ Len(p) = n /\ \A k \in 1 .. n : p[k] = s[k]
  BY <1>1
<1>6. v \in Seq(S) /\ Len(v) = n + 1 /\ \A k \in 1 .. n + 1 : v[k] = s[k]
  BY <1>3, <1>5
<1>7. w = v
  BY <1>4, <1>6, SameElements
<1> QED
  BY <1>1, <1>2, <1>3, <1>7

\* Induction over sequences, for a set of sequences.
LEMMA SeqInduct ==
  ASSUME NEW S, NEW P, <<>> \in P, \A s \in Seq(S), e \in S : s \in P => Append(s, e) \in P
  PROVE  Seq(S) \subseteq P
<1> SUFFICES ASSUME NEW s \in Seq(S) PROVE s \in P
  OBVIOUS
<1> DEFINE N == {n \in Nat : n <= Len(s) => SubSeq(s, 1, n) \in P}
<1>1. 0 \in N
  <2>1. SubSeq(s, 1, 0) = <<>>
    OBVIOUS
  <2> QED
    BY <2>1
<1>2. ASSUME NEW n \in Nat, n \in N PROVE n + 1 \in N
  <2> SUFFICES ASSUME n + 1 <= Len(s) PROVE SubSeq(s, 1, n + 1) \in P
    OBVIOUS
  <2>1. PICK p : p = SubSeq(s, 1, n)
    OBVIOUS
  <2>2. PICK e : e = s[n + 1]
    OBVIOUS
  <2>3. p \in Seq(S) /\ e \in S /\ p \in P
    BY <1>2, <2>1, <2>2
  <2>4. SubSeq(s, 1, n + 1) = Append(p, e)
    BY <2>1, <2>2, PrefixAppend
  <2> QED
    BY <2>3, <2>4, Zenon
<1> HIDE DEF N
<1>3. Nat \subseteq N
  BY <1>1, <1>2, NatInduct
<1>4. PICK m \in Nat : m = Len(s)
  OBVIOUS
<1>5. SubSeq(s, 1, m) = s
  BY <1>4
<1>6. m \in N
  BY <1>3
<1>7. m <= Len(s)
  BY <1>4
<1> QED
  BY <1>5, <1>6, <1>7, Zenon DEF N

\* FlattenSeq of sequences that exist.
LEMMA FlatSelf ==
  ASSUME NEW S, NEW ss \in Seq(Seq(S))
  PROVE  FlattenSeq(ss) \in Seq(S) /\ Flat(ss, FlattenSeq(ss))
<1> DEFINE Done(n) == \E t \in Seq(S) : Flat(SubSeq(ss, 1, n), t)
           P == {n \in Nat : n <= Len(ss) => Done(n)}
<1>1. 0 \in P
  <2>1. SubSeq(ss, 1, 0) = <<>>
    OBVIOUS
  <2>2. <<>> \in Seq(S)
    OBVIOUS
  <2> QED
    BY <2>1, <2>2, FlatNone
<1>2. ASSUME NEW n \in Nat, n \in P PROVE n + 1 \in P
  <2> SUFFICES ASSUME n + 1 <= Len(ss) PROVE Done(n + 1)
    OBVIOUS
  <2>1. PICK t \in Seq(S) : Flat(SubSeq(ss, 1, n), t)
    BY <1>2
  <2>2. PICK pre : pre = SubSeq(ss, 1, n)
    OBVIOUS
  <2>3. pre \in Seq(Seq(S)) /\ ss[n + 1] \in Seq(S)
    BY <2>2
  <2>4. SubSeq(ss, 1, n + 1) = Append(pre, ss[n + 1])
    BY PrefixAppend, <2>2
  <2>5. Flat(pre, t)
    BY <2>1, <2>2
  <2>6. Flat(Append(pre, ss[n + 1]), t \o ss[n + 1])
    BY <2>1, <2>3, <2>5, FlatMore
  <2>7. t \o ss[n + 1] \in Seq(S)
    BY <2>1, <2>3
  <2> QED
    BY <2>4, <2>6, <2>7
<1> HIDE DEF P, Done
<1>3. Nat \subseteq P
  BY <1>1, <1>2, NatInduct
<1>4. Done(Len(ss))
  <2>1. Len(ss) \in P
    BY <1>3
  <2> QED
    BY <2>1 DEF P
<1>5. PICK t \in Seq(S) : Flat(SubSeq(ss, 1, Len(ss)), t)
  BY <1>4 DEF Done
<1>6. SubSeq(ss, 1, Len(ss)) = ss
  OBVIOUS
<1>7. FlattenSeq(ss) = t
  BY <1>5, <1>6, FlatIs
<1> QED
  BY <1>5, <1>6, <1>7

\* What a function on the elements makes of a sequence, joined.
Mapped(s, f) == FlattenSeq([k \in DOMAIN s |-> f[s[k]]])

MapType(f, S, R) == f \in [S -> Seq(R)]

LEMMA MappedNone == ASSUME NEW f PROVE Mapped(<<>>, f) = <<>>
<1>1. [k \in DOMAIN <<>> |-> f[<<>>[k]]] = <<>>
  OBVIOUS
<1>2. FlattenSeq(<<>>) = <<>>
  BY DEF FlattenSeq
<1> QED
  BY <1>1, <1>2, Zenon DEF Mapped

LEMMA MapSeq ==
  ASSUME NEW S, NEW R, NEW f, MapType(f, S, R), NEW s \in Seq(S)
  PROVE  [k \in DOMAIN s |-> f[s[k]]] \in Seq(Seq(R))
<1>1. PICK m \in Nat : m = Len(s) /\ DOMAIN s = 1 .. m
  OBVIOUS
<1>2. \A k \in 1 .. m : f[s[k]] \in Seq(R)
  BY <1>1 DEF MapType
<1>3. [k \in 1 .. m |-> f[s[k]]] \in Seq(Seq(R))
  BY <1>2
<1> QED
  BY <1>1, <1>3, Zenon

LEMMA MappedType ==
  ASSUME NEW S, NEW R, NEW f, MapType(f, S, R), NEW s \in Seq(S)
  PROVE  Mapped(s, f) \in Seq(R)
  BY MapSeq, FlatSelf, Zenon DEF Mapped

LEMMA MappedAppend ==
  ASSUME NEW S, NEW R, NEW f, MapType(f, S, R), NEW s \in Seq(S), NEW e \in S
  PROVE  Mapped(Append(s, e), f) = Mapped(s, f) \o f[e]
<1>1. PICK ss : ss = [k \in DOMAIN s |-> f[s[k]]]
  OBVIOUS
<1>2. PICK tt : tt = [k \in DOMAIN Append(s, e) |-> f[Append(s, e)[k]]]
  OBVIOUS
<1>3. ss \in Seq(Seq(R)) /\ f[e] \in Seq(R)
  BY <1>1, MapSeq DEF MapType
<1>4. Append(s, e) \in Seq(S)
  OBVIOUS
<1>5. tt \in Seq(Seq(R))
  BY <1>2, <1>4, MapSeq
<1>6. tt = Append(ss, f[e])
  <2>1. PICK m \in Nat : m = Len(s) /\ DOMAIN s = 1 .. m
    OBVIOUS
  <2>2. PICK a : a = Append(s, e)
    OBVIOUS
  <2>3. DOMAIN a = 1 .. m + 1 /\ a[m + 1] = e /\ \A k \in 1 .. m : a[k] = s[k]
    BY <2>1, <2>2
  <2>4. tt = [k \in 1 .. m + 1 |-> f[a[k]]] /\ ss = [k \in 1 .. m |-> f[s[k]]]
    BY <1>1, <1>2, <2>1, <2>2, <2>3, Zenon
  <2>5. Len(tt) = m + 1 /\ tt[m + 1] = f[e] /\ \A k \in 1 .. m : tt[k] = ss[k]
    BY <1>5, <2>3, <2>4
  <2>6. PICK v : v = Append(ss, f[e])
    OBVIOUS
  <2>7. Len(ss) = m
    BY <1>3, <2>1, <2>4
  <2>8. v \in Seq(Seq(R)) /\ Len(v) = m + 1 /\ v[m + 1] = f[e] /\ \A k \in 1 .. m : v[k] = ss[k]
    BY <1>3, <2>6, <2>7
  <2>9. \A k \in 1 .. m + 1 : tt[k] = v[k]
    BY <2>5, <2>8
  <2>10. tt = v
    BY <1>5, <2>5, <2>8, <2>9, SameElements
  <2> QED
    BY <2>6, <2>10
<1>7. Flat(ss, FlattenSeq(ss)) /\ FlattenSeq(ss) \in Seq(R)
  BY <1>3, FlatSelf
<1>8. Flat(tt, FlattenSeq(ss) \o f[e])
  BY <1>3, <1>6, <1>7, FlatMore
<1>9. FlattenSeq(tt) = FlattenSeq(ss) \o f[e]
  BY <1>5, <1>8, FlatIs
<1> QED
  BY <1>1, <1>2, <1>9, Zenon DEF Mapped

Associates(a, b, c) == (a \o b) \o c = a \o (b \o c)

LEMMA JoinSame ==
  ASSUME NEW S, NEW a \in Seq(S), NEW b \in Seq(S), NEW c \in Seq(S)
  PROVE  Associates(a, b, c)
  BY DEF Associates

LEMMA JoinNothing == ASSUME NEW S, NEW a \in Seq(S) PROVE a \o <<>> = a /\ <<>> \o a = a
  OBVIOUS

LEMMA JoinAppend ==
  ASSUME NEW S, NEW a \in Seq(S), NEW b \in Seq(S), NEW e \in S
  PROVE  a \o Append(b, e) = Append(a \o b, e)
  OBVIOUS

LEMMA MappedJoin ==
  ASSUME NEW S, NEW R, NEW f, MapType(f, S, R), NEW a \in Seq(S), NEW b \in Seq(S)
  PROVE  Mapped(a \o b, f) = Mapped(a, f) \o Mapped(b, f)
<1> DEFINE Same(s) == Mapped(a \o s, f) = Mapped(a, f) \o Mapped(s, f)
           P == {s \in Seq(S) : Same(s)}
<1>1. Mapped(a, f) \in Seq(R)
  BY MappedType
<1>2. <<>> \in P
  <2>1. a \o <<>> = a
    BY JoinNothing
  <2>2. Mapped(a, f) \o <<>> = Mapped(a, f)
    BY <1>1, JoinNothing
  <2>3. <<>> \in Seq(S)
    OBVIOUS
  <2>4. Same(<<>>)
    BY <2>1, <2>2, MappedNone, Zenon
  <2> QED
    BY <2>3, <2>4, Zenon
<1>3. ASSUME NEW s \in Seq(S), NEW e \in S, s \in P PROVE Append(s, e) \in P
  <2>1. Same(s)
    BY <1>3
  <2> HIDE DEF P
  <2>2. a \o s \in Seq(S) /\ Append(s, e) \in Seq(S)
    OBVIOUS
  <2>3. f[e] \in Seq(R)
    BY DEF MapType
  <2>4. Mapped(s, f) \in Seq(R)
    BY MappedType
  <2>5. a \o Append(s, e) = Append(a \o s, e)
    BY JoinAppend
  <2>6. PICK as \in Seq(S) : as = a \o s
    BY <2>2
  <2>7. Mapped(Append(as, e), f) = Mapped(as, f) \o f[e]
    BY MappedAppend, ZenonT(40)
  <2>8. Mapped(Append(s, e), f) = Mapped(s, f) \o f[e]
    BY MappedAppend
  <2>9. (Mapped(a, f) \o Mapped(s, f)) \o f[e] = Mapped(a, f) \o (Mapped(s, f) \o f[e])
    <3>1. PICK x \in Seq(R) : x = Mapped(a, f)
      BY <1>1
    <3>2. PICK y \in Seq(R) : y = Mapped(s, f)
      BY <2>4
    <3>3. PICK z \in Seq(R) : z = f[e]
      BY <2>3
    <3>4. (x \o y) \o z = x \o (y \o z)
      <4>1. Associates(x, y, z)
        BY <3>1, <3>2, <3>3, JoinSame
      <4> QED
        BY <4>1, Zenon DEF Associates
    <3> QED
      BY <3>1, <3>2, <3>3, <3>4, Zenon
  <2>10. Same(Append(s, e))
    BY <2>1, <2>5, <2>6, <2>7, <2>8, <2>9, Zenon
  <2> QED
    BY <2>2, <2>10 DEF P
<1> HIDE DEF P
<1>4. Seq(S) \subseteq P
  BY <1>2, <1>3, SeqInduct
<1> QED
  BY <1>4 DEF P

LEMMA MappedOne ==
  ASSUME NEW S, NEW R, NEW f, MapType(f, S, R), NEW e \in S
  PROVE  Mapped(<<e>>, f) = f[e]
<1>1. <<>> \in Seq(S) /\ Append(<<>>, e) = <<e>>
  OBVIOUS
<1>2. f[e] \in Seq(R)
  BY DEF MapType
<1>3. <<>> \o f[e] = f[e]
  BY <1>2, JoinNothing
<1>4. Mapped(Append(<<>>, e), f) = Mapped(<<>>, f) \o f[e]
  BY <1>1, MappedAppend
<1> QED
  BY <1>1, <1>3, <1>4, MappedNone

\* Elements that stay as they are.
LEMMA MappedSame ==
  ASSUME NEW S, NEW R, NEW f, MapType(f, S, R), \A e \in S : f[e] = <<e>>
  PROVE  \A a \in Seq(S) : Mapped(a, f) = a
<1> DEFINE P == {s \in Seq(S) : Mapped(s, f) = s}
<1>1. <<>> \in P
  BY MappedNone
<1>2. ASSUME NEW s \in Seq(S), NEW e \in S, s \in P PROVE Append(s, e) \in P
  <2>1. Mapped(s, f) = s
    BY <1>2
  <2> HIDE DEF P
  <2>2. Mapped(Append(s, e), f) = Mapped(s, f) \o f[e]
    BY MappedAppend
  <2>3. s \o <<e>> = Append(s, e) /\ Append(s, e) \in Seq(S)
    OBVIOUS
  <2> QED
    BY <2>1, <2>2, <2>3 DEF P
<1> HIDE DEF P
<1>3. Seq(S) \subseteq P
  BY <1>1, <1>2, SeqInduct
<1> QED
  BY <1>3 DEF P

-----------------------------------------------------------------------------
(* What stands where in a list *)

Occurs(s, x) == \E i \in DOMAIN s : s[i] = x

\* Somewhere "x" stands, and "y" behind it.
Precede(s, x, y) == \E i, j \in DOMAIN s : i < j /\ s[i] = x /\ s[j] = y

LEMMA NothingThere == \A x, y : ~Occurs(<<>>, x) /\ ~Precede(<<>>, x, y)
  BY DEF Occurs, Precede

LEMMA AppendOccurs ==
  ASSUME NEW S, NEW s \in Seq(S), NEW e \in S
  PROVE  \A x : Occurs(Append(s, e), x) <=> Occurs(s, x) \/ e = x
<1> TAKE x
<1>1. PICK n \in Nat : n = Len(s) /\ DOMAIN s = 1 .. n
  OBVIOUS
<1>2. PICK t : t = Append(s, e)
  OBVIOUS
<1>3. DOMAIN t = 1 .. n + 1 /\ t[n + 1] = e /\ \A i \in 1 .. n : t[i] = s[i]
  BY <1>1, <1>2
<1>4. ASSUME Occurs(t, x) PROVE Occurs(s, x) \/ e = x
  <2>1. PICK i \in 1 .. n + 1 : t[i] = x
    BY <1>3, <1>4 DEF Occurs
  <2>2. i = n + 1 \/ i \in 1 .. n
    OBVIOUS
  <2> QED
    BY <1>1, <1>3, <2>1, <2>2 DEF Occurs
<1>5. ASSUME Occurs(s, x) PROVE Occurs(t, x)
  <2>1. PICK i \in 1 .. n : s[i] = x
    BY <1>1, <1>5 DEF Occurs
  <2>2. i \in 1 .. n + 1 /\ t[i] = x
    BY <1>3, <2>1
  <2> QED
    BY <1>3, <2>2 DEF Occurs
<1>6. ASSUME e = x PROVE Occurs(t, x)
  <2>1. n + 1 \in 1 .. n + 1
    OBVIOUS
  <2> QED
    BY <1>3, <1>6, <2>1 DEF Occurs
<1> QED
  BY <1>2, <1>4, <1>5, <1>6

LEMMA AppendPrecede ==
  ASSUME NEW S, NEW s \in Seq(S), NEW e \in S
  PROVE  \A x, y : Precede(Append(s, e), x, y) <=> Precede(s, x, y) \/ (Occurs(s, x) /\ e = y)
<1> TAKE x, y
<1>1. PICK n \in Nat : n = Len(s) /\ DOMAIN s = 1 .. n
  OBVIOUS
<1>2. PICK t : t = Append(s, e)
  OBVIOUS
<1>3. DOMAIN t = 1 .. n + 1 /\ t[n + 1] = e /\ \A i \in 1 .. n : t[i] = s[i]
  BY <1>1, <1>2
<1>4. ASSUME Precede(t, x, y) PROVE Precede(s, x, y) \/ (Occurs(s, x) /\ e = y)
  <2>1. PICK i \in 1 .. n + 1, j \in 1 .. n + 1 : i < j /\ t[i] = x /\ t[j] = y
    BY <1>3, <1>4 DEF Precede
  <2>2. i \in 1 .. n /\ (j = n + 1 \/ j \in 1 .. n)
    BY <2>1
  <2>3. s[i] = x
    BY <1>3, <2>1, <2>2
  <2>4. CASE j = n + 1
    BY <1>1, <1>3, <2>1, <2>2, <2>3, <2>4 DEF Occurs
  <2>5. CASE j \in 1 .. n
    <3>1. s[j] = y
      BY <1>3, <2>1, <2>5
    <3> QED
      BY <1>1, <2>1, <2>2, <2>3, <2>5, <3>1 DEF Precede
  <2> QED
    BY <2>2, <2>4, <2>5
<1>5. ASSUME Precede(s, x, y) PROVE Precede(t, x, y)
  <2>1. PICK i \in 1 .. n, j \in 1 .. n : i < j /\ s[i] = x /\ s[j] = y
    BY <1>1, <1>5 DEF Precede
  <2>2. i \in 1 .. n + 1 /\ j \in 1 .. n + 1 /\ t[i] = x /\ t[j] = y
    BY <1>3, <2>1
  <2> QED
    BY <1>3, <2>1, <2>2 DEF Precede
<1>6. ASSUME Occurs(s, x), e = y PROVE Precede(t, x, y)
  <2>1. PICK i \in 1 .. n : s[i] = x
    BY <1>1, <1>6 DEF Occurs
  <2>2. i \in 1 .. n + 1 /\ n + 1 \in 1 .. n + 1 /\ i < n + 1 /\ t[i] = x /\ t[n + 1] = y
    BY <1>3, <1>6, <2>1
  <2> QED
    BY <1>3, <2>2 DEF Precede
<1> QED
  BY <1>2, <1>4, <1>5, <1>6

\* What two lists say of the list of both.
Joined(a, b, s) ==
  /\ \A x : Occurs(a, x) \/ Occurs(b, x) => Occurs(s, x)
  /\ \A x, y : Precede(a, x, y) \/ Precede(b, x, y) \/ (Occurs(a, x) /\ Occurs(b, y)) => Precede(s, x, y)

LEMMA JoinedLists ==
  ASSUME NEW S, NEW a \in Seq(S), NEW b \in Seq(S)
  PROVE  Joined(a, b, a \o b)
<1>1. PICK n \in Nat : n = Len(a) /\ DOMAIN a = 1 .. n
  OBVIOUS
<1>2. PICK m \in Nat : m = Len(b) /\ DOMAIN b = 1 .. m
  OBVIOUS
<1>3. PICK s : s = a \o b
  OBVIOUS
<1>4. /\ DOMAIN s = 1 .. n + m
      /\ \A i \in 1 .. n : i \in 1 .. n + m /\ s[i] = a[i]
      /\ \A i \in 1 .. m : n + i \in 1 .. n + m /\ s[n + i] = b[i]
  BY <1>1, <1>2, <1>3
<1>5. ASSUME NEW x, Occurs(a, x) \/ Occurs(b, x) PROVE Occurs(s, x)
  BY <1>1, <1>2, <1>4, <1>5 DEF Occurs
<1>6. ASSUME NEW x, NEW y, Precede(a, x, y) PROVE Precede(s, x, y)
  BY <1>1, <1>4, <1>6 DEF Precede
<1>7. ASSUME NEW x, NEW y, Precede(b, x, y) PROVE Precede(s, x, y)
  <2>1. PICK i \in 1 .. m, j \in 1 .. m : i < j /\ b[i] = x /\ b[j] = y
    BY <1>2, <1>7 DEF Precede
  <2>2. n + i < n + j /\ s[n + i] = x /\ s[n + j] = y
    BY <1>4, <2>1
  <2> QED
    BY <1>4, <2>2 DEF Precede
<1>8. ASSUME NEW x, NEW y, Occurs(a, x), Occurs(b, y) PROVE Precede(s, x, y)
  <2>1. PICK i \in 1 .. n : a[i] = x
    BY <1>1, <1>8 DEF Occurs
  <2>2. PICK j \in 1 .. m : b[j] = y
    BY <1>2, <1>8 DEF Occurs
  <2>3. i < n + j /\ s[i] = x /\ s[n + j] = y
    BY <1>4, <2>1, <2>2
  <2> QED
    BY <1>4, <2>3 DEF Precede
<1> QED
  BY <1>3, <1>5, <1>6, <1>7, <1>8 DEF Joined

-----------------------------------------------------------------------------
(* The first of a sequence, and what is left *)

LEMMA SameHead ==
  ASSUME NEW S, NEW a \in S, NEW b \in S, NEW v \in Seq(S), NEW w \in Seq(S), <<a>> \o v = <<b>> \o w
  PROVE  a = b /\ v = w
<1>1. PICK n \in Nat : n = Len(v)
  OBVIOUS
<1>2. PICK m \in Nat : m = Len(w)
  OBVIOUS
<1>3. PICK s : s = <<a>> \o v
  OBVIOUS
<1>4. s = <<b>> \o w
  BY <1>3
<1>5. Len(s) = n + 1 /\ s[1] = a /\ \A k \in 1 .. n : s[k + 1] = v[k]
  BY <1>1, <1>3
<1>6. Len(s) = m + 1 /\ s[1] = b /\ \A k \in 1 .. m : s[k + 1] = w[k]
  BY <1>2, <1>4
<1>7. n = m
  BY <1>5, <1>6
<1>8. v = w
  BY <1>1, <1>2, <1>5, <1>6, <1>7, SameElements
<1> QED
  BY <1>5, <1>6, <1>8

LEMMA HeadIn ==
  ASSUME NEW S, NEW s \in Seq(S), NEW T, NEW t, NEW u \in Seq(T), s = <<t>> \o u
  PROVE  t \in S /\ u \in Seq(S)
<1>1. PICK n \in Nat : n = Len(u)
  OBVIOUS
<1>2. Len(s) = n + 1 /\ s[1] = t /\ \A k \in 1 .. n : s[k + 1] = u[k]
  BY <1>1
<1>3. t \in S
  BY <1>2
<1>4. \A k \in 1 .. n : u[k] \in S
  BY <1>2
<1> QED
  BY <1>1, <1>3, <1>4

OneByOne(a, b, c, s) == <<a, b, c>> \o s = <<a>> \o (<<b>> \o (<<c>> \o s))

LEMMA ThreeAhead ==
  ASSUME NEW S, NEW a \in S, NEW b \in S, NEW c \in S, NEW s \in Seq(S)
  PROVE  OneByOne(a, b, c, s)
<1>1. <<a, b, c>> \o s = <<a>> \o (<<b, c>> \o s)
  OBVIOUS
<1>2. PICK o \in Seq(S) : o = <<b>>
  <2>1. <<b>> \in Seq(S)
    OBVIOUS
  <2> QED
    BY <2>1
<1>3. PICK p \in Seq(S) : p = <<c>>
  <2>1. <<c>> \in Seq(S)
    OBVIOUS
  <2> QED
    BY <2>1
<1>4. <<b, c>> = o \o p
  <2>1. <<b, c>> = Append(o, c)
    BY <1>2
  <2>2. o \o <<c>> = Append(o, c)
    BY <1>2
  <2> QED
    BY <1>3, <2>1, <2>2
<1>5. Associates(o, p, s)
  BY JoinSame
<1> QED
  BY <1>1, <1>2, <1>3, <1>4, <1>5, Zenon DEF Associates, OneByOne

=============================================================================
