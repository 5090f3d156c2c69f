---------------------------- MODULE HangulProofs ----------------------------
(***************************************************************************)
(* Proofs about the automaton of hangul.c, whatever the text is and        *)
(* however long: it stays inside its text and its tables, its output reads *)
(* back as what was typed, and its syllables end where a reader expects.   *)
(*                                                                         *)
(* The argument for the last two goes from the tables (each element is     *)
(* where the sequences of jamo say) over what the three numbers spell in   *)
(* each mode, and which jamo cannot go on with it, to the pieces of output *)
(* one after the other.                                                    *)
(***************************************************************************)
EXTENDS Hangul, ListProofs

\* Where a second vowel or consonant is looked for, y or z is that of the
\* first one.
SecondOf ==
  /\ mode = "Y_O" => y = 8
  /\ mode = "Y_U" => y = 13
  /\ mode = "Y_EU" => y = 18
  /\ mode = "Z_G" => z = 1
  /\ mode = "Z_N" => z = 4
  /\ mode = "Z_R" => z = 8
  /\ mode = "Z_B" => z = 17

\* Between calls the automaton is at rest; within one there is a jamo to fall
\* back to.
CallOf ==
  IF mode = "idle" THEN i = 0 /\ x = -1 /\ y = -1 /\ z = 0
  ELSE src_idx < Len(text)

HangulInv == TypeOK /\ SecondOf /\ CallOf

-----------------------------------------------------------------------------
(* The tables *)

LEMMA InitialRange == \A c \in Consonant : xmap[c] - 1 \in 0 .. 18
  BY DEF Consonant, xmap

LEMMA MedialRange == \A c \in Vowel : ymap[c] - 1 \in 0 .. 20
  BY DEF Vowel, ymap

LEMMA FinalRange == \A c \in DOMAIN zmap : zmap[c] \in 1 .. 27
  BY DEF zmap

LEMMA FirstVowels ==
  /\ DOMAIN ymaps = {"O", "U", "EU"}
  /\ ymap["O"] = 9 /\ ymap["U"] = 14 /\ ymap["EU"] = 19
  /\ ModeY["O"] = "Y_O" /\ ModeY["U"] = "Y_U" /\ ModeY["EU"] = "Y_EU"
  BY DEF ymaps, ymap, ModeY

LEMMA SecondVowels ==
  /\ \A c \in DOMAIN ymaps["O"] : ymaps["O"][c] \in 1 .. 3
  /\ \A c \in DOMAIN ymaps["U"] : ymaps["U"][c] \in 1 .. 3
  /\ \A c \in DOMAIN ymaps["EU"] : ymaps["EU"][c] \in 1 .. 1
  BY DEF ymaps

LEMMA FirstConsonants ==
  /\ DOMAIN zmaps = {"G", "N", "R", "B"}
  /\ zmap["G"] = 1 /\ zmap["N"] = 4 /\ zmap["R"] = 8 /\ zmap["B"] = 17
  /\ ModeZ["G"] = "Z_G" /\ ModeZ["N"] = "Z_N" /\ ModeZ["R"] = "Z_R" /\ ModeZ["B"] = "Z_B"
  BY DEF zmaps, zmap, ModeZ

LEMMA SecondConsonants ==
  /\ \A c \in DOMAIN zmaps["G"] : zmaps["G"][c] \in 1 .. 7
  /\ \A c \in DOMAIN zmaps["N"] : zmaps["N"][c] \in 1 .. 7
  /\ \A c \in DOMAIN zmaps["R"] : zmaps["R"][c] \in 1 .. 7
  /\ \A c \in DOMAIN zmaps["B"] : zmaps["B"][c] \in 1 .. 7
  BY DEF zmaps

\* The tables are where the sequences of jamo say.
LEMMA InitialTable ==
  \A c \in Consonant : xmap[c] \in 1 .. 19 /\ Initials[xmap[c]] = c
  BY DEF Consonant, xmap, Initials

LEMMA MedialTable ==
  \A c \in Vowel : ymap[c] \in 1 .. 21 /\ Medials[ymap[c]] = <<c>>
  BY DEF Vowel, ymap, Medials

LEMMA MedialTables ==
  \A f \in DOMAIN ymaps : \A c \in DOMAIN ymaps[f] :
    /\ f \in Vowel /\ c \in Vowel
    /\ ymap[f] + ymaps[f][c] \in 1 .. 21
    /\ Medials[ymap[f] + ymaps[f][c]] = <<f, c>>
  BY DEF Vowel, ymap, ymaps, Medials

LEMMA FinalTable ==
  \A c \in DOMAIN zmap : c \in Consonant /\ zmap[c] \in 1 .. 27 /\ Finals[zmap[c] + 1] = <<c>>
  BY SMTT(60) DEF Consonant, xmap, zmap, Finals

LEMMA FinalTables ==
  \A f \in DOMAIN zmaps : \A c \in DOMAIN zmaps[f] :
    /\ f \in DOMAIN zmap /\ c \in Consonant
    /\ zmap[f] + zmaps[f][c] \in 1 .. 27
    /\ Finals[zmap[f] + zmaps[f][c] + 1] = <<f, c>>
  BY SMTT(60) DEF Consonant, xmap, zmap, zmaps, Finals

LEMMA JamoKinds == Consonant \intersect Vowel = {} /\ DOMAIN ymaps \subseteq Vowel
  /\ DOMAIN zmaps \subseteq DOMAIN zmap
  BY DEF Consonant, Vowel, xmap, ymap, ymaps, zmap, zmaps

\* Every element of the sequences comes from the tables.
OneVowel(k) == \E v \in Vowel : ymap[v] = k /\ Medials[k] = <<v>>
TwoVowels(k) ==
  \E f \in DOMAIN ymaps : \E c \in DOMAIN ymaps[f] :
    k = ymap[f] + ymaps[f][c] /\ Medials[k] = <<f, c>>

OneConsonant(k) == \E c \in DOMAIN zmap : k = zmap[c] + 1 /\ Finals[k] = <<c>>
TwoConsonants(k) ==
  \E f \in DOMAIN zmaps : \E c \in DOMAIN zmaps[f] :
    k = zmap[f] + zmaps[f][c] + 1 /\ Finals[k] = <<f, c>>

LEMMA MedialsFromTables == \A k \in 1 .. 21 : OneVowel(k) \/ TwoVowels(k)
  BY DEF OneVowel, TwoVowels, Vowel, ymap, ymaps, Medials

LEMMA FinalsFromTables == \A k \in 1 .. 28 : Finals[k] = <<>> \/ OneConsonant(k) \/ TwoConsonants(k)
  BY SMTT(60) DEF OneConsonant, TwoConsonants, zmap, zmaps, Finals

LEMMA InitialsFromTable == \A k \in 1 .. 19 : Initials[k] \in Consonant
  BY DEF Consonant, xmap, Initials

LEMMA EmptyFinal == Finals[1] = <<>> /\ \A k \in 1 .. 28 : Finals[k] = <<>> => k = 1
  BY DEF Finals

LEMMA TableSizes ==
  /\ DOMAIN Initials = 1 .. 19 /\ DOMAIN Medials = 1 .. 21 /\ DOMAIN Finals = 1 .. 28
  BY DEF Initials, Medials, Finals

-----------------------------------------------------------------------------
(* What can follow a syllable *)

\* The jamo of the syllable with these elements of the tables.
Spelled(a, k, l) == <<Initials[a]>> \o Medials[k] \o Finals[l]

\* A vowel makes another medial of the one that is there, a consonant another
\* final.
JoinsVowel(k, c) == \E f \in DOMAIN ymaps : k = ymap[f] /\ c \in DOMAIN ymaps[f]
JoinsFinal(l, c) ==
  \/ l = 1 /\ c \in DOMAIN zmap
  \/ \E f \in DOMAIN zmaps : l = zmap[f] + 1 /\ c \in DOMAIN zmaps[f]

LEMMA MedialKind == \A k \in 1 .. 21 : Medials[k] \in Seq(Vowel) /\ Len(Medials[k]) \in 1 .. 2
<1> TAKE k \in 1 .. 21
<1>1. CASE OneVowel(k)
  BY <1>1 DEF OneVowel
<1>2. CASE TwoVowels(k)
  BY <1>2, MedialTables DEF TwoVowels
<1> QED
  BY <1>1, <1>2, MedialsFromTables

LEMMA FinalKind == \A l \in 1 .. 28 : Finals[l] \in Seq(Consonant) /\ Len(Finals[l]) \in 0 .. 2
<1> TAKE l \in 1 .. 28
<1>1. CASE OneConsonant(l)
  BY <1>1, FinalTable DEF OneConsonant
<1>2. CASE TwoConsonants(l)
  BY <1>2, FinalTable, FinalTables DEF TwoConsonants
<1>3. CASE Finals[l] = <<>>
  BY <1>3
<1> QED
  BY <1>1, <1>2, <1>3, FinalsFromTables

LEMMA Piecewise ==
  ASSUME NEW S, NEW s \in Seq(S), NEW a \in 1 .. Len(s) + 1, NEW b \in Nat,
         a <= b + 1, b <= Len(s)
  PROVE  /\ SubSeq(s, a, b) \in Seq(S)
         /\ Len(SubSeq(s, a, b)) = b - a + 1
         /\ \A k \in 1 .. b - a + 1 : SubSeq(s, a, b)[k] = s[a + k - 1]
  OBVIOUS

LEMMA TailOfJoined ==
  ASSUME NEW S, NEW a \in S, NEW m \in Seq(S), NEW f \in Seq(S)
  PROVE  /\ Tail((<<a>> \o m) \o f) = m \o f
         /\ Head((<<a>> \o m) \o f) = a
<1> DEFINE s == (<<a>> \o m) \o f
<1>1. s \in Seq(S) /\ Len(s) = 1 + Len(m) + Len(f) /\ m \o f \in Seq(S)
  OBVIOUS
<1>2. \A n \in 1 .. Len(m) + Len(f) : s[n + 1] = (m \o f)[n]
  OBVIOUS
<1>3. s[1] = a
  OBVIOUS
<1>4. Len(Tail(s)) = Len(m) + Len(f) /\ \A n \in 1 .. Len(m) + Len(f) : Tail(s)[n] = s[n + 1]
  BY <1>1
<1>5. Len(m \o f) = Len(m) + Len(f) /\ Tail(s) \in Seq(S)
  BY <1>1
<1> QED
  BY <1>1, <1>2, <1>3, <1>4, <1>5

\* Where the vowels of a sequence end and its consonants begin.
VowelsEnd(r, n) ==
  (\A k \in 1 .. n : r[k] \in Vowel) /\ (\A k \in n + 1 .. Len(r) : r[k] \in Consonant)

Longer(m, f, c, r, n) ==
  \/ c \in Vowel /\ f = <<>> /\ SubSeq(r, 1, n) = Append(m, c)
  \/ c \in Consonant /\ SubSeq(r, n + 1, Len(r)) = Append(f, c)

LEMMA Split ==
  ASSUME NEW m \in Seq(Vowel), NEW f \in Seq(Consonant), NEW c \in Jamo, m # <<>>,
         NEW r, r = Append(m \o f, c), NEW n \in 1 .. Len(r), VowelsEnd(r, n)
  PROVE  Longer(m, f, c, r, n)
<1> USE DEF VowelsEnd
<1>1. r \in Seq(Jamo) /\ Len(r) = Len(m) + Len(f) + 1 /\ Len(m) \in Nat /\ Len(f) \in Nat
  BY DEF Jamo
<1>2. \A k \in 1 .. Len(m) : r[k] = m[k]
  OBVIOUS
<1>3. \A k \in 1 .. Len(f) : r[Len(m) + k] = f[k]
  OBVIOUS
<1>4. r[Len(r)] = c /\ Len(r) \in Nat
  BY <1>1
<1>5. Len(m) >= 1
  BY <1>1
<1>6. CASE n = Len(r)
  <2>1. c \in Vowel
    BY <1>1, <1>4, <1>6
  <2>2. f = <<>>
    <3>1. CASE Len(f) >= 1
      <4>1. r[Len(m) + 1] = f[1] /\ f[1] \in Consonant /\ r[Len(m) + 1] \in Vowel
        BY <1>1, <1>3, <1>6, <3>1
      <4> QED
        BY <4>1, JamoKinds
    <3> QED
      BY <1>1, <3>1
  <2>3. SubSeq(r, 1, n) = r /\ r = Append(m, c)
    BY <1>1, <1>6, <2>2
  <2> QED
    BY <2>1, <2>2, <2>3 DEF Longer
<1>7. CASE n < Len(r)
  <2>1. c \in Consonant
    BY <1>1, <1>4, <1>7
  <2>2. n >= Len(m)
    <3>1. CASE n < Len(m)
      <4>1. r[n + 1] = m[n + 1] /\ m[n + 1] \in Vowel /\ r[n + 1] \in Consonant
        BY <1>1, <1>2, <1>7, <3>1
      <4> QED
        BY <4>1, JamoKinds
    <3> QED
      BY <1>1, <3>1
  <2>3. n <= Len(m)
    <3>1. CASE n > Len(m)
      <4>1. r[Len(m) + 1] = f[1] /\ f[1] \in Consonant /\ r[Len(m) + 1] \in Vowel
        BY <1>1, <1>3, <1>7, <3>1
      <4> QED
        BY <4>1, JamoKinds
    <3> QED
      BY <1>1, <3>1
  <2>4. n = Len(m)
    BY <1>1, <2>2, <2>3
  <2>5. SubSeq(r, n + 1, Len(r)) = Append(f, c)
    <3> DEFINE s == SubSeq(r, n + 1, Len(r))
    <3>1. s \in Seq(Jamo) /\ Len(s) = Len(f) + 1 /\ \A k \in 1 .. Len(f) + 1 : s[k] = r[Len(m) + k]
      <4>1. Len(r) \in Nat /\ n + 1 \in 1 .. Len(r) + 1 /\ n + 1 <= Len(r) + 1
        BY <1>1, <2>4
      <4>2. Len(r) <= Len(r) /\ r \in Seq(Jamo)
        BY <1>1, <4>1
      <4>3. s \in Seq(Jamo) /\ Len(s) = Len(r) - (n + 1) + 1
        BY <4>1, <4>2, Piecewise, ZenonT(60)
      <4>4. \A k \in 1 .. Len(r) - (n + 1) + 1 : s[k] = r[(n + 1) + k - 1]
        BY <4>1, <4>2, Piecewise, ZenonT(60)
      <4>5. Len(r) - (n + 1) + 1 = Len(f) + 1
        BY <1>1, <2>4
      <4>6. \A k \in 1 .. Len(f) + 1 : (n + 1) + k - 1 = Len(m) + k
        BY <1>1, <2>4
      <4> HIDE DEF s
      <4> QED
        BY <4>3, <4>4, <4>5, <4>6
    <3>2. Append(f, c) \in Seq(Jamo) /\ Len(Append(f, c)) = Len(f) + 1
      BY DEF Jamo
    <3>3. \A k \in 1 .. Len(f) : Append(f, c)[k] = f[k]
      BY DEF Jamo
    <3>4. Append(f, c)[Len(f) + 1] = c /\ r[Len(m) + (Len(f) + 1)] = c
      BY <1>1, <1>4
    <3>5. \A k \in 1 .. Len(f) + 1 : k \in 1 .. Len(f) \/ k = Len(f) + 1
      BY <1>1
    <3>6. \A k \in 1 .. Len(f) + 1 : Append(f, c)[k] = r[Len(m) + k]
      BY <1>3, <3>3, <3>4, <3>5
    <3> HIDE DEF s
    <3>7. s = Append(f, c)
      BY <3>1, <3>2, <3>6, SameElements
    <3> QED
      BY <3>7 DEF s
  <2> QED
    BY <2>1, <2>5 DEF Longer
<1>8. n = Len(r) \/ n < Len(r)
  <2>1. n \in Nat /\ n <= Len(r) /\ Len(r) \in Nat
    BY <1>4
  <2>2. \A p, q \in Nat : p <= q => p = q \/ p < q
    OBVIOUS
  <2> QED
    BY <2>1, <2>2, Zenon
<1> QED
  BY <1>6, <1>7, <1>8 DEF Longer

Pair(s, c, t) == Len(s) = 1 /\ s[1] = t[1] /\ t[2] = c

LEMMA OneBefore ==
  ASSUME NEW s \in Seq(Jamo), NEW c \in Jamo, NEW t, t = Append(s, c), Len(t) = 2
  PROVE  Pair(s, c, t)
<1>1. Len(t) = Len(s) + 1 /\ t[Len(s) + 1] = c /\ \A k \in 1 .. Len(s) : t[k] = s[k]
  OBVIOUS
<1>2. Len(s) \in Nat
  OBVIOUS
<1>3. Len(s) = 1
  <2>1. Len(s) + 1 = 2
    BY <1>1
  <2>2. \A p \in Nat : p + 1 = 2 => p = 1
    OBVIOUS
  <2> QED
    BY <1>2, <2>1, <2>2, Zenon
<1> QED
  BY <1>1, <1>3 DEF Pair

\* When one more jamo makes another syllable, the tables have it.
LEMMA FollowsSyllable ==
  ASSUME NEW a \in 1 .. 19, NEW k \in 1 .. 21, NEW l \in 1 .. 28, NEW c \in Jamo,
         CanFollow(Spelled(a, k, l), c)
  PROVE  \/ c \in Vowel /\ l = 1 /\ JoinsVowel(k, c)
         \/ c \in Consonant /\ JoinsFinal(l, c)
<1>1. PICK m : m = Medials[k]
  OBVIOUS
<1>2. PICK f : f = Finals[l]
  OBVIOUS
<1>3. m \in Seq(Vowel) /\ Len(m) \in 1 .. 2
  BY <1>1, MedialKind
<1>4. f \in Seq(Consonant) /\ Len(f) \in 0 .. 2
  BY <1>2, FinalKind
<1>5. m \in Seq(Jamo) /\ f \in Seq(Jamo) /\ Initials[a] \in Jamo
  <2>1. m \in Seq(Jamo)
    BY <1>3 DEF Jamo
  <2>2. f \in Seq(Jamo)
    BY <1>4 DEF Jamo
  <2>3. Initials[a] \in Jamo
    BY InitialsFromTable DEF Jamo
  <2> QED
    BY <2>1, <2>2, <2>3
<1>6. Tail(Spelled(a, k, l)) = m \o f
  BY <1>1, <1>2, <1>5, TailOfJoined, ZenonT(60) DEF Spelled
<1>7. PICK r : r = Append(m \o f, c)
  OBVIOUS
<1>8. r \in Seq(Jamo) /\ Len(r) \in Nat
  BY <1>5, <1>7
<1>9. PICK n \in 1 .. Len(r) :
        /\ SubSeq(r, 1, n) \in ToSet(Medials)
        /\ SubSeq(r, n + 1, Len(r)) \in ToSet(Finals)
  BY <1>6, <1>7 DEF CanFollow
<1>10. n \in Nat /\ 1 <= n /\ n <= Len(r)
  BY <1>8, <1>9
<1>11. PICK j \in 1 .. 21 : SubSeq(r, 1, n) = Medials[j]
  BY <1>9, TableSizes DEF ToSet
<1>12. PICK h \in 1 .. 28 : SubSeq(r, n + 1, Len(r)) = Finals[h]
  BY <1>9, TableSizes DEF ToSet
<1>13. \A e \in 1 .. n : r[e] \in Vowel
  <2>1. /\ Len(SubSeq(r, 1, n)) = n
        /\ \A e \in 1 .. n : SubSeq(r, 1, n)[e] = r[e]
    BY <1>8, <1>10, Piecewise
  <2>2. Medials[j] \in Seq(Vowel)
    BY <1>11, MedialKind
  <2> QED
    BY <1>11, <2>1, <2>2, SMTT(60)
<1>14. \A e \in n + 1 .. Len(r) : r[e] \in Consonant
  <2>1. n + 1 \in 1 .. Len(r) + 1 /\ n + 1 <= Len(r) + 1
    BY <1>8, <1>10
  <2>2. /\ Len(SubSeq(r, n + 1, Len(r))) = Len(r) - (n + 1) + 1
        /\ \A e \in 1 .. Len(r) - (n + 1) + 1 :
             SubSeq(r, n + 1, Len(r))[e] = r[(n + 1) + e - 1]
    BY <1>8, <2>1, Piecewise
  <2>3. Finals[h] \in Seq(Consonant)
    BY <1>12, FinalKind
  <2>4. \A e \in 1 .. Len(r) - (n + 1) + 1 : r[(n + 1) + e - 1] \in Consonant
    BY <1>12, <2>2, <2>3, SMTT(60)
  <2> TAKE e \in n + 1 .. Len(r)
  <2>5. e - n \in 1 .. Len(r) - (n + 1) + 1 /\ (n + 1) + (e - n) - 1 = e
    BY <1>8, <1>10
  <2> QED
    BY <2>4, <2>5
<1>15. m # <<>>
  <2>1. ASSUME m = <<>> PROVE FALSE
    <3>1. Len(m) = 0
      BY <2>1
    <3> QED
      BY <1>3, <3>1
  <2> QED
    BY <2>1
<1>16. \/ c \in Vowel /\ f = <<>> /\ Medials[j] = Append(m, c)
       \/ c \in Consonant /\ Finals[h] = Append(f, c)
  <2>1. VowelsEnd(r, n)
    BY <1>13, <1>14 DEF VowelsEnd
  <2>2. Longer(m, f, c, r, n)
    BY <1>3, <1>4, <1>7, <1>9, <1>15, <2>1, Split
  <2> QED
    BY <1>11, <1>12, <2>2 DEF Longer
<1>17. ASSUME Medials[j] = Append(m, c) PROVE JoinsVowel(k, c)
  <2>1. Len(Medials[j]) >= 2
    BY <1>3, <1>17
  <2>2. OneVowel(j) \/ TwoVowels(j)
    BY <1>11, MedialsFromTables
  <2>3. ~OneVowel(j)
    <3>1. \A v : Len(<<v>>) = 1
      OBVIOUS
    <3>2. ASSUME NEW v \in Vowel, Medials[j] = <<v>> PROVE FALSE
      <4>1. Len(Medials[j]) = 1
        BY <3>1, <3>2
      <4> QED
        BY <2>1, <4>1
    <3> QED
      BY <3>2 DEF OneVowel
  <2>4. PICK v \in DOMAIN ymaps : \E d \in DOMAIN ymaps[v] : Medials[j] = <<v, d>>
    BY <2>2, <2>3, Zenon DEF TwoVowels
  <2>5. PICK d \in DOMAIN ymaps[v] : Medials[j] = <<v, d>>
    BY <2>4
  <2>6. Len(m) = 1 /\ m[1] = v /\ d = c
    <3>1. PICK t : t = Medials[j]
      OBVIOUS
    <3>2. Len(t) = 2 /\ t[1] = v /\ t[2] = d
      BY <2>5, <3>1
    <3>3. t = Append(m, c)
      BY <1>17, <3>1
    <3>4. Pair(m, c, t)
      BY <1>5, <3>2, <3>3, OneBefore, Zenon
    <3> QED
      BY <3>2, <3>4, Zenon DEF Pair
  <2>7. OneVowel(k) \/ TwoVowels(k)
    BY MedialsFromTables
  <2>8. ymap[v] = k
    BY <1>1, <2>6, <2>7 DEF OneVowel, TwoVowels
  <2> QED
    BY <2>4, <2>5, <2>6, <2>8 DEF JoinsVowel
<1>18. ASSUME Finals[h] = Append(f, c) PROVE JoinsFinal(l, c)
  <2>1. OneConsonant(h) \/ TwoConsonants(h)
    <3>1. Finals[h] # <<>>
      BY <1>4, <1>18
    <3> QED
      BY <1>12, <3>1, FinalsFromTables
  <2>2. CASE f = <<>>
    <3>1. l = 1
      BY <1>2, <2>2, EmptyFinal
    <3>2. Finals[h] = <<c>>
      BY <1>18, <2>2
    <3> QED
      BY <2>1, <3>1, <3>2 DEF OneConsonant, TwoConsonants, JoinsFinal
  <2>3. CASE f # <<>>
    <3>1. Len(Finals[h]) >= 2
      BY <1>4, <1>18, <2>3
    <3>2. ~OneConsonant(h)
      <4>1. \A v : Len(<<v>>) = 1
        OBVIOUS
      <4>2. ASSUME NEW v \in DOMAIN zmap, Finals[h] = <<v>> PROVE FALSE
        <5>1. Len(Finals[h]) = 1
          BY <4>1, <4>2
        <5> QED
          BY <3>1, <5>1
      <4> QED
        BY <4>2 DEF OneConsonant
    <3>3. PICK v \in DOMAIN zmaps : \E d \in DOMAIN zmaps[v] : Finals[h] = <<v, d>>
      BY <2>1, <3>2, Zenon DEF TwoConsonants
    <3>4. PICK d \in DOMAIN zmaps[v] : Finals[h] = <<v, d>>
      BY <3>3
    <3>5. Len(f) = 1 /\ f[1] = v /\ d = c
      <4>1. PICK t : t = Finals[h]
        OBVIOUS
      <4>2. Len(t) = 2 /\ t[1] = v /\ t[2] = d
        BY <3>4, <4>1
      <4>3. t = Append(f, c)
        BY <1>18, <4>1
      <4>4. Pair(f, c, t)
        BY <1>5, <4>2, <4>3, OneBefore, Zenon
      <4> QED
        BY <4>2, <4>4, Zenon DEF Pair
    <3>6. OneConsonant(l) \/ TwoConsonants(l)
      BY <1>2, <2>3, FinalsFromTables
    <3>7. l = zmap[v] + 1
      <4>1. ASSUME NEW w \in DOMAIN zmap, l = zmap[w] + 1, Finals[l] = <<w>>
            PROVE  l = zmap[v] + 1
        BY <1>2, <3>5, <4>1
      <4>2. ASSUME NEW w, NEW e, Finals[l] = <<w, e>> PROVE FALSE
        BY <1>2, <3>5, <4>2
      <4> QED
        BY <3>6, <4>1, <4>2 DEF OneConsonant, TwoConsonants
    <3> QED
      BY <3>3, <3>4, <3>5, <3>7 DEF JoinsFinal
  <2> QED
    BY <2>2, <2>3
<1>19. f = <<>> => l = 1
  BY <1>2, EmptyFinal
<1> QED
  BY <1>16, <1>17, <1>18, <1>19

-----------------------------------------------------------------------------
(* The steps *)

LEMMA InitHangulInv == Init /\ text \in Seq(Jamo \union Other) => HangulInv
  BY DEF Init, HangulInv, TypeOK, SecondOf, CallOf, Mode

\* The automaton looks at one more character or at none.
LEMMA Looks ==
  ASSUME HangulInv, Running, Consume \/ LookAgain, UNCHANGED <<text, src_idx, out>>,
         mode' \in Mode \ {"idle"}, SecondOf',
         x' \in -1 .. 18, y' \in -1 .. 20, z' \in 0 .. 27
  PROVE  HangulInv'
<1>1. /\ text \in Seq(Jamo \union Other) /\ src_idx \in 0 .. Len(text)
      /\ i \in 0 .. Len(text) - src_idx /\ src_idx + i < Len(text)
  BY DEF HangulInv, TypeOK, Running
<1>2. i' \in 0 .. Len(text') - src_idx' /\ src_idx' < Len(text')
  BY <1>1 DEF Consume, LookAgain
<1> QED
  BY <1>1, <1>2 DEF HangulInv, TypeOK, CallOf

LEMMA InvTypes ==
  ASSUME HangulInv
  PROVE  /\ x \in -1 .. 18 /\ y \in -1 .. 20 /\ z \in 0 .. 27
         /\ text \in Seq(Jamo \union Other) /\ src_idx \in 0 .. Len(text)
  BY DEF HangulInv, TypeOK

LEMMA ModeXInv == ASSUME HangulInv, mode_x PROVE HangulInv'
<1>1. mode' \in {"Y", "DONE"} /\ x' \in -1 .. 18
  BY InitialRange DEF mode_x
<1> QED
  BY <1>1, Looks, InvTypes DEF mode_x, Mode, SecondOf

LEMMA ModeYInv == ASSUME HangulInv, mode_y PROVE HangulInv'
<1>1. y' \in -1 .. 20
  BY MedialRange DEF mode_y
<1>2. mode' \in {"Y_O", "Y_U", "Y_EU", "Z", "DONE"} /\ SecondOf'
  BY FirstVowels DEF mode_y, SecondOf
<1> QED
  BY <1>1, <1>2, Looks, InvTypes DEF mode_y, Mode

LEMMA ModeYSecondInv == ASSUME HangulInv, mode_y_second PROVE HangulInv'
<1>1. PICK first \in DOMAIN ymaps :
        /\ mode = ModeY[first]
        /\ y' = y \/ (Here \in DOMAIN ymaps[first] /\ y' = y + ymaps[first][Here])
  BY DEF mode_y_second
<1>2. y' \in -1 .. 20
  <2>1. CASE first = "O"
    <3>1. y = 8
      BY <1>1, <2>1, FirstVowels DEF HangulInv, SecondOf
    <3>2. y' = y \/ \E d \in 1 .. 3 : y' = y + d
      BY <1>1, <2>1, SecondVowels
    <3> QED
      BY <3>1, <3>2
  <2>2. CASE first = "U"
    <3>1. y = 13
      BY <1>1, <2>2, FirstVowels DEF HangulInv, SecondOf
    <3>2. y' = y \/ \E d \in 1 .. 3 : y' = y + d
      BY <1>1, <2>2, SecondVowels
    <3> QED
      BY <3>1, <3>2
  <2>3. CASE first = "EU"
    <3>1. y = 18
      BY <1>1, <2>3, FirstVowels DEF HangulInv, SecondOf
    <3>2. y' = y \/ \E d \in 1 .. 1 : y' = y + d
      BY <1>1, <2>3, SecondVowels
    <3> QED
      BY <3>1, <3>2
  <2> QED
    BY <2>1, <2>2, <2>3, FirstVowels
<1>3. mode' = "Z" /\ (Consume \/ LookAgain) /\ Running /\ UNCHANGED <<text, src_idx, out, x, z>>
  BY DEF mode_y_second
<1> QED
  BY <1>2, <1>3, Looks, InvTypes DEF Mode, SecondOf

LEMMA ModeZInv == ASSUME HangulInv, Beyond \subseteq 0 .. 27, mode_z PROVE HangulInv'
<1>1. z' \in 0 .. 27
  <2>1. \/ z' = z
        \/ Here \in DOMAIN zmap /\ z' = zmap[Here]
        \/ z' \in Beyond
    BY DEF mode_z
  <2>2. \A c \in DOMAIN zmap : zmap[c] \in 0 .. 27
    BY FinalRange
  <2> QED
    BY <2>1, <2>2, InvTypes
<1>2. mode' \in {"Z_G", "Z_N", "Z_R", "Z_B", "DONE"} /\ SecondOf'
  BY FirstConsonants DEF mode_z, SecondOf
<1> QED
  BY <1>1, <1>2, Looks, InvTypes DEF mode_z, Mode

LEMMA ModeZSecondInv == ASSUME HangulInv, mode_z_second PROVE HangulInv'
<1>1. PICK first \in DOMAIN zmaps :
        /\ mode = ModeZ[first]
        /\ z' = z \/ (Here \in DOMAIN zmaps[first] /\ z' = z + zmaps[first][Here])
  BY DEF mode_z_second
<1>2. z' \in 0 .. 27
  <2>1. CASE first = "G"
    <3>1. z = 1
      BY <1>1, <2>1, FirstConsonants DEF HangulInv, SecondOf
    <3>2. z' = z \/ \E d \in 1 .. 7 : z' = z + d
      BY <1>1, <2>1, SecondConsonants
    <3> QED
      BY <3>1, <3>2
  <2>2. CASE first = "N"
    <3>1. z = 4
      BY <1>1, <2>2, FirstConsonants DEF HangulInv, SecondOf
    <3>2. z' = z \/ \E d \in 1 .. 7 : z' = z + d
      BY <1>1, <2>2, SecondConsonants
    <3> QED
      BY <3>1, <3>2
  <2>3. CASE first = "R"
    <3>1. z = 8
      BY <1>1, <2>3, FirstConsonants DEF HangulInv, SecondOf
    <3>2. z' = z \/ \E d \in 1 .. 7 : z' = z + d
      BY <1>1, <2>3, SecondConsonants
    <3> QED
      BY <3>1, <3>2
  <2>4. CASE first = "B"
    <3>1. z = 17
      BY <1>1, <2>4, FirstConsonants DEF HangulInv, SecondOf
    <3>2. z' = z \/ \E d \in 1 .. 7 : z' = z + d
      BY <1>1, <2>4, SecondConsonants
    <3> QED
      BY <3>1, <3>2
  <2> QED
    BY <2>1, <2>2, <2>3, <2>4, FirstConsonants
<1>3. mode' = "DONE" /\ (Consume \/ LookAgain) /\ Running /\ UNCHANGED <<text, src_idx, out, x, y>>
  BY DEF mode_z_second
<1> QED
  BY <1>2, <1>3, Looks, InvTypes DEF Mode, SecondOf

LEMMA ConvertInv ==
  ASSUME HangulInv, convert_char \/ hangul_return
  PROVE  HangulInv'
<1>1. /\ text \in Seq(Jamo \union Other) /\ src_idx \in 0 .. Len(text) /\ src_idx < Len(text)
      /\ i \in 0 .. Len(text) - src_idx /\ out \in Seq(Piece)
  BY DEF HangulInv, TypeOK, CallOf, convert_char, hangul_return
<1>2. Single(text[src_idx + 1]) \in Piece
  BY <1>1 DEF Single, Piece
<1>3. out' \in Seq(Piece) /\ src_idx' \in 0 .. Len(text)
  <2>1. CASE out' = Append(out, Single(text[src_idx + 1])) /\ src_idx' = src_idx + 1
    BY <1>1, <1>2, <2>1
  <2>2. CASE /\ Codepoint \in FIRST_HANGUL_CODEPOINT .. LAST_HANGUL_CODEPOINT
             /\ out' = Append(out, Syllable(Codepoint)) /\ src_idx' = src_idx + i
    <3>1. Syllable(Codepoint) \in Piece
      BY <2>2 DEF Syllable, Piece
    <3> QED
      BY <1>1, <2>2, <3>1
  <2> QED
    BY <2>1, <2>2 DEF convert_char, hangul_return
<1>4. mode' = "idle" /\ i' = 0 /\ x' = -1 /\ y' = -1 /\ z' = 0 /\ text' = text
  BY DEF convert_char, hangul_return, call, Idle, HangulInv, CallOf
<1> QED
  BY <1>1, <1>3, <1>4 DEF HangulInv, TypeOK, SecondOf, CallOf, Mode

LEMMA CallInv == ASSUME HangulInv, hangul_call PROVE HangulInv'
<1>1. src_idx < Len(text) /\ mode' = "X" /\ UNCHANGED <<text, src_idx, out, i, x, y, z>>
  BY DEF hangul_call
<1> QED
  BY <1>1 DEF HangulInv, TypeOK, SecondOf, CallOf, Mode

LEMMA NextHangulInv ==
  ASSUME Beyond \subseteq 0 .. 27 PROVE HangulInv /\ [Next]_hangulVars => HangulInv'
<1> SUFFICES ASSUME HangulInv, [Next]_hangulVars PROVE HangulInv'
  OBVIOUS
<1>1. CASE UNCHANGED hangulVars
  BY <1>1 DEF hangulVars, call, HangulInv, TypeOK, SecondOf, CallOf
<1> QED
  BY <1>1, ConvertInv, CallInv, ModeXInv, ModeYInv, ModeYSecondInv, ModeZInv, ModeZSecondInv
  DEF Next

\* No call looks behind its text or outside the tables, and what it writes are
\* characters of the text and syllables (hangul_to_utf8, char_to_utf8), if the
\* element behind zmap is one a syllable can have.
THEOREM Types ==
  ASSUME Beyond \subseteq 0 .. 27
  PROVE  Init /\ text \in Seq(Jamo \union Other) /\ [][Next]_hangulVars => []TypeOK
<1>1. HangulInv => TypeOK
  BY DEF HangulInv
<1> QED
  BY <1>1, InitHangulInv, NextHangulInv, PTL

-----------------------------------------------------------------------------
(* What the automaton has read *)

JamoAt(n) == n <= Len(text) /\ IsJamo(text[n])

Taken == SubSeq(text, src_idx + 1, src_idx + i)

CodeOf(code, a, b, d) ==
  /\ code \in FIRST_HANGUL_CODEPOINT .. LAST_HANGUL_CODEPOINT
  /\ Spelling(Syllable(code)) = Spelled(a + 1, b + 1, d + 1)

LEMMA CodeIn ==
  ASSUME NEW c \in Int, 44032 <= c, c <= 55203
  PROVE  c \in FIRST_HANGUL_CODEPOINT .. LAST_HANGUL_CODEPOINT
<1>1. FIRST_HANGUL_CODEPOINT = 44032 /\ LAST_HANGUL_CODEPOINT = 55203
  BY DEF FIRST_HANGUL_CODEPOINT, LAST_HANGUL_CODEPOINT
<1>2. PICK lo, hi : lo = FIRST_HANGUL_CODEPOINT /\ hi = LAST_HANGUL_CODEPOINT
  OBVIOUS
<1>3. lo \in Int /\ hi \in Int /\ lo <= c /\ c <= hi
  BY <1>1, <1>2
<1>4. c \in lo .. hi
  BY <1>3
<1> QED
  BY <1>2, <1>4

LEMMA CodeFrom ==
  ASSUME NEW c \in FIRST_HANGUL_CODEPOINT .. LAST_HANGUL_CODEPOINT,
         NEW n, n = c - FIRST_HANGUL_CODEPOINT
  PROVE  n \in Int /\ 0 <= n /\ n <= 11171
  BY DEF FIRST_HANGUL_CODEPOINT, LAST_HANGUL_CODEPOINT

LEMMA PartsOfCode ==
  ASSUME NEW n \in Int, 0 <= n, n <= 11171
  PROVE  /\ n \div 588 \in 0 .. 18 /\ n % 588 \in 0 .. 587
         /\ (n % 588) \div 28 \in 0 .. 20 /\ n % 28 \in 0 .. 27
  OBVIOUS

\* The elements of the tables that a code point stands for.
InitialOf(n) == (n \div 588) + 1
MedialOf(n) == ((n % 588) \div 28) + 1
FinalOf(n) == (n % 28) + 1

LEMMA SpelledCode ==
  ASSUME NEW p, p.is # "char"
  PROVE  Spelling(p) =
           Spelled(InitialOf(p.code - FIRST_HANGUL_CODEPOINT),
                   MedialOf(p.code - FIRST_HANGUL_CODEPOINT),
                   FinalOf(p.code - FIRST_HANGUL_CODEPOINT))
  BY ZenonT(40) DEF Spelling, Spelled, InitialOf, MedialOf, FinalOf

LEMMA SpelledParts ==
  ASSUME NEW p, p.is # "char", NEW n, n = p.code - FIRST_HANGUL_CODEPOINT
  PROVE  Spelling(p) = Spelled(InitialOf(n), MedialOf(n), FinalOf(n))
  BY SpelledCode, Zenon

LEMMA SpellingOfCode ==
  ASSUME NEW a \in 0 .. 18, NEW b \in 0 .. 20, NEW d \in 0 .. 27,
         NEW n, n = 588 * a + 28 * b + d, NEW code, code = FIRST_HANGUL_CODEPOINT + n
  PROVE  CodeOf(code, a, b, d)
<1>1. n \in Int /\ 0 <= n /\ n <= 11171
  <2>1. PICK p, q : p = 588 * a /\ q = 28 * b
    OBVIOUS
  <2>2. p \in Int /\ 0 <= p /\ p <= 10584 /\ q \in Int /\ 0 <= q /\ q <= 560
    BY <2>1
  <2>3. n = p + q + d /\ d \in Int /\ 0 <= d /\ d <= 27
    BY <2>1
  <2> QED
    BY <2>2, <2>3
<1>2. code \in FIRST_HANGUL_CODEPOINT .. LAST_HANGUL_CODEPOINT
  <2>1. PICK m : m = n
    OBVIOUS
  <2>2. m \in Int /\ 0 <= m /\ m <= 11171 /\ code = 44032 + m
    BY <1>1, <2>1 DEF FIRST_HANGUL_CODEPOINT
  <2>3. code \in Int /\ 44032 <= code /\ code <= 55203
    BY <2>2
  <2> QED
    BY <2>3, CodeIn
<1>3. code - FIRST_HANGUL_CODEPOINT = n
  BY <1>1 DEF FIRST_HANGUL_CODEPOINT
<1>4. n \div 588 = a /\ n % 588 = 28 * b + d
  BY <1>1
<1>5. (28 * b + d) \div 28 = b
  OBVIOUS
<1>6. n % 28 = d
  BY <1>1
<1>7. PICK p : p = Syllable(code)
  OBVIOUS
<1>8. p.is # "char" /\ n = p.code - FIRST_HANGUL_CODEPOINT
  BY <1>3, <1>7 DEF Syllable
<1>9. InitialOf(n) = a + 1 /\ MedialOf(n) = b + 1 /\ FinalOf(n) = d + 1
  BY <1>4, <1>5, <1>6 DEF InitialOf, MedialOf, FinalOf
<1>10. Spelling(p) = Spelled(InitialOf(n), MedialOf(n), FinalOf(n))
  BY <1>8, SpelledParts, Zenon
<1>11. Spelling(p) = Spelled(a + 1, b + 1, d + 1)
  BY <1>9, <1>10
<1> QED
  BY <1>2, <1>7, <1>11 DEF CodeOf

LEMMA TakesOne ==
  ASSUME HangulInv, Running, UNCHANGED <<text, src_idx>>, i' = i + 1
  PROVE  Taken' = Append(Taken, Here)
<1>1. /\ text \in Seq(Jamo \union Other) /\ src_idx \in Nat /\ i \in Nat /\ src_idx + i < Len(text)
  BY DEF HangulInv, TypeOK, Running
<1>2. PICK S : S = Jamo \union Other
  OBVIOUS
<1>3. PICK s, a, b : s = text /\ a = src_idx + 1 /\ b = src_idx + i
  OBVIOUS
<1>4. s \in Seq(S) /\ a \in 1 .. Len(s) + 1 /\ b \in Nat /\ a <= b + 1 /\ b + 1 <= Len(s)
  BY <1>1, <1>2, <1>3
<1>5. SubSeq(s, a, b + 1) = Append(SubSeq(s, a, b), s[b + 1])
  BY <1>4
<1> QED
  BY <1>1, <1>3, <1>5 DEF Taken, Here

LEMMA OneMoreJoined ==
  ASSUME NEW S, NEW s \in Seq(S), NEW t \in Seq(S), NEW c \in S
  PROVE  s \o Append(t, c) = Append(s \o t, c)
<1>1. s \o Append(t, c) \in Seq(S) /\ Append(s \o t, c) \in Seq(S)
  OBVIOUS
<1>2. Len(s \o Append(t, c)) = Len(Append(s \o t, c))
  OBVIOUS
<1>3. \A k \in 1 .. Len(s \o Append(t, c)) : (s \o Append(t, c))[k] = Append(s \o t, c)[k]
  OBVIOUS
<1> QED
  BY <1>1, <1>2, <1>3

LEMMA OnePiece ==
  ASSUME NEW S, NEW s \in Seq(S), NEW a \in 1 .. Len(s)
  PROVE  SubSeq(s, a, a) = <<s[a]>>
<1>1. a \in 1 .. Len(s) + 1 /\ a \in Nat /\ a <= a + 1 /\ a <= Len(s) /\ a - a + 1 = 1
  OBVIOUS
<1>2. SubSeq(s, a, a) \in Seq(S) /\ Len(SubSeq(s, a, a)) = 1
  BY <1>1, Piecewise
<1>3. SubSeq(s, a, a)[1] = s[a]
  OBVIOUS
<1>4. \A k \in 1 .. 1 : k = 1
  OBVIOUS
<1>5. <<s[a]>> \in Seq(S) /\ Len(<<s[a]>>) = 1 /\ <<s[a]>>[1] = s[a]
  OBVIOUS
<1>6. \A k \in 1 .. Len(SubSeq(s, a, a)) : SubSeq(s, a, a)[k] = <<s[a]>>[k]
  BY <1>2, <1>3, <1>4, <1>5, Zenon
<1> QED
  BY <1>2, <1>5, <1>6, SameElements, Zenon

LEMMA TwoJoined ==
  ASSUME NEW S, NEW a \in S, NEW b \in S
  PROVE  (<<a>> \o <<b>>) \o <<>> = Append(<<a>>, b)
  OBVIOUS

LEMMA Kinds == Consonant \subseteq Jamo /\ Vowel \subseteq Jamo
BY DEF Jamo

SecondModesY == {"Y_O", "Y_U", "Y_EU"}
SecondModesZ == {"Z_G", "Z_N", "Z_R", "Z_B"}

\* How much of a syllable there is in each mode.
PartsOf ==
  /\ mode = "X" => i = 0 /\ x = -1 /\ y = -1 /\ z = 0
  /\ mode = "Y" => i = 1 /\ x # -1 /\ y = -1 /\ z = 0
  /\ mode \in SecondModesY \cup {"Z"} => x # -1 /\ y # -1 /\ z = 0
  /\ mode \in SecondModesZ => x # -1 /\ y # -1

\* The three numbers spell what was read.
SpellsOf ==
  /\ mode # "idle" => JamoAt(src_idx + 1)
  /\ x # -1 => text[src_idx + 1] = Initials[x + 1]
  /\ x # -1 /\ y # -1 => Taken = Spelled(x + 1, y + 1, z + 1)

\* The jamo behind what was read does not go on with it.
StopsAt(n) ==
  JamoAt(n) =>
    /\ text[n] \in Vowel => z = 0 /\ ~JoinsVowel(y + 1, text[n])
    /\ JoinsFinal(z + 1, text[n]) => OpensSyllable(n)

StopsOf ==
  /\ mode = "Z" /\ JamoAt(src_idx + i + 1) => ~JoinsVowel(y + 1, text[src_idx + i + 1])
  /\ mode \in SecondModesZ /\ JamoAt(src_idx + i + 1) => text[src_idx + i + 1] \notin Vowel
  /\ mode = "DONE" /\ x # -1 /\ y # -1 => StopsAt(src_idx + i + 1)
  /\ mode = "DONE" /\ (x = -1 \/ y = -1) => ~OpensSyllable(src_idx + 1)

AutoInv == HangulInv /\ PartsOf /\ SpellsOf /\ StopsOf

LEMMA AutoX == ASSUME AutoInv, mode_x PROVE AutoInv'
<1>1. HangulInv'
  BY ModeXInv DEF AutoInv
<1>2. /\ mode = "X" /\ i = 0 /\ y = -1 /\ z = 0 /\ i' = 1 /\ UNCHANGED <<text, src_idx, y, z>>
      /\ Here = text[src_idx + 1]
  <2>1. src_idx \in Nat /\ mode = "X" /\ i = 0 /\ y = -1 /\ z = 0
    BY DEF AutoInv, HangulInv, TypeOK, PartsOf, mode_x
  <2> QED
    BY <2>1 DEF mode_x, Consume, Here
<1>3. JamoAt(src_idx + 1)'
  BY <1>2 DEF AutoInv, SpellsOf, JamoAt
<1>4. CASE Here \in Consonant
  <2>1. mode' = "Y" /\ x' + 1 = xmap[Here] /\ x' # -1
    BY <1>4, InitialTable DEF mode_x
  <2>2. Initials[x' + 1] = Here
    BY <1>4, <2>1, InitialTable
  <2> QED
    BY <1>1, <1>2, <1>3, <2>1, <2>2
    DEF AutoInv, PartsOf, SpellsOf, StopsOf, SecondModesY, SecondModesZ
<1>5. CASE Here \notin Consonant
  <2>1. mode' = "DONE" /\ x' = -1
    BY <1>5 DEF mode_x
  <2>2. ~OpensSyllable(src_idx + 1)'
    BY <1>2, <1>5 DEF OpensSyllable
  <2> QED
    BY <1>1, <1>2, <1>3, <2>1, <2>2
    DEF AutoInv, PartsOf, SpellsOf, StopsOf, SecondModesY, SecondModesZ
<1> QED
  BY <1>4, <1>5

LEMMA AutoY == ASSUME AutoInv, mode_y PROVE AutoInv'
<1>1. HangulInv'
  BY ModeYInv DEF AutoInv
<1>2. /\ mode = "Y" /\ i = 1 /\ x # -1 /\ z = 0 /\ i' = i + 1 /\ UNCHANGED <<text, src_idx, x, z>>
      /\ Here = text[src_idx + 2] /\ text[src_idx + 1] = Initials[x + 1] /\ Running
      /\ src_idx \in Nat /\ x \in 0 .. 18 /\ text \in Seq(Jamo \union Other) /\ src_idx + 1 < Len(text)
  <2>1. /\ src_idx \in Nat /\ mode = "Y" /\ i = 1 /\ x # -1 /\ z = 0 /\ x \in -1 .. 18
        /\ text[src_idx + 1] = Initials[x + 1] /\ text \in Seq(Jamo \union Other)
    BY DEF AutoInv, HangulInv, TypeOK, PartsOf, SpellsOf, mode_y
  <2>2. Here = text[src_idx + 2] /\ src_idx + 1 < Len(text) /\ x \in 0 .. 18
    BY <2>1 DEF Here, mode_y, Running
  <2> QED
    BY <2>1, <2>2 DEF mode_y, Consume
<1>3. JamoAt(src_idx + 1)'
  BY <1>2 DEF AutoInv, SpellsOf, JamoAt
<1>4. CASE Here \in Vowel
  <2>1. y' + 1 = ymap[Here] /\ y' # -1 /\ Medials[ymap[Here]] = <<Here>>
    BY <1>4, MedialTable DEF mode_y
  <2>2. Taken' = Append(Taken, Here)
    BY <1>2, TakesOne DEF AutoInv
  <2>3. Taken = <<text[src_idx + 1]>>
    <3>1. src_idx + i = src_idx + 1 /\ src_idx + 1 \in 1 .. Len(text)
      BY <1>2
    <3> QED
      BY <1>2, <3>1, OnePiece DEF Taken
  <2>4. Taken' = Spelled(x + 1, ymap[Here], 1)
    <3>1. Initials[x + 1] \in Jamo /\ Here \in Jamo
      <4>1. x + 1 \in 1 .. 19
        BY <1>2
      <4> QED
        BY <1>4, <4>1, InitialsFromTable, Kinds
    <3>2. Append(<<Initials[x + 1]>>, Here) = (<<Initials[x + 1]>> \o <<Here>>) \o <<>>
      BY <3>1, TwoJoined
    <3> QED
      BY <1>2, <2>1, <2>2, <2>3, <3>2, EmptyFinal DEF Spelled
  <2>5. SpellsOf'
    BY <1>2, <1>3, <2>1, <2>4 DEF SpellsOf
  <2>6. CASE Here \in DOMAIN ymaps
    <3>1. mode' \in SecondModesY
      BY <1>4, <2>6, FirstVowels DEF mode_y, SecondModesY
    <3> QED
      BY <1>1, <1>2, <2>1, <2>5, <3>1 DEF AutoInv, PartsOf, StopsOf, SecondModesY, SecondModesZ
  <2>7. CASE Here \notin DOMAIN ymaps
    <3>1. mode' = "Z"
      BY <1>4, <2>7 DEF mode_y
    <3>2. \A c : ~JoinsVowel(y' + 1, c)
      <4> SUFFICES ASSUME NEW f \in DOMAIN ymaps, y' + 1 = ymap[f] PROVE FALSE
        BY DEF JoinsVowel
      <4>1. f \in Vowel
        BY JamoKinds
      <4>2. <<f>> = <<Here>>
        BY <2>1, <4>1, MedialTable
      <4> QED
        BY <2>7, <4>2
    <3> QED
      BY <1>1, <1>2, <2>1, <2>5, <3>1, <3>2 DEF AutoInv, PartsOf, StopsOf, SecondModesY, SecondModesZ
  <2> QED
    BY <2>6, <2>7
<1>5. CASE Here \notin Vowel
  <2>1. mode' = "DONE" /\ y' = -1
    BY <1>5 DEF mode_y
  <2>2. ~OpensSyllable(src_idx + 1)'
    BY <1>2, <1>5 DEF OpensSyllable
  <2> QED
    BY <1>1, <1>2, <1>3, <2>1, <2>2
    DEF AutoInv, PartsOf, SpellsOf, StopsOf, SecondModesY, SecondModesZ
<1> QED
  BY <1>4, <1>5

LEMMA SpelledType ==
  ASSUME NEW a \in 1 .. 19, NEW k \in 1 .. 21, NEW l \in 1 .. 28
  PROVE  /\ <<Initials[a]>> \in Seq(Jamo) /\ Medials[k] \in Seq(Jamo) /\ Finals[l] \in Seq(Jamo)
         /\ <<Initials[a]>> \o Medials[k] \in Seq(Jamo)
         /\ Spelled(a, k, l) \in Seq(Jamo)
<1>1. Initials[a] \in Jamo
  BY InitialsFromTable, Kinds
<1>2. Medials[k] \in Seq(Jamo)
  <2>1. Medials[k] \in Seq(Vowel)
    BY MedialKind
  <2> QED
    BY <2>1 DEF Jamo
<1>3. Finals[l] \in Seq(Jamo)
  <2>1. Finals[l] \in Seq(Consonant)
    BY FinalKind
  <2> QED
    BY <2>1 DEF Jamo
<1> QED
  BY <1>1, <1>2, <1>3 DEF Spelled

\* A second vowel lengthens a syllable without a final.
LEMMA SpelledVowel ==
  ASSUME NEW a \in 1 .. 19, NEW f \in DOMAIN ymaps, NEW c \in DOMAIN ymaps[f]
  PROVE  Spelled(a, ymap[f] + ymaps[f][c], 1) = Append(Spelled(a, ymap[f], 1), c)
<1>1. /\ f \in Jamo /\ c \in Jamo /\ Initials[a] \in Jamo
      /\ Medials[ymap[f]] = <<f>> /\ Medials[ymap[f] + ymaps[f][c]] = <<f, c>>
  BY MedialTables, MedialTable, InitialsFromTable, Kinds
<1>2. Finals[1] = <<>>
  BY EmptyFinal
<1>3. \A p, q, e \in Jamo : (<<p>> \o <<q, e>>) \o <<>> = Append((<<p>> \o <<q>>) \o <<>>, e)
  OBVIOUS
<1>4. (<<Initials[a]>> \o <<f, c>>) \o <<>> = Append((<<Initials[a]>> \o <<f>>) \o <<>>, c)
  BY <1>1, <1>3
<1> QED
  BY <1>1, <1>2, <1>4 DEF Spelled

\* A consonant that goes on with the final lengthens the syllable.
LEMMA SpelledFinal ==
  ASSUME NEW a \in 1 .. 19, NEW k \in 1 .. 21, NEW l \in 1 .. 28, NEW h \in 1 .. 28,
         NEW c \in Jamo, Finals[h] = Append(Finals[l], c)
  PROVE  Spelled(a, k, h) = Append(Spelled(a, k, l), c)
<1>1. PICK s : s = <<Initials[a]>> \o Medials[k]
  OBVIOUS
<1>2. PICK t : t = Finals[l]
  OBVIOUS
<1>3. s \in Seq(Jamo) /\ t \in Seq(Jamo)
  BY <1>1, <1>2, SpelledType
<1>4. s \o Append(t, c) = Append(s \o t, c)
  BY <1>3, OneMoreJoined
<1> QED
  BY <1>1, <1>2, <1>4 DEF Spelled

\* What the actions that look for a second jamo, or for a final, start from.
InSyllable ==
  /\ x \in 0 .. 18 /\ y \in 0 .. 20 /\ z \in 0 .. 27 /\ Running
  /\ JamoAt(src_idx + 1) /\ JamoAt(src_idx + i + 1) /\ Here = text[src_idx + i + 1]
  /\ text[src_idx + 1] = Initials[x + 1] /\ Taken = Spelled(x + 1, y + 1, z + 1)
  /\ src_idx \in Nat /\ i \in Nat /\ text \in Seq(Jamo \union Other)
  /\ HangulInv

LEMMA SyllableBegun ==
  ASSUME AutoInv, Running, x # -1, y # -1 PROVE InSyllable
<1>1. /\ x \in -1 .. 18 /\ y \in -1 .. 20 /\ z \in 0 .. 27
      /\ src_idx \in Nat /\ i \in Nat /\ text \in Seq(Jamo \union Other)
  BY DEF AutoInv, HangulInv, TypeOK
<1>2. mode # "idle" /\ src_idx + i < Len(text) /\ IsJamo(text[src_idx + i + 1])
  BY DEF Running, Here
<1>3. JamoAt(src_idx + i + 1)
  BY <1>1, <1>2 DEF JamoAt
<1>4. x \in 0 .. 18 /\ y \in 0 .. 20
  BY <1>1
<1> QED
  BY <1>1, <1>2, <1>3, <1>4 DEF InSyllable, AutoInv, SpellsOf, Here

LEMMA AutoYSecond == ASSUME AutoInv, mode_y_second PROVE AutoInv'
<1>1. HangulInv'
  BY ModeYSecondInv DEF AutoInv
<1>2. PICK f \in DOMAIN ymaps :
        /\ mode = ModeY[f] /\ Running /\ mode' = "Z"
        /\ IF Here \in DOMAIN ymaps[f]
           THEN i' = i + 1 /\ y' = y + ymaps[f][Here]
           ELSE i' = i /\ y' = y
        /\ UNCHANGED <<text, src_idx, x, z>>
  BY DEF mode_y_second, Consume, LookAgain
<1>3. mode \in SecondModesY /\ y + 1 = ymap[f]
  BY <1>2, FirstVowels DEF AutoInv, HangulInv, SecondOf, SecondModesY
<1>4. x # -1 /\ y # -1 /\ z = 0
  BY <1>3 DEF AutoInv, PartsOf
<1>5. InSyllable
  BY <1>2, <1>4, SyllableBegun
<1>6. JamoAt(src_idx + 1)'
  BY <1>2, <1>5 DEF InSyllable, JamoAt
<1>7. CASE Here \in DOMAIN ymaps[f]
  <2>1. i' = i + 1 /\ y' = y + ymaps[f][Here] /\ ymaps[f][Here] \in 1 .. 3
    BY <1>2, <1>7, SecondVowels, FirstVowels
  <2>2. Taken' = Append(Taken, Here)
    BY <1>2, <1>5, <2>1, TakesOne DEF InSyllable
  <2>3. y' + 1 = ymap[f] + ymaps[f][Here] /\ y' # -1
    <3>1. PICK e \in 1 .. 3 : e = ymaps[f][Here]
      BY <2>1
    <3>2. y \in 0 .. 20
      BY <1>5 DEF InSyllable
    <3>3. y' = y + e /\ y' + 1 = (y + 1) + e /\ y' # -1
      BY <2>1, <3>1, <3>2
    <3> QED
      BY <1>3, <3>1, <3>3
  <2>4. x + 1 \in 1 .. 19
    BY <1>5 DEF InSyllable
  <2>5. Taken' = Spelled(x + 1, y' + 1, 1)
    <3>1. Taken = Spelled(x + 1, ymap[f], 1)
      BY <1>3, <1>4, <1>5 DEF InSyllable
    <3>2. Spelled(x + 1, ymap[f] + ymaps[f][Here], 1) = Append(Spelled(x + 1, ymap[f], 1), Here)
      BY <1>7, <2>4, SpelledVowel
    <3> QED
      BY <2>2, <2>3, <3>1, <3>2, Zenon
  <2>6. \A c : ~JoinsVowel(y' + 1, c)
    <3> SUFFICES ASSUME NEW g \in DOMAIN ymaps, y' + 1 = ymap[g] PROVE FALSE
      BY DEF JoinsVowel
    <3>1. <<g>> = <<f, Here>>
      BY <1>7, <2>3, MedialTable, MedialTables, JamoKinds
    <3> QED
      BY <3>1
  <2>7. SpellsOf'
    BY <1>2, <1>4, <1>5, <1>6, <2>5 DEF SpellsOf, InSyllable
  <2>8. StopsOf'
    BY <1>2, <2>6 DEF StopsOf, SecondModesZ
  <2> QED
    BY <1>1, <1>2, <1>4, <2>3, <2>7, <2>8 DEF AutoInv, PartsOf, SecondModesY, SecondModesZ
<1>8. CASE Here \notin DOMAIN ymaps[f]
  <2>1. i' = i /\ y' = y
    BY <1>2, <1>8
  <2>2. ~JoinsVowel(y + 1, Here)
    <3> SUFFICES ASSUME NEW g \in DOMAIN ymaps, ymap[f] = ymap[g], Here \in DOMAIN ymaps[g] PROVE FALSE
      BY <1>3 DEF JoinsVowel
    <3>1. <<g>> = <<f>>
      BY MedialTable, JamoKinds
    <3>2. g = f
      BY <3>1
    <3> QED
      BY <1>8, <3>2
  <2>3. SpellsOf'
    BY <1>2, <1>5, <1>6, <2>1 DEF SpellsOf, InSyllable, Taken
  <2>4. StopsOf'
    BY <1>2, <1>5, <2>1, <2>2 DEF StopsOf, SecondModesZ, InSyllable
  <2> QED
    BY <1>1, <1>2, <1>4, <2>1, <2>3, <2>4 DEF AutoInv, PartsOf, SecondModesY, SecondModesZ
<1> QED
  BY <1>7, <1>8

LEMMA NoFinalYet == \A c : JoinsFinal(1, c) => c \in DOMAIN zmap
<1>1. \A f \in DOMAIN zmaps : zmap[f] + 1 # 1
  BY FirstConsonants
<1> QED
  BY <1>1 DEF JoinsFinal

LEMMA FirstFinal ==
  ASSUME NEW c \in DOMAIN zmap, NEW d, JoinsFinal(zmap[c] + 1, d)
  PROVE  c \in DOMAIN zmaps /\ d \in DOMAIN zmaps[c]
<1>1. zmap[c] \in 1 .. 27 /\ Finals[zmap[c] + 1] = <<c>>
  BY FinalTable
<1>2. zmap[c] + 1 # 1
  BY <1>1
<1>3. PICK f \in DOMAIN zmaps : zmap[c] + 1 = zmap[f] + 1 /\ d \in DOMAIN zmaps[f]
  BY <1>2 DEF JoinsFinal
<1>4. f \in DOMAIN zmap
  BY <1>3, JamoKinds
<1>5. <<f>> = <<c>>
  BY <1>1, <1>3, <1>4, FinalTable
<1>6. f = c
  BY <1>5
<1> QED
  BY <1>3, <1>6

LEMMA BothFinals ==
  ASSUME NEW f \in DOMAIN zmaps, NEW c \in DOMAIN zmaps[f], NEW d
  PROVE  ~JoinsFinal(zmap[f] + zmaps[f][c] + 1, d)
<1>1. /\ zmap[f] + zmaps[f][c] \in 1 .. 27
      /\ Finals[zmap[f] + zmaps[f][c] + 1] = <<f, c>>
  BY FinalTables
<1>2. zmap[f] + zmaps[f][c] + 1 # 1
  BY <1>1
<1>3. ASSUME NEW g \in DOMAIN zmaps, zmap[f] + zmaps[f][c] + 1 = zmap[g] + 1 PROVE FALSE
  <2>1. <<g>> = <<f, c>>
    BY <1>1, <1>3, JamoKinds, FinalTable
  <2> QED
    BY <2>1
<1> QED
  BY <1>2, <1>3 DEF JoinsFinal

\* A final that is used up is not followed by a vowel.
LEMMA NoVowelBehind ==
  ASSUME NEW n \in Nat, ~OpensSyllable(n), text[n] \in Consonant, Len(text) \in Nat
  PROVE  JamoAt(n + 1) => text[n + 1] \notin Vowel
  BY DEF JamoAt, OpensSyllable

LEMMA AutoZ == ASSUME AutoInv, Beyond = {0}, mode_z PROVE AutoInv'
<1> DEFINE n == src_idx + i + 1
<1>1. HangulInv'
  <2>1. Beyond \subseteq 0 .. 27
    OBVIOUS
  <2> QED
    BY <2>1, ModeZInv DEF AutoInv
<1>2. mode = "Z" /\ Running /\ UNCHANGED <<text, src_idx, x, y>>
  BY DEF mode_z
<1>3. x # -1 /\ y # -1 /\ z = 0
  BY <1>2 DEF AutoInv, PartsOf
<1>4. InSyllable
  BY <1>2, <1>3, SyllableBegun
<1>5. JamoAt(src_idx + 1)'
  BY <1>2, <1>4 DEF InSyllable, JamoAt
<1>6. n \in Nat /\ Here = text[n] /\ JamoAt(n) /\ ~JoinsVowel(y + 1, Here)
  <2>1. n \in Nat
    BY <1>4 DEF InSyllable
  <2> QED
    BY <1>2, <1>4, <2>1 DEF InSyllable, AutoInv, StopsOf
<1>7. ASSUME LookAgain, mode' = "DONE", z' = 0, JoinsFinal(1, Here) => OpensSyllable(n)
      PROVE  AutoInv'
  <2>1. i' = i
    BY <1>7 DEF LookAgain
  <2>2. SpellsOf'
    BY <1>2, <1>3, <1>4, <1>5, <1>7, <2>1 DEF SpellsOf, InSyllable, Taken
  <2>3. StopsAt(n)'
    <3>1. JoinsFinal(z' + 1, Here) => OpensSyllable(n)
      BY <1>7
    <3> QED
      BY <1>2, <1>6, <1>7, <2>1, <3>1 DEF StopsAt, OpensSyllable
  <2>4. StopsOf'
    BY <1>2, <1>3, <1>7, <2>1, <2>3 DEF StopsOf, SecondModesZ
  <2> QED
    BY <1>1, <1>7, <2>2, <2>4 DEF AutoInv, PartsOf, SecondModesY, SecondModesZ
<1>8. CASE Here \notin DOMAIN zmap
  <2>1. LookAgain /\ mode' = "DONE" /\ z' = 0
    BY <1>3, <1>8 DEF mode_z
  <2> QED
    BY <1>7, <1>8, <2>1, NoFinalYet
<1>9. CASE Here \in DOMAIN zmap /\ OpensSyllable(n)
  <2>1. LookAgain /\ mode' = "DONE" /\ z' = 0
    BY <1>9 DEF mode_z
  <2> QED
    BY <1>7, <1>9, <2>1
<1>10. CASE Here \in DOMAIN zmap /\ ~OpensSyllable(n)
  <2>1. /\ i' = i + 1 /\ z' = zmap[Here]
        /\ mode' = IF Here \in DOMAIN zmaps THEN ModeZ[Here] ELSE "DONE"
    BY <1>10 DEF mode_z, Consume
  <2>2. Here \in Consonant /\ Here \in Jamo /\ zmap[Here] \in 1 .. 27 /\ Finals[zmap[Here] + 1] = <<Here>>
    BY <1>10, FinalTable, Kinds
  <2>3. Taken' = Append(Taken, Here)
    BY <1>2, <1>4, <2>1, TakesOne DEF InSyllable
  <2>4. Taken' = Spelled(x + 1, y + 1, z' + 1)
    <3>1. x + 1 \in 1 .. 19 /\ y + 1 \in 1 .. 21 /\ zmap[Here] + 1 \in 1 .. 28 /\ 1 \in 1 .. 28
      <4>1. x + 1 \in 1 .. 19 /\ y + 1 \in 1 .. 21
        BY <1>4 DEF InSyllable
      <4> QED
        BY <2>2, <4>1
    <3>2. Finals[zmap[Here] + 1] = Append(Finals[1], Here)
      BY <2>2, EmptyFinal
    <3>3. Spelled(x + 1, y + 1, zmap[Here] + 1) = Append(Spelled(x + 1, y + 1, 1), Here)
      BY <2>2, <3>1, <3>2, SpelledFinal
    <3>4. Taken = Spelled(x + 1, y + 1, 1)
      BY <1>3, <1>4 DEF InSyllable
    <3> QED
      BY <2>1, <2>3, <3>3, <3>4, Zenon
  <2>5. SpellsOf'
    BY <1>2, <1>4, <1>5, <2>4 DEF SpellsOf, InSyllable
  <2>6. JamoAt(n + 1) => text[n + 1] \notin Vowel
    <3>1. Len(text) \in Nat
      BY <1>4 DEF InSyllable
    <3> QED
      BY <1>6, <1>10, <2>2, <3>1, NoVowelBehind
  <2>7. (src_idx + i + 1)' = n + 1
    BY <1>2, <1>4, <2>1 DEF InSyllable
  <2>8. CASE Here \in DOMAIN zmaps
    <3>1. mode' \in SecondModesZ
      BY <2>1, <2>8, FirstConsonants DEF SecondModesZ
    <3>2. StopsOf'
      BY <1>2, <2>6, <2>7, <3>1 DEF StopsOf, SecondModesZ, JamoAt
    <3> QED
      BY <1>1, <1>2, <1>3, <2>5, <3>1, <3>2 DEF AutoInv, PartsOf, SecondModesY, SecondModesZ
  <2>9. CASE Here \notin DOMAIN zmaps
    <3>1. mode' = "DONE"
      BY <2>1, <2>9
    <3>2. \A d : ~JoinsFinal(z' + 1, d)
      BY <1>10, <2>1, <2>9, FirstFinal
    <3>3. PICK m : m = n + 1
      OBVIOUS
    <3>4. StopsAt(m)'
      BY <1>2, <2>6, <3>2, <3>3 DEF StopsAt, JamoAt
    <3>5. StopsOf'
      BY <1>2, <1>3, <2>7, <3>1, <3>3, <3>4 DEF StopsOf, SecondModesZ
    <3> QED
      BY <1>1, <1>2, <1>3, <2>5, <3>1, <3>5 DEF AutoInv, PartsOf, SecondModesY, SecondModesZ
  <2> QED
    BY <2>8, <2>9
<1> QED
  BY <1>8, <1>9, <1>10

LEMMA AutoZSecond == ASSUME AutoInv, mode_z_second PROVE AutoInv'
<1> DEFINE n == src_idx + i + 1
<1>1. HangulInv'
  BY ModeZSecondInv DEF AutoInv
<1>2. PICK f \in DOMAIN zmaps :
        /\ mode = ModeZ[f] /\ Running /\ mode' = "DONE"
        /\ IF Here \in DOMAIN zmaps[f] /\ ~OpensSyllable(n)
           THEN i' = i + 1 /\ z' = z + zmaps[f][Here]
           ELSE i' = i /\ z' = z
        /\ UNCHANGED <<text, src_idx, x, y>>
  BY DEF mode_z_second, Consume, LookAgain
<1>3. mode \in SecondModesZ /\ z = zmap[f]
  BY <1>2, FirstConsonants DEF AutoInv, HangulInv, SecondOf, SecondModesZ
<1>4. x # -1 /\ y # -1
  BY <1>3 DEF AutoInv, PartsOf
<1>5. InSyllable
  BY <1>2, <1>4, SyllableBegun
<1>6. JamoAt(src_idx + 1)'
  BY <1>2, <1>5 DEF InSyllable, JamoAt
<1>7. n \in Nat /\ Here = text[n] /\ JamoAt(n) /\ Here \notin Vowel
  <2>1. n \in Nat
    BY <1>5 DEF InSyllable
  <2> QED
    BY <1>3, <1>5, <2>1 DEF InSyllable, AutoInv, StopsOf
<1>8. CASE Here \in DOMAIN zmaps[f] /\ ~OpensSyllable(n)
  <2>1. i' = i + 1 /\ z' = z + zmaps[f][Here]
    BY <1>2, <1>8
  <2>2. /\ Here \in Consonant /\ Here \in Jamo /\ f \in DOMAIN zmap
        /\ zmap[f] + zmaps[f][Here] \in 1 .. 27
        /\ Finals[zmap[f] + zmaps[f][Here] + 1] = <<f, Here>>
    BY <1>8, FinalTables, Kinds
  <2>3. z \in 1 .. 27 /\ Finals[z + 1] = <<f>>
    BY <1>3, <2>2, FinalTable
  <2>4. Taken' = Append(Taken, Here)
    BY <1>2, <1>5, <2>1, TakesOne DEF InSyllable
  <2>5. Taken' = Spelled(x + 1, y + 1, z' + 1)
    <3>1. x + 1 \in 1 .. 19 /\ y + 1 \in 1 .. 21 /\ z + 1 \in 1 .. 28
      BY <1>5, <2>3 DEF InSyllable
    <3>2. PICK l : l = z' + 1
      OBVIOUS
    <3>3. l \in 1 .. 28 /\ Finals[l] = <<f, Here>>
      BY <1>3, <2>1, <2>2, <3>2
    <3>4. Finals[l] = Append(Finals[z + 1], Here)
      BY <2>3, <3>3
    <3>5. Spelled(x + 1, y + 1, l) = Append(Spelled(x + 1, y + 1, z + 1), Here)
      BY <2>2, <3>1, <3>3, <3>4, SpelledFinal
    <3>6. Taken = Spelled(x + 1, y + 1, z + 1)
      BY <1>5 DEF InSyllable
    <3> QED
      BY <2>4, <3>2, <3>5, <3>6, Zenon
  <2>6. SpellsOf'
    BY <1>2, <1>5, <1>6, <2>5 DEF SpellsOf, InSyllable
  <2>7. JamoAt(n + 1) => text[n + 1] \notin Vowel
    <3>1. Len(text) \in Nat
      BY <1>5 DEF InSyllable
    <3> QED
      BY <1>7, <1>8, <2>2, <3>1, NoVowelBehind
  <2>8. (src_idx + i + 1)' = n + 1
    BY <1>2, <1>5, <2>1 DEF InSyllable
  <2>9. \A d : ~JoinsFinal(z' + 1, d)
    BY <1>3, <1>8, <2>1, BothFinals
  <2>10. PICK m : m = n + 1
    OBVIOUS
  <2>11. StopsAt(m)'
    BY <1>2, <2>7, <2>9, <2>10 DEF StopsAt, JamoAt
  <2>12. StopsOf'
    BY <1>2, <1>4, <2>8, <2>10, <2>11 DEF StopsOf, SecondModesZ
  <2> QED
    BY <1>1, <1>2, <1>4, <2>6, <2>12 DEF AutoInv, PartsOf, SecondModesY, SecondModesZ
<1>9. CASE ~(Here \in DOMAIN zmaps[f] /\ ~OpensSyllable(n))
  <2>1. i' = i /\ z' = z
    BY <1>2, <1>9
  <2>2. SpellsOf'
    BY <1>2, <1>5, <1>6, <2>1 DEF SpellsOf, InSyllable, Taken
  <2>3. JoinsFinal(z + 1, Here) => OpensSyllable(n)
    BY <1>3, <1>9, FirstFinal, JamoKinds
  <2>4. StopsAt(n)'
    BY <1>2, <1>7, <2>1, <2>3 DEF StopsAt, OpensSyllable
  <2>5. StopsOf'
    BY <1>2, <1>4, <2>1, <2>4 DEF StopsOf, SecondModesZ
  <2> QED
    BY <1>1, <1>2, <1>4, <2>2, <2>5 DEF AutoInv, PartsOf, SecondModesY, SecondModesZ
<1> QED
  BY <1>8, <1>9

LEMMA AutoInit == Init /\ text \in Seq(Jamo \union Other) => AutoInv
<1> SUFFICES ASSUME Init, text \in Seq(Jamo \union Other) PROVE AutoInv
  OBVIOUS
<1>1. HangulInv
  BY InitHangulInv
<1> QED
  BY <1>1 DEF Init, AutoInv, PartsOf, SpellsOf, StopsOf, SecondModesY, SecondModesZ

\* At rest nothing has been read.
LEMMA AutoIdle == ASSUME HangulInv', Idle PROVE AutoInv'
  BY DEF Idle, AutoInv, PartsOf, SpellsOf, StopsOf, SecondModesY, SecondModesZ

LEMMA AutoCall == ASSUME AutoInv, hangul_call PROVE AutoInv'
<1>1. HangulInv'
  BY CallInv DEF AutoInv
<1>2. /\ mode = "idle" /\ src_idx < Len(text) /\ IsJamo(text[src_idx + 1]) /\ mode' = "X"
      /\ UNCHANGED <<text, src_idx, i, x, y, z>>
  BY DEF hangul_call
<1>3. i = 0 /\ x = -1 /\ y = -1 /\ z = 0 /\ src_idx \in Nat /\ Len(text) \in Nat
  BY <1>2 DEF AutoInv, HangulInv, TypeOK, CallOf
<1>4. JamoAt(src_idx + 1)'
  BY <1>2, <1>3 DEF JamoAt
<1> QED
  BY <1>1, <1>2, <1>3, <1>4 DEF AutoInv, PartsOf, SpellsOf, StopsOf, SecondModesY, SecondModesZ

\* A syllable ends where its last jamo cannot be continued; a jamo alone is a
\* vowel or a consonant without one.
ReturnsSyllable ==
  /\ x \in 0 .. 18 /\ y \in 0 .. 20 /\ z \in 0 .. 27
  /\ Syllable(Codepoint) \in Piece
  /\ Spelling(Syllable(Codepoint)) = Spelled(x + 1, y + 1, z + 1)
  /\ Taken = Spelled(x + 1, y + 1, z + 1)
  /\ StopsAt(src_idx + i + 1)
  /\ out' = Append(out, Syllable(Codepoint)) /\ src_idx' = src_idx + i

ReturnsJamo ==
  /\ JamoAt(src_idx + 1) /\ ~OpensSyllable(src_idx + 1)
  /\ out' = Append(out, Single(text[src_idx + 1])) /\ src_idx' = src_idx + 1

LEMMA Returns == ASSUME AutoInv, hangul_return PROVE ReturnsSyllable \/ ReturnsJamo
<1>1. /\ x \in -1 .. 18 /\ y \in -1 .. 20 /\ z \in 0 .. 27 /\ mode \in Mode /\ mode # "idle"
      /\ src_idx \in Nat /\ i \in Nat /\ Len(text) \in Nat /\ ~Running
  BY DEF AutoInv, HangulInv, TypeOK, hangul_return
<1>2. JamoAt(src_idx + 1)
  BY <1>1 DEF AutoInv, SpellsOf
<1>3. mode = "DONE" \/ ~JamoAt(src_idx + i + 1)
  BY <1>1 DEF Running, JamoAt, Here
<1>4. CASE x # -1 /\ y # -1
  <2>1. x \in 0 .. 18 /\ y \in 0 .. 20
    BY <1>1, <1>4
  <2>2. /\ Codepoint \in FIRST_HANGUL_CODEPOINT .. LAST_HANGUL_CODEPOINT
        /\ Spelling(Syllable(Codepoint)) = Spelled(x + 1, y + 1, z + 1)
    <3>1. PICK a, b, d, code : a = x /\ b = y /\ d = z /\ code = Codepoint
      OBVIOUS
    <3>2. PICK n : n = 588 * a + 28 * b + d
      OBVIOUS
    <3>3. a \in 0 .. 18 /\ b \in 0 .. 20 /\ d \in 0 .. 27
      BY <1>1, <2>1, <3>1
    <3>4. code = FIRST_HANGUL_CODEPOINT + n
      <4>1. code = FIRST_HANGUL_CODEPOINT + 588 * a + 28 * b + d
        BY <3>1 DEF Codepoint
      <4>2. FIRST_HANGUL_CODEPOINT \in Int
        BY DEF FIRST_HANGUL_CODEPOINT
      <4>3. PICK p, q : p = 588 * a /\ q = 28 * b
        OBVIOUS
      <4>4. p \in Int /\ q \in Int /\ d \in Int
        BY <3>3, <4>3
      <4> QED
        BY <3>2, <4>1, <4>2, <4>3, <4>4
    <3>5. CodeOf(code, a, b, d)
      BY <3>2, <3>3, <3>4, SpellingOfCode, ZenonT(60)
    <3> QED
      BY <3>1, <3>5 DEF CodeOf
  <2>3. out' = Append(out, Syllable(Codepoint)) /\ src_idx' = src_idx + i
    BY <2>1, <2>2 DEF hangul_return
  <2>4. Taken = Spelled(x + 1, y + 1, z + 1)
    BY <1>4 DEF AutoInv, SpellsOf
  <2>5. StopsAt(src_idx + i + 1)
    BY <1>3, <1>4 DEF AutoInv, StopsOf, StopsAt
  <2>6. Syllable(Codepoint) \in Piece
    BY <2>2 DEF Piece, Syllable
  <2> QED
    BY <1>1, <2>1, <2>2, <2>3, <2>4, <2>5, <2>6 DEF ReturnsSyllable
<1>5. CASE x = -1 \/ y = -1
  <2>1. out' = Append(out, Single(text[src_idx + 1])) /\ src_idx' = src_idx + 1
    BY <1>5 DEF hangul_return
  <2>2. ~OpensSyllable(src_idx + 1)
    <3>1. CASE mode = "DONE"
      BY <1>5, <3>1 DEF AutoInv, StopsOf
    <3>2. CASE mode # "DONE"
      <4>1. mode = "X" \/ mode = "Y"
        BY <1>1, <1>5, <3>2 DEF AutoInv, PartsOf, Mode, SecondModesY, SecondModesZ
      <4>2. mode # "X"
        BY <1>1, <1>2, <1>3, <3>2 DEF AutoInv, PartsOf
      <4>3. i = 1 /\ ~JamoAt(src_idx + 2)
        BY <1>1, <1>3, <3>2, <4>1, <4>2 DEF AutoInv, PartsOf
      <4> QED
        BY <1>1, <4>3, Kinds DEF OpensSyllable, JamoAt, IsJamo
    <3> QED
      BY <3>1, <3>2
  <2> QED
    BY <1>2, <2>1, <2>2 DEF ReturnsJamo
<1> QED
  BY <1>4, <1>5

LEMMA AutoNext ==
  ASSUME Beyond = {0} PROVE AutoInv /\ [Next]_hangulVars => AutoInv'
<1> SUFFICES ASSUME AutoInv, [Next]_hangulVars PROVE AutoInv'
  OBVIOUS
<1>1. CASE UNCHANGED hangulVars
  BY <1>1 DEF hangulVars, call, AutoInv, PartsOf, SpellsOf, StopsOf, SecondModesY, SecondModesZ,
              HangulInv, TypeOK, SecondOf, CallOf, StopsAt, JamoAt, OpensSyllable, Taken
<1>2. CASE convert_char
  <2>1. HangulInv'
    BY <1>2, ConvertInv DEF AutoInv
  <2>2. Idle
    BY <1>2 DEF convert_char, call, Idle, AutoInv, HangulInv, CallOf
  <2> QED
    BY <2>1, <2>2, AutoIdle
<1>3. CASE hangul_return
  <2>1. HangulInv' /\ Idle
    BY <1>3, ConvertInv DEF AutoInv, hangul_return
  <2> QED
    BY <2>1, AutoIdle
<1> QED
  BY <1>1, <1>2, <1>3, AutoCall, AutoX, AutoY, AutoYSecond, AutoZ, AutoZSecond DEF Next

-----------------------------------------------------------------------------
(* What has been written *)

LEMMA SpellingType == ASSUME NEW p \in Piece PROVE Spelling(p) \in Seq(Jamo \union Other)
<1>1. CASE p \in [is : {"char"}, char : Jamo \union Other]
  BY <1>1 DEF Spelling
<1>2. CASE p \in [is : {"syllable"}, code : FIRST_HANGUL_CODEPOINT .. LAST_HANGUL_CODEPOINT]
  <2>1. PICK n : n = p.code - FIRST_HANGUL_CODEPOINT
    OBVIOUS
  <2>2. n \in Int /\ 0 <= n /\ n <= 11171
    <3>1. p.code \in FIRST_HANGUL_CODEPOINT .. LAST_HANGUL_CODEPOINT
      <4>1. PICK C : C = FIRST_HANGUL_CODEPOINT .. LAST_HANGUL_CODEPOINT
        OBVIOUS
      <4>2. p \in [is : {"syllable"}, code : C]
        BY <1>2, <4>1, Zenon
      <4>3. p.code \in C
        BY <4>2
      <4> QED
        BY <4>1, <4>3, Zenon
    <3>2. PICK code : code = p.code
      OBVIOUS
    <3> QED
      BY <2>1, <3>1, <3>2, CodeFrom
  <2>3. PICK a, k, l : a = InitialOf(n) /\ k = MedialOf(n) /\ l = FinalOf(n)
    OBVIOUS
  <2>4. a \in 1 .. 19 /\ k \in 1 .. 21 /\ l \in 1 .. 28
    <3>1. /\ n \div 588 \in 0 .. 18 /\ n % 588 \in 0 .. 587
          /\ (n % 588) \div 28 \in 0 .. 20 /\ n % 28 \in 0 .. 27
      BY <2>2, PartsOfCode
    <3> QED
      BY <2>3, <3>1 DEF InitialOf, MedialOf, FinalOf
  <2>5. p.is # "char"
    BY <1>2
  <2>6. Spelling(p) = Spelled(a, k, l)
    <3>1. Spelling(p) = Spelled(InitialOf(n), MedialOf(n), FinalOf(n))
      BY <2>1, <2>5, SpelledParts, Zenon
    <3> QED
      BY <2>3, <3>1, Zenon
  <2>7. Spelled(a, k, l) \in Seq(Jamo)
    BY <2>4, SpelledType, Zenon
  <2>8. Spelling(p) \in Seq(Jamo)
    BY <2>6, <2>7, Zenon
  <2> QED
    BY <2>8
<1> QED
  BY <1>1, <1>2 DEF Piece

Spellings(o) == [k \in DOMAIN o |-> Spelling(o[k])]

SpellingsAre(o, s) ==
  /\ s \in Seq(Seq(Jamo \union Other)) /\ Len(s) = Len(o)
  /\ \A k \in 1 .. Len(o) : s[k] = Spelling(o[k])

LEMMA SpellingsType == ASSUME NEW o \in Seq(Piece) PROVE SpellingsAre(o, Spellings(o))
<1>1. PICK S : S = Seq(Jamo \union Other)
  OBVIOUS
<1>2. \A k \in 1 .. Len(o) : Spelling(o[k]) \in S
  BY <1>1, SpellingType
<1>3. DOMAIN o = 1 .. Len(o) /\ Len(o) \in Nat
  OBVIOUS
<1>4. PICK s : s = Spellings(o)
  OBVIOUS
<1>5. s = [k \in 1 .. Len(o) |-> Spelling(o[k])]
  BY <1>3, <1>4 DEF Spellings
<1>6. s \in [1 .. Len(o) -> S]
  BY <1>2, <1>5
<1>7. s \in Seq(S) /\ Len(s) = Len(o)
  BY <1>3, <1>6
<1>8. \A k \in 1 .. Len(o) : s[k] = Spelling(o[k])
  BY <1>5
<1> QED
  BY <1>1, <1>4, <1>7, <1>8 DEF SpellingsAre

LEMMA SpellingsMore ==
  ASSUME NEW o \in Seq(Piece), NEW p \in Piece
  PROVE  Spellings(Append(o, p)) = Append(Spellings(o), Spelling(p))
<1>1. PICK S : S = Seq(Jamo \union Other)
  OBVIOUS
<1>2. PICK r : r = Append(o, p)
  OBVIOUS
<1>3. r \in Seq(Piece) /\ Len(r) = Len(o) + 1 /\ r[Len(o) + 1] = p /\ Len(o) \in Nat
      /\ (\A k \in 1 .. Len(o) : r[k] = o[k])
  BY <1>2
<1>4. PICK s, e : s = Spellings(o) /\ e = Spelling(p)
  OBVIOUS
<1>5. PICK a : a = Spellings(r)
  OBVIOUS
<1>6. s \in Seq(S) /\ Len(s) = Len(o) /\ \A k \in 1 .. Len(o) : s[k] = Spelling(o[k])
  BY <1>1, <1>4, SpellingsType DEF SpellingsAre
<1>7. a \in Seq(S) /\ Len(a) = Len(r) /\ \A k \in 1 .. Len(r) : a[k] = Spelling(r[k])
  BY <1>1, <1>3, <1>5, SpellingsType DEF SpellingsAre
<1>8. e \in S
  BY <1>1, <1>4, SpellingType
<1>9. PICK b : b = Append(s, e)
  OBVIOUS
<1>10. b \in Seq(S) /\ Len(b) = Len(o) + 1 /\ b[Len(o) + 1] = e
       /\ \A k \in 1 .. Len(o) : b[k] = s[k]
  BY <1>6, <1>8, <1>9
<1>11. \A k \in 1 .. Len(o) : a[k] = b[k]
  <2> TAKE k \in 1 .. Len(o)
  <2>1. k \in 1 .. Len(r)
    BY <1>3
  <2> QED
    BY <1>3, <1>6, <1>7, <1>10, <2>1, Zenon
<1>12. a[Len(o) + 1] = b[Len(o) + 1]
  <2>1. Len(o) + 1 \in 1 .. Len(r)
    BY <1>3
  <2> QED
    BY <1>3, <1>4, <1>7, <1>10, <2>1, Zenon
<1>13. \A k \in 1 .. Len(a) : k \in 1 .. Len(o) \/ k = Len(o) + 1
  BY <1>3, <1>7
<1>14. \A k \in 1 .. Len(a) : a[k] = b[k]
  BY <1>11, <1>12, <1>13, Zenon
<1>15. Len(a) = Len(b)
  BY <1>3, <1>7, <1>10, Zenon
<1>16. a = b
  BY <1>7, <1>10, <1>14, <1>15, SameElements, Zenon
<1> QED
  BY <1>2, <1>4, <1>5, <1>9, <1>16, Zenon

LEMMA PiecesJoined ==
  ASSUME NEW S, NEW s \in Seq(S), NEW a \in Nat, NEW b \in Nat, a <= b, b <= Len(s)
  PROVE  SubSeq(s, 1, a) \o SubSeq(s, a + 1, b) = SubSeq(s, 1, b)
<1>1. /\ SubSeq(s, 1, a) \in Seq(S) /\ Len(SubSeq(s, 1, a)) = a
      /\ SubSeq(s, a + 1, b) \in Seq(S) /\ Len(SubSeq(s, a + 1, b)) = b - a
      /\ SubSeq(s, 1, b) \in Seq(S) /\ Len(SubSeq(s, 1, b)) = b
  OBVIOUS
<1>2. PICK u, v, w : u = SubSeq(s, 1, a) /\ v = SubSeq(s, a + 1, b) /\ w = SubSeq(s, 1, b)
  OBVIOUS
<1>3. /\ \A k \in 1 .. a : u[k] = s[k]
      /\ \A k \in 1 .. b - a : v[k] = s[a + k]
      /\ \A k \in 1 .. b : w[k] = s[k]
  BY <1>2
<1>4. /\ u \in Seq(S) /\ Len(u) = a /\ v \in Seq(S) /\ Len(v) = b - a
      /\ w \in Seq(S) /\ Len(w) = b
  BY <1>1, <1>2
<1>5. u \o v \in Seq(S) /\ Len(u \o v) = b
  BY <1>4
<1>6. /\ \A k \in 1 .. a : (u \o v)[k] = u[k]
      /\ \A k \in 1 .. b - a : (u \o v)[a + k] = v[k]
  BY <1>4
<1>7. \A k \in 1 .. b : (u \o v)[k] = w[k]
  <2> TAKE k \in 1 .. b
  <2>1. k \in 1 .. a \/ (k - a \in 1 .. b - a /\ a + (k - a) = k)
    OBVIOUS
  <2>2. CASE k \in 1 .. a
    BY <1>3, <1>6, <2>2
  <2>3. CASE k - a \in 1 .. b - a /\ a + (k - a) = k
    <3>1. PICK h : h = k - a
      OBVIOUS
    <3>2. h \in 1 .. b - a /\ a + h = k
      BY <2>3, <3>1
    <3>3. (u \o v)[a + h] = v[h] /\ v[h] = s[a + h] /\ w[k] = s[k]
      BY <1>3, <1>6, <3>2, Zenon
    <3> QED
      BY <3>2, <3>3, Zenon
  <2> QED
    BY <2>1, <2>2, <2>3
<1>8. u \o v = w
  BY <1>4, <1>5, <1>7, SameElements
<1> QED
  BY <1>2, <1>8

Written(o, t, n) == Flat(Spellings(o), SubSeq(t, 1, n))

\* One more piece, with the jamo it is read as.
LEMMA WrittenMore ==
  ASSUME NEW t \in Seq(Jamo \union Other), NEW o \in Seq(Piece), NEW p \in Piece,
         NEW n \in Nat, NEW h \in Nat, n + h <= Len(t), Written(o, t, n),
         Spelling(p) = SubSeq(t, n + 1, n + h)
  PROVE  Written(Append(o, p), t, n + h)
<1>1. PICK ss, s, u : ss = Spellings(o) /\ s = Spelling(p) /\ u = SubSeq(t, 1, n)
  OBVIOUS
<1>2. ss \in Seq(Seq(Jamo \union Other))
  BY <1>1, SpellingsType DEF SpellingsAre
<1>3. s \in Seq(Jamo \union Other)
  BY <1>1, SpellingType
<1>4. u \in Seq(Jamo \union Other)
  BY <1>1
<1>5. Flat(ss, u)
  BY <1>1 DEF Written
<1>6. Flat(Append(ss, s), u \o s)
  BY <1>2, <1>3, <1>4, <1>5, FlatMore
<1>7. u \o s = SubSeq(t, 1, n + h)
  <2>1. n <= n + h /\ n + h \in Nat
    OBVIOUS
  <2> QED
    BY <1>1, <2>1, PiecesJoined
<1>8. Spellings(Append(o, p)) = Append(ss, s)
  BY <1>1, SpellingsMore
<1> QED
  BY <1>6, <1>7, <1>8 DEF Written

WrittenOf == Written(out, text, src_idx)

ReadInv == AutoInv /\ WrittenOf

LEMMA ReadInit == Init /\ text \in Seq(Jamo \union Other) => ReadInv
<1> SUFFICES ASSUME Init, text \in Seq(Jamo \union Other) PROVE ReadInv
  OBVIOUS
<1>1. out = <<>> /\ src_idx = 0
  BY DEF Init
<1>2. Spellings(out) = <<>>
  BY <1>1 DEF Spellings
<1>3. SubSeq(text, 1, src_idx) = <<>>
  BY <1>1
<1> QED
  BY <1>2, <1>3, AutoInit, FlatNone DEF ReadInv, WrittenOf, Written

\* What one step writes, if it writes anything.
Writes(p, h) ==
  /\ p \in Piece /\ h \in Nat /\ src_idx + h <= Len(text)
  /\ Spelling(p) = SubSeq(text, src_idx + 1, src_idx + h)
  /\ out' = Append(out, p) /\ src_idx' = src_idx + h /\ text' = text

LEMMA SingleWritten ==
  ASSUME AutoInv, src_idx < Len(text), text' = text,
         out' = Append(out, Single(text[src_idx + 1])), src_idx' = src_idx + 1
  PROVE  Writes(Single(text[src_idx + 1]), 1)
<1>1. src_idx \in Nat /\ text \in Seq(Jamo \union Other) /\ Len(text) \in Nat
  BY DEF AutoInv, HangulInv, TypeOK
<1>2. src_idx + 1 \in 1 .. Len(text) /\ src_idx + 1 <= Len(text)
  BY <1>1
<1>3. Single(text[src_idx + 1]) \in Piece
  BY <1>1, <1>2 DEF Single, Piece
<1>4. Spelling(Single(text[src_idx + 1])) = <<text[src_idx + 1]>>
  BY DEF Spelling, Single
<1>5. SubSeq(text, src_idx + 1, src_idx + 1) = <<text[src_idx + 1]>>
  <2>1. PICK S, a : S = Jamo \union Other /\ a = src_idx + 1
    OBVIOUS
  <2>2. text \in Seq(S) /\ a \in 1 .. Len(text)
    BY <1>1, <1>2, <2>1
  <2>3. SubSeq(text, a, a) = <<text[a]>>
    BY <2>2, OnePiece, Zenon
  <2> QED
    BY <2>1, <2>3, Zenon
<1> QED
  BY <1>2, <1>3, <1>4, <1>5 DEF Writes

LEMMA SyllableWritten ==
  ASSUME AutoInv, ReturnsSyllable, text' = text PROVE Writes(Syllable(Codepoint), i)
<1>1. src_idx \in Nat /\ i \in Nat /\ Len(text) \in Nat /\ src_idx + i <= Len(text)
  BY DEF AutoInv, HangulInv, TypeOK
<1> QED
  BY <1>1 DEF Writes, ReturnsSyllable, Taken

LEMMA WritesOf ==
  ASSUME ReadInv, NEW p, NEW h, Writes(p, h) PROVE WrittenOf'
<1>1. PICK t, o, n : t = text /\ o = out /\ n = src_idx
  OBVIOUS
<1>2. t \in Seq(Jamo \union Other) /\ o \in Seq(Piece) /\ n \in Nat
  BY <1>1 DEF ReadInv, AutoInv, HangulInv, TypeOK
<1>3. p \in Piece /\ h \in Nat /\ n + h <= Len(t) /\ Spelling(p) = SubSeq(t, n + 1, n + h)
  BY <1>1 DEF Writes
<1>4. Written(o, t, n)
  BY <1>1 DEF ReadInv, WrittenOf
<1>5. Written(Append(o, p), t, n + h)
  BY <1>2, <1>3, <1>4, WrittenMore
<1>6. out' = Append(o, p) /\ text' = t /\ src_idx' = n + h
  BY <1>1 DEF Writes
<1> QED
  BY <1>5, <1>6 DEF WrittenOf

\* Every step but the two that write leaves the text and the output alone.
LEMMA Steps ==
  ASSUME AutoInv, [Next]_hangulVars
  PROVE  \/ UNCHANGED <<text, src_idx, out>>
         \/ convert_char
         \/ hangul_return /\ text' = text /\ ReturnsSyllable
         \/ hangul_return /\ text' = text /\ ReturnsJamo
<1>1. CASE UNCHANGED hangulVars
  BY <1>1 DEF hangulVars
<1>2. CASE hangul_return
  BY <1>2, Returns DEF hangul_return
<1> QED
  BY <1>1, <1>2
  DEF Next, hangul_call, mode_x, mode_y, mode_y_second, mode_z, mode_z_second

LEMMA ReadNext == ASSUME Beyond = {0} PROVE ReadInv /\ [Next]_hangulVars => ReadInv'
<1> SUFFICES ASSUME ReadInv, [Next]_hangulVars PROVE ReadInv'
  OBVIOUS
<1>1. AutoInv /\ AutoInv'
  BY AutoNext DEF ReadInv
<1>2. CASE UNCHANGED <<text, src_idx, out>>
  BY <1>1, <1>2 DEF ReadInv, WrittenOf
<1>3. CASE convert_char
  <2>1. Writes(Single(text[src_idx + 1]), 1)
    BY <1>1, <1>3, SingleWritten DEF convert_char
  <2> QED
    BY <1>1, <2>1, WritesOf DEF ReadInv
<1>4. CASE hangul_return /\ text' = text /\ ReturnsSyllable
  <2>1. Writes(Syllable(Codepoint), i)
    BY <1>1, <1>4, SyllableWritten
  <2> QED
    BY <1>1, <2>1, WritesOf DEF ReadInv
<1>5. CASE hangul_return /\ text' = text /\ ReturnsJamo
  <2>1. src_idx < Len(text)
    BY <1>1, <1>5 DEF ReturnsJamo, JamoAt, AutoInv, HangulInv, TypeOK
  <2>2. Writes(Single(text[src_idx + 1]), 1)
    BY <1>1, <1>5, <2>1, SingleWritten DEF ReturnsJamo
  <2> QED
    BY <1>1, <2>2, WritesOf DEF ReadInv
<1> QED
  BY <1>1, <1>2, <1>3, <1>4, <1>5, Steps

LEMMA ReadSays == ReadInv => ReadsBack
<1> SUFFICES ASSUME ReadInv PROVE ReadsBack
  OBVIOUS
<1>1. Spellings(out) \in Seq(Seq(Jamo \union Other))
  BY SpellingsType DEF SpellingsAre, ReadInv, AutoInv, HangulInv, TypeOK
<1>2. Flat(Spellings(out), SubSeq(text, 1, src_idx))
  BY DEF ReadInv, WrittenOf, Written
<1>3. FlattenSeq(Spellings(out)) = SubSeq(text, 1, src_idx)
  BY <1>1, <1>2, FlatIs
<1> QED
  BY <1>3, Zenon DEF ReadsBack, Spellings

\* What was written reads back as what was used up, jamo by jamo
\* (hangul_to_utf8, char_to_utf8).
THEOREM ReadsBackAlways ==
  ASSUME Beyond = {0}
  PROVE  Init /\ text \in Seq(Jamo \union Other) /\ [][Next]_hangulVars => []ReadsBack
  BY ReadInit, ReadNext, ReadSays, PTL

-----------------------------------------------------------------------------
(* Where a piece ends *)

\* A jamo alone goes on only as an initial.
LEMMA FollowsSingle ==
  ASSUME NEW p, NEW c \in Jamo, CanFollow(<<p>>, c) PROVE p \in Consonant /\ c \in Vowel
<1>1. Head(<<p>>) = p /\ Tail(<<p>>) = <<>>
  OBVIOUS
<1>2. Append(<<>>, c) = <<c>> /\ Len(<<c>>) = 1
  OBVIOUS
<1>3. p \in ToSet(Initials)
  BY <1>1, Zenon DEF CanFollow
<1>4. PICK a \in 1 .. 19 : p = Initials[a]
  BY <1>3, TableSizes DEF ToSet
<1>5. p \in Consonant
  BY <1>4, InitialsFromTable
<1>6. PICK n \in 1 .. 1 : SubSeq(<<c>>, 1, n) \in ToSet(Medials)
  <2>1. Append(Tail(<<p>>), c) = <<c>>
    BY <1>1, <1>2, Zenon
  <2> QED
    BY <1>2, <2>1, Zenon DEF CanFollow
<1>7. SubSeq(<<c>>, 1, 1) = <<c>>
  <2>1. PICK s : s = <<c>>
    OBVIOUS
  <2>2. s \in Seq(Jamo) /\ 1 \in 1 .. Len(s) /\ s[1] = c
    BY <2>1
  <2>3. SubSeq(s, 1, 1) = <<s[1]>>
    BY <2>2, OnePiece, Zenon
  <2> QED
    BY <2>1, <2>2, <2>3, Zenon
<1>8. <<c>> \in ToSet(Medials)
  <2>1. n = 1
    BY <1>6
  <2> QED
    BY <1>6, <1>7, <2>1, Zenon
<1>9. PICK j \in 1 .. 21 : <<c>> = Medials[j]
  BY <1>8, TableSizes DEF ToSet
<1>10. <<c>> \in Seq(Vowel)
  BY <1>9, MedialKind
<1>11. c \in Vowel
  <2>1. PICK s : s = <<c>>
    OBVIOUS
  <2>2. s \in Seq(Vowel) /\ Len(s) = 1 /\ s[1] = c
    BY <1>10, <2>1
  <2> QED
    BY <2>2
<1> QED
  BY <1>5, <1>11

\* Without a final a syllable ends with its vowel.
LEMMA EndsWithVowel ==
  ASSUME NEW a \in 1 .. 19, NEW k \in 1 .. 21 PROVE Last(Spelled(a, k, 1)) \in Vowel
<1>1. PICK p, m : p = Initials[a] /\ m = Medials[k]
  OBVIOUS
<1>2. m \in Seq(Vowel) /\ Len(m) \in 1 .. 2
  BY <1>1, MedialKind
<1>3. p \in Jamo /\ m \in Seq(Jamo)
  <2>1. m \in Seq(Jamo)
    BY <1>2 DEF Jamo
  <2> QED
    BY <1>1, <2>1, InitialsFromTable, Kinds
<1>4. PICK s : s = (<<p>> \o m) \o <<>>
  OBVIOUS
<1>5. Len(s) = 1 + Len(m) /\ \A h \in 1 .. Len(m) : s[1 + h] = m[h]
  BY <1>3, <1>4
<1>6. s[Len(s)] = m[Len(m)] /\ m[Len(m)] \in Vowel
  <2>1. PICK h : h = Len(m)
    OBVIOUS
  <2>2. h \in 1 .. Len(m) /\ Len(s) = 1 + h
    BY <1>2, <1>5, <2>1
  <2>3. s[1 + h] = m[h] /\ m[h] \in Vowel
    BY <1>2, <1>5, <2>2
  <2> QED
    BY <2>1, <2>2, <2>3, Zenon
<1>7. Spelled(a, k, 1) = s
  BY <1>1, <1>4, EmptyFinal DEF Spelled
<1> QED
  BY <1>6, <1>7 DEF Last

\* The n-th character does not go on with the jamo of "before".
NoneGoesOn(before, n) ==
  JamoAt(n) =>
    /\ text[n] \in Vowel => Last(before) \notin Consonant
    /\ CanFollow(before, text[n]) => OpensSyllable(n)

LEMMA AfterOther ==
  ASSUME NEW c, c \notin Jamo, NEW n PROVE NoneGoesOn(<<c>>, n)
<1>1. Last(<<c>>) = c /\ c \notin Consonant
  BY Kinds DEF Last
<1> QED
  BY <1>1, FollowsSingle DEF NoneGoesOn, JamoAt, IsJamo

LEMMA AfterJamo ==
  ASSUME NEW n \in Nat, text \in Seq(Jamo \union Other), ~OpensSyllable(n)
  PROVE  NoneGoesOn(<<text[n]>>, n + 1)
<1>1. Len(text) \in Nat
  OBVIOUS
<1>2. Last(<<text[n]>>) = text[n]
  BY DEF Last
<1>3. JamoAt(n + 1) => n < Len(text) /\ text[n + 1] \in Jamo
  BY <1>1 DEF JamoAt, IsJamo
<1>4. ASSUME JamoAt(n + 1), text[n + 1] \in Vowel PROVE text[n] \notin Consonant
  BY <1>3, <1>4 DEF OpensSyllable
<1>5. ASSUME JamoAt(n + 1), CanFollow(<<text[n]>>, text[n + 1]) PROVE FALSE
  <2>1. text[n] \in Consonant /\ text[n + 1] \in Vowel
    BY <1>3, <1>5, FollowsSingle
  <2> QED
    BY <1>3, <1>5, <2>1 DEF OpensSyllable
<1> QED
  BY <1>2, <1>4, <1>5 DEF NoneGoesOn

LEMMA AfterSyllable ==
  ASSUME ReturnsSyllable
  PROVE  NoneGoesOn(Spelling(Syllable(Codepoint)), src_idx + i + 1)
<1>1. PICK n : n = src_idx + i + 1
  OBVIOUS
<1>2. PICK a, k, l : a = x + 1 /\ k = y + 1 /\ l = z + 1
  OBVIOUS
<1>3. a \in 1 .. 19 /\ k \in 1 .. 21 /\ l \in 1 .. 28
  BY <1>2 DEF ReturnsSyllable
<1>4. Spelling(Syllable(Codepoint)) = Spelled(a, k, l)
  BY <1>2 DEF ReturnsSyllable
<1>5. ASSUME JamoAt(n)
      PROVE  /\ text[n] \in Jamo
             /\ text[n] \in Vowel => l = 1 /\ ~JoinsVowel(k, text[n])
             /\ JoinsFinal(l, text[n]) => OpensSyllable(n)
  BY <1>1, <1>2, <1>5 DEF ReturnsSyllable, StopsAt, JamoAt, IsJamo
<1>6. ASSUME JamoAt(n), text[n] \in Vowel PROVE Last(Spelled(a, k, l)) \notin Consonant
  <2>1. l = 1
    BY <1>5, <1>6
  <2> QED
    BY <1>3, <2>1, EndsWithVowel, JamoKinds
<1>7. ASSUME JamoAt(n), CanFollow(Spelled(a, k, l), text[n]) PROVE OpensSyllable(n)
  <2>1. \/ text[n] \in Vowel /\ l = 1 /\ JoinsVowel(k, text[n])
        \/ text[n] \in Consonant /\ JoinsFinal(l, text[n])
    BY <1>3, <1>5, <1>7, FollowsSyllable
  <2> QED
    BY <1>5, <1>7, <2>1
<1> QED
  BY <1>1, <1>4, <1>6, <1>7 DEF NoneGoesOn

\* The last piece ended where it had to, and so did those before it.
Whole(before, next) ==
  next.is = "char" /\ IsJamo(next.char) =>
    /\ next.char \in Vowel => Last(Spelling(before)) \notin Consonant
    /\ ~CanFollow(Spelling(before), next.char)

EndsWhole(p, n) == NoneGoesOn(Spelling(p), n)

WholeOf ==
  /\ \A k \in 1 .. Len(out) - 1 : Whole(out[k], out[k + 1])
  /\ out # <<>> => EndsWhole(out[Len(out)], src_idx + 1)

WholeInv == AutoInv /\ WholeOf

\* A step that writes a piece which fits the last one, and ends well.
LEMMA WholeMore ==
  ASSUME WholeInv, NEW p \in Piece, out' = Append(out, p),
         EndsWhole(out[Len(out)], src_idx + 1) => Whole(out[Len(out)], p),
         EndsWhole(p, src_idx + 1)'
  PROVE  WholeOf'
<1>1. PICK o, r : o = out /\ r = out'
  OBVIOUS
<1>2. o \in Seq(Piece) /\ r = Append(o, p)
  BY <1>1 DEF WholeInv, AutoInv, HangulInv, TypeOK
<1>3. /\ Len(r) = Len(o) + 1 /\ r[Len(o) + 1] = p /\ r # <<>> /\ Len(o) \in Nat
      /\ \A k \in 1 .. Len(o) : r[k] = o[k]
  BY <1>2
<1>4. \A k \in 1 .. Len(o) - 1 : Whole(o[k], o[k + 1])
  BY <1>1 DEF WholeInv, WholeOf
<1>5. Len(o) # 0 => Whole(o[Len(o)], p)
  <2>1. Len(o) # 0 => o # <<>>
    OBVIOUS
  <2> QED
    BY <1>1, <2>1 DEF WholeInv, WholeOf
<1>6. \A k \in 1 .. Len(r) - 1 : Whole(r[k], r[k + 1])
  <2> TAKE k \in 1 .. Len(r) - 1
  <2>1. k \in 1 .. Len(o)
    BY <1>3
  <2>2. CASE k = Len(o)
    <3>1. r[k] = o[Len(o)] /\ r[k + 1] = p /\ Len(o) # 0
      BY <1>3, <2>1, <2>2
    <3> QED
      BY <1>5, <3>1
  <2>3. CASE k \in 1 .. Len(o) - 1
    <3>1. k + 1 \in 1 .. Len(o)
      BY <1>3, <2>3
    <3>2. r[k] = o[k] /\ r[k + 1] = o[k + 1]
      BY <1>3, <2>1, <3>1
    <3> QED
      BY <1>4, <2>3, <3>2
  <2>4. k = Len(o) \/ k \in 1 .. Len(o) - 1
    BY <1>3, <2>1
  <2> QED
    BY <2>2, <2>3, <2>4
<1>7. r[Len(r)] = p
  BY <1>3
<1> QED
  BY <1>1, <1>6, <1>7 DEF WholeOf

LEMMA WholeInit == Init /\ text \in Seq(Jamo \union Other) => WholeInv
<1> SUFFICES ASSUME Init, text \in Seq(Jamo \union Other) PROVE WholeInv
  OBVIOUS
<1>1. out = <<>> /\ Len(out) = 0
  BY DEF Init
<1> QED
  BY <1>1, AutoInit DEF WholeInv, WholeOf

LEMMA WholeNext == ASSUME Beyond = {0} PROVE WholeInv /\ [Next]_hangulVars => WholeInv'
<1> SUFFICES ASSUME WholeInv, [Next]_hangulVars PROVE WholeInv'
  OBVIOUS
<1>1. AutoInv /\ AutoInv'
  BY AutoNext DEF WholeInv
<1>2. src_idx \in Nat /\ i \in Nat /\ text \in Seq(Jamo \union Other) /\ Len(text) \in Nat
  BY <1>1 DEF AutoInv, HangulInv, TypeOK
<1>3. CASE UNCHANGED <<text, src_idx, out>>
  BY <1>1, <1>3
  DEF WholeInv, WholeOf, EndsWhole, NoneGoesOn, JamoAt, OpensSyllable
<1>4. ASSUME NEW n, text' = text, src_idx' + 1 = n, NEW p, EndsWhole(p, n) PROVE EndsWhole(p, src_idx + 1)'
  BY <1>4 DEF EndsWhole, NoneGoesOn, JamoAt, OpensSyllable
<1>5. CASE convert_char
  <2>1. PICK c, p : c = text[src_idx + 1] /\ p = Single(c)
    OBVIOUS
  <2>2. /\ src_idx < Len(text) /\ text' = text /\ out' = Append(out, p) /\ src_idx' = src_idx + 1
        /\ c \notin Jamo
    BY <1>5, <2>1 DEF convert_char, IsJamo
  <2>3. p \in Piece /\ p.is = "char" /\ p.char = c /\ Spelling(p) = <<c>>
    <3>1. Writes(p, 1)
      BY <1>1, <2>1, <2>2, SingleWritten
    <3> QED
      BY <2>1, <3>1 DEF Writes, Single, Spelling
  <2>4. EndsWhole(p, src_idx + 2)
    BY <2>2, <2>3, AfterOther DEF EndsWhole
  <2>5. src_idx' + 1 = src_idx + 2
    BY <1>2, <2>2
  <2>6. EndsWhole(p, src_idx + 1)'
    BY <1>4, <2>2, <2>4, <2>5
  <2>7. Whole(out[Len(out)], p)
    BY <2>2, <2>3 DEF Whole, IsJamo
  <2> QED
    BY <1>1, <2>2, <2>3, <2>6, <2>7, WholeMore DEF WholeInv
<1>6. CASE hangul_return /\ text' = text /\ ReturnsSyllable
  <2>1. PICK p : p = Syllable(Codepoint)
    OBVIOUS
  <2>2. p \in Piece /\ out' = Append(out, p) /\ src_idx' = src_idx + i /\ p.is = "syllable"
    BY <1>6, <2>1 DEF ReturnsSyllable, Syllable
  <2>3. EndsWhole(p, src_idx + i + 1)
    BY <1>6, <2>1, AfterSyllable DEF EndsWhole
  <2>4. EndsWhole(p, src_idx + 1)'
    BY <1>4, <1>6, <2>2, <2>3
  <2>5. Whole(out[Len(out)], p)
    BY <2>2 DEF Whole
  <2> QED
    BY <1>1, <2>2, <2>4, <2>5, WholeMore DEF WholeInv
<1>7. CASE hangul_return /\ text' = text /\ ReturnsJamo
  <2>1. PICK c, p : c = text[src_idx + 1] /\ p = Single(c)
    OBVIOUS
  <2>2. /\ src_idx < Len(text) /\ out' = Append(out, p) /\ src_idx' = src_idx + 1
        /\ JamoAt(src_idx + 1) /\ ~OpensSyllable(src_idx + 1)
    BY <1>2, <1>7, <2>1 DEF ReturnsJamo, JamoAt
  <2>3. p \in Piece /\ p.is = "char" /\ p.char = c /\ Spelling(p) = <<c>>
    <3>1. Writes(p, 1)
      BY <1>1, <1>7, <2>1, <2>2, SingleWritten
    <3> QED
      BY <2>1, <3>1 DEF Writes, Single, Spelling
  <2>4. EndsWhole(p, src_idx + 1 + 1)
    <3>1. PICK n : n = src_idx + 1
      OBVIOUS
    <3>2. n \in Nat /\ ~OpensSyllable(n)
      BY <1>2, <2>2, <3>1
    <3>3. NoneGoesOn(<<text[n]>>, n + 1)
      BY <1>2, <3>2, AfterJamo
    <3> QED
      BY <2>1, <2>3, <3>1, <3>3 DEF EndsWhole
  <2>5. EndsWhole(p, src_idx + 1)'
    BY <1>4, <1>7, <2>2, <2>4
  <2>6. EndsWhole(out[Len(out)], src_idx + 1) => Whole(out[Len(out)], p)
    BY <2>1, <2>2, <2>3 DEF EndsWhole, NoneGoesOn, Whole
  <2> QED
    BY <1>1, <2>2, <2>3, <2>5, <2>6, WholeMore DEF WholeInv
<1>8. convert_char \/ ~convert_char
  OBVIOUS
<1> QED
  BY <1>1, <1>3, <1>5, <1>6, <1>7, Steps

LEMMA WholeSays == WholeInv => SyllablesAreWhole
  BY DEF WholeInv, WholeOf, Whole, SyllablesAreWhole

\* A jamo stands alone only where it could not have gone into a syllable, and a
\* vowel takes the consonant before it (hangul_to_utf8's look-ahead).
THEOREM SyllablesAlwaysWhole ==
  ASSUME Beyond = {0}
  PROVE  Init /\ text \in Seq(Jamo \union Other) /\ [][Next]_hangulVars => []SyllablesAreWhole
  BY WholeInit, WholeNext, WholeSays, PTL

=============================================================================
