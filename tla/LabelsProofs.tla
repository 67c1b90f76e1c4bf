------------------------------ MODULE LabelsProofs -----------------------------
(***************************************************************************)
(* Proofs about the reader of labels: that a text of any length is split    *)
(* into the words that it was made of, that both ways to trim them agree,   *)
(* and that each is converted as if it were the only one.                   *)
(***************************************************************************)
EXTENDS Labels, WellFoundedInduction, SequenceTheorems, TLAPS

-----------------------------------------------------------------------------
(***************************************************************************)
(* Numbers and sequences.                                                  *)
(***************************************************************************)

\* A non-empty set of numbers has a least one.
LEMMA LeastNumber ==
  ASSUME NEW S, S \subseteq Nat, S # {}
  PROVE  \E n \in S : \A m \in S : n <= m
<1> DEFINE Less == OpToRel(<, Nat)
<1>1. \E x \in S : \A y \in S : <<y, x>> \notin Less
  <2>1. IsWellFoundedOn(Less, Nat)
    BY NatLessThanWellFounded
  <2> HIDE DEF Less
  <2> QED BY <2>1, WFMin
<1>2. \A x, y \in Nat : y < x => <<y, x>> \in Less
  BY DEF OpToRel
<1>3. PICK n \in S : \A m \in S : <<m, n>> \notin Less
  BY <1>1
<1> HIDE DEF Less
<1>4. ASSUME NEW m \in S PROVE n <= m
  <2>1. ~(m < n)
    BY <1>2, <1>3
  <2> QED BY <2>1
<1> QED BY <1>4

\* A concatenation begins with its first part, and ends with its second.
LEMMA ConcatParts ==
  ASSUME NEW S, NEW s \in Seq(S), NEW t \in Seq(S)
  PROVE  /\ s \o t \in Seq(S)
         /\ Len(s) \in Nat /\ Len(t) \in Nat /\ Len(s \o t) = Len(s) + Len(t)
         /\ Len(s) <= Len(s \o t) /\ 1..Len(s) \subseteq 1..Len(s \o t)
         /\ \A k \in 1..Len(s) : (s \o t)[k] = s[k]
         /\ \A k \in 1..Len(t) : (s \o t)[Len(s) + k] = t[k]
OBVIOUS

-----------------------------------------------------------------------------
(***************************************************************************)
(* Concatenations of lists.                                                *)
(***************************************************************************)

\* The concatenations of the first parts of a list.
Joined(g, parts, n) ==
  g = [i \in 1..n |-> IF i = 1 THEN parts[i] ELSE g[i - 1] \o parts[i]]

\* The definition of the concatenations has a solution.
LEMMA JoinExists ==
  ASSUME NEW parts, NEW n \in Nat
  PROVE  \E g : Joined(g, parts, n)
<1> DEFINE Step(f, k) == IF k = 1 THEN parts[k] ELSE f[k - 1] \o parts[k]
           Bad == {m \in Nat : ~\E g : Joined(g, parts, m)}
<1>1. SUFFICES Bad = {}
  OBVIOUS
<1>2. SUFFICES ASSUME Bad # {} PROVE FALSE
  OBVIOUS
<1>3. PICK m \in Bad : \A l \in Bad : m <= l
  <2>1. Bad \subseteq Nat
    OBVIOUS
  <2> HIDE DEF Bad
  <2> QED BY <1>2, <2>1, LeastNumber
<1>4. m # 0
  <2> DEFINE f == [k \in 1..0 |-> Step(parts, k)]
             h == [k \in 1..0 |-> Step(f, k)]
  <2>1. f = h
    <3>1. \A k \in 1..0 : FALSE
      OBVIOUS
    <3> HIDE DEF Step
    <3> QED BY <3>1
  <2>2. Joined(f, parts, 0)
    <3> HIDE DEF f
    <3> QED BY <2>1 DEF Joined
  <2> QED BY <1>3, <2>2
<1>5. m - 1 \in Nat /\ ~(m <= m - 1)
  BY <1>3, <1>4
<1>6. PICK f : Joined(f, parts, m - 1)
  BY <1>3, <1>5
<1> DEFINE g == [k \in 1..m |-> IF k < m THEN f[k] ELSE Step(f, m)]
<1>7. \A k \in 1..m : g[k] = Step(g, k)
  <2>1. ASSUME NEW k \in 1..m, k < m PROVE g[k] = Step(g, k)
    <3>1. g[k] = f[k] /\ (k # 1 => g[k - 1] = f[k - 1])
      BY <1>3, <2>1
    <3>2. k \in 1..m - 1
      BY <1>3, <2>1
    <3>3. f[k] = Step(f, k)
      BY <1>6, <3>2 DEF Joined
    <3> HIDE DEF g
    <3> QED BY <3>1, <3>3
  <2>2. g[m] = Step(g, m)
    <3>1. g[m] = Step(f, m) /\ (m # 1 => g[m - 1] = f[m - 1])
      BY <1>3, <1>5
    <3> HIDE DEF g
    <3> QED BY <1>4, <3>1
  <2>3. \A k \in 1..m : k < m \/ k = m
    BY <1>3
  <2> HIDE DEF g, Step
  <2> QED BY <2>1, <2>2, <2>3
<1>8. Joined(g, parts, m)
  <2>1. g = [k \in 1..m |-> g[k]]
    OBVIOUS
  <2>2. g = [k \in 1..m |-> Step(g, k)]
    <3> HIDE DEF g, Step
    <3> QED BY <1>7, <2>1
  <2> HIDE DEF g
  <2> QED BY <2>2 DEF Joined
<1> HIDE DEF g
<1> QED BY <1>3, <1>8

\* Where the parts of a list end up in its concatenation F: part i after place off[i - 1].
Placed(off, parts, F) ==
  /\ off \in [0..Len(parts) -> Nat]
  /\ off[0] = 0 /\ off[Len(parts)] = Len(F)
  /\ \A i \in 1..Len(parts) :
       /\ off[i] = off[i - 1] + Len(parts[i]) /\ off[i] <= Len(F)
       /\ \A b \in 1..Len(parts[i]) : F[off[i - 1] + b] = parts[i][b]

\* What the concatenations of the first parts hold: all of the concatenations before.
Growing(g, parts, S) ==
  \A i \in 1..Len(parts) :
    /\ g[i] \in Seq(S)
    /\ (i = 1 => g[i] = parts[i]) /\ (i > 1 => g[i] = g[i - 1] \o parts[i])
    /\ \A j \in 1..i : /\ Len(g[j]) <= Len(g[i])
                       /\ \A b \in 1..Len(g[j]) : g[i][b] = g[j][b]

\* Each concatenation begins with all those before it.
LEMMA JoinPrefix ==
  ASSUME NEW S, NEW parts \in Seq(Seq(S)), NEW g, Joined(g, parts, Len(parts))
  PROVE  Growing(g, parts, S)
<1> DEFINE n == Len(parts)
           Step(k) == IF k = 1 THEN parts[k] ELSE g[k - 1] \o parts[k]
           Part(i) == /\ g[i] \in Seq(S)
                      /\ (i = 1 => g[i] = parts[i]) /\ (i > 1 => g[i] = g[i - 1] \o parts[i])
                      /\ \A j \in 1..i : /\ Len(g[j]) <= Len(g[i])
                                         /\ \A b \in 1..Len(g[j]) : g[i][b] = g[j][b]
           Bad == {i \in 1..n : ~Part(i)}
<1>1. n \in Nat /\ \A i \in 1..n : parts[i] \in Seq(S)
  OBVIOUS
<1>2. \A i \in 1..n : g[i] = Step(i)
  <2>1. g = [k \in 1..n |-> Step(k)]
    BY DEF Joined
  <2> HIDE DEF Step
  <2> QED BY <2>1
<1> HIDE DEF n
<1>3. ASSUME NEW i \in 1..n PROVE (i = 1 => g[i] = parts[i]) /\ (i > 1 => g[i] = g[i - 1] \o parts[i])
  <2>1. (i = 1 => Step(i) = parts[i]) /\ (i # 1 => Step(i) = g[i - 1] \o parts[i])
    BY Zenon
  <2> HIDE DEF Step
  <2>2. i > 1 => i # 1
    BY <1>1
  <2> QED BY <1>2, <2>1, <2>2
<1>4. SUFFICES Bad = {}
  BY DEF Growing, n
<1>5. SUFFICES ASSUME Bad # {} PROVE FALSE
  OBVIOUS
<1>6. PICK m \in Bad : \A l \in Bad : m <= l
  <2>1. Bad \subseteq Nat
    <3> HIDE DEF Part
    <3> QED BY <1>1
  <2> HIDE DEF Bad
  <2> QED BY <1>5, <2>1, LeastNumber
<1>7. m \in 1..n /\ ~Part(m)
  OBVIOUS
<1>8. \A l \in 1..n : l < m => Part(l)
  <2>1. m \in Nat /\ \A l \in 1..n : l \in Nat
    BY <1>1, <1>7
  <2> HIDE DEF Part
  <2> QED BY <1>6, <2>1
<1>9. CASE m = 1
  <2>1. g[m] = parts[m]
    BY <1>3, <1>7, <1>9
  <2>2. Part(m)
    BY <1>1, <1>7, <1>9, <2>1
  <2> QED BY <1>7, <2>2
<1>10. CASE m # 1
  <2>1. m - 1 \in 1..n /\ m - 1 < m
    BY <1>1, <1>7, <1>10
  <2> DEFINE h == g[m - 1]
             p == parts[m]
  <2>2. g[m] = h \o p
    <3>1. m \in 1..n /\ m > 1
      BY <1>1, <1>7, <1>10
    <3> QED BY <1>3, <3>1
  <2>3. h \in Seq(S) /\ p \in Seq(S)
    BY <1>1, <1>7, <1>8, <2>1
  <2>4. \A j \in 1..m - 1 : /\ Len(g[j]) <= Len(h)
                            /\ \A b \in 1..Len(g[j]) : h[b] = g[j][b]
    BY <1>8, <2>1
  <2>5. \A j \in 1..m - 1 : Len(g[j]) \in Nat
    <3>1. ASSUME NEW j \in 1..m - 1 PROVE Len(g[j]) \in Nat
      <4>1. j \in 1..n /\ j < m
        BY <1>1, <1>7
      <4>2. g[j] \in Seq(S)
        BY <4>1, <1>8
      <4> QED BY <4>2
    <3> QED BY <3>1
  <2> HIDE DEF h, p
  <2>6. /\ h \o p \in Seq(S) /\ Len(h) \in Nat /\ Len(h \o p) \in Nat
        /\ Len(h) <= Len(h \o p) /\ \A k \in 1..Len(h) : (h \o p)[k] = h[k]
    BY <2>3, ConcatParts
  <2>7. ASSUME NEW j \in 1..m
        PROVE  Len(g[j]) <= Len(g[m]) /\ \A b \in 1..Len(g[j]) : g[m][b] = g[j][b]
    <3>1. CASE j = m
      BY <2>2, <2>6, <3>1, SMTT(40)
    <3>2. CASE j # m
      <4>1. j \in 1..m - 1
        BY <1>1, <1>7, <3>2
      <4>2. Len(g[j]) \in Nat /\ Len(g[j]) <= Len(h) /\ \A b \in 1..Len(g[j]) : h[b] = g[j][b]
        BY <2>4, <2>5, <4>1
      <4>3. Len(g[j]) <= Len(h \o p)
        BY <2>6, <4>2
      <4>4. \A b \in 1..Len(g[j]) : b \in 1..Len(h)
        BY <2>6, <4>2
      <4> QED BY <2>2, <2>6, <4>2, <4>3, <4>4
    <3> QED BY <3>1, <3>2
  <2>8. Part(m)
    BY <1>3, <1>7, <2>2, <2>6, <2>7
  <2> QED BY <1>7, <2>8
<1> QED BY <1>9, <1>10

\* A flattened sequence holds its parts one behind the other, each from its place.
LEMMA FlattenPlaces ==
  ASSUME NEW S, NEW parts \in Seq(Seq(S))
  PROVE  /\ FlattenSeq(parts) \in Seq(S)
         /\ \E off : Placed(off, parts, FlattenSeq(parts))
<1> DEFINE n == Len(parts)
           F == FlattenSeq(parts)
<1>1. n \in Nat /\ \A i \in 1..n : parts[i] \in Seq(S) /\ Len(parts[i]) \in Nat
  OBVIOUS
<1>2. CASE n = 0
  <2>1. parts = << >> /\ F = parts
    BY <1>2 DEF FlattenSeq
  <2> DEFINE off == [i \in 0..0 |-> 0]
  <2>2. Placed(off, parts, F)
    BY <1>2, <2>1 DEF Placed
  <2>3. F \in Seq(S)
    <3>1. << >> \in Seq(S)
      OBVIOUS
    <3> HIDE DEF F
    <3> QED BY <2>1, <3>1
  <2> HIDE DEF off
  <2> QED BY <2>2, <2>3
<1>3. CASE n # 0
  <2> DEFINE g == CHOOSE f : f = [i \in 1..Len(parts) |->
                                    IF i = 1 THEN parts[i] ELSE f[i - 1] \o parts[i]]
  <2>1. F = g[n]
    BY <1>3, Zenon DEF FlattenSeq
  <2>2. \E f : f = [i \in 1..Len(parts) |-> IF i = 1 THEN parts[i] ELSE f[i - 1] \o parts[i]]
    BY <1>1, JoinExists, Zenon DEF Joined
  <2>3. Joined(g, parts, n)
    BY <2>2, Zenon DEF Joined
  <2> HIDE DEF g
  <2>4. Growing(g, parts, S)
    BY <2>3, JoinPrefix
  <2> DEFINE off == [i \in 0..n |-> IF i = 0 THEN 0 ELSE Len(g[i])]
  <2>5. \A i \in 1..n :
          /\ g[i] \in Seq(S)
          /\ (i = 1 => g[i] = parts[i]) /\ (i > 1 => g[i] = g[i - 1] \o parts[i])
          /\ \A j \in 1..i : Len(g[j]) <= Len(g[i]) /\ \A b \in 1..Len(g[j]) : g[i][b] = g[j][b]
    BY <2>4, Zenon DEF Growing
  <2> HIDE DEF n, F
  <2>6. n \in 1..n /\ F \in Seq(S)
    <3>1. n \in 1..n
      BY <1>1, <1>3
    <3> QED BY <2>1, <2>5, <3>1
  <2>7. \A i \in 1..n :
          /\ g[i] \in Seq(S)
          /\ (i = 1 => g[i] = parts[i]) /\ (i > 1 => g[i] = g[i - 1] \o parts[i])
          /\ Len(g[i]) <= Len(F) /\ \A b \in 1..Len(g[i]) : F[b] = g[i][b]
    BY <1>1, <2>1, <2>5, <2>6
  <2>8. off[0] = 0 /\ off[n] = Len(F) /\ \A i \in 1..n : off[i] = Len(g[i])
    <3>1. n # 0 /\ \A i \in 1..n : i # 0 /\ i \in 0..n
      BY <1>1, <2>6
    <3> QED BY <1>1, <2>1, <2>6, <3>1
  <2>9. off \in [0..n -> Nat]
    <3>1. \A i \in 1..n : Len(g[i]) \in Nat
      BY <2>7
    <3>2. \A i \in 0..n : i = 0 \/ i \in 1..n
      BY <1>1
    <3> QED BY <3>1, <3>2
  <2> HIDE DEF off
  <2>10. ASSUME NEW i \in 1..n
        PROVE  /\ off[i] = off[i - 1] + Len(parts[i]) /\ off[i] <= Len(F)
               /\ \A b \in 1..Len(parts[i]) : F[off[i - 1] + b] = parts[i][b]
    <3> DEFINE p == parts[i]
    <3>1. p \in Seq(S) /\ Len(p) \in Nat
      BY <1>1
    <3>2. CASE i = 1
      <4>1. off[i - 1] = 0 /\ g[i] = p
        <5>1. i - 1 = 0
          BY <3>2
        <5>2. off[i - 1] = 0
          BY <2>8, <5>1
        <5> QED BY <2>7, <3>2, <5>2
      <4> HIDE DEF p
      <4>2. off[i] = Len(p) /\ Len(p) <= Len(F) /\ \A b \in 1..Len(p) : F[b] = p[b]
        BY <2>7, <2>8, <4>1
      <4>3. \A b \in 1..Len(p) : off[i - 1] + b = b
        BY <4>1, <3>1
      <4>4. off[i - 1] + Len(p) = Len(p)
        BY <4>1, <3>1
      <4> QED BY <4>2, <4>3, <4>4 DEF p
    <3>3. CASE i # 1
      <4> DEFINE h == g[i - 1]
      <4>1. i - 1 \in 1..n /\ i > 1
        BY <1>1, <3>3
      <4>2. h \in Seq(S) /\ off[i - 1] = Len(h) /\ g[i] = h \o p
        BY <2>7, <2>8, <4>1
      <4>3. off[i] = Len(g[i]) /\ Len(g[i]) <= Len(F) /\ \A b \in 1..Len(g[i]) : F[b] = g[i][b]
        BY <2>7, <2>8
      <4> HIDE DEF p, h
      <4>4. /\ Len(h) \in Nat /\ Len(h \o p) = Len(h) + Len(p)
            /\ \A k \in 1..Len(p) : (h \o p)[Len(h) + k] = p[k]
        BY <3>1, <4>2, ConcatParts
      <4>5. \A k \in 1..Len(p) : Len(h) + k \in 1..Len(h \o p)
        BY <3>1, <4>4
      <4>6. off[i] = off[i - 1] + Len(p) /\ off[i] <= Len(F)
            /\ \A b \in 1..Len(p) : F[off[i - 1] + b] = p[b]
        BY <4>2, <4>3, <4>4, <4>5
      <4> QED BY <4>6 DEF p
    <3> QED BY <3>2, <3>3
  <2>11. Placed(off, parts, F)
    BY <2>8, <2>9, <2>10 DEF Placed, n
  <2> QED BY <2>11, <2>6 DEF F
<1> QED BY <1>2, <1>3

-----------------------------------------------------------------------------
(***************************************************************************)
(* How a text is laid out.                                                 *)
(***************************************************************************)

Chars == STRING \cup Delims \cup {"\\"}

\* Character i of the word w stands between the places a and b of the text T, as it is,
\* or with a backslash before it when the text is an escaped one.
Bare(T, w, escaped, i, a, b) ==
  /\ b = a + 1 /\ T[b] = w[i] /\ w[i] \notin Delims
  /\ (escaped /\ w[i] = "\\") => i < Len(w) /\ w[i + 1] \notin Delims \cup {"\\"}

Paired(T, w, escaped, i, a, b) ==
  /\ escaped /\ b = a + 2
  /\ T[a + 1] = "\\" /\ T[b] = w[i] /\ w[i] \in Delims \cup {"\\"}

\* The word w stands in T behind the place p: character i ends at place o[i].
Spells(T, w, escaped, p, o) ==
  /\ o \in [0..Len(w) -> Nat] /\ o[0] = p
  /\ \A i \in 1..Len(w) :
       /\ o[i] <= Len(T)
       /\ Bare(T, w, escaped, i, o[i - 1], o[i]) \/ Paired(T, w, escaped, i, o[i - 1], o[i])

\* It ends at place end.
SpelledTo(T, w, escaped, p, end) == \E o : Spells(T, w, escaped, p, o) /\ o[Len(w)] = end

\* The text raw stands in T behind the place p.
HeldAt(T, p, raw) ==
  p + Len(raw) <= Len(T) /\ \A b \in 1..Len(raw) : T[p + b] = raw[b]

\* A word without separators spells itself.
LEMMA PlainSpells ==
  ASSUME NEW w \in Seq(Chars), \A i \in 1..Len(w) : w[i] \notin Delims
  PROVE  SpelledTo(w, w, FALSE, 0, Len(w))
<1> DEFINE o == [i \in 0..Len(w) |-> i]
<1>1. Len(w) \in Nat /\ 0 \in 0..Len(w) /\ Len(w) \in 0..Len(w)
  OBVIOUS
<1>2. o \in [0..Len(w) -> Nat] /\ o[0] = 0 /\ o[Len(w)] = Len(w)
  BY <1>1
<1>3. ASSUME NEW i \in 1..Len(w) PROVE o[i] <= Len(w) /\ Bare(w, w, FALSE, i, o[i - 1], o[i])
  <2>1. i \in 0..Len(w) /\ i - 1 \in 0..Len(w) /\ i = (i - 1) + 1
    BY <1>1
  <2>2. o[i] = i /\ o[i - 1] = i - 1
    BY <2>1
  <2> HIDE DEF o
  <2> QED BY <2>1, <2>2 DEF Bare
<1> HIDE DEF o
<1>4. Spells(w, w, FALSE, 0, o)
  BY <1>2, <1>3, Zenon DEF Spells
<1> QED BY <1>2, <1>4, Zenon DEF SpelledTo

\* An escaped word spells the word that it was made of.
LEMMA EscapedSpells ==
  ASSUME NEW w \in Seq(Chars), NEW loose \in BOOLEAN
  PROVE  /\ Escaped(w, loose) \in Seq(Chars)
         /\ SpelledTo(Escaped(w, loose), w, TRUE, 0, Len(Escaped(w, loose)))
<1> DEFINE Marked(k) == \/ w[k] \in Delims
                        \/ (w[k] = "\\" /\ ~(loose /\ k < Len(w) /\ w[k + 1] \notin Delims \cup {"\\"}))
           parts == [k \in DOMAIN w |-> IF Marked(k) THEN <<"\\", w[k]>> ELSE <<w[k]>>]
           F == Escaped(w, loose)
<1>1. F = FlattenSeq(parts)
  BY Zenon DEF Escaped
<1>2. "\\" \in Chars /\ \A k \in 1..Len(w) : w[k] \in Chars
  <2>1. "\\" \in Chars
    BY Zenon DEF Chars
  <2> QED BY <2>1
<1>3. DOMAIN w = 1..Len(w) /\ Len(w) \in Nat
  OBVIOUS
<1>4. \A k \in 1..Len(w) : Marked(k) => w[k] \in Delims \cup {"\\"}
  OBVIOUS
<1>5. \A k \in 1..Len(w) : ~Marked(k) =>
        /\ w[k] \notin Delims
        /\ w[k] = "\\" => k < Len(w) /\ w[k + 1] \notin Delims \cup {"\\"}
  OBVIOUS
<1> HIDE DEF Marked
<1>6. \A k \in 1..Len(w) : parts[k] = IF Marked(k) THEN <<"\\", w[k]>> ELSE <<w[k]>>
  BY <1>3
<1>7. DOMAIN parts = 1..Len(w)
  BY <1>3
<1> HIDE DEF parts
<1>8. \A k \in 1..Len(w) :
        /\ Marked(k) => Len(parts[k]) = 2 /\ parts[k][1] = "\\" /\ parts[k][2] = w[k]
        /\ ~Marked(k) => Len(parts[k]) = 1 /\ parts[k][1] = w[k]
        /\ parts[k] \in Seq(Chars)
  <2>1. ASSUME NEW k \in 1..Len(w), Marked(k)
        PROVE  Len(parts[k]) = 2 /\ parts[k][1] = "\\" /\ parts[k][2] = w[k] /\ parts[k] \in Seq(Chars)
    <3> DEFINE c == w[k]
               d == "\\"
    <3>1. parts[k] = <<d, c>> /\ c \in Chars /\ d \in Chars
      BY <1>2, <1>6, <2>1
    <3> HIDE DEF c, d
    <3>2. Len(parts[k]) = 2 /\ parts[k][1] = d /\ parts[k][2] = c /\ parts[k] \in Seq(Chars)
      BY <3>1
    <3> QED BY <3>2 DEF c, d
  <2>2. ASSUME NEW k \in 1..Len(w), ~Marked(k)
        PROVE  Len(parts[k]) = 1 /\ parts[k][1] = w[k] /\ parts[k] \in Seq(Chars)
    <3> DEFINE c == w[k]
    <3>1. parts[k] = <<c>> /\ c \in Chars
      BY <1>2, <1>6, <2>2
    <3> HIDE DEF c
    <3>2. Len(parts[k]) = 1 /\ parts[k][1] = c /\ parts[k] \in Seq(Chars)
      BY <3>1
    <3> QED BY <3>2 DEF c
  <2> QED BY <2>1, <2>2
<1>9. parts \in Seq(Seq(Chars)) /\ Len(parts) = Len(w)
  <2>1. parts = [k \in 1..Len(w) |-> parts[k]]
    <3>1. parts = [k \in DOMAIN w |-> parts[k]]
      BY DEF parts
    <3> QED BY <1>3, <3>1
  <2>2. parts \in [1..Len(w) -> Seq(Chars)]
    BY <1>8, <2>1
  <2> DEFINE Words == Seq(Chars)
  <2> HIDE DEF Words
  <2>3. parts \in [1..Len(w) -> Words]
    BY <2>2 DEF Words
  <2>4. parts \in Seq(Words) /\ Len(parts) = Len(w)
    BY <1>3, <2>3
  <2> QED BY <2>4 DEF Words
<1>10. F \in Seq(Chars) /\ \E off : Placed(off, parts, F)
  <2> HIDE DEF F
  <2> QED BY <1>1, <1>9, FlattenPlaces
<1>11. PICK o : Placed(o, parts, F)
  BY <1>10
<1> HIDE DEF F
<1>12. /\ o \in [0..Len(w) -> Nat] /\ o[0] = 0 /\ o[Len(w)] = Len(F)
       /\ \A i \in 1..Len(w) :
            /\ o[i] = o[i - 1] + Len(parts[i]) /\ o[i] <= Len(F)
            /\ \A b \in 1..Len(parts[i]) : F[o[i - 1] + b] = parts[i][b]
  BY <1>9, <1>11 DEF Placed
<1>13. ASSUME NEW i \in 1..Len(w)
       PROVE  Bare(F, w, TRUE, i, o[i - 1], o[i]) \/ Paired(F, w, TRUE, i, o[i - 1], o[i])
  <2>1. o[i - 1] \in Nat
    <3>1. i - 1 \in 0..Len(w)
      BY <1>3
    <3> QED BY <1>12, <3>1
  <2>2. CASE Marked(i)
    <3>1. Len(parts[i]) = 2 /\ parts[i][1] = "\\" /\ parts[i][2] = w[i]
      BY <1>8, <2>2
    <3>2. 1 \in 1..Len(parts[i]) /\ 2 \in 1..Len(parts[i])
      BY <3>1
    <3>3. o[i] = o[i - 1] + 2 /\ F[o[i - 1] + 1] = "\\" /\ F[o[i - 1] + 2] = w[i]
      BY <1>12, <3>1, <3>2
    <3> QED BY <1>4, <2>2, <3>3 DEF Paired
  <2>3. CASE ~Marked(i)
    <3>1. Len(parts[i]) = 1 /\ parts[i][1] = w[i]
      BY <1>8, <2>3
    <3>2. 1 \in 1..Len(parts[i])
      BY <3>1
    <3>3. o[i] = o[i - 1] + 1 /\ F[o[i - 1] + 1] = w[i]
      BY <1>12, <3>1, <3>2
    <3> QED BY <1>5, <2>3, <3>3 DEF Bare
  <2> QED BY <2>2, <2>3
<1>14. Spells(F, w, TRUE, 0, o)
  BY <1>12, <1>13, Zenon DEF Spells
<1> QED BY <1>10, <1>12, <1>14, Zenon DEF F, SpelledTo

\* A word that is spelled by a text is spelled by every text that holds it.
LEMMA ShiftedSpells ==
  ASSUME NEW raw \in Seq(Chars), NEW w \in Seq(Chars), NEW escaped \in BOOLEAN,
         SpelledTo(raw, w, escaped, 0, Len(raw)),
         NEW T \in Seq(Chars), NEW p \in Nat, HeldAt(T, p, raw)
  PROVE  SpelledTo(T, w, escaped, p, p + Len(raw))
<1>1. PICK o : Spells(raw, w, escaped, 0, o) /\ o[Len(w)] = Len(raw)
  BY Zenon DEF SpelledTo
<1>2. p + Len(raw) <= Len(T) /\ \A b \in 1..Len(raw) : T[p + b] = raw[b]
  BY Zenon DEF HeldAt
<1> DEFINE q == [i \in 0..Len(w) |-> p + o[i]]
<1>3. Len(w) \in Nat /\ Len(raw) \in Nat /\ Len(T) \in Nat
  OBVIOUS
<1>4. /\ o \in [0..Len(w) -> Nat] /\ o[0] = 0
      /\ \A i \in 1..Len(w) :
           /\ o[i] <= Len(raw)
           /\ Bare(raw, w, escaped, i, o[i - 1], o[i]) \/ Paired(raw, w, escaped, i, o[i - 1], o[i])
  BY <1>1, Zenon DEF Spells
<1>5. q \in [0..Len(w) -> Nat] /\ \A i \in 0..Len(w) : q[i] = p + o[i]
  BY <1>4
<1> HIDE DEF q
<1>6. q[0] = p /\ q[Len(w)] = p + Len(raw)
  <2>1. 0 \in 0..Len(w) /\ Len(w) \in 0..Len(w)
    BY <1>3
  <2>2. q[0] = p + o[0] /\ q[Len(w)] = p + o[Len(w)]
    BY <1>5, <2>1
  <2> QED BY <1>4, <1>1, <2>2
<1>7. ASSUME NEW i \in 1..Len(w)
      PROVE  /\ q[i] <= Len(T)
             /\ Bare(T, w, escaped, i, q[i - 1], q[i]) \/ Paired(T, w, escaped, i, q[i - 1], q[i])
  <2>1. i - 1 \in 0..Len(w) /\ i \in 0..Len(w)
    BY <1>3
  <2>2. /\ o[i - 1] \in Nat /\ o[i] \in Nat /\ q[i] = p + o[i] /\ q[i - 1] = p + o[i - 1]
        /\ o[i] <= Len(raw)
    BY <1>4, <1>5, <2>1
  <2>3. CASE Bare(raw, w, escaped, i, o[i - 1], o[i])
    <3>1. o[i] = o[i - 1] + 1 /\ raw[o[i]] = w[i]
      BY <2>3, Zenon DEF Bare
    <3>2. T[p + o[i]] = raw[o[i]]
      BY <1>3, <1>2, <2>2, <3>1, SMTT(40)
    <3>3. q[i] = q[i - 1] + 1 /\ T[q[i]] = w[i]
      BY <2>2, <3>1, <3>2
    <3>4. Bare(T, w, escaped, i, q[i - 1], q[i])
      BY <2>3, <3>3, Zenon DEF Bare
    <3> QED BY <1>3, <1>2, <2>2, <3>4
  <2>4. CASE Paired(raw, w, escaped, i, o[i - 1], o[i])
    <3>1. o[i] = o[i - 1] + 2 /\ raw[o[i - 1] + 1] = "\\" /\ raw[o[i]] = w[i]
      BY <2>4, Zenon DEF Paired
    <3> DEFINE b == o[i - 1] + 1
    <3>2. b \in 1..Len(raw) /\ o[i] \in 1..Len(raw)
      <4>1. o[i] = o[i - 1] + 2
        BY <3>1, Zenon
      <4>2. PICK x \in Nat, y \in Nat, l \in Nat : x = o[i - 1] /\ y = o[i] /\ l = Len(raw)
        BY <1>3, <2>2, Zenon
      <4>3. x + 1 \in 1..l /\ y \in 1..l
        <5>1. y = x + 2 /\ y <= l
          BY <2>2, <4>1, <4>2, Zenon
        <5> QED BY <5>1
      <4> QED BY <4>2, <4>3, Zenon
    <3>3. raw[b] = "\\"
      BY <3>1
    <3>4. q[i - 1] + 1 = p + b /\ q[i] = q[i - 1] + 2
      <4>1. PICK x \in Nat, y \in Nat : x = o[i - 1] /\ y = o[i]
        BY <2>2, Zenon
      <4>2. q[i - 1] = p + x /\ q[i] = p + y /\ b = x + 1 /\ y = x + 2
        BY <2>2, <3>1, <4>1, Zenon
      <4> HIDE DEF b
      <4> QED BY <4>2
    <3> HIDE DEF b
    <3>5. T[p + o[i]] = raw[o[i]] /\ T[p + b] = raw[b]
      BY <1>2, <3>2
    <3>6. q[i] = q[i - 1] + 2 /\ T[q[i]] = w[i] /\ T[q[i - 1] + 1] = "\\"
      BY <2>2, <3>1, <3>3, <3>4, <3>5, Zenon
    <3>7. Paired(T, w, escaped, i, q[i - 1], q[i])
      BY <2>4, <3>6, Zenon DEF Paired
    <3> QED BY <1>3, <1>2, <2>2, <3>7
  <2> QED BY <1>4, <2>3, <2>4
<1>8. Spells(T, w, escaped, p, q)
  BY <1>5, <1>6, <1>7, Zenon DEF Spells
<1> QED BY <1>6, <1>8, Zenon DEF SpelledTo

\* Word k stands behind place at[k], and separators fill what is left up to at[k + 1]:
\* one at least before another word.
Laid(T, escaped, ws, at, o) ==
  /\ T \in Seq(Chars) /\ ws \in Seq(Seq(Chars))
  /\ at \in [1..Len(ws) + 1 -> Nat] /\ at[1] = 0 /\ at[Len(ws) + 1] = Len(T)
  /\ \A k \in 1..Len(ws) :
       LET end == o[k][Len(ws[k])]
       IN  /\ Spells(T, ws[k], escaped, at[k], o[k])
           /\ end <= at[k + 1] /\ at[k + 1] <= Len(T)
           /\ k < Len(ws) => end < at[k + 1]
           /\ \A j \in end + 1..at[k + 1] : T[j] \in Delims

\* A joined text, with separators behind it or not, is laid out as its words.
LEMMA JoinLaid ==
  ASSUME NEW ws \in Seq(Seq(Chars)), NEW raw \in Seq(Seq(Chars)), Len(raw) = Len(ws),
         NEW escaped \in BOOLEAN,
         NEW sep \in Seq(Delims), sep # << >>, NEW tail \in Seq(Delims),
         \A k \in 1..Len(ws) : SpelledTo(raw[k], ws[k], escaped, 0, Len(raw[k])),
         NEW T, T = Join(raw, sep) \o (IF ws = << >> THEN << >> ELSE tail)
  PROVE  \E at, o : Laid(T, escaped, ws, at, o)
<1> DEFINE n == Len(ws)
           parts == [k \in DOMAIN raw |-> IF k < Len(raw) THEN raw[k] \o sep ELSE raw[k]]
           J == FlattenSeq(parts)
           t == IF ws = << >> THEN << >> ELSE tail
<1>1. /\ n \in Nat /\ DOMAIN raw = 1..n /\ Len(raw) = n
      /\ \A k \in 1..n : ws[k] \in Seq(Chars) /\ raw[k] \in Seq(Chars)
  OBVIOUS
<1>2. sep \in Seq(Chars) /\ t \in Seq(Chars) /\ Len(sep) \in Nat \ {0}
  <2>1. \A s \in Seq(Delims) : s \in Seq(Chars)
    BY DEF Chars
  <2>2. << >> \in Seq(Chars)
    OBVIOUS
  <2> QED BY <2>1, <2>2
<1>3. T = J \o t
  BY Zenon DEF Join
<1>4. Len(t) \in Nat /\ (\A j \in 1..Len(t) : t[j] \in Delims) /\ (n = 0 => t = << >>)
  OBVIOUS
<1> HIDE DEF n, t
<1>5. /\ DOMAIN parts = 1..n /\ parts = [k \in 1..n |-> parts[k]]
      /\ \A k \in 1..n : /\ k < n => parts[k] = raw[k] \o sep
                         /\ k = n => parts[k] = raw[k]
  BY <1>1
<1> HIDE DEF parts
<1>6. ASSUME NEW k \in 1..n
      PROVE  /\ parts[k] \in Seq(Chars) /\ Len(raw[k]) \in Nat
             /\ \A b \in 1..Len(raw[k]) : b \in 1..Len(parts[k]) /\ parts[k][b] = raw[k][b]
             /\ k < n => Len(parts[k]) = Len(raw[k]) + Len(sep)
             /\ k = n => Len(parts[k]) = Len(raw[k])
             /\ \A b \in Len(raw[k]) + 1..Len(parts[k]) : parts[k][b] \in Delims
  <2> DEFINE r == raw[k]
             p == parts[k]
  <2>1. r \in Seq(Chars) /\ Len(r) \in Nat
    BY <1>1, SMTT(40)
  <2>2. CASE k < n
    <3>1. p = r \o sep
      BY <1>5, <2>2
    <3>2. ~(k = n)
      BY <1>1, <2>2
    <3> HIDE DEF r, p
    <3>3. /\ p \in Seq(Chars) /\ Len(p) = Len(r) + Len(sep) /\ 1..Len(r) \subseteq 1..Len(p)
          /\ (\A b \in 1..Len(r) : p[b] = r[b])
          /\ \A b \in 1..Len(sep) : p[Len(r) + b] = sep[b]
      <4>1. /\ r \o sep \in Seq(Chars) /\ Len(r \o sep) = Len(r) + Len(sep)
            /\ 1..Len(r) \subseteq 1..Len(r \o sep)
            /\ (\A b \in 1..Len(r) : (r \o sep)[b] = r[b])
            /\ \A b \in 1..Len(sep) : (r \o sep)[Len(r) + b] = sep[b]
        BY <1>2, <2>1, ConcatParts, SMTT(40)
      <4> QED BY <3>1, <4>1, Zenon
    <3>4. ASSUME NEW b \in Len(r) + 1..Len(p) PROVE p[b] \in Delims
      <4>1. b - Len(r) \in 1..Len(sep) /\ Len(r) + (b - Len(r)) = b
        BY <1>2, <2>1, <3>3
      <4>2. p[b] = sep[b - Len(r)]
        BY <3>3, <4>1
      <4>3. \A i \in 1..Len(sep) : sep[i] \in Delims
        OBVIOUS
      <4> QED BY <4>1, <4>2, <4>3
    <3> QED BY <2>1, <3>3, <3>4, <3>2 DEF r, p
  <2>3. CASE k = n
    <3>1. p = r
      BY <1>5, <2>3
    <3>2. ~(k < n)
      BY <1>1, <2>3
    <3> HIDE DEF r, p
    <3>3. \A b \in Len(r) + 1..Len(p) : FALSE
      BY <2>1, <3>1
    <3> QED BY <2>1, <3>1, <3>3, <3>2 DEF r, p
  <2>4. k < n \/ k = n
    BY <1>1
  <2> QED BY <2>2, <2>3, <2>4
<1>7. parts \in Seq(Seq(Chars)) /\ Len(parts) = n
  <2> DEFINE Words == Seq(Chars)
  <2>1. \A k \in 1..n : parts[k] \in Words
    BY <1>6
  <2> HIDE DEF Words
  <2>2. parts \in [1..n -> Words]
    BY <1>5, <2>1
  <2>3. parts \in Seq(Words) /\ Len(parts) = n
    BY <1>1, <2>2
  <2> QED BY <2>3 DEF Words
<1>8. J \in Seq(Chars) /\ \E off : Placed(off, parts, J)
  BY <1>7, FlattenPlaces
<1> HIDE DEF J
<1>9. PICK off : Placed(off, parts, J)
  BY <1>8
<1>10. /\ off \in [0..n -> Nat] /\ off[0] = 0 /\ off[n] = Len(J)
       /\ \A i \in 1..n : /\ off[i] = off[i - 1] + Len(parts[i]) /\ off[i] <= Len(J)
                          /\ \A b \in 1..Len(parts[i]) : J[off[i - 1] + b] = parts[i][b]
  BY <1>7, <1>9, Zenon DEF Placed
<1>11. /\ T \in Seq(Chars) /\ Len(J) \in Nat /\ Len(T) = Len(J) + Len(t)
       /\ \A j \in 1..Len(J) : T[j] = J[j]
       /\ \A j \in 1..Len(t) : T[Len(J) + j] = t[j]
  <2>1. /\ J \o t \in Seq(Chars) /\ Len(J) \in Nat /\ Len(J \o t) = Len(J) + Len(t)
        /\ \A j \in 1..Len(J) : (J \o t)[j] = J[j]
        /\ \A j \in 1..Len(t) : (J \o t)[Len(J) + j] = t[j]
    BY <1>2, <1>8, ConcatParts
  <2> QED BY <1>3, <2>1, Zenon
<1> DEFINE at == [k \in 1..n + 1 |-> IF k = n + 1 THEN Len(T) ELSE off[k - 1]]
<1>12. /\ at \in [1..n + 1 -> Nat] /\ at[n + 1] = Len(T)
       /\ \A k \in 1..n : at[k] = off[k - 1] /\ off[k - 1] \in Nat /\ off[k] \in Nat
  <2>1. Len(T) \in Nat /\ n + 1 \in 1..n + 1
    BY <1>1, <1>11
  <2>2. \A k \in 1..n : k - 1 \in 0..n /\ k \in 0..n /\ k \in 1..n + 1 /\ k # n + 1
    BY <1>1
  <2>3. \A k \in 1..n + 1 : k = n + 1 \/ k \in 1..n
    BY <1>1
  <2>4. \A k \in 0..n : off[k] \in Nat
    BY <1>10
  <2>5. \A k \in 1..n + 1 : (IF k = n + 1 THEN Len(T) ELSE off[k - 1]) \in Nat
    BY <2>1, <2>2, <2>3, <2>4
  <2> QED BY <2>1, <2>2, <2>4, <2>5
<1> HIDE DEF at
<1>13. at[1] = 0
  <2>1. CASE n = 0
    <3>1. t = << >> /\ Len(J) = 0
      BY <1>4, <1>10, <2>1
    <3>2. Len(T) = 0
      BY <1>11, <3>1
    <3> QED BY <1>12, <2>1, <3>2
  <2>2. CASE n # 0
    <3>1. 1 \in 1..n /\ 1 - 1 = 0
      BY <1>1, <2>2
    <3> QED BY <1>10, <1>12, <3>1
  <2> QED BY <2>1, <2>2
<1> DEFINE o == [k \in 1..n |-> CHOOSE q : /\ Spells(T, ws[k], escaped, at[k], q)
                                          /\ q[Len(ws[k])] = at[k] + Len(raw[k])]
<1>14. ASSUME NEW k \in 1..n
       PROVE  /\ at[k] \in Nat /\ at[k] + Len(parts[k]) <= Len(J)
              /\ \A b \in 1..Len(parts[k]) : T[at[k] + b] = parts[k][b]
  <2>1. at[k] = off[k - 1] /\ at[k] \in Nat /\ off[k] \in Nat /\ off[k] <= Len(J)
        /\ off[k] = at[k] + Len(parts[k])
    BY <1>10, <1>12, Zenon
  <2>2. Len(parts[k]) \in Nat
    BY <1>6
  <2>3. ASSUME NEW b \in 1..Len(parts[k]) PROVE T[at[k] + b] = parts[k][b]
    <3>1. at[k] + b \in 1..Len(J)
      <4>1. PICK x \in Nat, y \in Nat, l \in Nat, m \in Nat :
              x = at[k] /\ y = off[k] /\ l = Len(J) /\ m = Len(parts[k])
        BY <1>11, <2>1, <2>2, Zenon
      <4>2. y = x + m /\ y <= l /\ b \in 1..m
        BY <2>1, <4>1, Zenon
      <4>3. x + b \in 1..l
        BY <4>2
      <4> QED BY <4>1, <4>3, Zenon
    <3>2. J[at[k] + b] = parts[k][b]
      BY <1>10, <2>1, Zenon
    <3> QED BY <1>11, <3>1, <3>2
  <2> QED BY <2>1, <2>3
<1>15. ASSUME NEW k \in 1..n
       PROVE  /\ Spells(T, ws[k], escaped, at[k], o[k])
              /\ o[k][Len(ws[k])] = at[k] + Len(raw[k])
  <2> DEFINE r == raw[k]
             w == ws[k]
             p == at[k]
  <2>1. r \in Seq(Chars) /\ w \in Seq(Chars) /\ Len(r) \in Nat /\ p \in Nat
    BY <1>1, <1>6, <1>14
  <2>2. SpelledTo(r, w, escaped, 0, Len(r))
    BY DEF n
  <2>3. p + Len(r) <= Len(T)
    <3>1. Len(r) <= Len(parts[k]) /\ Len(parts[k]) \in Nat
      <4>1. Len(parts[k]) \in Nat
        BY <1>6
      <4>2. k < n \/ k = n
        BY <1>1
      <4>3. Len(parts[k]) = Len(r) + Len(sep) \/ Len(parts[k]) = Len(r)
        BY <1>6, <4>2
      <4> HIDE DEF r
      <4> QED BY <1>2, <2>1, <4>1, <4>3
    <3>2. p + Len(parts[k]) <= Len(J)
      BY <1>14
    <3>3. Len(J) <= Len(T) /\ Len(T) \in Nat /\ Len(J) \in Nat
      BY <1>4, <1>11
    <3> HIDE DEF p, r
    <3> QED BY <2>1, <3>1, <3>2, <3>3
  <2>4. \A b \in 1..Len(r) : T[p + b] = r[b]
    BY <1>6, <1>14
  <2> HIDE DEF r, w, p
  <2>5. SpelledTo(T, w, escaped, p, p + Len(r))
    <3>1. T \in Seq(Chars) /\ HeldAt(T, p, r)
      BY <1>11, <2>3, <2>4, Zenon DEF HeldAt
    <3> QED BY <2>1, <2>2, <3>1, ShiftedSpells
  <2>6. o[k] = CHOOSE s : Spells(T, w, escaped, p, s) /\ s[Len(w)] = p + Len(r)
    BY DEF p, r, w
  <2> HIDE DEF o
  <2>7. Spells(T, w, escaped, p, o[k]) /\ o[k][Len(w)] = p + Len(r)
    BY <2>5, <2>6, Zenon DEF SpelledTo
  <2> QED BY <2>7 DEF p, r, w
<1> HIDE DEF o
<1>16. ASSUME NEW k \in 1..n
       PROVE  LET end == o[k][Len(ws[k])]
              IN  /\ Spells(T, ws[k], escaped, at[k], o[k])
                  /\ end <= at[k + 1] /\ at[k + 1] <= Len(T)
                  /\ k < n => end < at[k + 1]
                  /\ \A j \in end + 1..at[k + 1] : T[j] \in Delims
  <2> DEFINE end == o[k][Len(ws[k])]
             p == at[k]
             l == Len(raw[k])
             m == Len(parts[k])
             q == at[k + 1]
  <2>1. end = p + l /\ Spells(T, ws[k], escaped, p, o[k])
    BY <1>15
  <2>2. p \in Nat /\ l \in Nat /\ m \in Nat /\ p + m <= Len(J)
        /\ (k < n => m = l + Len(sep)) /\ (k = n => m = l)
        /\ (\A b \in 1..m : T[p + b] = parts[k][b])
        /\ (\A b \in l + 1..m : parts[k][b] \in Delims)
    <3>1. m \in Nat
      BY <1>6
    <3> QED BY <1>6, <1>14, <3>1, Zenon
  <2>3. k < n => q = p + m
    <3>1. SUFFICES ASSUME k < n PROVE q = p + m
      OBVIOUS
    <3>2. k + 1 \in 1..n /\ (k + 1) - 1 = k
      BY <1>1, <3>1
    <3>3. q = off[k]
      BY <1>12, <3>2
    <3> QED BY <1>10, <1>12, <3>3
  <2>4. k = n => q = Len(T) /\ p + m = Len(J)
    <3>1. SUFFICES ASSUME k = n PROVE q = Len(T) /\ p + m = Len(J)
      OBVIOUS
    <3>2. q = Len(T)
      BY <1>12, <3>1
    <3>3. off[k] = Len(J) /\ off[k] = off[k - 1] + m /\ p = off[k - 1]
      BY <1>10, <1>12, <3>1
    <3> HIDE DEF p, q, m
    <3> QED BY <3>2, <3>3
  <2> HIDE DEF end, p, l, m, q
  <2>5. Len(T) \in Nat /\ Len(J) <= Len(T) /\ Len(J) \in Nat /\ Len(sep) \in Nat \ {0}
    BY <1>2, <1>4, <1>11, SMTT(40)
  <2>6. k < n \/ k = n
    BY <1>1
  <2>7. ~(k < n /\ k = n)
    BY <1>1
  <2>8. end <= q /\ q <= Len(T) /\ (k < n => end < q) /\ end \in Nat /\ q \in Nat
    <3>1. CASE k < n
      BY <2>1, <2>2, <2>3, <2>5, <3>1, SMTT(40)
    <3>2. CASE k = n
      <4>1. m = l /\ q = Len(T) /\ p + m = Len(J) /\ ~(k < n)
        BY <2>2, <2>4, <2>7, <3>2
      <4> QED BY <2>1, <2>2, <2>5, <4>1
    <3> QED BY <2>6, <3>1, <3>2
  <2>9. ASSUME NEW j \in end + 1..q PROVE T[j] \in Delims
    <3>1. CASE j <= p + m
      <4> DEFINE b == j - p
      <4>1. b \in l + 1..m /\ b \in 1..m /\ p + b = j
        <5>1. j \in Int /\ end + 1 <= j /\ end = p + l /\ p \in Nat /\ l \in Nat /\ m \in Nat
          BY <2>1, <2>2, <2>8
        <5>2. PICK x \in Nat, y \in Nat, z \in Nat : x = p /\ y = l /\ z = m
          BY <5>1, Zenon
        <5>3. j \in Int /\ (x + y) + 1 <= j /\ j <= x + z
          BY <3>1, <5>1, <5>2, Zenon
        <5>4. j - x \in y + 1..z /\ j - x \in 1..z /\ x + (j - x) = j
          BY <5>3
        <5> QED BY <5>2, <5>4
      <4> HIDE DEF b
      <4> QED BY <2>2, <4>1
    <3>2. CASE p + m < j
      <4>1. k = n
        BY <2>2, <2>3, <2>6, <2>8, <3>2
      <4> DEFINE b == j - Len(J)
      <4>2. b \in 1..Len(t) /\ Len(J) + b = j
        BY <1>4, <1>11, <2>2, <2>4, <2>5, <2>8, <3>2, <4>1
      <4> HIDE DEF b
      <4> QED BY <1>4, <1>11, <4>2
    <3> QED BY <2>2, <2>8, <3>1, <3>2
  <2> QED BY <2>1, <2>8, <2>9 DEF end, p, q
<1>17. Laid(T, escaped, ws, at, o)
  BY <1>11, <1>12, <1>13, <1>16 DEF Laid, n
<1> QED BY <1>17

\* What a text can be split into: just the first word of several may be empty.
Splittable(ws) ==
  \A k \in 1..Len(ws) : /\ ws[k] # << >> \/ (k = 1 /\ Len(ws) > 1)
                        /\ \A i \in 1..Len(ws[k]) : ws[k][i] # Byte255

\* The texts of the model are laid out as the words that they are made of.
LEMMA TextLaid ==
  InitText => Splittable(words) /\ \E at, o : Laid(rest, escapes, words, at, o)
<1> SUFFICES ASSUME InitText
             PROVE  Splittable(words) /\ \E at, o : Laid(rest, escapes, words, at, o)
  OBVIOUS
<1>1. escapes \in BOOLEAN /\ words \in Texts(escapes)
  BY DEF InitText
<1>2. PICK sep \in Seps, tail \in Seps \cup {<< >>}, loose \in BOOLEAN :
        rest = Join([k \in DOMAIN words |-> IF escapes THEN Escaped(words[k], loose) ELSE words[k]], sep)
               \o (IF words = << >> THEN << >> ELSE tail)
  BY Zenon DEF InitText
<1>3. PICK ws, e : ws = words /\ e = escapes
  OBVIOUS
<1>4. e \in BOOLEAN /\ ws \in Texts(e)
  BY <1>1, <1>3
<1>5. /\ ws \in Seq(Seq(STRING))
      /\ \A k \in DOMAIN ws :
           /\ ws[k] = <<>> => k = 1 /\ Len(ws) > 1
           /\ \A i \in DOMAIN ws[k] : ws[k][i] # Byte255 /\ (e \/ ws[k][i] \notin Delims)
  BY <1>4, TextAssumption, Zenon
<1> DEFINE n == Len(ws)
           raw == [k \in DOMAIN ws |-> IF e THEN Escaped(ws[k], loose) ELSE ws[k]]
<1>6. n \in Nat /\ DOMAIN ws = 1..n /\ ws = [k \in 1..n |-> ws[k]]
  BY <1>5
<1>7. \A k \in 1..n : ws[k] \in Seq(STRING) /\ DOMAIN ws[k] = 1..Len(ws[k])
  BY <1>5
<1>8. \A k \in 1..n : ws[k] \in Seq(Chars)
  <2>1. \A w \in Seq(STRING) : w \in Seq(Chars)
    BY DEF Chars
  <2> QED BY <1>7, <2>1
<1>9. Splittable(ws)
  BY <1>5, <1>6, <1>7 DEF Splittable
<1>10. sep \in Seq(Delims) /\ sep # << >> /\ tail \in Seq(Delims)
  <2>1. << >> \in Seq(Delims)
    OBVIOUS
  <2> QED BY <2>1, TextAssumption
<1> DEFINE Words == Seq(Chars)
<1>11. DOMAIN raw = 1..n /\ raw = [k \in 1..n |-> raw[k]]
       /\ \A k \in 1..n : raw[k] = IF e THEN Escaped(ws[k], loose) ELSE ws[k]
  BY <1>6, Zenon
<1> HIDE DEF n, raw
<1>12. ASSUME NEW k \in 1..n
       PROVE  raw[k] \in Words /\ SpelledTo(raw[k], ws[k], e, 0, Len(raw[k]))
  <2> DEFINE w == ws[k]
  <2>1. w \in Seq(Chars)
    BY <1>8
  <2>2. CASE e
    <3>1. raw[k] = Escaped(w, loose) /\ e = TRUE
      BY <1>4, <1>11, <2>2
    <3> HIDE DEF w
    <3>2. Escaped(w, loose) \in Words /\ SpelledTo(Escaped(w, loose), w, TRUE, 0, Len(Escaped(w, loose)))
      BY <2>1, EscapedSpells
    <3>3. raw[k] \in Words /\ SpelledTo(raw[k], w, e, 0, Len(raw[k]))
      BY <3>1, <3>2, Zenon
    <3> QED BY <3>3 DEF w
  <2>3. CASE ~e
    <3>1. raw[k] = w /\ e = FALSE
      BY <1>4, <1>11, <2>3
    <3>2. \A i \in 1..Len(w) : w[i] \notin Delims
      BY <1>5, <1>6, <1>7, <2>3
    <3> HIDE DEF w
    <3>3. SpelledTo(w, w, FALSE, 0, Len(w))
      BY <2>1, <3>2, PlainSpells
    <3>4. raw[k] \in Words /\ SpelledTo(raw[k], w, e, 0, Len(raw[k]))
      BY <2>1, <3>1, <3>3, Zenon
    <3> QED BY <3>4 DEF w
  <2> QED BY <2>2, <2>3
<1>13. ws \in Seq(Seq(Chars)) /\ raw \in Seq(Seq(Chars)) /\ Len(raw) = Len(ws)
  <2>1. \A k \in 1..n : ws[k] \in Words
    BY <1>8
  <2> HIDE DEF Words
  <2>2. ws \in [1..n -> Words] /\ raw \in [1..n -> Words]
    BY <1>6, <1>11, <1>12, <2>1
  <2>3. ws \in Seq(Words) /\ raw \in Seq(Words) /\ Len(raw) = n
    BY <1>6, <2>2
  <2> QED BY <2>3 DEF n, Words
<1> DEFINE T == Join(raw, sep) \o (IF ws = << >> THEN << >> ELSE tail)
<1>14. rest = T
  BY <1>2, <1>3, Zenon DEF raw
<1>15. \E at, o : Laid(T, e, ws, at, o)
  <2>1. \A k \in 1..Len(ws) : SpelledTo(raw[k], ws[k], e, 0, Len(raw[k]))
    BY <1>12, Zenon DEF n
  <2>2. PICK t : t = T
    OBVIOUS
  <2> QED BY <1>4, <1>10, <1>13, <2>1, <2>2, JoinLaid
<1> HIDE DEF T
<1> QED BY <1>3, <1>9, <1>14, <1>15, Zenon

-----------------------------------------------------------------------------
(***************************************************************************)
(* What getline meets.                                                     *)
(***************************************************************************)

\* The separators are neither the backslash nor the byte that ends a text.
LEMMA Separators == Byte255 \notin Delims /\ "\\" \notin Delims /\ Byte255 # "\\"
<1>1. Byte255 # "\\"
  BY DEF Byte255
<1> QED BY <1>1, TextAssumption

\* In a word: a character that is no separator, or the backslash before one that may be.
LEMMA InsideWord ==
  ASSUME NEW T, NEW e, NEW ws, NEW at, NEW o, Laid(T, e, ws, at, o), Splittable(ws),
         NEW k \in 1..Len(ws), NEW i \in 1..Len(ws[k])
  PROVE  /\ o[k][i - 1] \in Nat /\ o[k][i] \in Nat
         /\ o[k][i - 1] + 1 <= o[k][i] /\ o[k][i] <= Len(T)
         /\ \/ Bare(T, ws[k], e, i, o[k][i - 1], o[k][i])
            \/ Paired(T, ws[k], e, i, o[k][i - 1], o[k][i])
         /\ T[o[k][i - 1] + 1] \notin Delims \cup {Byte255}
         /\ ws[k][i] # Byte255
<1> DEFINE w == ws[k]
           r == o[k]
<1>1. Spells(T, w, e, at[k], r)
  BY Zenon DEF Laid
<1>2. w[i] # Byte255
  BY DEF Splittable
<1>3. w \in Seq(Chars) /\ Len(w) \in Nat /\ i \in 1..Len(w)
  BY DEF Laid
<1> HIDE DEF w, r
<1>4. i - 1 \in 0..Len(w) /\ i \in 0..Len(w)
  BY <1>3
<1>5. /\ r[i - 1] \in Nat /\ r[i] \in Nat /\ r[i] <= Len(T)
      /\ Bare(T, w, e, i, r[i - 1], r[i]) \/ Paired(T, w, e, i, r[i - 1], r[i])
  BY <1>1, <1>3, <1>4 DEF Spells
<1>6. r[i - 1] + 1 <= r[i] /\ T[r[i - 1] + 1] \notin Delims \cup {Byte255}
  <2>1. CASE Bare(T, w, e, i, r[i - 1], r[i])
    <3>1. r[i] = r[i - 1] + 1 /\ T[r[i]] = w[i] /\ w[i] \notin Delims
      BY <2>1, Zenon DEF Bare
    <3>2. T[r[i - 1] + 1] = w[i]
      BY <3>1
    <3> QED BY <1>2, <1>5, <3>1, <3>2
  <2>2. CASE Paired(T, w, e, i, r[i - 1], r[i])
    <3>1. r[i] = r[i - 1] + 2 /\ T[r[i - 1] + 1] = "\\"
      BY <2>2, Zenon DEF Paired
    <3>2. T[r[i - 1] + 1] \notin Delims \cup {Byte255}
      BY <3>1, Separators, Zenon
    <3>3. r[i] = r[i - 1] + 2
      BY <3>1
    <3> QED BY <1>5, <3>2, <3>3
  <2> QED BY <1>5, <2>1, <2>2
<1> QED BY <1>2, <1>5, <1>6 DEF w, r

\* Behind a word: separators, up to the next word or to the end.
LEMMA BehindWord ==
  ASSUME NEW T, NEW e, NEW ws, NEW at, NEW o, Laid(T, e, ws, at, o), Splittable(ws),
         NEW k \in 1..Len(ws), NEW end, end = o[k][Len(ws[k])]
  PROVE  /\ end \in Nat /\ at[k + 1] \in Nat /\ end <= at[k + 1] /\ at[k + 1] <= Len(T)
         /\ \A j \in end + 1..at[k + 1] : T[j] \in Delims /\ T[j] # Byte255
         /\ k < Len(ws) => /\ end < at[k + 1] /\ at[k + 1] < Len(T)
                           /\ o[k + 1][0] = at[k + 1]
                           /\ T[at[k + 1] + 1] \notin Delims
         /\ k = Len(ws) => at[k + 1] = Len(T)
<1> DEFINE q == at[k + 1]
           n == Len(ws)
<1>1. /\ T \in Seq(Chars) /\ ws \in Seq(Seq(Chars))
      /\ at \in [1..n + 1 -> Nat] /\ at[n + 1] = Len(T)
      /\ Spells(T, ws[k], e, at[k], o[k])
      /\ end <= q /\ q <= Len(T)
      /\ k < n => end < q
      /\ \A j \in end + 1..q : T[j] \in Delims
  BY Zenon DEF Laid
<1>2. n \in Nat /\ Len(T) \in Nat /\ k + 1 \in 1..n + 1 /\ Len(ws[k]) \in Nat
  BY <1>1
<1>3. q \in Nat
  BY <1>1, <1>2
<1>4. end \in Nat
  <2>1. o[k] \in [0..Len(ws[k]) -> Nat]
    BY <1>1, Zenon DEF Spells
  <2>2. Len(ws[k]) \in 0..Len(ws[k])
    BY <1>2
  <2> QED BY <2>1, <2>2
<1>5. k = n => q = Len(T)
  BY <1>1
<1>6. ASSUME k < n PROVE q < Len(T) /\ o[k + 1][0] = q /\ T[q + 1] \notin Delims
  <2>1. k + 1 \in 1..n /\ k + 1 # 1
    BY <1>2, <1>6
  <2>2. Spells(T, ws[k + 1], e, q, o[k + 1])
    BY <1>1, <2>1, Zenon DEF Laid
  <2>3. o[k + 1][0] = q
    BY <2>2, Zenon DEF Spells
  <2>4. ws[k + 1] # << >> /\ ws[k + 1] \in Seq(Chars)
    BY <1>1, <2>1 DEF Splittable
  <2>5. 1 \in 1..Len(ws[k + 1]) /\ 1 - 1 = 0
    BY <2>4
  <2>6. /\ o[k + 1][1 - 1] \in Nat /\ o[k + 1][1] \in Nat
        /\ o[k + 1][1 - 1] + 1 <= o[k + 1][1] /\ o[k + 1][1] <= Len(T)
        /\ T[o[k + 1][1 - 1] + 1] \notin Delims \cup {Byte255}
    BY <2>1, <2>5, InsideWord, Zenon
  <2>7. o[k + 1][1 - 1] = q
    BY <2>3, <2>5
  <2>8. q + 1 <= o[k + 1][1] /\ T[q + 1] \notin Delims \cup {Byte255}
    BY <2>6, <2>7, Zenon
  <2> HIDE DEF q
  <2>9. q < Len(T)
    <3>1. o[k + 1][1] \in Nat /\ o[k + 1][1] <= Len(T)
      BY <2>6, Zenon
    <3> QED BY <1>2, <1>3, <2>8, <3>1
  <2> QED BY <2>3, <2>8, <2>9
<1> HIDE DEF q, n
<1>7. \A j \in end + 1..q : T[j] \in Delims /\ T[j] # Byte255
  BY <1>1, Separators
<1>8. /\ end \in Nat /\ q \in Nat /\ end <= q /\ q <= Len(T)
      /\ \A j \in end + 1..q : T[j] \in Delims /\ T[j] # Byte255
      /\ k < n => /\ end < q /\ q < Len(T) /\ o[k + 1][0] = q /\ T[q + 1] \notin Delims
      /\ k = n => q = Len(T)
  BY <1>1, <1>3, <1>4, <1>5, <1>6, <1>7, Zenon
<1> QED BY <1>8, Zenon DEF q, n

\* What is left to read of T behind place p.
LEMMA RestRead ==
  ASSUME NEW T \in Seq(Chars), NEW p \in Nat, p <= Len(T),
         NEW r, r = SubSeq(T, p + 1, Len(T))
  PROVE  /\ (r = << >>) <=> (p = Len(T))
         /\ p < Len(T) => /\ Head(r) = T[p + 1]
                          /\ Tail(r) = SubSeq(T, (p + 1) + 1, Len(T))
<1>1. r \in Seq(Chars) /\ Len(r) = Len(T) - p /\ Len(T) \in Nat
  OBVIOUS
<1>2. (r = << >>) <=> (p = Len(T))
  <2>1. (r = << >>) <=> (Len(r) = 0)
    BY <1>1, EmptySeq
  <2> QED BY <1>1, <2>1
<1>3. ASSUME p < Len(T)
      PROVE  Head(r) = T[p + 1] /\ Tail(r) = SubSeq(T, (p + 1) + 1, Len(T))
  <2>1. p + 1 \in 1..Len(T) /\ Len(T) \in (p + 1)..Len(T)
    BY <1>1, <1>3
  <2> QED BY <2>1, HeadTailOfSubSeq
<1> QED BY <1>2, <1>3

\* What is read of a word.
LEMMA PrefixRead ==
  ASSUME NEW w \in Seq(Chars)
  PROVE  /\ SubSeq(w, 1, 0) = << >> /\ SubSeq(w, 1, Len(w)) = w
         /\ \A i \in 1..Len(w) : /\ SubSeq(w, 1, i - 1) \o <<w[i]>> = SubSeq(w, 1, i)
                                 /\ i < Len(w) => SubSeq(w, 1, i - 1) \o <<w[i], w[i + 1]>> = SubSeq(w, 1, i + 1)
<1>1. SubSeq(w, 1, 0) = << >> /\ SubSeq(w, 1, Len(w)) = w
  OBVIOUS
<1>2. ASSUME NEW i \in 1..Len(w) PROVE SubSeq(w, 1, i - 1) \o <<w[i]>> = SubSeq(w, 1, i)
  OBVIOUS
<1>3. ASSUME NEW i \in 1..Len(w), i < Len(w)
      PROVE  SubSeq(w, 1, i - 1) \o <<w[i], w[i + 1]>> = SubSeq(w, 1, i + 1)
  OBVIOUS
<1> QED BY <1>1, <1>2, <1>3

-----------------------------------------------------------------------------
(***************************************************************************)
(* The invariant of the reader.                                            *)
(***************************************************************************)

\* Before character i + 1 of word k, which is one escape or more ahead.
InWord(o, k, p, i) ==
  /\ loop = "token" /\ esc = FALSE
  /\ i \in 0..Len(words[k]) /\ p = o[k][i]
  /\ str = SubSeq(words[k], 1, i) /\ extracted = i

\* Behind the backslash of a pair.
AtPair(T, o, k, p, i) ==
  /\ loop = "token" /\ esc = TRUE
  /\ i \in 1..Len(words[k]) /\ p = o[k][i - 1] + 1
  /\ Paired(T, words[k], escapes, i, o[k][i - 1], o[k][i])
  /\ str = SubSeq(words[k], 1, i - 1) /\ extracted = i - 1

\* Behind a backslash that is a character of the word.
AtBackslash(T, o, k, p, i) ==
  /\ loop = "token" /\ esc = TRUE
  /\ i \in 1..Len(words[k]) /\ p = o[k][i]
  /\ escapes /\ words[k][i] = "\\" /\ Bare(T, words[k], escapes, i, o[k][i - 1], o[k][i])
  /\ str = SubSeq(words[k], 1, i - 1) /\ extracted = i - 1

\* Behind word k, at or between the separators.
Behind(at, o, k, p) ==
  /\ loop = "delims" /\ esc = FALSE /\ str = words[k]
  /\ o[k][Len(words[k])] <= p /\ p <= at[k + 1]
  /\ extracted = Len(words[k]) + (p - o[k][Len(words[k])])

\* Word k is being read, and p characters of T are.
WordRead(T, at, o, k, p) ==
  /\ k \in 1..Len(words) /\ tokens = SubSeq(words, 1, k - 1)
  /\ p \in Nat /\ p <= Len(T) /\ rest = SubSeq(T, p + 1, Len(T))
  /\ \/ \E i \in 0..Len(words[k]) : InWord(o, k, p, i)
     \/ \E i \in 1..Len(words[k]) : AtPair(T, o, k, p, i) \/ AtBackslash(T, o, k, p, i)
     \/ Behind(at, o, k, p)

\* Nothing is left.
AllRead ==
  /\ tokens = words /\ rest = << >> /\ esc = FALSE
  /\ loop \in {"token", "delims", "done"}
  /\ str = << >> /\ extracted = 0

\* The text is laid out as the words, and what is read of it was taken as it stands there.
Following ==
  /\ Splittable(words)
  /\ \E T, at, o : /\ Laid(T, escapes, words, at, o)
                   /\ AllRead \/ \E k, p : WordRead(T, at, o, k, p)

\* A text that nothing was read of is laid out as its words.
LEMMA FollowingInit ==
  InitText => Following
<1> SUFFICES ASSUME InitText PROVE Following
  OBVIOUS
<1>1. Splittable(words) /\ \E at, o : Laid(rest, escapes, words, at, o)
  BY TextLaid
<1>2. PICK at, o : Laid(rest, escapes, words, at, o)
  BY <1>1
<1>3. /\ str = << >> /\ esc = FALSE /\ extracted = 0 /\ loop = "token" /\ tokens = << >>
  BY DEF InitText
<1>4. PICK T, ws, e : T = rest /\ ws = words /\ e = escapes
  OBVIOUS
<1>5. Laid(T, e, ws, at, o)
  BY <1>2, <1>4
<1>6. /\ T \in Seq(Chars) /\ ws \in Seq(Seq(Chars))
      /\ at \in [1..Len(ws) + 1 -> Nat] /\ at[1] = 0 /\ at[Len(ws) + 1] = Len(T)
  BY <1>5, Zenon DEF Laid
<1>7. Len(ws) \in Nat /\ Len(T) \in Nat
  BY <1>6
<1>8. CASE Len(ws) = 0
  <2>1. Len(T) = 0
    BY <1>6, <1>8
  <2>2. ws = << >> /\ T = << >>
    BY <1>6, <1>8, <2>1, EmptySeq
  <2>3. AllRead
    BY <1>3, <1>4, <2>2 DEF AllRead
  <2> QED BY <1>1, <1>4, <1>5, <2>3, Zenon DEF Following
<1>9. CASE Len(ws) # 0
  <2>1. 1 \in 1..Len(ws)
    BY <1>7, <1>9
  <2>2. Spells(T, ws[1], e, at[1], o[1])
    BY <1>5, <2>1, Zenon DEF Laid
  <2>3. o[1][0] = 0
    BY <1>6, <2>2, Zenon DEF Spells
  <2>4. ws[1] \in Seq(Chars)
    BY <1>6, <2>1
  <2>5. 0 \in 0..Len(ws[1]) /\ SubSeq(ws[1], 1, 0) = << >>
    BY <2>4
  <2>6. InWord(o, 1, 0, 0)
    BY <1>3, <1>4, <2>3, <2>5, Zenon DEF InWord
  <2>7. SubSeq(ws, 1, 1 - 1) = << >> /\ T = SubSeq(T, 0 + 1, Len(T))
    BY <1>6
  <2>8. 0 \in Nat /\ 0 <= Len(T)
    BY <1>7
  <2>9. WordRead(T, at, o, 1, 0)
    BY <1>3, <1>4, <2>1, <2>5, <2>6, <2>7, <2>8, Zenon DEF WordRead
  <2> QED BY <1>1, <1>4, <1>5, <2>9, Zenon DEF Following
<1> QED BY <1>8, <1>9

\* What the next character is, where a word is being read.
LEMMA InWordNext ==
  ASSUME NEW T, NEW at, NEW o, Laid(T, escapes, words, at, o), Splittable(words),
         NEW k \in 1..Len(words), NEW p \in Nat, rest = SubSeq(T, p + 1, Len(T)),
         NEW i \in 0..Len(words[k]), InWord(o, k, p, i)
  PROVE  /\ i < Len(words[k]) =>
              /\ p < Len(T) /\ rest # << >> /\ Head(rest) = T[p + 1]
              /\ Tail(rest) = SubSeq(T, (p + 1) + 1, Len(T))
              /\ ~AtEnd /\ ~AtDelim
              /\ i + 1 \in 1..Len(words[k])
              /\ \/ Bare(T, words[k], escapes, i + 1, p, o[k][i + 1])
                 \/ Paired(T, words[k], escapes, i + 1, p, o[k][i + 1])
              /\ o[k][i + 1] \in Nat /\ p + 1 <= o[k][i + 1] /\ o[k][i + 1] <= Len(T)
         /\ i = Len(words[k]) => AtEnd \/ AtDelim
<1> DEFINE w == words[k]
<1>1. /\ T \in Seq(Chars) /\ w \in Seq(Chars) /\ p = o[k][i]
      /\ Len(w) \in Nat /\ Len(T) \in Nat
  <2>1. T \in Seq(Chars) /\ words \in Seq(Seq(Chars))
    BY Zenon DEF Laid
  <2>2. p = o[k][i]
    BY Zenon DEF InWord
  <2> QED BY <2>1, <2>2
<1>2. ASSUME i < Len(w)
      PROVE  /\ p < Len(T) /\ rest # << >> /\ Head(rest) = T[p + 1]
             /\ Tail(rest) = SubSeq(T, (p + 1) + 1, Len(T))
             /\ ~AtEnd /\ ~AtDelim
             /\ i + 1 \in 1..Len(w)
             /\ \/ Bare(T, w, escapes, i + 1, p, o[k][i + 1])
                \/ Paired(T, w, escapes, i + 1, p, o[k][i + 1])
             /\ o[k][i + 1] \in Nat /\ p + 1 <= o[k][i + 1] /\ o[k][i + 1] <= Len(T)
  <2> DEFINE j == i + 1
             q == o[k][j]
  <2>1. j \in 1..Len(w) /\ j - 1 = i
    BY <1>1, <1>2
  <2> HIDE DEF j
  <2>2. /\ o[k][j - 1] \in Nat /\ q \in Nat
        /\ o[k][j - 1] + 1 <= q /\ q <= Len(T)
        /\ Bare(T, w, escapes, j, o[k][j - 1], q) \/ Paired(T, w, escapes, j, o[k][j - 1], q)
        /\ T[o[k][j - 1] + 1] \notin Delims \cup {Byte255}
    BY <2>1, InsideWord, Zenon
  <2>3. o[k][j - 1] = p
    BY <1>1, <2>1
  <2>4. /\ q \in Nat /\ p + 1 <= q /\ q <= Len(T)
        /\ Bare(T, w, escapes, j, p, q) \/ Paired(T, w, escapes, j, p, q)
        /\ T[p + 1] \notin Delims \cup {Byte255}
    BY <2>2, <2>3, Zenon
  <2> HIDE DEF q, w
  <2>5. p < Len(T)
    BY <1>1, <2>4
  <2>6. rest # << >> /\ Head(rest) = T[p + 1] /\ Tail(rest) = SubSeq(T, (p + 1) + 1, Len(T))
    <3>1. PICK r : r = rest
      OBVIOUS
    <3>2. p <= Len(T) /\ p # Len(T)
      BY <1>1, <2>5
    <3> QED BY <1>1, <2>5, <3>1, <3>2, RestRead
  <2>7. ~AtEnd /\ ~AtDelim
    BY <2>4, <2>6, Zenon DEF AtEnd, AtDelim
  <2> QED BY <2>1, <2>4, <2>5, <2>6, <2>7, Zenon DEF j, q
<1>3. ASSUME i = Len(w) PROVE AtEnd \/ AtDelim
  <2> DEFINE end == o[k][Len(w)]
  <2>1. end = p
    BY <1>1, <1>3
  <2>2. PICK n : n = p
    OBVIOUS
  <2>3. /\ n \in Nat /\ at[k + 1] \in Nat /\ n <= at[k + 1] /\ at[k + 1] <= Len(T)
        /\ \A j \in n + 1..at[k + 1] : T[j] \in Delims /\ T[j] # Byte255
        /\ k < Len(words) => n < at[k + 1]
        /\ k = Len(words) => at[k + 1] = Len(T)
    <3>1. n = o[k][Len(words[k])]
      BY <2>1, <2>2
    <3> QED BY <3>1, BehindWord, SMTT(40)
  <2>4. CASE p < at[k + 1]
    <3>1. p + 1 \in n + 1..at[k + 1]
      BY <2>2, <2>3, <2>4
    <3>2. T[p + 1] \in Delims
      BY <2>3, <3>1
    <3>3. p < Len(T) /\ p <= Len(T) /\ p # Len(T)
      BY <1>1, <2>3, <2>4, SMTT(40)
    <3>4. rest # << >> /\ Head(rest) = T[p + 1]
      <4>1. PICK r : r = rest
        OBVIOUS
      <4> QED BY <1>1, <3>3, <4>1, RestRead
    <3> QED BY <3>2, <3>4, Zenon DEF AtEnd, AtDelim
  <2>5. CASE ~(p < at[k + 1])
    <3>1. k = Len(words)
      <4>1. Len(words) \in Nat
        <5>1. words \in Seq(Seq(Chars))
          BY Zenon DEF Laid
        <5> QED BY <5>1
      <4>2. ~(k < Len(words))
        BY <2>2, <2>3, <2>5
      <4> QED BY <4>1, <4>2
    <3>2. p = Len(T)
      BY <1>1, <2>2, <2>3, <2>5, <3>1
    <3>3. rest = << >>
      <4>1. PICK r : r = rest
        OBVIOUS
      <4>2. p <= Len(T)
        BY <1>1, <3>2
      <4> QED BY <1>1, <3>2, <4>1, <4>2, RestRead
    <3> QED BY <3>3, Zenon DEF AtEnd
  <2> QED BY <2>4, <2>5
<1> QED BY <1>2, <1>3, Zenon

\* What follows of the invariant, for a step that leaves the words as they are.
LEMMA FollowingNext ==
  ASSUME NEW T, NEW at, NEW o, Laid(T, escapes, words, at, o), Splittable(words),
         UNCHANGED <<words, escapes>>,
         AllRead' \/ \E k, p : WordRead(T, at, o, k, p)'
  PROVE  Following'
<1>1. Laid(T, escapes, words, at, o)' /\ Splittable(words)'
  BY DEF Laid, Splittable, Spells, Bare, Paired, Chars
<1> QED BY <1>1, Zenon DEF Following

\* The types of what is read.
LEMMA ReadTypes ==
  ASSUME NEW T, NEW at, NEW o, Laid(T, escapes, words, at, o), NEW k \in 1..Len(words)
  PROVE  /\ T \in Seq(Chars) /\ Len(T) \in Nat
         /\ words \in Seq(Seq(Chars)) /\ Len(words) \in Nat /\ k \in Nat
         /\ words[k] \in Seq(Chars) /\ Len(words[k]) \in Nat
<1>1. T \in Seq(Chars) /\ words \in Seq(Seq(Chars))
  BY Zenon DEF Laid
<1> QED BY <1>1

\* A backslash that opens an escaped pair leaves the reader between the two.
LEMMA FollowingBackslash ==
  ASSUME Following, Backslash
  PROVE  Following'
<1>1. PICK T, at, o : /\ Laid(T, escapes, words, at, o)
                      /\ AllRead \/ \E k, p : WordRead(T, at, o, k, p)
  BY Zenon DEF Following
<1>2. Splittable(words)
  BY Zenon DEF Following
<1>3. /\ loop = "token" /\ ~AtEnd /\ escapes /\ ~esc /\ Head(rest) = "\\"
      /\ esc' = TRUE /\ rest' = Tail(rest)
      /\ UNCHANGED <<words, escapes, str, extracted, loop, tokens>>
  BY Zenon DEF Backslash
<1>4. ~AllRead
  BY <1>3, Zenon DEF AllRead, AtEnd
<1>5. PICK k, p : WordRead(T, at, o, k, p)
  BY <1>1, <1>4
<1>6. /\ k \in 1..Len(words) /\ tokens = SubSeq(words, 1, k - 1)
      /\ p \in Nat /\ p <= Len(T) /\ rest = SubSeq(T, p + 1, Len(T))
  BY <1>5, Zenon DEF WordRead
<1>7. PICK i \in 0..Len(words[k]) : InWord(o, k, p, i)
  BY <1>3, <1>5, Zenon DEF WordRead, AtPair, AtBackslash, Behind
<1>8. i < Len(words[k])
  <2>1. ~(AtEnd \/ AtDelim)
    BY <1>3, Separators, Zenon DEF AtDelim
  <2>2. i # Len(words[k])
    BY <1>1, <1>2, <1>6, <1>7, <2>1, InWordNext
  <2>3. Len(words[k]) \in Nat
    BY <1>1, <1>6, ReadTypes
  <2> QED BY <2>2, <2>3
<1>9. /\ p < Len(T) /\ rest # << >> /\ Head(rest) = T[p + 1]
      /\ Tail(rest) = SubSeq(T, (p + 1) + 1, Len(T))
      /\ i + 1 \in 1..Len(words[k])
      /\ \/ Bare(T, words[k], escapes, i + 1, p, o[k][i + 1])
         \/ Paired(T, words[k], escapes, i + 1, p, o[k][i + 1])
      /\ o[k][i + 1] \in Nat /\ p + 1 <= o[k][i + 1] /\ o[k][i + 1] <= Len(T)
  BY <1>1, <1>2, <1>6, <1>7, <1>8, InWordNext
<1> DEFINE j == i + 1
           P == p + 1
<1>10. p = o[k][i] /\ str = SubSeq(words[k], 1, i) /\ extracted = i
  BY <1>7, Zenon DEF InWord
<1>11. j - 1 = i /\ P \in Nat /\ P <= Len(T)
  <2>1. Len(words[k]) \in Nat /\ Len(T) \in Nat
    BY <1>1, <1>6, ReadTypes
  <2>2. i \in Int
    BY <2>1
  <2> QED BY <1>6, <1>9, <2>1, <2>2, SMTT(40)
<1>12. j \in 1..Len(words[k]) /\ rest' = SubSeq(T, P + 1, Len(T))
  BY <1>3, <1>9, Zenon
<1>13. AtPair(T, o, k, P, j)' \/ AtBackslash(T, o, k, P, j)'
  <2>1. /\ loop' = "token" /\ esc' = TRUE /\ words' = words /\ escapes' = escapes
        /\ str' = SubSeq(words[k], 1, j - 1) /\ extracted' = j - 1 /\ o[k][j - 1] = p
    BY <1>3, <1>10, <1>11, Zenon
  <2>2. CASE Paired(T, words[k], escapes, j, p, o[k][j])
    <3>1. Paired(T, words'[k], escapes', j, o[k][j - 1], o[k][j])
      BY <2>1, <2>2, Zenon
    <3>2. P = o[k][j - 1] + 1 /\ j \in 1..Len(words'[k])
      BY <1>12, <2>1, Zenon
    <3>3. str' = SubSeq(words'[k], 1, j - 1)
      BY <2>1, Zenon
    <3>4. AtPair(T, o, k, P, j)'
      BY <2>1, <3>1, <3>2, <3>3, Zenon DEF AtPair
    <3> QED BY <3>4
  <2>3. CASE Bare(T, words[k], escapes, j, p, o[k][j])
    <3>1. Bare(T, words'[k], escapes', j, o[k][j - 1], o[k][j])
      BY <2>1, <2>3, Zenon
    <3>2. P = o[k][j] /\ T[P] = words'[k][j] /\ j \in 1..Len(words'[k])
      BY <1>12, <2>1, <2>3, Zenon DEF Bare
    <3>3. str' = SubSeq(words'[k], 1, j - 1)
      BY <2>1, Zenon
    <3>4. escapes' /\ words'[k][j] = "\\"
      BY <1>3, <1>9, <3>2, Zenon
    <3>5. AtBackslash(T, o, k, P, j)'
      BY <2>1, <3>1, <3>2, <3>3, <3>4, Zenon DEF AtBackslash
    <3> QED BY <3>5
  <2> QED BY <1>9, <2>2, <2>3, Zenon
<1>14. WordRead(T, at, o, k, P)'
  <2>1. k \in 1..Len(words') /\ tokens' = SubSeq(words', 1, k - 1) /\ j \in 1..Len(words'[k])
    BY <1>3, <1>6, <1>12, Zenon
  <2> HIDE DEF j, P
  <2> QED BY <1>11, <1>12, <1>13, <2>1, Zenon DEF WordRead
<1>15. UNCHANGED <<words, escapes>>
  BY <1>3, Zenon
<1> QED BY <1>1, <1>2, <1>14, <1>15, FollowingNext

\* A character that is taken is the next of the word.
LEMMA CharacterTaken ==
  ASSUME NEW T, NEW at, NEW o, Laid(T, escapes, words, at, o), Splittable(words),
         NEW k, NEW p, WordRead(T, at, o, k, p), Character
  PROVE  \E j \in 0..Len(words[k]) : /\ p < Len(T) /\ p + 1 = o[k][j]
                                     /\ str' = SubSeq(words[k], 1, j) /\ extracted' = j
<1>1. /\ loop = "token" /\ ~AtEnd /\ (~AtDelim \/ esc)
      /\ ~(escapes /\ ~esc /\ Head(rest) = "\\")
      /\ str' = str \o Kept(Head(rest)) /\ extracted' = extracted + Len(Kept(Head(rest)))
  BY Zenon DEF Character
<1>2. /\ k \in 1..Len(words) /\ p \in Nat /\ p <= Len(T) /\ rest = SubSeq(T, p + 1, Len(T))
      /\ \/ \E i \in 0..Len(words[k]) : InWord(o, k, p, i)
         \/ \E i \in 1..Len(words[k]) : AtPair(T, o, k, p, i)
         \/ \E i \in 1..Len(words[k]) : AtBackslash(T, o, k, p, i)
  BY <1>1, Zenon DEF WordRead, Behind
<1>3. /\ T \in Seq(Chars) /\ Len(T) \in Nat
      /\ words[k] \in Seq(Chars) /\ Len(words[k]) \in Nat
  BY <1>2, ReadTypes
<1>4. PICK w : w = words[k]
  OBVIOUS
<1>5. /\ w \in Seq(Chars) /\ Len(w) \in Nat
      /\ \A i \in 1..Len(w) : /\ SubSeq(w, 1, i - 1) \o <<w[i]>> = SubSeq(w, 1, i)
                              /\ i < Len(w) => SubSeq(w, 1, i - 1) \o <<w[i], w[i + 1]>> = SubSeq(w, 1, i + 1)
  BY <1>3, <1>4, PrefixRead
<1>6. ASSUME p < Len(T) PROVE Head(rest) = T[p + 1]
  <2>1. PICK r : r = rest
    OBVIOUS
  <2> QED BY <1>2, <1>3, <1>6, <2>1, RestRead
<1>7. ASSUME NEW i \in 0..Len(words[k]), InWord(o, k, p, i)
      PROVE  \E j \in 0..Len(words[k]) : /\ p < Len(T) /\ p + 1 = o[k][j]
                                         /\ str' = SubSeq(words[k], 1, j) /\ extracted' = j
  <2>1. esc = FALSE /\ str = SubSeq(w, 1, i) /\ extracted = i
    BY <1>4, <1>7, Zenon DEF InWord
  <2>2. i # Len(words[k])
    BY <1>1, <1>2, <1>7, <2>1, InWordNext
  <2>3. i < Len(words[k]) /\ i \in Nat
    BY <1>3, <2>2
  <2> DEFINE j == i + 1
  <2>4. /\ p < Len(T) /\ Head(rest) = T[p + 1] /\ j \in 1..Len(words[k])
        /\ Bare(T, words[k], escapes, j, p, o[k][j]) \/ Paired(T, words[k], escapes, j, p, o[k][j])
    BY <1>2, <1>7, <2>3, InWordNext, ZenonT(60)
  <2>5. j - 1 = i /\ j \in 0..Len(words[k]) /\ i + 1 = j
    BY <1>3, <2>3
  <2> HIDE DEF j
  <2>6. ~Paired(T, words[k], escapes, j, p, o[k][j])
    BY <1>1, <2>1, <2>4, Zenon DEF Paired
  <2>7. o[k][j] = p + 1 /\ T[p + 1] = w[j]
    <3>1. o[k][j] = p + 1 /\ T[o[k][j]] = words[k][j]
      BY <2>4, <2>6, Zenon DEF Bare
    <3> QED BY <1>4, <3>1
  <2>8. Kept(Head(rest)) = <<w[j]>>
    BY <2>1, <2>4, <2>7, Zenon DEF Kept
  <2>9. str' = SubSeq(w, 1, j - 1) \o <<w[j]>> /\ extracted' = i + Len(<<w[j]>>)
    BY <1>1, <2>1, <2>5, <2>8, Zenon
  <2>10. str' = SubSeq(w, 1, j) /\ extracted' = j
    <3>1. Len(<<w[j]>>) = 1
      OBVIOUS
    <3> QED BY <1>4, <1>5, <2>4, <2>5, <2>9, <3>1
  <2> QED BY <1>4, <2>4, <2>5, <2>7, <2>10
<1>8. ASSUME NEW i \in 1..Len(words[k]), AtPair(T, o, k, p, i)
      PROVE  \E j \in 0..Len(words[k]) : /\ p < Len(T) /\ p + 1 = o[k][j]
                                         /\ str' = SubSeq(words[k], 1, j) /\ extracted' = j
  <2>1. /\ p = o[k][i - 1] + 1 /\ o[k][i] = o[k][i - 1] + 2
        /\ T[o[k][i]] = w[i] /\ w[i] \in Delims \cup {"\\"}
        /\ str = SubSeq(w, 1, i - 1) /\ extracted = i - 1
    BY <1>4, <1>8, Zenon DEF AtPair, Paired
  <2>2. o[k][i - 1] \in Nat /\ o[k][i] \in Nat /\ o[k][i] <= Len(T)
    BY <1>2, InsideWord
  <2>3. p + 1 = o[k][i] /\ p < Len(T)
    <3>1. PICK x \in Nat, y \in Nat : x = o[k][i - 1] /\ y = o[k][i]
      BY <2>2
    <3>2. p = x + 1 /\ y = x + 2 /\ y <= Len(T)
      BY <2>1, <2>2, <3>1, Zenon
    <3>3. p + 1 = y /\ p < Len(T)
      BY <1>3, <3>2
    <3> QED BY <3>1, <3>3
  <2>4. Head(rest) = w[i]
    BY <1>6, <2>1, <2>3
  <2>5. Kept(Head(rest)) = <<w[i]>>
    BY <2>1, <2>4, Zenon DEF Kept
  <2>6. str' = SubSeq(w, 1, i - 1) \o <<w[i]>> /\ extracted' = (i - 1) + Len(<<w[i]>>)
    BY <1>1, <2>1, <2>5, Zenon
  <2>7. str' = SubSeq(w, 1, i) /\ extracted' = i
    <3>1. Len(<<w[i]>>) = 1 /\ i \in 1..Len(w) /\ (i - 1) + 1 = i
      BY <1>3, <1>4
    <3> QED BY <1>5, <2>6, <3>1
  <2>8. i \in 0..Len(words[k])
    BY <1>3
  <2> QED BY <1>4, <2>3, <2>7, <2>8
<1>9. ASSUME NEW i \in 1..Len(words[k]), AtBackslash(T, o, k, p, i)
      PROVE  \E j \in 0..Len(words[k]) : /\ p < Len(T) /\ p + 1 = o[k][j]
                                         /\ str' = SubSeq(words[k], 1, j) /\ extracted' = j
  <2> DEFINE j == i + 1
  <2>1. /\ esc = TRUE /\ p = o[k][i] /\ w[i] = "\\" /\ i < Len(w) /\ w[j] \notin Delims \cup {"\\"}
        /\ str = SubSeq(w, 1, i - 1) /\ extracted = i - 1
    BY <1>4, <1>9, Zenon DEF AtBackslash, Bare
  <2>2. j \in 1..Len(words[k]) /\ j - 1 = i /\ j \in 0..Len(words[k]) /\ (i - 1) + 2 = j
    BY <1>3, <1>4, <2>1
  <2> HIDE DEF j
  <2>3. /\ o[k][j] \in Nat /\ o[k][j] <= Len(T)
        /\ \/ Bare(T, words[k], escapes, j, o[k][j - 1], o[k][j])
           \/ Paired(T, words[k], escapes, j, o[k][j - 1], o[k][j])
    BY <1>2, <2>2, InsideWord
  <2>4. o[k][j - 1] = p
    BY <2>1, <2>2
  <2>5. o[k][j] = p + 1 /\ T[o[k][j]] = w[j]
    BY <1>4, <2>1, <2>3, <2>4, Zenon DEF Bare, Paired
  <2>6. p < Len(T)
    BY <1>2, <1>3, <2>3, <2>5
  <2>7. Head(rest) = w[j]
    BY <1>6, <2>5, <2>6
  <2>8. Kept(Head(rest)) = <<w[i], w[j]>>
    BY <2>1, <2>7, Zenon DEF Kept
  <2>9. str' = SubSeq(w, 1, i - 1) \o <<w[i], w[j]>> /\ extracted' = (i - 1) + Len(<<w[i], w[j]>>)
    BY <1>1, <2>1, <2>8, Zenon
  <2>10. str' = SubSeq(w, 1, j) /\ extracted' = j
    <3>1. Len(<<w[i], w[j]>>) = 2 /\ i \in 1..Len(w) /\ i < Len(w)
      BY <1>3, <1>4, <2>1
    <3>2. SubSeq(w, 1, i - 1) \o <<w[i], w[j]>> = SubSeq(w, 1, j)
      BY <1>5, <3>1 DEF j
    <3> QED BY <2>2, <2>9, <3>1, <3>2, Zenon
  <2> QED BY <1>4, <2>2, <2>5, <2>6, <2>10
<1> QED BY <1>2, <1>7, <1>8, <1>9

\* Any other character that is kept is the next one of the word.
LEMMA FollowingCharacter ==
  ASSUME Following, Character
  PROVE  Following'
<1>1. PICK T, at, o : /\ Laid(T, escapes, words, at, o)
                      /\ AllRead \/ \E k, p : WordRead(T, at, o, k, p)
  BY Zenon DEF Following
<1>2. Splittable(words)
  BY Zenon DEF Following
<1>3. /\ loop = "token" /\ ~AtEnd /\ esc' = FALSE /\ rest' = Tail(rest)
      /\ UNCHANGED <<words, escapes, loop, tokens>>
  BY Zenon DEF Character
<1>4. ~AllRead
  BY <1>3, Zenon DEF AllRead, AtEnd
<1>5. PICK k, p : WordRead(T, at, o, k, p)
  BY <1>1, <1>4
<1>6. /\ k \in 1..Len(words) /\ tokens = SubSeq(words, 1, k - 1)
      /\ p \in Nat /\ p <= Len(T) /\ rest = SubSeq(T, p + 1, Len(T))
  BY <1>5, Zenon DEF WordRead
<1>7. PICK j \in 0..Len(words[k]) : /\ p < Len(T) /\ p + 1 = o[k][j]
                                    /\ str' = SubSeq(words[k], 1, j) /\ extracted' = j
  BY <1>1, <1>2, <1>5, CharacterTaken
<1> DEFINE P == p + 1
<1>8. P \in Nat /\ P <= Len(T) /\ Tail(rest) = SubSeq(T, P + 1, Len(T))
  <2>1. T \in Seq(Chars) /\ Len(T) \in Nat
    BY <1>1, <1>6, ReadTypes
  <2>2. PICK r : r = rest
    OBVIOUS
  <2> QED BY <1>6, <1>7, <2>1, <2>2, RestRead
<1>9. InWord(o, k, P, j)'
  <2>1. loop' = "token" /\ words' = words
    BY <1>3, Zenon
  <2>2. j \in 0..Len(words'[k]) /\ str' = SubSeq(words'[k], 1, j)
    BY <1>7, <2>1, Zenon
  <2> QED BY <1>3, <1>7, <2>1, <2>2, Zenon DEF InWord
<1>10. WordRead(T, at, o, k, P)'
  <2>1. /\ k \in 1..Len(words') /\ tokens' = SubSeq(words', 1, k - 1) /\ j \in 0..Len(words'[k])
        /\ rest' = SubSeq(T, P + 1, Len(T))
    BY <1>3, <1>6, <1>7, <1>8, Zenon
  <2> HIDE DEF P
  <2> QED BY <1>8, <1>9, <2>1, Zenon DEF WordRead
<1>11. UNCHANGED <<words, escapes>>
  BY <1>3, Zenon
<1> QED BY <1>1, <1>2, <1>10, <1>11, FollowingNext

\* What ends a token stands behind the last character of a word.
LEMMA FollowingTokenEnds ==
  ASSUME Following, TokenEnds
  PROVE  Following'
<1>1. PICK T, at, o : /\ Laid(T, escapes, words, at, o)
                      /\ AllRead \/ \E k, p : WordRead(T, at, o, k, p)
  BY Zenon DEF Following
<1>2. Splittable(words)
  BY Zenon DEF Following
<1>3. /\ loop = "token" /\ (AtEnd \/ (AtDelim /\ ~esc)) /\ loop' = "delims"
      /\ UNCHANGED <<words, escapes, rest, str, esc, extracted, tokens>>
  BY Zenon DEF TokenEnds
<1>4. CASE AllRead
  <2>1. AllRead'
    BY <1>3, <1>4 DEF AllRead
  <2> QED BY <1>1, <1>2, <1>3, <2>1, FollowingNext
<1>5. ASSUME NEW k, NEW p, WordRead(T, at, o, k, p)
      PROVE  WordRead(T, at, o, k, p)'
  <2>1. /\ k \in 1..Len(words) /\ tokens = SubSeq(words, 1, k - 1)
        /\ p \in Nat /\ p <= Len(T) /\ rest = SubSeq(T, p + 1, Len(T))
    BY <1>5, Zenon DEF WordRead
  <2>2. /\ T \in Seq(Chars) /\ Len(T) \in Nat
        /\ words[k] \in Seq(Chars) /\ Len(words[k]) \in Nat
    BY <1>1, <2>1, ReadTypes
  <2>3. \A n \in Nat : n < Len(T) /\ n = p => ~(rest = << >>) /\ Head(rest) = T[n + 1]
    <3>1. PICK r : r = rest
      OBVIOUS
    <3>2. ASSUME NEW n \in Nat, n < Len(T), n = p PROVE ~(rest = << >>) /\ Head(rest) = T[n + 1]
      <4>1. n <= Len(T) /\ n # Len(T) /\ r = SubSeq(T, n + 1, Len(T))
        BY <2>1, <2>2, <3>1, <3>2
      <4>2. ~(r = << >>) /\ Head(r) = T[n + 1]
        BY <2>2, <3>2, <4>1, RestRead
      <4> QED BY <3>1, <4>2
    <3> QED BY <3>2
  <2>4. ASSUME NEW i \in 1..Len(words[k]), AtPair(T, o, k, p, i) PROVE FALSE
    <3>1. /\ esc = TRUE /\ p = o[k][i - 1] + 1 /\ o[k][i] = o[k][i - 1] + 2 /\ T[o[k][i]] = words[k][i]
      BY <2>4, Zenon DEF AtPair, Paired
    <3>2. o[k][i - 1] \in Nat /\ o[k][i] \in Nat /\ o[k][i] <= Len(T) /\ words[k][i] # Byte255
      BY <1>1, <1>2, <2>1, InsideWord
    <3>3. p + 1 = o[k][i] /\ p < Len(T)
      <4>1. PICK x \in Nat, y \in Nat : x = o[k][i - 1] /\ y = o[k][i]
        BY <3>2
      <4>2. p = x + 1 /\ y = x + 2 /\ y <= Len(T)
        BY <3>1, <3>2, <4>1, Zenon
      <4>3. p + 1 = y /\ p < Len(T)
        BY <2>2, <4>2
      <4> QED BY <4>1, <4>3
    <3>4. ~(rest = << >>) /\ Head(rest) = T[p + 1] /\ T[p + 1] # Byte255
      BY <2>1, <2>3, <3>1, <3>2, <3>3
    <3> QED BY <1>3, <3>1, <3>4, Zenon DEF AtEnd
  <2>5. ASSUME NEW i \in 1..Len(words[k]), AtBackslash(T, o, k, p, i) PROVE FALSE
    <3> DEFINE j == i + 1
    <3>1. esc = TRUE /\ p = o[k][i] /\ i < Len(words[k])
      BY <2>5, Zenon DEF AtBackslash, Bare
    <3>2. j \in 1..Len(words[k]) /\ j - 1 = i
      BY <2>2, <3>1
    <3> HIDE DEF j
    <3>3. /\ o[k][j - 1] + 1 <= o[k][j] /\ o[k][j] \in Nat /\ o[k][j] <= Len(T)
          /\ T[o[k][j - 1] + 1] \notin Delims \cup {Byte255}
      BY <1>1, <1>2, <2>1, <3>2, InsideWord
    <3>4. o[k][j - 1] = p
      BY <3>1, <3>2
    <3>5. p < Len(T) /\ T[p + 1] # Byte255
      BY <2>1, <2>2, <3>3, <3>4
    <3>6. ~(rest = << >>) /\ Head(rest) = T[p + 1]
      BY <2>1, <2>3, <3>5
    <3> QED BY <1>3, <3>1, <3>5, <3>6, Zenon DEF AtEnd
  <2>6. PICK i \in 0..Len(words[k]) : InWord(o, k, p, i)
    BY <1>3, <1>5, <2>4, <2>5, Zenon DEF WordRead, Behind
  <2>7. i = Len(words[k])
    <3>1. ~(i < Len(words[k]))
      BY <1>1, <1>2, <1>3, <2>1, <2>6, InWordNext
    <3> QED BY <2>2, <3>1
  <2>8. Behind(at, o, k, p)'
    <3> DEFINE w == words[k]
               end == o[k][Len(w)]
    <3>1. esc = FALSE /\ p = end /\ str = SubSeq(w, 1, Len(w)) /\ extracted = Len(w)
      BY <2>6, <2>7, Zenon DEF InWord
    <3>2. str = w
      <4>1. PICK v : v = w
        OBVIOUS
      <4> QED BY <2>2, <3>1, <4>1, PrefixRead
    <3>3. end \in Nat /\ end <= at[k + 1] /\ at[k + 1] \in Nat
      BY <1>1, <1>2, <2>1, BehindWord
    <3>4. end <= p /\ p <= at[k + 1] /\ extracted = Len(w) + (p - end)
      <4> HIDE DEF w, end
      <4>1. Len(w) \in Nat
        BY <2>2 DEF w
      <4> QED BY <3>1, <3>3, <4>1
    <3>5. /\ loop' = "delims" /\ esc' = esc /\ str' = str /\ words' = words /\ extracted' = extracted
      BY <1>3, Zenon
    <3> QED BY <3>1, <3>2, <3>4, <3>5, Zenon DEF Behind
  <2> QED BY <1>3, <2>1, <2>8, Zenon DEF WordRead
<1>6. CASE \E k, p : WordRead(T, at, o, k, p)
  <2>1. \E k, p : WordRead(T, at, o, k, p)'
    BY <1>5, <1>6, Zenon
  <2> QED BY <1>1, <1>2, <1>3, <2>1, FollowingNext
<1> QED BY <1>1, <1>4, <1>6

\* Where the separators end.
LEMMA BehindNext ==
  ASSUME NEW T, NEW at, NEW o, Laid(T, escapes, words, at, o), Splittable(words),
         NEW k \in 1..Len(words), NEW p \in Nat, p <= Len(T), rest = SubSeq(T, p + 1, Len(T)),
         Behind(at, o, k, p)
  PROVE  /\ o[k][Len(words[k])] \in Nat /\ at[k + 1] \in Nat /\ at[k + 1] <= Len(T)
         /\ AtDelim => p < at[k + 1] /\ Tail(rest) = SubSeq(T, (p + 1) + 1, Len(T))
         /\ ~AtDelim => p = at[k + 1]
<1> DEFINE end == o[k][Len(words[k])]
           q == at[k + 1]
<1>1. end <= p /\ p <= q
  BY Zenon DEF Behind
<1>2. /\ end \in Nat /\ q \in Nat /\ q <= Len(T)
      /\ \A j \in end + 1..q : T[j] \in Delims /\ T[j] # Byte255
      /\ k < Len(words) => q < Len(T) /\ T[q + 1] \notin Delims
      /\ k = Len(words) => q = Len(T)
  BY BehindWord
<1>3. T \in Seq(Chars) /\ Len(T) \in Nat /\ Len(words) \in Nat /\ k \in Nat /\ k <= Len(words)
  BY ReadTypes
<1> HIDE DEF end, q
<1>4. /\ (rest = << >>) <=> (p = Len(T))
      /\ p < Len(T) => Head(rest) = T[p + 1] /\ Tail(rest) = SubSeq(T, (p + 1) + 1, Len(T))
  <2>1. PICK r : r = rest
    OBVIOUS
  <2>2. r = SubSeq(T, p + 1, Len(T))
    BY <2>1
  <2>3. /\ (r = << >>) <=> (p = Len(T))
        /\ p < Len(T) => Head(r) = T[p + 1] /\ Tail(r) = SubSeq(T, (p + 1) + 1, Len(T))
    <3>1. T \in Seq(Chars) /\ p \in Nat /\ p <= Len(T)
      BY <1>3
    <3> QED BY <2>2, <3>1, RestRead, ZenonT(60)
  <2> QED BY <2>1, <2>3, Zenon
<1>5. ASSUME p < q PROVE AtDelim /\ p < Len(T)
  <2>1. p + 1 \in end + 1..q /\ p < Len(T) /\ p # Len(T)
    BY <1>1, <1>2, <1>3, <1>5
  <2>2. T[p + 1] \in Delims /\ T[p + 1] # Byte255
    BY <1>2, <2>1
  <2> QED BY <1>4, <2>1, <2>2, Zenon DEF AtDelim, AtEnd
<1>6. ASSUME ~(p < q) PROVE p = q /\ ~AtDelim
  <2>1. p = q
    BY <1>1, <1>2, <1>6
  <2>2. CASE k < Len(words)
    <3>1. p < Len(T) /\ T[p + 1] \notin Delims
      BY <1>2, <2>1, <2>2
    <3> QED BY <1>4, <2>1, <3>1, Zenon DEF AtDelim
  <2>3. CASE k = Len(words)
    <3>1. rest = << >>
      BY <1>2, <1>4, <2>1, <2>3
    <3> QED BY <2>1, <3>1, Zenon DEF AtDelim, AtEnd
  <2> QED BY <1>3, <2>2, <2>3
<1> QED BY <1>2, <1>4, <1>5, <1>6, Zenon DEF end, q

\* More separators leave the reader behind the word, or at the next one.
LEMMA FollowingSeparator ==
  ASSUME Following, Separator
  PROVE  Following'
<1>1. PICK T, at, o : /\ Laid(T, escapes, words, at, o)
                      /\ AllRead \/ \E k, p : WordRead(T, at, o, k, p)
  BY Zenon DEF Following
<1>2. Splittable(words)
  BY Zenon DEF Following
<1>3. /\ loop = "delims" /\ AtDelim /\ extracted' = extracted + 1 /\ rest' = Tail(rest)
      /\ UNCHANGED <<words, escapes, str, esc, loop, tokens>>
  BY Zenon DEF Separator
<1>4. ~AllRead
  BY <1>3, Zenon DEF AllRead, AtDelim, AtEnd
<1>5. PICK k, p : WordRead(T, at, o, k, p)
  BY <1>1, <1>4
<1>6. /\ k \in 1..Len(words) /\ tokens = SubSeq(words, 1, k - 1)
      /\ p \in Nat /\ p <= Len(T) /\ rest = SubSeq(T, p + 1, Len(T))
      /\ Behind(at, o, k, p)
  <2>1. loop # "token"
    BY <1>3
  <2> QED BY <1>5, <2>1, Zenon DEF WordRead, InWord, AtPair, AtBackslash
<1> DEFINE end == o[k][Len(words[k])]
           P == p + 1
<1>7. /\ end \in Nat /\ at[k + 1] \in Nat /\ at[k + 1] <= Len(T)
      /\ p < at[k + 1] /\ Tail(rest) = SubSeq(T, P + 1, Len(T))
  BY <1>1, <1>2, <1>3, <1>6, BehindNext
<1>8. /\ esc = FALSE /\ str = words[k] /\ end <= p /\ p <= at[k + 1]
      /\ extracted = Len(words[k]) + (p - end)
  BY <1>6, Zenon DEF Behind
<1>9. P \in Nat /\ P <= Len(T) /\ end <= P /\ P <= at[k + 1]
      /\ extracted + 1 = Len(words[k]) + (P - end)
  <2>1. Len(T) \in Nat /\ Len(words[k]) \in Nat
    BY <1>1, <1>6, ReadTypes
  <2>2. PICK a \in Nat, b \in Nat, n \in Nat, l \in Nat :
          a = end /\ b = at[k + 1] /\ n = Len(T) /\ l = Len(words[k])
    BY <1>7, <2>1, Zenon
  <2>3. p \in Nat /\ b <= n /\ p < b /\ a <= p /\ extracted = l + (p - a)
    BY <1>6, <1>7, <1>8, <2>2, Zenon
  <2>4. P \in Nat /\ P <= n /\ a <= P /\ P <= b /\ extracted + 1 = l + (P - a)
    BY <2>3
  <2> QED BY <2>2, <2>4, Zenon
<1>10. WordRead(T, at, o, k, P)'
  <2> HIDE DEF P
  <2>1. words' = words /\ loop' = "delims" /\ esc' = FALSE /\ str' = words[k]
        /\ extracted' = Len(words[k]) + (P - end)
    BY <1>3, <1>8, <1>9, Zenon
  <2>2. Behind(at, o, k, P)'
    BY <1>9, <2>1, Zenon DEF Behind
  <2>3. k \in 1..Len(words') /\ tokens' = SubSeq(words', 1, k - 1)
        /\ rest' = SubSeq(T, P + 1, Len(T))
    BY <1>3, <1>6, <1>7, Zenon
  <2> QED BY <1>9, <2>2, <2>3, Zenon DEF WordRead
<1>11. UNCHANGED <<words, escapes>>
  BY <1>3, Zenon
<1> QED BY <1>1, <1>2, <1>10, <1>11, FollowingNext

\* What is returned behind a word is the word; only at the end nothing is.
LEMMA FollowingReturn ==
  ASSUME Following, Return
  PROVE  Following'
<1>1. PICK T, at, o : /\ Laid(T, escapes, words, at, o)
                      /\ AllRead \/ \E k, p : WordRead(T, at, o, k, p)
  BY Zenon DEF Following
<1>2. Splittable(words)
  BY Zenon DEF Following
<1>3. /\ loop = "delims" /\ ~AtDelim
      /\ UNCHANGED <<words, escapes, rest>>
      /\ IF extracted > 0
         THEN /\ tokens' = Append(tokens, str)
              /\ str' = << >> /\ esc' = FALSE /\ extracted' = 0 /\ loop' = "token"
         ELSE loop' = "done" /\ UNCHANGED <<tokens, str, esc, extracted>>
  BY Zenon DEF Return
<1>4. UNCHANGED <<words, escapes>>
  BY <1>3, Zenon
<1>5. CASE AllRead
  <2>1. ~(extracted > 0)
    BY <1>5 DEF AllRead
  <2>2. loop' = "done" /\ UNCHANGED <<tokens, str, esc, extracted, words, rest>>
    BY <1>3, <2>1, Zenon
  <2>3. AllRead'
    BY <1>5, <2>2 DEF AllRead
  <2> QED BY <1>1, <1>2, <1>4, <2>3, FollowingNext
<1>6. ASSUME NEW k, NEW p, WordRead(T, at, o, k, p)
      PROVE  Following'
  <2>1. /\ k \in 1..Len(words) /\ tokens = SubSeq(words, 1, k - 1)
        /\ p \in Nat /\ p <= Len(T) /\ rest = SubSeq(T, p + 1, Len(T))
        /\ Behind(at, o, k, p)
    <3>1. loop # "token"
      BY <1>3
    <3> QED BY <1>6, <3>1, Zenon DEF WordRead, InWord, AtPair, AtBackslash
  <2>2. /\ T \in Seq(Chars) /\ Len(T) \in Nat
        /\ words \in Seq(Seq(Chars)) /\ Len(words) \in Nat /\ k \in Nat
        /\ words[k] \in Seq(Chars) /\ Len(words[k]) \in Nat
    BY <1>1, <2>1, ReadTypes
  <2> DEFINE end == o[k][Len(words[k])]
  <2>3. p = at[k + 1]
    BY <1>1, <1>2, <1>3, <2>1, BehindNext
  <2>4. /\ esc = FALSE /\ str = words[k] /\ extracted = Len(words[k]) + (p - end)
    BY <2>1, Zenon DEF Behind
  <2>5. /\ end \in Nat /\ end <= at[k + 1] /\ at[k + 1] <= Len(T)
        /\ k < Len(words) => /\ end < at[k + 1] /\ at[k + 1] < Len(T)
                             /\ o[k + 1][0] = at[k + 1]
        /\ k = Len(words) => at[k + 1] = Len(T)
    BY <1>1, <1>2, <2>1, BehindWord
  <2> HIDE DEF end
  <2>6. extracted > 0
    <3>1. CASE k < Len(words)
      <4>1. PICK a \in Nat, l \in Nat : a = end /\ l = Len(words[k])
        BY <2>2, <2>5, Zenon
      <4>2. a < p /\ extracted = l + (p - a)
        BY <2>3, <2>4, <2>5, <3>1, <4>1, Zenon
      <4> QED BY <2>1, <4>2
    <3>2. CASE k = Len(words)
      <4>1. words[k] # << >>
        BY <1>2, <2>1, <2>2, <3>2 DEF Splittable
      <4>2. Len(words[k]) > 0
        BY <2>2, <4>1, EmptySeq
      <4> QED BY <2>1, <2>2, <2>3, <2>4, <2>5, <4>2, SMTT(40)
    <3> QED BY <2>1, <2>2, <3>1, <3>2
  <2>7. /\ tokens' = Append(tokens, words[k]) /\ str' = << >> /\ esc' = FALSE
        /\ extracted' = 0 /\ loop' = "token" /\ words' = words /\ rest' = rest
    BY <1>3, <2>4, <2>6, Zenon
  <2>8. tokens' = SubSeq(words, 1, k)
    <3>1. PICK ws, w : ws = words /\ w = words[k]
      OBVIOUS
    <3> DEFINE Words == Seq(Chars)
    <3>2. ws \in Seq(Words) /\ k \in 1..Len(ws) /\ w = ws[k]
      BY <2>1, <2>2, <3>1
    <3> HIDE DEF Words
    <3>3. Append(SubSeq(ws, 1, k - 1), w) = SubSeq(ws, 1, k)
      BY <3>2
    <3> QED BY <2>1, <2>7, <3>1, <3>3
  <2>9. CASE k = Len(words)
    <3>1. tokens' = words /\ rest' = << >>
      <4>1. PICK ws : ws = words
        OBVIOUS
      <4> DEFINE Words == Seq(Chars)
      <4>2. ws \in Seq(Words)
        BY <2>2, <4>1
      <4> HIDE DEF Words
      <4>3. SubSeq(ws, 1, Len(ws)) = ws
        BY <4>2
      <4>4. p = Len(T)
        BY <2>3, <2>5, <2>9
      <4>5. rest = << >>
        <5>1. PICK r : r = rest
          OBVIOUS
        <5> QED BY <2>1, <2>2, <4>4, <5>1, RestRead
      <4> QED BY <2>7, <2>8, <2>9, <4>1, <4>3, <4>5
    <3>2. AllRead'
      BY <2>7, <3>1 DEF AllRead
    <3> QED BY <1>1, <1>2, <1>4, <3>2, FollowingNext
  <2>10. CASE k < Len(words)
    <3> DEFINE K == k + 1
    <3>1. K \in 1..Len(words) /\ K - 1 = k /\ p = o[K][0]
      BY <2>1, <2>2, <2>3, <2>5, <2>10
    <3>2. words[K] \in Seq(Chars)
      BY <2>2, <3>1
    <3> HIDE DEF K
    <3>3. 0 \in 0..Len(words[K]) /\ SubSeq(words[K], 1, 0) = << >>
      BY <3>2, PrefixRead
    <3>4. InWord(o, K, p, 0)'
      <4>1. 0 \in 0..Len(words'[K]) /\ str' = SubSeq(words'[K], 1, 0)
        BY <2>7, <3>3, Zenon
      <4> QED BY <2>7, <3>1, <4>1, Zenon DEF InWord
    <3>5. /\ K \in 1..Len(words') /\ tokens' = SubSeq(words', 1, K - 1)
          /\ rest' = SubSeq(T, p + 1, Len(T)) /\ 0 \in 0..Len(words'[K])
      BY <2>1, <2>7, <2>8, <3>1, <3>3, Zenon
    <3>6. WordRead(T, at, o, K, p)'
      BY <2>1, <3>4, <3>5, Zenon DEF WordRead
    <3> QED BY <1>1, <1>2, <1>4, <3>6, FollowingNext
  <2> QED BY <2>1, <2>2, <2>9, <2>10
<1> QED BY <1>1, <1>5, <1>6

\* Every turn of the loops of getline goes on in the text as it is laid out.
LEMMA FollowingGetline ==
  ASSUME Following, Getline
  PROVE  Following'
<1>1. Backslash \/ Character \/ TokenEnds \/ Separator \/ Return
  BY Zenon DEF Getline
<1> QED BY <1>1, FollowingBackslash, FollowingCharacter, FollowingTokenEnds, FollowingSeparator,
           FollowingReturn, Zenon

\* A step that is not one of getline leaves all of it as it is.
LEMMA FollowingKept ==
  ASSUME Following, UNCHANGED textVars
  PROVE  Following'
<1>1. UNCHANGED <<words, escapes, rest, str, esc, extracted, loop, tokens, trimmed>>
  BY Zenon DEF textVars
<1>2. PICK T, at, o : /\ Laid(T, escapes, words, at, o)
                      /\ AllRead \/ \E k, p : WordRead(T, at, o, k, p)
  BY Zenon DEF Following
<1>3. AllRead' \/ \E k, p : WordRead(T, at, o, k, p)'
  <2>1. CASE AllRead
    BY <1>1, <2>1 DEF AllRead
  <2>2. ASSUME NEW k, NEW p, WordRead(T, at, o, k, p) PROVE WordRead(T, at, o, k, p)'
    <3>1. \A i : InWord(o, k, p, i) => InWord(o, k, p, i)'
      BY <1>1 DEF InWord
    <3>2. \A i : AtPair(T, o, k, p, i) => AtPair(T, o, k, p, i)'
      BY <1>1 DEF AtPair
    <3>3. \A i : AtBackslash(T, o, k, p, i) => AtBackslash(T, o, k, p, i)'
      BY <1>1 DEF AtBackslash
    <3>4. Behind(at, o, k, p) => Behind(at, o, k, p)'
      BY <1>1 DEF Behind
    <3>5. words' = words /\ tokens' = tokens /\ rest' = rest
      BY <1>1
    <3> QED BY <2>2, <3>1, <3>2, <3>3, <3>4, <3>5, Zenon DEF WordRead
  <2> QED BY <1>2, <2>1, <2>2
<1>4. Splittable(words) /\ UNCHANGED <<words, escapes>>
  BY <1>1, Zenon DEF Following
<1> QED BY <1>2, <1>3, <1>4, FollowingNext

\* The steps of the whole reader.
LEMMA FollowingStep ==
  ASSUME Following, [Next]_vars
  PROVE  Following'
<1>1. CASE Getline
  BY <1>1, FollowingGetline
<1>2. CASE UNCHANGED textVars
  BY <1>2, FollowingKept
<1>3. Getline \/ UNCHANGED textVars
  BY Zenon DEF Next, NextToken, CastToken, GoOn, vars
<1> QED BY <1>1, <1>2, <1>3

\* Every text is split into the words that it was made of.
THEOREM TokensAreWordsCorrect == Spec => []TokensAreWords
<1>1. Init => Following
  BY FollowingInit DEF Init
<1>2. Following /\ [Next]_vars => Following'
  BY FollowingStep
<1>3. Following => TokensAreWords
  <2> SUFFICES ASSUME Following, loop = "done" PROVE tokens = words
    BY DEF TokensAreWords
  <2>1. PICK T, at, o : AllRead \/ \E k, p : WordRead(T, at, o, k, p)
    BY Zenon DEF Following
  <2>2. loop # "token" /\ loop # "delims"
    OBVIOUS
  <2>3. AllRead
    BY <2>1, <2>2, Zenon DEF WordRead, InWord, AtPair, AtBackslash, Behind
  <2> QED BY <2>3 DEF AllRead
<1> QED BY <1>1, <1>2, <1>3, PTL DEF Spec

-----------------------------------------------------------------------------
(***************************************************************************)
(* Trimming.                                                               *)
(***************************************************************************)

\* The least and the greatest of a set of places.
LEMMA Extremes ==
  ASSUME NEW n \in Nat, NEW I \in SUBSET (1..n), I # {}
  PROVE  /\ Min(I) \in I /\ \A i \in I : Min(I) <= i
         /\ Max(I) \in I /\ \A i \in I : i <= Max(I)
<1>1. \E x \in I : \A y \in I : x <= y
  <2>1. I \subseteq Nat
    OBVIOUS
  <2> QED BY <2>1, LeastNumber
<1>2. \E x \in I : \A y \in I : x >= y
  <2> DEFINE J == {n - i : i \in I}
  <2>1. J \subseteq Nat /\ J # {}
    <3>1. \A i \in I : n - i \in Nat
      OBVIOUS
    <3> QED BY <3>1
  <2> HIDE DEF J
  <2>2. PICK j \in J : \A m \in J : j <= m
    BY <2>1, LeastNumber
  <2>3. PICK x \in I : j = n - x
    BY <2>2 DEF J
  <2>4. ASSUME NEW y \in I PROVE x >= y
    <3>1. n - y \in J
      BY DEF J
    <3>2. n - x <= n - y
      BY <2>2, <2>3, <3>1
    <3> QED BY <3>2
  <2> QED BY <2>4
<1>3. Min(I) \in I /\ \A i \in I : Min(I) <= i
  BY <1>1, Zenon DEF Min
<1>4. Max(I) \in I /\ \A i \in I : Max(I) >= i
  BY <1>2, Zenon DEF Max
<1>5. \A i \in I : Max(I) >= i <=> i <= Max(I)
  BY <1>4
<1> QED BY <1>3, <1>4, <1>5

\* The places of a text that hold something other than c, the first and the last of them.
Others(s, c) == {i \in 1..Len(s) : s[i] # c}
FirstOther(s, c) == IF Others(s, c) # {} THEN Min(Others(s, c)) ELSE 0
LastOther(s, c) == IF Others(s, c) # {} THEN Max(Others(s, c)) ELSE 0

\* The first and the last character that differ from c, if there are any.
LEMMA OthersFound ==
  ASSUME NEW S, NEW s \in Seq(S), NEW c
  PROVE  /\ Len(s) \in Nat
         /\ \/ /\ FirstOther(s, c) = 0 /\ LastOther(s, c) = 0
               /\ \A i \in 1..Len(s) : s[i] = c
            \/ /\ FirstOther(s, c) \in 1..Len(s) /\ LastOther(s, c) \in 1..Len(s)
               /\ FirstOther(s, c) <= LastOther(s, c)
               /\ s[FirstOther(s, c)] # c /\ s[LastOther(s, c)] # c
               /\ \A i \in 1..Len(s) : s[i] # c => FirstOther(s, c) <= i /\ i <= LastOther(s, c)
<1> DEFINE I == Others(s, c)
<1>1. Len(s) \in Nat /\ I \in SUBSET (1..Len(s))
  BY DEF Others
<1>2. CASE I = {}
  <2>1. FirstOther(s, c) = 0 /\ LastOther(s, c) = 0
    BY <1>2, Zenon DEF FirstOther, LastOther
  <2>2. \A i \in 1..Len(s) : s[i] = c
    BY <1>2, Zenon DEF Others
  <2> QED BY <1>1, <2>1, <2>2
<1>3. CASE I # {}
  <2>1. FirstOther(s, c) = Min(I) /\ LastOther(s, c) = Max(I)
    BY <1>3, Zenon DEF FirstOther, LastOther
  <2>2. \A i : i \in I <=> i \in 1..Len(s) /\ s[i] # c
    BY Zenon DEF Others
  <2> HIDE DEF I
  <2>3. /\ Min(I) \in I /\ \A i \in I : Min(I) <= i
        /\ Max(I) \in I /\ \A i \in I : i <= Max(I)
    BY <1>1, <1>3, Extremes
  <2>4. Min(I) <= Max(I)
    BY <2>3
  <2> QED BY <1>1, <2>1, <2>2, <2>3, <2>4
<1> QED BY <1>2, <1>3

\* The text of s that is left when the places before b and behind e are dropped.
LEMMA TrimPlaces ==
  ASSUME NEW s, NEW lr
  PROVE  /\ TrimCopy(s, lr) =
              SubSeq(s, IF lr = "right" \/ FirstOther(s, Space) = 0 THEN 1 ELSE FirstOther(s, Space),
                        IF lr = "left" THEN Len(s) ELSE LastOther(s, Space))
         /\ LeftTrim(s) = IF FirstOther(s, Space) = 0 THEN << >>
                          ELSE SubSeq(s, FirstOther(s, Space), Len(s))
         /\ RightTrim(s) = SubSeq(s, 1, LastOther(s, Space))
BY Zenon DEF TrimCopy, LeftTrim, RightTrim, SelectInSeq, SelectLastInSeq, FirstOther, LastOther, Others

\* A copy that is trimmed is what trimming in place leaves, but at the left of white space.
LEMMA TrimCopyAgrees ==
  ASSUME NEW S, NEW s \in Seq(S), NEW lr \in Sides
  PROVE  TrimCopy(s, lr) = IF lr = "left" /\ RightTrim(s) = << >> THEN s ELSE TrimInPlace(s, lr)
<1> DEFINE f == FirstOther(s, Space)
           l == LastOther(s, Space)
           n == Len(s)
<1>1. /\ n \in Nat
      /\ \/ f = 0 /\ l = 0
         \/ /\ f \in 1..n /\ l \in 1..n /\ f <= l /\ s[f] # Space /\ s[l] # Space
            /\ \A i \in 1..n : s[i] # Space => f <= i /\ i <= l
  BY OthersFound
<1>2. RightTrim(s) = SubSeq(s, 1, l)
  BY TrimPlaces
<1>3. LeftTrim(s) = IF f = 0 THEN << >> ELSE SubSeq(s, f, n)
  BY TrimPlaces, Zenon
<1>4. TrimCopy(s, lr) = SubSeq(s, IF lr = "right" \/ f = 0 THEN 1 ELSE f, IF lr = "left" THEN n ELSE l)
  BY TrimPlaces, Zenon
<1>5. lr = "left" \/ lr = "right" \/ lr = "both"
  BY Zenon DEF Sides
<1>6. /\ lr = "left" => TrimInPlace(s, lr) = LeftTrim(s)
      /\ lr = "right" => TrimInPlace(s, lr) = RightTrim(s)
      /\ lr = "both" => TrimInPlace(s, lr) = LeftTrim(RightTrim(s))
  BY DEF TrimInPlace
<1> HIDE DEF f, l, n
<1>7. n = Len(s) /\ SubSeq(s, 1, n) = s
  BY DEF n
<1>8. (RightTrim(s) = << >>) <=> (l = 0)
  <2>1. l \in 0..n
    BY <1>1
  <2>2. Len(SubSeq(s, 1, l)) = l /\ (l = 0 => SubSeq(s, 1, l) = << >>)
    BY <1>7, <2>1
  <2>3. Len(<< >>) = 0
    OBVIOUS
  <2> QED BY <1>2, <2>2, <2>3
<1>9. CASE lr = "left"
  <2>1. TrimCopy(s, lr) = SubSeq(s, IF f = 0 THEN 1 ELSE f, n)
    BY <1>4, <1>9
  <2>2. CASE l = 0
    BY <1>1, <1>7, <1>8, <1>9, <2>1, <2>2
  <2>3. CASE l # 0
    <3>1. f # 0
      BY <1>1, <2>3
    <3>2. TrimInPlace(s, lr) = SubSeq(s, f, n) /\ TrimCopy(s, lr) = SubSeq(s, f, n)
      BY <1>3, <1>6, <1>9, <2>1, <3>1, Zenon
    <3> QED BY <1>8, <2>3, <3>2, Zenon
  <2> QED BY <2>2, <2>3
<1>10. CASE lr = "right"
  BY <1>2, <1>4, <1>6, <1>10
<1>11. CASE lr = "both"
  <2>1. TrimCopy(s, lr) = SubSeq(s, IF f = 0 THEN 1 ELSE f, l)
    BY <1>4, <1>11
  <2> DEFINE t == SubSeq(s, 1, l)
             g == FirstOther(t, Space)
  <2>2. TrimInPlace(s, lr) = LeftTrim(t) /\ LeftTrim(t) = IF g = 0 THEN << >> ELSE SubSeq(t, g, Len(t))
    BY <1>2, <1>6, <1>11, TrimPlaces, Zenon
  <2>3. t \in Seq(S) /\ Len(t) = l /\ \A i \in 1..l : t[i] = s[i]
    BY <1>1, <1>7
  <2>4. \/ g = 0 /\ \A i \in 1..Len(t) : t[i] = Space
        \/ /\ g \in 1..Len(t) /\ t[g] # Space
           /\ \A i \in 1..Len(t) : t[i] # Space => g <= i
    BY <2>3, OthersFound
  <2> HIDE DEF t, g
  <2>5. CASE f = 0
    <3>1. l = 0
      BY <1>1, <2>5
    <3>2. \A i \in 1..Len(t) : FALSE
      BY <2>3, <3>1
    <3>3. g = 0
      BY <2>4, <3>2
    <3>4. SubSeq(s, 1, 0) = << >>
      BY <1>7
    <3> QED BY <1>11, <2>1, <2>2, <2>5, <3>1, <3>3, <3>4
  <2>6. CASE f # 0
    <3>1. f \in 1..n /\ l \in 1..n /\ f <= l /\ s[f] # Space
          /\ \A i \in 1..n : s[i] # Space => f <= i
      BY <1>1, <2>6
    <3>2. g = f
      <4>1. f \in 1..Len(t) /\ t[f] # Space
        BY <2>3, <3>1
      <4>2. g \in 1..Len(t) /\ t[g] # Space /\ g <= f
        BY <2>4, <4>1
      <4>3. g \in 1..n /\ s[g] # Space
        BY <1>1, <2>3, <3>1, <4>2
      <4>4. f <= g
        BY <3>1, <4>3
      <4> QED BY <3>1, <4>2, <4>4
    <3>3. SubSeq(t, f, l) = SubSeq(s, f, l)
      <4>1. PICK x, y, u, v : x = s /\ y = t /\ u = SubSeq(t, f, l) /\ v = SubSeq(s, f, l)
        OBVIOUS
      <4>2. /\ u \in Seq(S) /\ Len(u) = l - f + 1 /\ \A i \in 1..l - f + 1 : u[i] = t[f + i - 1]
        BY <2>3, <3>1, <4>1
      <4>3. /\ v \in Seq(S) /\ Len(v) = l - f + 1 /\ \A i \in 1..l - f + 1 : v[i] = s[f + i - 1]
        BY <1>7, <3>1, <4>1
      <4>4. \A i \in 1..l - f + 1 : f + i - 1 \in 1..l
        BY <3>1
      <4>5. \A i \in 1..Len(u) : u[i] = v[i]
        BY <2>3, <4>2, <4>3, <4>4
      <4>6. u = v
        BY <4>2, <4>3, <4>5, SeqEqual
      <4> QED BY <4>1, <4>6
    <3> QED BY <1>11, <2>1, <2>2, <2>3, <2>6, <3>2, <3>3
  <2> QED BY <2>5, <2>6
<1> QED BY <1>5, <1>9, <1>10, <1>11

\* Tokens are made of characters, as the words that they are are.
LEMMA TokensTyped ==
  Following => tokens \in Seq(Seq(Chars))
<1> SUFFICES ASSUME Following PROVE tokens \in Seq(Seq(Chars))
  OBVIOUS
<1>1. PICK T, at, o : /\ Laid(T, escapes, words, at, o)
                      /\ AllRead \/ \E k, p : WordRead(T, at, o, k, p)
  BY Zenon DEF Following
<1> DEFINE Words == Seq(Chars)
<1>2. words \in Seq(Words)
  BY <1>1, Zenon DEF Laid
<1> HIDE DEF Words
<1>3. CASE AllRead
  BY <1>2, <1>3 DEF AllRead, Words
<1>4. ASSUME NEW k, NEW p, WordRead(T, at, o, k, p) PROVE tokens \in Seq(Words)
  <2>1. k \in 1..Len(words) /\ tokens = SubSeq(words, 1, k - 1)
    BY <1>4, Zenon DEF WordRead
  <2> QED BY <1>2, <2>1
<1> QED BY <1>1, <1>3, <1>4 DEF Words

\* The same of the next state.
LEMMA TokensTypedNext ==
  Following' => tokens' \in Seq(Seq(Chars))
<1>1. (Following => tokens \in Seq(Seq(Chars)))'
  BY TokensTyped, PTL
<1> QED BY <1>1 DEF Chars

\* A text as it is trimmed by copy on each of its sides, and on both.
Trims(s) == [lr \in Sides |-> TrimCopy(s, lr)]

\* The tokens grow by one at a time, of a text that is not over, and each is trimmed.
LEMMA TokensGrow ==
  Getline =>
    \/ UNCHANGED <<tokens, trimmed>>
    \/ /\ tokens' = Append(tokens, str) /\ trimmed' = Append(trimmed, Trims(str))
       /\ loop' = "token"
BY Zenon DEF Getline, Backslash, Character, TokenEnds, Separator, Return, Trimmed, Trims

\* Every token is trimmed as it is put out.
Trimming ==
  /\ DOMAIN trimmed = DOMAIN tokens /\ trimmed \in Seq({Trims(s) : s \in Seq(Chars)})
  /\ \A k \in DOMAIN tokens : trimmed[k] = Trims(tokens[k])

\* Each step keeps what is trimmed what the tokens give.
LEMMA TrimmingStep ==
  ASSUME Following, Trimming, [Next]_vars
  PROVE  Trimming'
<1>1. CASE UNCHANGED <<tokens, trimmed>>
  BY <1>1 DEF Trimming
<1>2. CASE /\ tokens' = Append(tokens, str) /\ trimmed' = Append(trimmed, Trims(str))
  <2> DEFINE Words == Seq(Chars)
             Trimmeds == {Trims(s) : s \in Words}
  <2>1. Following'
    BY FollowingStep
  <2>2. PICK t, ts, rs, r : t = str /\ ts = tokens /\ rs = trimmed /\ r = Trims(str)
    OBVIOUS
  <2>3. ts \in Seq(Words) /\ rs \in Seq(Trimmeds) /\ DOMAIN rs = DOMAIN ts
        /\ \A k \in DOMAIN ts : rs[k] = Trims(ts[k])
    BY <2>2, TokensTyped, Zenon DEF Trimming
  <2>4. Append(ts, t) \in Seq(Words)
    <3>1. tokens' \in Seq(Seq(Chars))
      BY <2>1, TokensTypedNext
    <3> QED BY <1>2, <2>2, <3>1
  <2> HIDE DEF Words
  <2>5. t \in Words
    <3>1. Len(ts) + 1 \in 1..Len(Append(ts, t)) /\ Append(ts, t)[Len(ts) + 1] = t
      BY <2>3
    <3> QED BY <2>4, <3>1
  <2>6. r \in Trimmeds
    BY <2>2, <2>5
  <2> HIDE DEF Trimmeds
  <2>7. /\ Append(rs, r) \in Seq(Trimmeds) /\ DOMAIN Append(rs, r) = DOMAIN Append(ts, t)
        /\ Len(ts) \in Nat /\ DOMAIN ts = 1..Len(ts) /\ DOMAIN Append(ts, t) = 1..Len(ts) + 1
        /\ Append(rs, r)[Len(ts) + 1] = r /\ Append(ts, t)[Len(ts) + 1] = t
        /\ \A k \in 1..Len(ts) : Append(rs, r)[k] = rs[k] /\ Append(ts, t)[k] = ts[k]
    <3>1. Len(rs) = Len(ts) /\ DOMAIN rs = 1..Len(rs) /\ Len(rs) \in Nat /\ Len(ts) \in Nat
      BY <2>3
    <3> QED BY <2>3, <2>5, <2>6, <3>1
  <2>8. \A k \in DOMAIN Append(ts, t) : Append(rs, r)[k] = Trims(Append(ts, t)[k])
    <3>1. \A k \in 1..Len(ts) + 1 : k \in 1..Len(ts) \/ k = Len(ts) + 1
      BY <2>7
    <3>2. r = Trims(t)
      BY <2>2
    <3> QED BY <2>3, <2>7, <3>1, <3>2
  <2>9. tokens' = Append(ts, t) /\ trimmed' = Append(rs, r)
    BY <1>2, <2>2
  <2> QED BY <2>7, <2>8, <2>9, Zenon DEF Trimming, Words, Trimmeds
<1>3. Getline \/ UNCHANGED <<tokens, trimmed>>
  BY Zenon DEF Next, NextToken, CastToken, GoOn, vars, textVars
<1> QED BY <1>1, <1>2, <1>3, TokensGrow

\* Every token is trimmed alike by both ways, but for white space at its left.
THEOREM TrimsAgreeCorrect == Spec => []TrimsAgree
<1>1. Init => Following /\ Trimming
  <2> SUFFICES ASSUME Init PROVE Following /\ Trimming
    OBVIOUS
  <2>1. Following
    BY FollowingInit DEF Init
  <2>2. tokens = << >> /\ trimmed = << >>
    BY Zenon DEF Init, InitText
  <2>3. Trimming
    BY <2>2 DEF Trimming
  <2> QED BY <2>1, <2>3
<1>2. Following /\ Trimming /\ [Next]_vars => (Following /\ Trimming)'
  BY FollowingStep, TrimmingStep
<1>3. Following /\ Trimming => TrimsAgree
  <2> SUFFICES ASSUME Following, Trimming, NEW k \in DOMAIN tokens, NEW lr \in Sides
               PROVE  trimmed[k][lr] = IF lr = "left" /\ RightTrim(tokens[k]) = << >>
                                       THEN tokens[k] ELSE TrimInPlace(tokens[k], lr)
    BY Zenon DEF TrimsAgree
  <2>1. trimmed[k][lr] = TrimCopy(tokens[k], lr)
    BY Zenon DEF Trimming, Trims
  <2>2. PICK s : s = tokens[k]
    OBVIOUS
  <2>3. s \in Seq(Chars)
    BY <2>2, TokensTyped
  <2>4. TrimCopy(s, lr) = IF lr = "left" /\ RightTrim(s) = << >> THEN s ELSE TrimInPlace(s, lr)
    BY <2>3, TrimCopyAgrees
  <2> QED BY <2>1, <2>2, <2>4, Zenon
<1> QED BY <1>1, <1>2, <1>3, PTL DEF Spec

-----------------------------------------------------------------------------
(***************************************************************************)
(* Conversions.                                                            *)
(***************************************************************************)

\* The digits that a text begins with.
LEMMA TakenDigits ==
  ASSUME NEW S, NEW s \in Seq(S)
  PROVE  /\ Taken(s) \in 0..Len(s)
         /\ \A i \in 1..Taken(s) : s[i] \in Digits
         /\ Taken(s) < Len(s) => s[Taken(s) + 1] \notin Digits
<1> DEFINE I == {i \in 1..Len(s) : s[i] \notin Digits}
<1>1. Taken(s) = IF I # {} THEN (IF Min(I) = 0 THEN Len(s) ELSE Min(I) - 1)
                 ELSE (IF 0 = 0 THEN Len(s) ELSE 0 - 1)
  BY Zenon DEF Taken, SelectInSeq
<1>2. Len(s) \in Nat /\ I \in SUBSET (1..Len(s))
  OBVIOUS
<1>3. \A i : i \in I <=> i \in 1..Len(s) /\ s[i] \notin Digits
  OBVIOUS
<1> HIDE DEF I
<1>4. CASE I = {}
  <2>1. Taken(s) = Len(s)
    BY <1>1, <1>4
  <2> QED BY <1>2, <1>3, <1>4, <2>1
<1>5. CASE I # {}
  <2>1. Min(I) \in I /\ \A i \in I : Min(I) <= i
    BY <1>2, <1>5, Extremes
  <2>2. Min(I) \in 1..Len(s) /\ s[Min(I)] \notin Digits
    BY <1>3, <2>1
  <2>3. Taken(s) = Min(I) - 1
    BY <1>1, <1>5, <2>2
  <2>4. \A i \in 1..Min(I) - 1 : s[i] \in Digits
    BY <1>2, <1>3, <2>1, <2>2
  <2>5. Min(I) - 1 \in 0..Len(s) /\ (Min(I) - 1) + 1 = Min(I)
    BY <1>2, <2>2
  <2> QED BY <2>2, <2>3, <2>4, <2>5
<1> QED BY <1>4, <1>5

\* White space is dropped from the left.
LEMMA StrippedText ==
  ASSUME NEW S, NEW s \in Seq(S)
  PROVE  /\ Stripped(s) \in Seq(S)
         /\ Stripped(s) = IF FirstOther(s, Blank) = 0 THEN << >> ELSE SubSeq(s, FirstOther(s, Blank), Len(s))
         /\ (Stripped(s) = << >>) <=> (\A i \in 1..Len(s) : s[i] = Blank)
         /\ Stripped(s) # << >> => Stripped(s)[1] # Blank
<1> DEFINE f == FirstOther(s, Blank)
           n == Len(s)
           t == Stripped(s)
<1>1. t = IF f = 0 THEN << >> ELSE SubSeq(s, f, n)
  BY Zenon DEF Stripped, SelectInSeq, FirstOther, Others
<1>2. /\ n \in Nat
      /\ \/ f = 0 /\ \A i \in 1..n : s[i] = Blank
         \/ f \in 1..n /\ s[f] # Blank
  BY OthersFound
<1> HIDE DEF f, t
<1>3. CASE f = 0
  <2>1. t = << >> /\ << >> \in Seq(S)
    BY <1>1, <1>3
  <2>2. \A i \in 1..n : s[i] = Blank
    BY <1>2, <1>3
  <2> QED BY <1>1, <2>1, <2>2 DEF f, t
<1>4. CASE f # 0
  <2>1. f \in 1..n /\ s[f] # Blank /\ t = SubSeq(s, f, n)
    BY <1>1, <1>2, <1>4
  <2>2. t \in Seq(S) /\ Len(t) = n - f + 1 /\ t[1] = s[f]
    BY <1>2, <2>1
  <2>3. t # << >>
    <3>1. Len(t) # 0
      BY <1>2, <2>1, <2>2
    <3>2. Len(<< >>) = 0
      OBVIOUS
    <3> QED BY <3>1, <3>2, Zenon
  <2> QED BY <1>1, <2>1, <2>2, <2>3 DEF f, t
<1> QED BY <1>3, <1>4

\* Dropped from the right, by turning the text round twice, it leaves all up to the last
\* character that is none.
LEMMA StrippedRight ==
  ASSUME NEW S, NEW s \in Seq(S)
  PROVE  Reverse(Stripped(Reverse(s))) = SubSeq(s, 1, LastOther(s, Blank))
<1> DEFINE n == Len(s)
           r == Reverse(s)
           f == FirstOther(r, Blank)
           l == LastOther(s, Blank)
           t == Stripped(r)
<1>1. n \in Nat
  OBVIOUS
<1>2. r = [i \in 1..n |-> s[(n - i) + 1]]
  BY DEF Reverse
<1>3. r \in Seq(S) /\ Len(r) = n /\ \A i \in 1..n : r[i] = s[(n - i) + 1]
  <2>1. \A i \in 1..n : (n - i) + 1 \in 1..n
    BY <1>1
  <2>2. \A i \in 1..n : s[(n - i) + 1] \in S
    BY <2>1
  <2> HIDE DEF r, n
  <2> QED BY <1>1, <1>2, <2>2
<1>4. \/ l = 0 /\ \A i \in 1..n : s[i] = Blank
      \/ /\ l \in 1..n /\ s[l] # Blank
         /\ \A i \in 1..n : s[i] # Blank => i <= l
  BY OthersFound
<1>5. \/ f = 0 /\ \A i \in 1..Len(r) : r[i] = Blank
      \/ /\ f \in 1..Len(r) /\ r[f] # Blank
         /\ \A i \in 1..Len(r) : r[i] # Blank => f <= i
  BY <1>3, OthersFound
<1>6. t = IF f = 0 THEN << >> ELSE SubSeq(r, f, Len(r))
  BY <1>3, StrippedText
<1> HIDE DEF n, r, f, l, t
<1>7. CASE l = 0
  <2>1. \A i \in 1..n : r[i] = Blank
    <3>1. \A i \in 1..n : (n - i) + 1 \in 1..n
      BY <1>1
    <3> QED BY <1>3, <1>4, <1>7, <3>1
  <2>2. f = 0
    BY <1>3, <1>5, <2>1
  <2>3. t = << >>
    BY <1>6, <2>2
  <2>4. Reverse(t) = << >>
    BY <2>3 DEF Reverse
  <2>5. SubSeq(s, 1, 0) = << >>
    OBVIOUS
  <2> QED BY <1>7, <2>4, <2>5 DEF l, r, t
<1>8. CASE l # 0
  <2>1. l \in 1..n /\ s[l] # Blank /\ \A i \in 1..n : s[i] # Blank => i <= l
    BY <1>1, <1>4, <1>8
  <2>2. f \in 1..n /\ f = (n - l) + 1
    <3> DEFINE g == (n - l) + 1
    <3>1. g \in 1..n /\ (n - g) + 1 = l
      BY <1>1, <2>1
    <3> HIDE DEF g
    <3>2. r[g] # Blank
      BY <1>3, <2>1, <3>1
    <3>3. f \in 1..n /\ r[f] # Blank /\ f <= g
      BY <1>3, <1>5, <3>1, <3>2
    <3>4. (n - f) + 1 \in 1..n /\ s[(n - f) + 1] # Blank
      BY <1>1, <1>3, <3>3
    <3>5. (n - f) + 1 <= l
      BY <2>1, <3>4
    <3>6. f = g
      BY <1>1, <2>1, <3>1, <3>3, <3>5
    <3> QED BY <3>1, <3>6 DEF g
  <2>3. t = SubSeq(r, f, n) /\ f # 0
    <3>1. f # 0 /\ Len(r) = n
      BY <1>1, <1>3, <2>2
    <3> QED BY <1>6, <3>1, Zenon
  <2>4. /\ t \in Seq(S) /\ Len(t) = l
        /\ \A i \in 1..l : t[i] = r[(f + i) - 1]
    BY <1>1, <1>3, <2>1, <2>2, <2>3
  <2>5. Reverse(t) = [i \in 1..l |-> t[(l - i) + 1]]
    BY <2>4 DEF Reverse
  <2>6. ASSUME NEW i \in 1..l PROVE t[(l - i) + 1] = s[i]
    <3>1. (l - i) + 1 \in 1..l /\ (f + ((l - i) + 1)) - 1 \in 1..n
          /\ (n - ((f + ((l - i) + 1)) - 1)) + 1 = i
      BY <1>1, <2>1, <2>2
    <3>2. t[(l - i) + 1] = r[(f + ((l - i) + 1)) - 1]
      BY <2>4, <3>1
    <3>3. r[(f + ((l - i) + 1)) - 1] = s[(n - ((f + ((l - i) + 1)) - 1)) + 1]
      BY <1>3, <3>1
    <3> QED BY <3>1, <3>2, <3>3
  <2>7. SubSeq(s, 1, l) = [i \in 1..l |-> s[i]]
    <3>1. n = Len(s)
      BY DEF n
    <3> QED BY <1>1, <2>1, <3>1
  <2>8. Reverse(t) = SubSeq(s, 1, l)
    BY <2>5, <2>6, <2>7
  <2> QED BY <2>8 DEF l, r, t
<1> QED BY <1>7, <1>8

Returned(s) == <<"returned", s>>
Thrown == <<"thrown", << >> >>

\* What a text is converted to.
LEMMA FreshOutcome ==
  ASSUME NEW S, NEW a \in Seq(S), NEW s, s = Stripped(a), NEW l, l = LastOther(s, Blank)
  PROVE  Fresh(a) = IF l # 0 /\ \A i \in 1..l : s[i] \in Digits
                    THEN Returned(SubSeq(s, 1, l)) ELSE Thrown
<1> DEFINE word == Reverse(Stripped(Reverse(s)))
<1>1. Fresh(a) = IF word # << >> /\ \A k \in DOMAIN word : word[k] \in Digits
                 THEN Returned(word) ELSE Thrown
  BY Zenon DEF Fresh, Returned, Thrown
<1>2. s \in Seq(S)
  BY StrippedText
<1>3. word = SubSeq(s, 1, l)
  BY <1>2, StrippedRight
<1> HIDE DEF word
<1>4. l \in 0..Len(s) /\ Len(s) \in Nat
  BY <1>2, OthersFound
<1>5. DOMAIN word = 1..l /\ Len(word) = l /\ word \in Seq(S) /\ \A i \in 1..l : word[i] = s[i]
  BY <1>2, <1>3, <1>4
<1>6. (word # << >>) <=> (l # 0)
  <2>1. Len(<< >>) = 0
    OBVIOUS
  <2>2. Len(word) = 0 => word = << >>
    BY <1>5, EmptySeq
  <2> QED BY <1>5, <2>1, <2>2, Zenon
<1>7. (\A k \in DOMAIN word : word[k] \in Digits) <=> (\A i \in 1..l : s[i] \in Digits)
  BY <1>5
<1> QED BY <1>1, <1>3, <1>6, <1>7, Zenon

\* A text that begins with no digit is thrown, one that holds a number and white space is
\* returned, and any other is thrown.
LEMMA CastOutcome ==
  ASSUME NEW S, NEW a \in Seq(S), NEW s, s = Stripped(a), NEW n, n = Taken(s)
  PROVE  /\ ~(n > 0) => Fresh(a) = Thrown
         /\ n > 0 /\ Stripped(SubSeq(s, n + 1, Len(s))) = << >> => Fresh(a) = Returned(SubSeq(s, 1, n))
         /\ n > 0 /\ Stripped(SubSeq(s, n + 1, Len(s))) # << >> => Fresh(a) = Thrown
<1>1. s \in Seq(S) /\ Len(s) \in Nat /\ (s # << >> => s[1] # Blank)
  BY StrippedText
<1>2. /\ n \in 0..Len(s) /\ (\A i \in 1..n : s[i] \in Digits)
      /\ n < Len(s) => s[n + 1] \notin Digits
  BY <1>1, TakenDigits
<1> DEFINE l == LastOther(s, Blank)
           u == SubSeq(s, n + 1, Len(s))
<1>3. \/ l = 0 /\ \A i \in 1..Len(s) : s[i] = Blank
      \/ /\ l \in 1..Len(s) /\ s[l] # Blank
         /\ \A i \in 1..Len(s) : s[i] # Blank => i <= l
  BY <1>1, OthersFound
<1>4. Fresh(a) = IF l # 0 /\ \A i \in 1..l : s[i] \in Digits
                 THEN Returned(SubSeq(s, 1, l)) ELSE Thrown
  BY FreshOutcome
<1>5. u \in Seq(S) /\ Len(u) = Len(s) - n /\ \A i \in 1..Len(s) - n : u[i] = s[n + i]
  BY <1>1, <1>2, SMTT(40)
<1>6. (Stripped(u) = << >>) <=> (\A i \in 1..Len(s) - n : u[i] = Blank)
  <2>1. PICK v : v = u
    OBVIOUS
  <2> HIDE DEF u
  <2>2. v \in Seq(S) /\ Len(v) = Len(s) - n
    BY <1>5, <2>1
  <2>3. (Stripped(v) = << >>) <=> (\A i \in 1..Len(v) : v[i] = Blank)
    BY <2>2, StrippedText
  <2> QED BY <2>1, <2>2, <2>3
<1> HIDE DEF l, u
<1>7. ASSUME n < l, l # 0 PROVE Fresh(a) = Thrown
  <2>1. n + 1 \in 1..l /\ n < Len(s)
    BY <1>1, <1>2, <1>3, <1>7
  <2>2. s[n + 1] \notin Digits
    BY <1>2, <2>1
  <2> QED BY <1>4, <2>1, <2>2, Zenon
<1>8. ASSUME ~(n > 0) PROVE Fresh(a) = Thrown
  <2>1. CASE l = 0
    BY <1>4, <2>1, Zenon
  <2>2. CASE l # 0
    <3>1. n < l
      BY <1>1, <1>2, <1>3, <1>8, <2>2
    <3> QED BY <1>7, <2>2, <3>1
  <2> QED BY <2>1, <2>2
<1>9. ASSUME n > 0, Stripped(u) = << >> PROVE Fresh(a) = Returned(SubSeq(s, 1, n))
  <2>1. n \in 1..Len(s) /\ s[n] \in Digits /\ s[n] # Blank
    BY <1>1, <1>2, <1>9, CastAssumption
  <2>2. l # 0 /\ l \in 1..Len(s) /\ n <= l /\ s[l] # Blank
    BY <1>1, <1>3, <2>1
  <2>3. ~(n < l)
    <3>1. SUFFICES ASSUME n < l PROVE FALSE
      OBVIOUS
    <3>2. l - n \in 1..Len(s) - n /\ n + (l - n) = l
      BY <1>1, <2>1, <2>2, <3>1
    <3>3. u[l - n] = s[l] /\ u[l - n] = Blank
      BY <1>5, <1>6, <1>9, <3>2
    <3> QED BY <2>2, <3>3
  <2>4. l = n
    BY <2>1, <2>2, <2>3
  <2>5. \A i \in 1..l : s[i] \in Digits
    BY <1>2, <2>4
  <2> QED BY <1>4, <2>2, <2>4, <2>5, Zenon
<1>10. ASSUME n > 0, Stripped(u) # << >> PROVE Fresh(a) = Thrown
  <2>1. PICK i \in 1..Len(s) - n : u[i] # Blank
    BY <1>6, <1>10
  <2>2. n + i \in 1..Len(s) /\ s[n + i] # Blank
    BY <1>1, <1>2, <1>5, <2>1
  <2>3. n + i <= l /\ l \in 1..Len(s)
    BY <1>3, <2>2
  <2>4. n < l /\ l # 0
    BY <1>1, <1>2, <2>1, <2>3
  <2> QED BY <1>7, <2>4
<1> QED BY <1>8, <1>9, <1>10 DEF u

\* The labels before the last are converted as if each were the only one, and so is the
\* last as far as its conversion got; of a text that is over, all are.
Converting ==
  /\ tokens \in Seq(Seq(Chars)) /\ numbers \in Seq({Fresh(a) : a \in Seq(Chars)})
  /\ Len(numbers) = Len(tokens) \/ (Len(tokens) = Len(numbers) + 1 /\ loop # "done")
  /\ \A k \in 1..Len(numbers) : numbers[k] = Fresh(tokens[k])
  /\ \/ pc = "call" /\ unread = << >>
     \/ /\ Pending /\ arg = Last(tokens)
        /\ \/ pc = "write" /\ good /\ unread = << >>
           \/ pc = "read" /\ unread = arg
           \/ LET s == Stripped(arg)
                  n == Taken(s)
              IN  /\ pc = "check" /\ n > 0
                  /\ unread = SubSeq(s, n + 1, Len(s)) /\ ret = SubSeq(s, 1, n)

\* Reading the next token leaves the conversions before it as they are.
LEMMA ConvertingNextToken ==
  ASSUME Following, Converting, NextToken
  PROVE  Converting'
<1>1. ~Pending /\ Getline /\ UNCHANGED <<castVars, numbers>>
  BY Zenon DEF NextToken
<1> DEFINE Words == Seq(Chars)
           Outcomes == {Fresh(a) : a \in Words}
<1>2. /\ tokens \in Seq(Words) /\ numbers \in Seq(Outcomes)
      /\ Len(numbers) = Len(tokens) \/ (Len(tokens) = Len(numbers) + 1 /\ loop # "done")
      /\ \A k \in 1..Len(numbers) : numbers[k] = Fresh(tokens[k])
      /\ (pc = "call" /\ unread = << >>) \/ Pending
  BY Zenon DEF Converting
<1>3. UNCHANGED <<numbers, pc, unread>> /\ pc = "call" /\ unread = << >>
  BY <1>1, <1>2, Zenon DEF castVars
<1> HIDE DEF Outcomes
<1>4. tokens' \in Seq(Words)
  BY FollowingGetline, TokensTypedNext, <1>1
<1> HIDE DEF Words
<1>5. Len(numbers) = Len(tokens) /\ Len(tokens) \in Nat
  BY <1>1, <1>2 DEF Pending
<1>6. /\ Len(numbers) = Len(tokens') \/ (Len(tokens') = Len(numbers) + 1 /\ loop' # "done")
      /\ \A k \in 1..Len(numbers) : numbers[k] = Fresh(tokens'[k])
  <2>1. CASE tokens' = tokens
    BY <1>2, <1>5, <2>1
  <2>2. CASE tokens' = Append(tokens, str) /\ loop' = "token"
    <3>1. PICK t, ts : t = str /\ ts = tokens
      OBVIOUS
    <3>2. ts \in Seq(Words)
      BY <1>2, <3>1
    <3>3. Len(Append(ts, t)) = Len(ts) + 1 /\ \A k \in 1..Len(ts) : Append(ts, t)[k] = ts[k]
      BY <3>2
    <3>4. Len(tokens') = Len(numbers) + 1 /\ \A k \in 1..Len(numbers) : tokens'[k] = tokens[k]
      BY <1>5, <2>2, <3>1, <3>3
    <3>5. loop' # "done"
      BY <2>2
    <3> QED BY <1>2, <3>4, <3>5
  <2> QED BY <1>1, <2>1, <2>2, TokensGrow
<1> QED BY <1>2, <1>3, <1>4, <1>6, Zenon DEF Converting, Words, Outcomes

\* A conversion begins with a cleared stream that has nothing left in it.
LEMMA ConvertingCall ==
  ASSUME Converting, CastToken
  PROVE  Converting'
<1>1. /\ Pending /\ pc = "call" /\ arg' = Last(tokens) /\ good' = TRUE /\ pc' = "write"
      /\ UNCHANGED <<unread, textVars, numbers>>
  BY Zenon DEF CastToken, Call
<1>2. tokens' = tokens /\ loop' = loop /\ numbers' = numbers /\ unread' = unread
  BY <1>1, Zenon DEF textVars
<1>3. unread = << >>
  BY <1>1, Zenon DEF Converting
<1>4. Pending' /\ Last(tokens)' = Last(tokens)
  BY <1>1, <1>2, Zenon DEF Pending
<1> QED BY <1>1, <1>2, <1>3, <1>4, Zenon DEF Converting

\* A step of a conversion that leaves the labels and the numbers as they are.
LEMMA ConvertingOn ==
  ASSUME Converting, UNCHANGED <<textVars, numbers>>, Pending, arg' = Last(tokens),
         \/ pc' = "read" /\ unread' = arg'
         \/ LET s == Stripped(arg')
                n == Taken(s)
            IN  /\ pc' = "check" /\ n > 0
                /\ unread' = SubSeq(s, n + 1, Len(s)) /\ ret' = SubSeq(s, 1, n)
  PROVE  Converting'
<1>1. tokens' = tokens /\ loop' = loop /\ numbers' = numbers
  BY Zenon DEF textVars
<1>2. Pending' /\ Last(tokens)' = Last(tokens)
  BY <1>1, Zenon DEF Pending
<1> QED BY <1>1, <1>2, Zenon DEF Converting

\* The end of a conversion with the outcome of its label alone.
LEMMA ConvertingEnds ==
  ASSUME Converting, UNCHANGED textVars, Pending, pc' = "call", unread' = << >>,
         outcome' = Fresh(Last(tokens)), numbers' = Append(numbers, outcome')
  PROVE  Converting'
<1> DEFINE Words == Seq(Chars)
           Outcomes == {Fresh(a) : a \in Words}
<1>1. tokens' = tokens
  BY Zenon DEF textVars
<1>2. /\ tokens \in Seq(Words) /\ numbers \in Seq(Outcomes)
      /\ Len(numbers) = Len(tokens) \/ (Len(tokens) = Len(numbers) + 1 /\ loop # "done")
      /\ \A k \in 1..Len(numbers) : numbers[k] = Fresh(tokens[k])
  BY Zenon DEF Converting
<1> DEFINE m == Len(numbers)
           x == Fresh(Last(tokens))
<1>3. m \in Nat /\ Len(tokens) = m + 1
  <2> HIDE DEF Outcomes, Words
  <2> QED BY <1>2 DEF Pending
<1>4. x \in Outcomes /\ x = Fresh(tokens[m + 1])
  <2> HIDE DEF Words
  <2>1. Last(tokens) = tokens[m + 1]
    BY <1>3 DEF Last
  <2>2. tokens[m + 1] \in Words
    BY <1>2, <1>3
  <2> QED BY <2>1, <2>2
<1> HIDE DEF Outcomes, Words
<1>5. PICK ns, y : ns = numbers /\ y = x
  OBVIOUS
<1>6. numbers' = Append(ns, y)
  BY <1>5
<1> HIDE DEF x
<1>7. ns \in Seq(Outcomes) /\ y \in Outcomes /\ Len(ns) = m
  BY <1>2, <1>4, <1>5
<1> HIDE DEF m
<1>8. /\ Append(ns, y) \in Seq(Outcomes) /\ Len(Append(ns, y)) = m + 1
      /\ \A k \in 1..m : Append(ns, y)[k] = ns[k]
      /\ Append(ns, y)[m + 1] = y
  BY <1>3, <1>7
<1>9. \A k \in 1..m + 1 : Append(ns, y)[k] = Fresh(tokens[k])
  <2>1. \A k \in 1..m + 1 : k \in 1..m \/ k = m + 1
    BY <1>3
  <2>2. \A k \in 1..m : ns[k] = Fresh(tokens[k])
    BY <1>2, <1>5 DEF m
  <2> QED BY <1>4, <1>5, <1>8, <2>1, <2>2, Zenon
<1>10. /\ tokens' \in Seq(Words) /\ numbers' \in Seq(Outcomes) /\ Len(numbers') = Len(tokens')
       /\ \A k \in 1..Len(numbers') : numbers'[k] = Fresh(tokens'[k])
  BY <1>1, <1>2, <1>3, <1>6, <1>8, <1>9, Zenon
<1> QED BY <1>10, Zenon DEF Converting, Words, Outcomes

\* Where a conversion is.
LEMMA ConvertingWhere ==
  ASSUME Converting, Pending
  PROVE  /\ Last(tokens) \in Seq(Chars)
         /\ pc # "call" => arg = Last(tokens)
         /\ pc = "write" => good /\ unread = << >>
         /\ pc = "read" => unread = arg
         /\ pc = "check" => LET s == Stripped(arg)
                                n == Taken(s)
                            IN  n > 0 /\ unread = SubSeq(s, n + 1, Len(s)) /\ ret = SubSeq(s, 1, n)
<1>1. Last(tokens) \in Seq(Chars)
  <2> DEFINE Words == Seq(Chars)
  <2>1. tokens \in Seq(Words) /\ Len(numbers) \in Nat /\ Len(numbers) < Len(tokens)
    BY Zenon, LenProperties DEF Converting, Pending
  <2> HIDE DEF Words
  <2>2. Len(tokens) \in 1..Len(tokens)
    BY <2>1
  <2> QED BY <2>1, <2>2 DEF Last, Words
<1>2. \/ pc = "call"
      \/ /\ arg = Last(tokens)
         /\ \/ pc = "write" /\ good /\ unread = << >>
            \/ pc = "read" /\ unread = arg
            \/ LET s == Stripped(arg)
                   n == Taken(s)
               IN  /\ pc = "check" /\ n > 0
                   /\ unread = SubSeq(s, n + 1, Len(s)) /\ ret = SubSeq(s, 1, n)
  BY Zenon DEF Converting
<1>3. "call" # "write" /\ "call" # "read" /\ "call" # "check" /\ "write" # "read"
      /\ "write" # "check" /\ "read" # "check"
  OBVIOUS
<1> QED BY <1>1, <1>2, <1>3, Zenon

\* A conversion comes out as with a stream of its own, and leaves nothing behind.
LEMMA ConvertingGoOn ==
  ASSUME Converting, GoOn
  PROVE  Converting'
<1>1. /\ Pending /\ Convert /\ UNCHANGED textVars
      /\ numbers' = IF pc' = "call" THEN Append(numbers, outcome') ELSE numbers
  BY Zenon DEF GoOn
<1>2. /\ Last(tokens) \in Seq(Chars)
      /\ pc # "call" => arg = Last(tokens)
      /\ pc = "write" => good /\ unread = << >>
      /\ pc = "read" => unread = arg
      /\ pc = "check" => LET s == Stripped(arg)
                             n == Taken(s)
                         IN  n > 0 /\ unread = SubSeq(s, n + 1, Len(s)) /\ ret = SubSeq(s, 1, n)
  BY <1>1, ConvertingWhere, Zenon
<1>3. PICK a : a = Last(tokens)
  OBVIOUS
<1> DEFINE s == Stripped(a)
           n == Taken(s)
           u == SubSeq(s, n + 1, Len(s))
<1>4. a \in Seq(Chars)
  BY <1>2, <1>3
<1>5. /\ ~(n > 0) => Fresh(a) = Thrown
      /\ n > 0 /\ Stripped(u) = << >> => Fresh(a) = Returned(SubSeq(s, 1, n))
      /\ n > 0 /\ Stripped(u) # << >> => Fresh(a) = Thrown
  BY <1>4, CastOutcome
<1>6. CASE Write
  <2>1. pc = "write" /\ arg' = arg /\ arg = a
        /\ IF good THEN unread' = unread \o arg /\ pc' = "read" /\ UNCHANGED outcome ELSE Throw
    BY <1>2, <1>3, <1>6, Zenon DEF Write
  <2>2. good /\ unread = << >>
    BY <1>2, <2>1, Zenon
  <2>3. unread' = << >> \o a /\ pc' = "read"
    BY <2>1, <2>2, Zenon
  <2>4. << >> \o a = a
    BY <1>4
  <2>5. "read" # "call"
    OBVIOUS
  <2>6. numbers' = numbers
    BY <1>1, <2>3, <2>5, Zenon
  <2>7. arg' = Last(tokens) /\ unread' = arg'
    BY <1>3, <2>1, <2>3, <2>4, Zenon
  <2> QED BY <1>1, <2>3, <2>6, <2>7, ConvertingOn
<1>7. CASE Read
  <2>1. pc = "read" /\ arg' = arg /\ arg = a /\ unread = a
    BY <1>2, <1>3, <1>7, Zenon DEF Read
  <2>2. IF n > 0
        THEN unread' = u /\ ret' = SubSeq(s, 1, n) /\ pc' = "check"
        ELSE Throw
    BY <1>7, <2>1, Zenon DEF Read
  <2>3. CASE n > 0
    <3>1. unread' = u /\ ret' = SubSeq(s, 1, n) /\ pc' = "check"
      BY <2>2, <2>3, Zenon
    <3>2. "check" # "call"
      OBVIOUS
    <3>3. numbers' = numbers /\ arg' = a
      BY <1>1, <2>1, <3>1, <3>2, Zenon
    <3> QED BY <1>1, <1>3, <2>3, <3>1, <3>3, ConvertingOn, Zenon
  <2>4. CASE ~(n > 0)
    <3>1. unread' = << >> /\ outcome' = Thrown /\ pc' = "call"
      BY <2>2, <2>4, Zenon DEF Throw, Thrown
    <3>2. numbers' = Append(numbers, outcome') /\ outcome' = Fresh(Last(tokens))
      BY <1>1, <1>3, <1>5, <2>4, <3>1, Zenon
    <3> QED BY <1>1, <3>1, <3>2, ConvertingEnds
  <2> QED BY <2>3, <2>4
<1>8. CASE Check
  <2>1. pc = "check" /\ arg = a
    BY <1>2, <1>3, <1>8, Zenon DEF Check
  <2>2. n > 0 /\ unread = u /\ ret = SubSeq(s, 1, n)
    BY <1>2, <2>1, Zenon
  <2>3. IF Stripped(u) = << >>
        THEN unread' = << >> /\ outcome' = Returned(SubSeq(s, 1, n)) /\ pc' = "call"
        ELSE Throw
    BY <1>8, <2>2, Zenon DEF Check, Returned
  <2>4. unread' = << >> /\ outcome' = Fresh(a) /\ pc' = "call"
    BY <1>5, <2>2, <2>3, Zenon DEF Throw, Thrown
  <2>5. numbers' = Append(numbers, outcome') /\ outcome' = Fresh(Last(tokens))
    BY <1>1, <1>3, <2>4, Zenon
  <2> QED BY <1>1, <2>4, <2>5, ConvertingEnds
<1> QED BY <1>1, <1>6, <1>7, <1>8, Zenon DEF Convert

\* Every label is converted as if it were the only one, and none is taken twice or passed
\* over.
THEOREM LabelsConvertedCorrect == Spec => []LabelsConverted
<1>1. Init => Following /\ Converting
  <2> SUFFICES ASSUME Init PROVE Following /\ Converting
    OBVIOUS
  <2>1. Following
    BY FollowingInit DEF Init
  <2>2. tokens = << >> /\ numbers = << >> /\ pc = "call" /\ unread = << >>
    BY Zenon DEF Init, InitText, InitCast
  <2>3. << >> \in Seq(Seq(Chars)) /\ << >> \in Seq({Fresh(a) : a \in Seq(Chars)})
    OBVIOUS
  <2>4. \A k \in 1..Len(<< >>) : FALSE
    OBVIOUS
  <2>5. Converting
    BY <2>2, <2>3, <2>4, Zenon DEF Converting
  <2> QED BY <2>1, <2>5
<1>2. Following /\ Converting /\ [Next]_vars => (Following /\ Converting)'
  <2> SUFFICES ASSUME Following, Converting, [Next]_vars PROVE Converting'
    BY FollowingStep
  <2>1. CASE UNCHANGED vars
    <3>1. UNCHANGED <<tokens, loop, numbers, pc, arg, unread, good, ret>>
      BY <2>1, Zenon DEF vars, textVars, castVars
    <3>2. Pending' = Pending /\ Last(tokens)' = Last(tokens)
      BY <3>1, Zenon DEF Pending
    <3> QED BY <3>1, <3>2, Zenon DEF Converting
  <2> QED BY <2>1, ConvertingNextToken, ConvertingCall, ConvertingGoOn, Zenon DEF Next
<1>3. Following /\ Converting /\ TokensAreWords => LabelsConverted
  <2> SUFFICES ASSUME Following, Converting, TokensAreWords PROVE LabelsConverted
    OBVIOUS
  <2> DEFINE Outcomes == {Fresh(a) : a \in Seq(Chars)}
  <2>1. /\ numbers \in Seq(Outcomes) /\ tokens \in Seq(Seq(Chars))
        /\ Len(numbers) = Len(tokens) \/ (Len(tokens) = Len(numbers) + 1 /\ loop # "done")
        /\ \A k \in 1..Len(numbers) : numbers[k] = Fresh(tokens[k])
    BY Zenon DEF Converting
  <2> HIDE DEF Outcomes
  <2>2. DOMAIN numbers = 1..Len(numbers) /\ numbers = [k \in DOMAIN numbers |-> numbers[k]]
        /\ DOMAIN tokens = 1..Len(tokens)
    BY <2>1
  <2>3. numbers = [k \in DOMAIN numbers |-> Fresh(tokens[k])]
    BY <2>1, <2>2
  <2>4. ASSUME loop = "done" PROVE numbers = [k \in DOMAIN words |-> Fresh(words[k])]
    <3>1. tokens = words
      BY <2>4, Zenon DEF TokensAreWords
    <3>2. DOMAIN numbers = DOMAIN tokens
      BY <2>1, <2>2, <2>4
    <3> QED BY <2>3, <3>1, <3>2, Zenon
  <2> QED BY <2>3, <2>4, Zenon DEF LabelsConverted
<1> QED BY <1>1, <1>2, <1>3, TokensAreWordsCorrect, PTL DEF Spec
==============================================================================
