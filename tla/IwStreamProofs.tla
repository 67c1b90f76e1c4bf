----------------------------- MODULE IwStreamProofs ----------------------------
(***************************************************************************)
(* Lemmas about the streams that drivers write and about the sizes that     *)
(* the decoder reckons with, for events of every kind and length.           *)
(***************************************************************************)
EXTENDS IwStream, WellFoundedInduction, SequenceTheorems, TLAPS

-----------------------------------------------------------------------------
(***************************************************************************)
(* Recursive concatenations.                                               *)
(***************************************************************************)

\* A non-empty set of numbers has a least one.
LEMMA LeastNumber ==
  ASSUME NEW S, S \subseteq Nat, S # {}
  PROVE  \E n \in S : \A m \in S : n <= m
<1> DEFINE Less == OpToRel(<, Nat)
<1>1. \E x \in S : \A y \in S : <<y, x>> \notin Less
  <2>1. IsWellFoundedOn(Less, Nat)
    BY NatLessThanWellFounded
  <2> HIDE DEF Less
  <2> QED BY <2>1, WFMin
<1>2. \A x, y \in Nat : y < x => <<y, x>> \in Less
  BY DEF OpToRel
<1>3. PICK n \in S : \A m \in S : <<m, n>> \notin Less
  BY <1>1
<1> HIDE DEF Less
<1>4. ASSUME NEW m \in S PROVE n <= m
  <2>1. ~(m < n)
    BY <1>2, <1>3
  <2> QED BY <2>1
<1> QED BY <1>4

\* A concatenation begins with its first part, and ends with its second.
LEMMA ConcatParts ==
  ASSUME NEW S, NEW s \in Seq(S), NEW t \in Seq(S)
  PROVE  /\ s \o t \in Seq(S)
         /\ Len(s) \in Nat /\ Len(t) \in Nat /\ Len(s \o t) = Len(s) + Len(t)
         /\ Len(s) <= Len(s \o t) /\ 1..Len(s) \subseteq 1..Len(s \o t)
         /\ \A k \in 1..Len(s) : (s \o t)[k] = s[k]
         /\ \A k \in 1..Len(t) : (s \o t)[Len(s) + k] = t[k]
OBVIOUS

\* The concatenations of the first parts of a list.
Joined(g, parts, n) ==
  g = [i \in 0..n |-> IF i = 0 THEN << >> ELSE g[i - 1] \o parts[i]]

\* The definition of the concatenations has a solution.
LEMMA JoinExists ==
  ASSUME NEW parts, NEW n \in Nat
  PROVE  \E g : Joined(g, parts, n)
<1> DEFINE Step(f, k) == IF k = 0 THEN << >> ELSE f[k - 1] \o parts[k]
           Bad == {m \in Nat : ~\E g : Joined(g, parts, m)}
<1>1. SUFFICES Bad = {}
  OBVIOUS
<1>2. SUFFICES ASSUME Bad # {} PROVE FALSE
  OBVIOUS
<1>3. PICK m \in Bad : \A l \in Bad : m <= l
  <2>1. Bad \subseteq Nat
    OBVIOUS
  <2> HIDE DEF Bad
  <2> QED BY <1>2, <2>1, LeastNumber
<1>4. m # 0
  <2> DEFINE f == [k \in 0..0 |-> << >>]
  <2>1. Joined(f, parts, 0)
    BY DEF Joined
  <2> QED BY <1>3, <2>1
<1>5. m - 1 \in Nat /\ ~(m <= m - 1)
  BY <1>3, <1>4
<1>6. PICK f : Joined(f, parts, m - 1)
  BY <1>3, <1>5
<1> DEFINE g == [k \in 0..m |-> IF k < m THEN f[k] ELSE Step(f, m)]
<1>7. \A k \in 0..m : g[k] = Step(g, k)
  <2>1. ASSUME NEW k \in 0..m, k < m PROVE g[k] = Step(g, k)
    <3>1. g[k] = f[k] /\ (k # 0 => g[k - 1] = f[k - 1])
      BY <1>3, <2>1
    <3>2. k \in 0..m - 1
      BY <1>3, <2>1
    <3>3. f[k] = Step(f, k)
      BY <1>6, <3>2 DEF Joined
    <3> HIDE DEF g
    <3> QED BY <3>1, <3>3
  <2>2. g[m] = Step(g, m)
    <3>1. g[m] = Step(f, m) /\ g[m - 1] = f[m - 1]
      BY <1>3, <1>5
    <3> HIDE DEF g
    <3> QED BY <1>4, <3>1
  <2>3. \A k \in 0..m : k < m \/ k = m
    BY <1>3
  <2> HIDE DEF g, Step
  <2> QED BY <2>1, <2>2, <2>3
<1>8. Joined(g, parts, m)
  <2>1. g = [k \in 0..m |-> g[k]]
    OBVIOUS
  <2>2. g = [k \in 0..m |-> Step(g, k)]
    <3> HIDE DEF g, Step
    <3> QED BY <1>7, <2>1
  <2> HIDE DEF g
  <2> QED BY <2>2 DEF Joined
<1> HIDE DEF g
<1> QED BY <1>3, <1>8

\* Each is a sequence, and the last begins with all the others.
Prefixes(g, parts, n, S) ==
  /\ g[0] = << >>
  /\ \A i \in 0..n : g[i] \in Seq(S)
  /\ \A i \in 1..n : g[i] = g[i - 1] \o parts[i]
  /\ \A i \in 0..n : /\ Len(g[i]) <= Len(g[n])
                     /\ \A k \in 1..Len(g[i]) : g[n][k] = g[i][k]

\* A concatenation is a sequence, and begins with the shorter ones.
LEMMA JoinPrefix ==
  ASSUME NEW S, NEW parts, NEW n \in Nat, \A i \in 1..n : parts[i] \in Seq(S),
         NEW g, Joined(g, parts, n)
  PROVE  Prefixes(g, parts, n, S)
<1>1. /\ g[0] = << >>
      /\ \A i \in 1..n : g[i] = g[i - 1] \o parts[i]
  <2> DEFINE Step(k) == IF k = 0 THEN << >> ELSE g[k - 1] \o parts[k]
  <2>1. g = [k \in 0..n |-> Step(k)]
    BY DEF Joined
  <2>2. \A k \in 0..n : g[k] = Step(k)
    <3> HIDE DEF Step
    <3> QED BY <2>1
  <2>3. ASSUME NEW i \in 1..n PROVE g[i] = g[i - 1] \o parts[i]
    <3>1. i # 0 /\ i \in 0..n
      OBVIOUS
    <3>2. Step(i) = g[i - 1] \o parts[i]
      BY <3>1, Zenon
    <3> HIDE DEF Step
    <3> QED BY <2>2, <3>1, <3>2
  <2>4. g[0] = << >>
    <3>1. Step(0) = << >>
      BY Zenon
    <3> HIDE DEF Step
    <3> QED BY <2>2, <3>1
  <2> QED BY <2>3, <2>4
<1>2. \A i \in 0..n : g[i] \in Seq(S)
  <2> DEFINE Bad == {i \in 0..n : g[i] \notin Seq(S)}
  <2>1. SUFFICES ASSUME Bad # {} PROVE FALSE
    OBVIOUS
  <2>2. PICK i \in Bad : \A j \in Bad : i <= j
    <3>1. Bad \subseteq Nat
      OBVIOUS
    <3> HIDE DEF Bad
    <3> QED BY <2>1, <3>1, LeastNumber
  <2>3. i # 0
    BY <1>1, <2>2, EmptySeq
  <2>4. i \in 1..n /\ i - 1 \in 0..n /\ ~(i <= i - 1)
    BY <2>2, <2>3
  <2>5. g[i - 1] \in Seq(S)
    BY <2>2, <2>4
  <2>6. g[i] \in Seq(S)
    BY <1>1, <2>4, <2>5, ConcatProperties
  <2> QED BY <2>2, <2>6
<1>3. \A i \in 0..n : /\ Len(g[i]) <= Len(g[n])
                      /\ \A k \in 1..Len(g[i]) : g[n][k] = g[i][k]
  <2> DEFINE Good(i) == /\ Len(g[i]) <= Len(g[n])
                        /\ \A k \in 1..Len(g[i]) : g[n][k] = g[i][k]
             Bad == {j \in 0..n : ~Good(n - j)}
  <2>1. SUFFICES ASSUME NEW i \in 0..n PROVE Good(i)
    OBVIOUS
  <2>2. Bad = {}
    <3>1. SUFFICES ASSUME Bad # {} PROVE FALSE
      OBVIOUS
    <3>2. PICK j \in Bad : \A l \in Bad : j <= l
      <4>1. Bad \subseteq Nat
        OBVIOUS
      <4> HIDE DEF Bad
      <4> QED BY <3>1, <4>1, LeastNumber
    <3>3. j # 0
      <4>1. Good(n - 0)
        <5>1. n - 0 = n /\ Len(g[n]) \in Nat
          BY <1>2
        <5> QED BY <5>1
      <4> HIDE DEF Good
      <4> QED BY <3>2, <4>1
    <3>4. /\ j \in 1..n /\ j - 1 \in 0..n /\ ~(j <= j - 1)
          /\ n - j \in 0..n /\ n - (j - 1) \in 1..n /\ (n - (j - 1)) - 1 = n - j
      BY <3>2, <3>3
    <3>5. Good(n - (j - 1))
      <4> HIDE DEF Good
      <4> QED BY <3>2, <3>4
    <3> DEFINE m == n - (j - 1)
    <3>6. /\ g[m] = g[n - j] \o parts[m]
          /\ parts[m] \in Seq(S) /\ g[n - j] \in Seq(S) /\ g[n] \in Seq(S)
      <4>1. m \in 1..n /\ m - 1 = n - j
        BY <3>4
      <4> HIDE DEF m
      <4>2. g[m] = g[m - 1] \o parts[m] /\ parts[m] \in Seq(S)
        BY <1>1, <4>1
      <4>3. g[n - j] \in Seq(S) /\ g[n] \in Seq(S)
        BY <1>2, <3>4
      <4> QED BY <4>1, <4>2, <4>3, Zenon
    <3>7. /\ Len(g[n - j]) <= Len(g[m])
          /\ 1..Len(g[n - j]) \subseteq 1..Len(g[m])
          /\ \A k \in 1..Len(g[n - j]) : g[m][k] = g[n - j][k]
          /\ Len(g[n - j]) \in Nat /\ Len(g[m]) \in Nat /\ Len(g[n]) \in Nat
      <4> HIDE DEF m
      <4>1. /\ Len(g[n - j]) <= Len(g[n - j] \o parts[m])
            /\ 1..Len(g[n - j]) \subseteq 1..Len(g[n - j] \o parts[m])
            /\ \A k \in 1..Len(g[n - j]) : (g[n - j] \o parts[m])[k] = g[n - j][k]
            /\ g[n - j] \o parts[m] \in Seq(S)
        BY <3>6, ConcatParts, ZenonT(30)
      <4>2. g[m] \in Seq(S)
        BY <3>6, <4>1, Zenon
      <4>3. Len(g[n]) \in Nat /\ Len(g[m]) \in Nat /\ Len(g[n - j]) \in Nat
        BY <3>6, <4>2, LenProperties
      <4> QED BY <3>6, <4>1, <4>3, Zenon
    <3>8. Good(m)
      BY <3>5
    <3> HIDE DEF m
    <3>9. Good(n - j)
      <4>2. Len(g[n - j]) <= Len(g[n])
        <5>1. Len(g[m]) <= Len(g[n])
          BY <3>8
        <5> HIDE DEF Good
        <5> QED BY <3>7, <5>1
      <4>3. ASSUME NEW k \in 1..Len(g[n - j]) PROVE g[n][k] = g[n - j][k]
        <5>1. k \in 1..Len(g[m])
          BY <3>7
        <5> QED BY <3>7, <3>8, <5>1
      <4> QED BY <4>2, <4>3
    <3> HIDE DEF Good
    <3> QED BY <3>2, <3>9
  <2>3. n - i \in 0..n /\ n - (n - i) = i
    BY <2>1
  <2>4. Good(n - (n - i))
    <3> HIDE DEF Good
    <3> QED BY <2>2, <2>3
  <2> QED BY <2>3, <2>4
<1> QED BY <1>1, <1>2, <1>3 DEF Prefixes

-----------------------------------------------------------------------------
(***************************************************************************)
(* Sizes.                                                                  *)
(***************************************************************************)

\* The tables know a few sizes of tokens and eight types.
LEMMA TokenTables ==
  ASSUME NEW cmd
  PROVE  /\ Tokens(cmd)[1] \in {0, 1, 16, 20, 28}
         /\ Tokens(cmd)[2] \in Nat /\ Tokens(cmd)[3] \in Nat
<1>1. RequestTokens(cmd) \in {<<1, 0, 33>>, <<1, 0, 64>>, <<1, 0, 1024>>, <<1, 40, 104>>,
         <<28, 1, 1>>, <<16, 0, 8>>, <<20, 0, 8>>, <<1, 0, 588>>, <<20, 0, 0>>, <<1, 0, 0>>,
         <<1, 0, 316>>, <<1, 20, 20>>, <<1, 36, 36>>, <<0, 0, 0>>}
  BY DEF RequestTokens
<1>2. EventTokens(cmd) \in {<<1, 0, 256>>, <<1, 0, 1024>>, <<1, 0, 28>>, <<1, 0, 24>>, <<0, 0, 0>>}
  BY DEF EventTokens
<1>3. Tokens(cmd) = RequestTokens(cmd) \/ Tokens(cmd) = EventTokens(cmd)
  BY DEF Tokens
<1> QED BY <1>1, <1>2, <1>3

\* The length of a payload: 0 only without tokens.
LEMMA TokenLenType ==
  ASSUME NEW cmd, NEW n \in Nat
  PROVE  /\ TokenLen(cmd, n) \in Nat
         /\ TokenLen(cmd, 0) = 0
         /\ HeaderType(cmd) = "POINT" /\ n > 0 => TokenLen(cmd, n) > 0
<1>1. CASE Tokens(cmd)[1] = 0
  BY <1>1 DEF TokenLen, HeaderType
<1>2. CASE Tokens(cmd)[1] = 1
  BY <1>2 DEF TokenLen
<1>3. CASE Tokens(cmd)[1] = 16
  BY <1>3 DEF TokenLen
<1>4. CASE Tokens(cmd)[1] = 20
  BY <1>4 DEF TokenLen
<1>5. CASE Tokens(cmd)[1] = 28
  BY <1>5 DEF TokenLen
<1> QED BY <1>1, <1>2, <1>3, <1>4, <1>5, TokenTables

\* The types of wireless.h.
LEMMA HeaderTypes ==
  ASSUME NEW cmd
  PROVE  HeaderType(cmd) \in {"NULL", "CHAR", "UINT", "FREQ", "ADDR", "PARAM", "QUAL", "POINT"}
BY DEF HeaderType

\* The size of what follows a header, by its type.
LEMMA FixedLens ==
  ASSUME NEW cmd
  PROVE  /\ HeaderType(cmd) = "NULL" => FixedLen(cmd) = 0
         /\ HeaderType(cmd) \in {"UINT", "QUAL"} => FixedLen(cmd) = 4
         /\ HeaderType(cmd) \in {"FREQ", "PARAM"} => FixedLen(cmd) = 8
         /\ HeaderType(cmd) \in {"CHAR", "ADDR"} => FixedLen(cmd) = 16
         /\ HeaderType(cmd) = "POINT" => FixedLen(cmd) = Word + PointOff
         /\ PointOff \in {0, Word} /\ FixedLen(cmd) \in Nat
<1>1. HeaderType(cmd) \in {"NULL", "CHAR", "UINT", "FREQ", "ADDR", "PARAM", "QUAL", "POINT"}
  BY HeaderTypes
<1>2. PointOff \in {0, Word} /\ Word \in {4, 8}
  BY WordAssumption DEF PointOff
<1>3. FixedLen(cmd) = TypeSize[HeaderType(cmd)] - 4
                        + (IF HeaderType(cmd) = "POINT" THEN PointOff ELSE 0)
  BY DEF FixedLen, IW_EV_LCP_PK_LEN
<1>4. /\ TypeSize["NULL"] = 4 /\ TypeSize["CHAR"] = 20 /\ TypeSize["UINT"] = 8
      /\ TypeSize["FREQ"] = 12 /\ TypeSize["ADDR"] = 20 /\ TypeSize["PARAM"] = 12
      /\ TypeSize["QUAL"] = 8 /\ TypeSize["POINT"] = Word + 4
  BY <1>2 DEF TypeSize, IW_EV_LCP_PK_LEN, IW_EV_LCP_LEN
<1> QED BY <1>1, <1>2, <1>3, <1>4

-----------------------------------------------------------------------------
(***************************************************************************)
(* Where the fields of an event are.                                       *)
(***************************************************************************)

\* What a command, a byte of a stream and an event can be.
Commands == STRING \X STRING
Kinds == {"header", "point", "payload", "value", "pad", "rest", "outside"}
Bytes == Kinds \X Nat \X (Nat \cup Commands)
IsEvent(e) == e.cmd \in Commands /\ e.n \in Nat /\ e.num \in Nat

\* ConcatParts, of bytes.
LEMMA ConcatBytes ==
  \A s, t \in Seq(Bytes) :
    /\ s \o t \in Seq(Bytes)
    /\ Len(s) \in Nat /\ Len(t) \in Nat /\ Len(s \o t) = Len(s) + Len(t)
    /\ \A k \in 1..Len(s) : (s \o t)[k] = s[k]
    /\ \A k \in 1..Len(t) : (s \o t)[Len(s) + k] = t[k]
BY ConcatParts

\* What a byte is made of.
LEMMA ByteType ==
  ASSUME NEW kind \in Kinds, NEW n \in Nat, NEW m \in Nat \cup Commands
  PROVE  <<kind, n, m>> \in Bytes
BY DEF Bytes

\* A field is as long as it is said to be, and begins with what it holds.
LEMMA FieldBytes ==
  ASSUME NEW first \in Bytes, NEW n \in Nat
  PROVE  /\ Field(first, n) \in Seq(Bytes) /\ Len(Field(first, n)) = n
         /\ n > 0 => Field(first, n)[1] = first
<1>1. Rest \in Bytes
  BY ByteType DEF Rest, Kinds
<1> HIDE DEF Bytes
<1> QED BY <1>1 DEF Field

\* Padding is 4 bytes, or none.
LEMMA PaddingBytes ==
  ASSUME NEW layout
  PROVE  /\ Padding(layout) \in Seq(Bytes)
         /\ Len(Padding(layout)) = IF layout = "padded" THEN 4 ELSE 0
         /\ layout = "padded" => Padding(layout)[1] = Pad
<1>1. Pad \in Bytes
  BY ByteType DEF Pad, Kinds
<1> HIDE DEF Bytes
<1> QED BY <1>1, FieldBytes, EmptySeq DEF Padding

\* The k-th value is k - 1 sizes after the first.
LEMMA ValuesBytes ==
  ASSUME NEW i \in Nat, NEW n \in Nat, NEW size \in {4, 8, 16}
  PROVE  /\ Values(i, n, size) \in Seq(Bytes)
         /\ Len(Values(i, n, size)) = n * size
         /\ \A k \in 1..n : /\ (k - 1) * size + 1 \in 1..(n * size)
                            /\ Values(i, n, size)[(k - 1) * size + 1] = <<"value", i, k>>
<1> DEFINE Of(b) == IF (b - 1) % size = 0 THEN <<"value", i, ((b - 1) \div size) + 1>> ELSE Rest
<1>1. Values(i, n, size) = [b \in 1..(n * size) |-> Of(b)]
  BY DEF Values
<1>2. n * size \in Nat
  OBVIOUS
<1>3. ASSUME NEW b \in 1..(n * size) PROVE Of(b) \in Bytes
  <2>1. (b - 1) \div size + 1 \in Nat
    BY <1>2
  <2>2. "value" \in Kinds /\ Rest \in Bytes
    BY ByteType DEF Rest, Kinds
  <2> HIDE DEF Bytes
  <2> QED BY <2>1, <2>2, ByteType
<1>4. ASSUME NEW k \in 1..n
      PROVE  /\ (k - 1) * size + 1 \in 1..(n * size)
             /\ Of((k - 1) * size + 1) = <<"value", i, k>>
  <2>1. CASE size = 4
    BY <2>1
  <2>2. CASE size = 8
    BY <2>2
  <2>3. CASE size = 16
    BY <2>3
  <2> QED BY <2>1, <2>2, <2>3
<1> HIDE DEF Of
<1>5. [b \in 1..(n * size) |-> Of(b)] \in Seq(Bytes)
  BY <1>2, <1>3
<1> QED BY <1>1, <1>2, <1>4, <1>5

\* The bytes of padding after a header and after a length.
PadLen(layout) == IF layout = "padded" THEN 4 ELSE 0

\* An event begins with its header, which tells its length; its body comes last.
HeadShape(i, e, layout) ==
  LET bytes == EventBytes(i, e, layout)
      body  == Body(i, e, layout)
      pad   == PadLen(layout)
  IN  /\ bytes \in Seq(Bytes)
      /\ Len(bytes) = 4 + pad + Len(body)
      /\ bytes[1] = <<"header", Len(bytes), e.cmd>>
      /\ layout = "padded" => bytes[5] = Pad
      /\ \A k \in 1..Len(body) : bytes[4 + pad + k] = body[k]

\* So does what EventBytes builds.
LEMMA EventHead ==
  ASSUME NEW i, NEW e, IsEvent(e), NEW layout, Body(i, e, layout) \in Seq(Bytes)
  PROVE  HeadShape(i, e, layout)
<1> DEFINE body == Body(i, e, layout)
           pad  == IF layout = "padded" THEN 4 ELSE 0
           both == Padding(layout) \o body
           head == Field(<<"header", 4 + Len(both), e.cmd>>, 4)
<1> HIDE DEF Bytes
<1>1. /\ Padding(layout) \in Seq(Bytes) /\ Len(Padding(layout)) = pad
      /\ layout = "padded" => Padding(layout)[1] = Pad
  BY PaddingBytes
<1>2. pad \in {0, 4} /\ (layout = "padded" => pad = 4)
  OBVIOUS
<1>3. body \in Seq(Bytes)
  OBVIOUS
<1> HIDE DEF body, pad
<1>4. /\ both \in Seq(Bytes) /\ Len(body) \in Nat /\ Len(both) = pad + Len(body)
      /\ \A k \in 1..Len(body) : both[pad + k] = body[k]
      /\ layout = "padded" => both[1] = Pad
  <2>1. /\ both \in Seq(Bytes) /\ Len(body) \in Nat
        /\ Len(both) = Len(Padding(layout)) + Len(body)
        /\ \A k \in 1..Len(Padding(layout)) : both[k] = Padding(layout)[k]
        /\ \A k \in 1..Len(body) : both[Len(Padding(layout)) + k] = body[k]
    BY <1>1, <1>3, ConcatBytes, Zenon
  <2> HIDE DEF both
  <2> QED BY <1>1, <1>2, <2>1
<1> HIDE DEF both
<1>5. <<"header", 4 + Len(both), e.cmd>> \in Bytes
  <2>1. "header" \in Kinds /\ 4 + Len(both) \in Nat /\ e.cmd \in Commands
    BY <1>2, <1>4 DEF Kinds, IsEvent
  <2> QED BY <2>1, ByteType
<1>6. head \in Seq(Bytes) /\ Len(head) = 4 /\ head[1] = <<"header", 4 + Len(both), e.cmd>>
  <2>1. 4 \in Nat /\ 4 > 0
    OBVIOUS
  <2> QED BY <1>5, <2>1, FieldBytes
<1> HIDE DEF head
<1>7. EventBytes(i, e, layout) = head \o both
  BY DEF EventBytes, IW_EV_LCP_PK_LEN, head, both, body
<1>8. /\ head \o both \in Seq(Bytes) /\ Len(head \o both) = 4 + pad + Len(body)
      /\ (head \o both)[1] = <<"header", Len(head \o both), e.cmd>>
      /\ \A k \in 1..Len(both) : (head \o both)[4 + k] = both[k]
  <2>1. /\ head \o both \in Seq(Bytes) /\ Len(head \o both) = Len(head) + Len(both)
        /\ \A k \in 1..Len(head) : (head \o both)[k] = head[k]
        /\ \A k \in 1..Len(both) : (head \o both)[Len(head) + k] = both[k]
    BY <1>4, <1>6, ConcatBytes, Zenon
  <2>2. 1 \in 1..Len(head)
    BY <1>6
  <2> QED BY <1>2, <1>4, <1>6, <2>1, <2>2
<1> DEFINE bytes == head \o both
<1>9. /\ bytes \in Seq(Bytes) /\ Len(bytes) = 4 + pad + Len(body)
      /\ bytes[1] = <<"header", Len(bytes), e.cmd>>
      /\ \A k \in 1..Len(both) : bytes[4 + k] = both[k]
  BY <1>8
<1> HIDE DEF bytes
<1>10. layout = "padded" => bytes[5] = Pad
  BY <1>2, <1>4, <1>9
<1>11. ASSUME NEW k \in 1..Len(body) PROVE bytes[4 + pad + k] = body[k]
  <2>1. pad + k \in 1..Len(both) /\ 4 + pad + k = 4 + (pad + k)
    BY <1>2, <1>4
  <2> QED BY <1>4, <1>9, <2>1
<1> QED BY <1>7, <1>9, <1>10, <1>11 DEF HeadShape, bytes, body, pad, PadLen

\* The body of an event with a payload: the pointer that older kernels leave, the
\* number of tokens, then the tokens.
PointShape(i, e, layout) ==
  LET body == Body(i, e, layout)
      pad  == PadLen(layout)
      len  == TokenLen(e.cmd, e.n)
  IN  /\ body \in Seq(Bytes)
      /\ Len(body) = PointOff + 4 + pad + len
      /\ body[PointOff + 1] = <<"point", e.num, i>>
      /\ layout = "padded" => body[PointOff + 5] = Pad
      /\ len > 0 => body[PointOff + 5 + pad] = <<"payload", i, e.n>>

\* So is what Body builds of a command with a payload.
LEMMA PointBody ==
  ASSUME NEW i \in Nat, NEW e, IsEvent(e), HeaderType(e.cmd) = "POINT", NEW layout
  PROVE  PointShape(i, e, layout)
<1> DEFINE pad == IF layout = "padded" THEN 4 ELSE 0
           len == TokenLen(e.cmd, e.n)
           f1  == Field(Rest, PointOff)
           f2  == Field(<<"point", e.num, i>>, 4)
           f3  == Padding(layout)
           f4  == Field(<<"payload", i, e.n>>, len)
<1> HIDE DEF Bytes
<1>1. PointOff \in Nat /\ len \in Nat /\ pad \in {0, 4} /\ (layout = "padded" => pad = 4)
  <2>1. PointOff \in {0, Word} /\ Word \in Nat
    BY FixedLens, WordAssumption
  <2> QED BY <2>1, TokenLenType DEF IsEvent
<1>2. Body(i, e, layout) = ((f1 \o f2) \o f3) \o f4
  BY DEF Body
<1>3. /\ Rest \in Bytes /\ <<"point", e.num, i>> \in Bytes /\ <<"payload", i, e.n>> \in Bytes
  <2>1. {"rest", "point", "payload"} \subseteq Kinds /\ e.num \in Nat /\ e.n \in Nat
    BY DEF Kinds, IsEvent
  <2> QED BY <2>1, ByteType DEF Rest
<1>4. /\ f1 \in Seq(Bytes) /\ Len(f1) = PointOff
      /\ f2 \in Seq(Bytes) /\ Len(f2) = 4 /\ f2[1] = <<"point", e.num, i>>
      /\ f4 \in Seq(Bytes) /\ Len(f4) = len /\ (len > 0 => f4[1] = <<"payload", i, e.n>>)
  <2>1. 4 \in Nat /\ 4 > 0
    OBVIOUS
  <2> HIDE DEF len
  <2> QED BY <1>1, <1>3, <2>1, FieldBytes
<1>5. f3 \in Seq(Bytes) /\ Len(f3) = pad /\ (layout = "padded" => f3[1] = Pad)
  BY PaddingBytes
<1> HIDE DEF f1, f2, f3, f4, len, pad
<1> DEFINE c2 == f1 \o f2
           c3 == c2 \o f3
           c4 == c3 \o f4
<1>6. /\ c2 \in Seq(Bytes) /\ Len(c2) = PointOff + 4
      /\ c2[PointOff + 1] = <<"point", e.num, i>>
  <2>1. /\ c2 \in Seq(Bytes) /\ Len(c2) = Len(f1) + Len(f2)
        /\ \A k \in 1..Len(f2) : c2[Len(f1) + k] = f2[k]
    BY <1>4, ConcatBytes, Zenon
  <2> HIDE DEF c2
  <2> QED BY <1>1, <1>4, <2>1
<1> HIDE DEF c2
<1>7. /\ c3 \in Seq(Bytes) /\ Len(c3) = PointOff + 4 + pad
      /\ c3[PointOff + 1] = <<"point", e.num, i>>
      /\ layout = "padded" => c3[PointOff + 5] = Pad
  <2>1. /\ c3 \in Seq(Bytes) /\ Len(c3) = Len(c2) + Len(f3)
        /\ \A k \in 1..Len(c2) : c3[k] = c2[k]
        /\ \A k \in 1..Len(f3) : c3[Len(c2) + k] = f3[k]
    BY <1>5, <1>6, ConcatBytes, Zenon
  <2> HIDE DEF c3
  <2> QED BY <1>1, <1>5, <1>6, <2>1
<1> HIDE DEF c3
<1>8. /\ c4 \in Seq(Bytes) /\ Len(c4) = PointOff + 4 + pad + len
      /\ c4[PointOff + 1] = <<"point", e.num, i>>
      /\ layout = "padded" => c4[PointOff + 5] = Pad
      /\ len > 0 => c4[PointOff + 5 + pad] = <<"payload", i, e.n>>
  <2>1. /\ c4 \in Seq(Bytes) /\ Len(c4) = Len(c3) + Len(f4)
        /\ \A k \in 1..Len(c3) : c4[k] = c3[k]
        /\ \A k \in 1..Len(f4) : c4[Len(c3) + k] = f4[k]
    BY <1>4, <1>7, ConcatBytes, ZenonT(30)
  <2> HIDE DEF c4
  <2>2. len > 0 => c4[PointOff + 5 + pad] = <<"payload", i, e.n>>
    <3>1. len > 0 => 1 \in 1..Len(f4) /\ Len(c3) + 1 = PointOff + 5 + pad
      BY <1>1, <1>4, <1>7
    <3> QED BY <1>4, <2>1, <3>1
  <2>3. PointOff + 1 \in 1..Len(c3) /\ (layout = "padded" => PointOff + 5 \in 1..Len(c3))
    BY <1>1, <1>7
  <2> QED BY <1>1, <1>4, <1>7, <2>1, <2>2, <2>3
<1>9. c4 = Body(i, e, layout)
  BY <1>2 DEF c2, c3
<1> HIDE DEF c4
<1> QED BY <1>8, <1>9 DEF PointShape, pad, len, PadLen

\* The body of an event with values, and of one that no table knows.
ValueShape(i, e, layout) ==
  LET body == Body(i, e, layout)
      size == FixedLen(e.cmd)
  IN  /\ body \in Seq(Bytes)
      /\ HeaderType(e.cmd) = "NULL" => Len(body) = e.n
      /\ HeaderType(e.cmd) # "NULL" =>
           /\ Len(body) = e.n * size
           /\ \A k \in 1..e.n : /\ (k - 1) * size + 1 \in 1..(e.n * size)
                                /\ body[(k - 1) * size + 1] = <<"value", i, k>>

\* So is what Body builds of the other commands.
LEMMA ValueBody ==
  ASSUME NEW i \in Nat, NEW e, IsEvent(e), HeaderType(e.cmd) # "POINT", NEW layout
  PROVE  ValueShape(i, e, layout)
<1> HIDE DEF Bytes
<1>1. e.n \in Nat
  BY DEF IsEvent
<1>2. CASE HeaderType(e.cmd) = "NULL"
  <2>1. Body(i, e, layout) = Field(Rest, e.n)
    BY <1>2 DEF Body
  <2>2. Rest \in Bytes
    BY ByteType DEF Rest, Kinds
  <2>3. Body(i, e, layout) \in Seq(Bytes) /\ Len(Body(i, e, layout)) = e.n
    BY <1>1, <2>1, <2>2, FieldBytes
  <2> QED BY <1>2, <2>3, Zenon DEF ValueShape
<1>3. CASE HeaderType(e.cmd) # "NULL"
  <2>1. Body(i, e, layout) = Values(i, e.n, FixedLen(e.cmd))
    BY <1>3 DEF Body
  <2>2. FixedLen(e.cmd) \in {4, 8, 16}
    BY <1>3, HeaderTypes, FixedLens
  <2> DEFINE size == FixedLen(e.cmd)
  <2> HIDE DEF size
  <2>3. size \in {4, 8, 16}
    BY <2>2 DEF size
  <2>4. /\ Values(i, e.n, size) \in Seq(Bytes)
        /\ Len(Values(i, e.n, size)) = e.n * size
        /\ \A k \in 1..e.n : /\ (k - 1) * size + 1 \in 1..(e.n * size)
                             /\ Values(i, e.n, size)[(k - 1) * size + 1] = <<"value", i, k>>
    BY <1>1, <2>3, ValuesBytes
  <2>5. Body(i, e, layout) = Values(i, e.n, size)
    BY <2>1 DEF size
  <2> QED BY <1>3, <2>4, <2>5, Zenon DEF ValueShape, size
<1> QED BY <1>2, <1>3

\* The body of any event is bytes.
LEMMA BodyType ==
  ASSUME NEW i \in Nat, NEW e, IsEvent(e), NEW layout
  PROVE  Body(i, e, layout) \in Seq(Bytes)
<1>1. CASE HeaderType(e.cmd) = "POINT"
  <2>1. PointShape(i, e, layout)
    BY <1>1, PointBody
  <2> QED BY <2>1, Zenon DEF PointShape
<1>2. CASE HeaderType(e.cmd) # "POINT"
  <2>1. ValueShape(i, e, layout)
    BY <1>2, ValueBody
  <2> QED BY <2>1, Zenon DEF ValueShape
<1> QED BY <1>1, <1>2

-----------------------------------------------------------------------------
(***************************************************************************)
(* Where the events of a stream are.                                       *)
(***************************************************************************)

\* The bytes of the list's events follow one another in the stream, event i
\* between the offsets off[i - 1] and off[i].
Laid(list, layout, off) ==
  /\ off \in [0..Len(list) -> Nat] /\ off[0] = 0 /\ off[Len(list)] = Len(data)
  /\ \A i \in 1..Len(list) :
       /\ off[i] = off[i - 1] + Len(EventBytes(i, list[i], layout))
       /\ off[i] <= Len(data)
       /\ \A b \in 1..Len(EventBytes(i, list[i], layout)) :
            data[off[i - 1] + b] = EventBytes(i, list[i], layout)[b]

\* What a driver writes is the bytes of its events, one after another.
LEMMA EncodeParts ==
  ASSUME NEW list, Len(list) \in Nat, \A i \in 1..Len(list) : IsEvent(list[i]), NEW layout
  PROVE  /\ Encode(list, layout) \in Seq(Bytes)
         /\ \A i \in 1..Len(list) : EventBytes(i, list[i], layout) \in Seq(Bytes)
         /\ \E upTo :
              /\ Encode(list, layout) = upTo[Len(list)]
              /\ Prefixes(upTo, [i \in 1..Len(list) |-> EventBytes(i, list[i], layout)],
                          Len(list), Bytes)
<1> DEFINE n == Len(list)
           parts == [i \in 1..n |-> EventBytes(i, list[i], layout)]
           Solves(g) == g = [i \in 0..n |-> IF i = 0 THEN << >>
                                            ELSE g[i - 1] \o EventBytes(i, list[i], layout)]
           upTo == CHOOSE g : Solves(g)
<1> HIDE DEF Bytes
<1>1. \A i \in 1..n : /\ EventBytes(i, list[i], layout) \in Seq(Bytes)
                      /\ parts[i] = EventBytes(i, list[i], layout)
  <2> SUFFICES ASSUME NEW i \in 1..n PROVE EventBytes(i, list[i], layout) \in Seq(Bytes)
    OBVIOUS
  <2>1. IsEvent(list[i]) /\ i \in Nat
    OBVIOUS
  <2>2. HeadShape(i, list[i], layout)
    BY <2>1, BodyType, EventHead
  <2> QED BY <2>2, Zenon DEF HeadShape
<1>2. ASSUME NEW g PROVE Joined(g, parts, n) <=> Solves(g)
  <2> DEFINE A(i) == IF i = 0 THEN << >> ELSE g[i - 1] \o parts[i]
             B(i) == IF i = 0 THEN << >> ELSE g[i - 1] \o EventBytes(i, list[i], layout)
  <2>1. ASSUME NEW i \in 0..n PROVE A(i) = B(i)
    <3>1. CASE i = 0
      BY <3>1
    <3>2. CASE i # 0
      <4>1. parts[i] = EventBytes(i, list[i], layout)
        BY <1>1, <3>2
      <4> HIDE DEF parts
      <4> QED BY <4>1
    <3> QED BY <3>1, <3>2
  <2>2. [i \in 0..n |-> A(i)] = [i \in 0..n |-> B(i)]
    <3> HIDE DEF A, B
    <3> QED BY <2>1
  <2>3. Joined(g, parts, n) <=> g = [i \in 0..n |-> A(i)]
    BY DEF Joined
  <2>4. Solves(g) <=> g = [i \in 0..n |-> B(i)]
    OBVIOUS
  <2> HIDE DEF A, B, Solves
  <2> QED BY <2>2, <2>3, <2>4
<1>3. Joined(upTo, parts, n)
  <2>1. \E g : Joined(g, parts, n)
    BY JoinExists
  <2>2. \E g : Solves(g)
    <3> HIDE DEF Solves, parts
    <3> QED BY <1>2, <2>1
  <2>3. Solves(upTo)
    <3> HIDE DEF Solves
    <3> QED BY <2>2
  <2> HIDE DEF Solves, upTo, parts
  <2> QED BY <1>2, <2>3
<1>4. Encode(list, layout) = upTo[n]
  BY DEF Encode
<1> HIDE DEF upTo
<1>5. \A i \in 1..n : parts[i] \in Seq(Bytes)
  BY <1>1
<1>6. n \in Nat
  OBVIOUS
<1>7. Prefixes(upTo, parts, n, Bytes)
  <2> HIDE DEF n, parts
  <2> QED BY <1>3, <1>5, <1>6, JoinPrefix
<1>8. Encode(list, layout) \in Seq(Bytes)
  <2>1. n \in 0..n
    BY <1>6
  <2> HIDE DEF n, parts
  <2> QED BY <1>4, <1>7, <2>1, Zenon DEF Prefixes
<1> QED BY <1>1, <1>4, <1>7, <1>8

\* So its events are laid one after another.
LEMMA EncodeLaid ==
  ASSUME NEW list, Len(list) \in Nat, \A i \in 1..Len(list) : IsEvent(list[i]),
         NEW layout, data = Encode(list, layout)
  PROVE  data \in Seq(Bytes) /\ \E off : Laid(list, layout, off)
<1> DEFINE n == Len(list)
           parts == [i \in 1..n |-> EventBytes(i, list[i], layout)]
<1> HIDE DEF Bytes
<1>1. \A i \in 1..n : /\ EventBytes(i, list[i], layout) \in Seq(Bytes)
                      /\ parts[i] = EventBytes(i, list[i], layout)
  BY EncodeParts
<1>4. PICK upTo : data = upTo[n] /\ Prefixes(upTo, parts, n, Bytes)
  BY EncodeParts
<1> HIDE DEF parts
<1>6. /\ upTo[0] = << >>
      /\ \A i \in 0..n : upTo[i] \in Seq(Bytes)
      /\ \A i \in 1..n : upTo[i] = upTo[i - 1] \o parts[i]
      /\ \A i \in 0..n : /\ Len(upTo[i]) <= Len(upTo[n])
                         /\ \A k \in 1..Len(upTo[i]) : upTo[n][k] = upTo[i][k]
  BY <1>4, Zenon DEF Prefixes
<1>7. data \in Seq(Bytes)
  BY EncodeParts
<1> DEFINE off == [i \in 0..n |-> Len(upTo[i])]
<1>8. off \in [0..n -> Nat] /\ off[0] = 0 /\ off[n] = Len(data)
  <2>1. \A i \in 0..n : Len(upTo[i]) \in Nat
    BY <1>6, LenProperties
  <2>2. Len(upTo[0]) = 0
    BY <1>6, EmptySeq
  <2> QED BY <1>4, <2>1, <2>2
<1>9. ASSUME NEW i \in 1..n
      PROVE  /\ off[i] = off[i - 1] + Len(EventBytes(i, list[i], layout))
             /\ off[i] <= Len(data)
             /\ \A b \in 1..Len(EventBytes(i, list[i], layout)) :
                  data[off[i - 1] + b] = EventBytes(i, list[i], layout)[b]
  <2>1. i \in 0..n /\ i - 1 \in 0..n /\ off[i] = Len(upTo[i]) /\ off[i - 1] = Len(upTo[i - 1])
    OBVIOUS
  <2> DEFINE part == EventBytes(i, list[i], layout)
  <2>2. /\ upTo[i - 1] \in Seq(Bytes) /\ part \in Seq(Bytes)
        /\ upTo[i] = upTo[i - 1] \o part
    BY <1>1, <1>6, <2>1
  <2> HIDE DEF part, off
  <2>3. /\ Len(upTo[i - 1]) \in Nat /\ Len(part) \in Nat
        /\ Len(upTo[i]) = Len(upTo[i - 1]) + Len(part)
        /\ \A k \in 1..Len(part) : upTo[i][Len(upTo[i - 1]) + k] = part[k]
    <3> DEFINE both == upTo[i - 1] \o part
    <3>1. /\ Len(upTo[i - 1]) \in Nat /\ Len(part) \in Nat
          /\ Len(both) = Len(upTo[i - 1]) + Len(part)
          /\ \A k \in 1..Len(part) : both[Len(upTo[i - 1]) + k] = part[k]
      BY <2>2, ConcatBytes, Zenon
    <3>2. upTo[i] = both
      BY <2>2, Zenon
    <3> HIDE DEF both
    <3> QED BY <3>1, <3>2, Zenon
  <2>4. \A b \in 1..Len(part) : data[off[i - 1] + b] = part[b]
    <3> TAKE b \in 1..Len(part)
    <3>1. Len(upTo[i - 1]) + b \in 1..Len(upTo[i])
      BY <2>3
    <3>2. data[Len(upTo[i - 1]) + b] = upTo[i][Len(upTo[i - 1]) + b]
      BY <1>4, <1>6, <2>1, <3>1
    <3> QED BY <2>1, <2>3, <3>2
  <2>5. off[i] = off[i - 1] + Len(part)
    BY <2>1, <2>3, Zenon
  <2>6. off[i] <= Len(data)
    BY <1>4, <1>6, <2>1
  <2> QED BY <2>4, <2>5, <2>6 DEF part
<1> HIDE DEF off
<1>10. Laid(list, layout, off)
  BY <1>8, <1>9 DEF Laid
<1> QED BY <1>7, <1>10

\* The number in any byte is a number.
LEMMA ByteNumbers ==
  ASSUME data \in Seq(Bytes), NEW p \in Nat
  PROVE  ByteAt(p)[2] \in Nat /\ U16At(p) \in Nat
<1>1. ByteAt(p) \in Bytes
  <2>1. Outside \in Bytes
    BY ByteType DEF Outside, Kinds
  <2>2. p < Len(data) => p + 1 \in 1..Len(data)
    OBVIOUS
  <2> HIDE DEF Bytes
  <2> QED BY <2>1, <2>2 DEF ByteAt
<1>2. ByteAt(p)[2] \in Nat
  BY <1>1 DEF Bytes
<1>3. Lead \in Nat
  BY LeadAssumption
<1> HIDE DEF Bytes
<1>4. CASE ByteAt(p)[1] = "point"
  BY <1>2, <1>4 DEF U16At
<1>5. CASE ByteAt(p)[1] # "point"
  <2>1. U16At(p) \in {Lead, 0}
    BY <1>5 DEF U16At
  <2> QED BY <1>2, <1>3, <2>1
<1> QED BY <1>4, <1>5

\* The header and the body of an event in a stream.
LEMMA EventAt ==
  ASSUME NEW list, Len(list) \in Nat, NEW layout, NEW off, Laid(list, layout, off),
         data \in Seq(Bytes),
         NEW i \in 1..Len(list), IsEvent(list[i])
  PROVE  LET start == off[i - 1]
             body  == Body(i, list[i], layout)
             pad   == PadLen(layout)
         IN  /\ start \in Nat /\ off[i] \in Nat /\ Len(body) \in Nat
             /\ off[i] = start + 4 + pad + Len(body) /\ off[i] <= Len(data)
             /\ ByteAt(start) = <<"header", off[i] - start, list[i].cmd>>
             /\ layout = "padded" => ByteAt(start + 4) = Pad
             /\ \A k \in 1..Len(body) : ByteAt(start + 4 + pad + (k - 1)) = body[k]
<1> DEFINE start == off[i - 1]
           body  == Body(i, list[i], layout)
           pad   == PadLen(layout)
           bytes == EventBytes(i, list[i], layout)
<1> HIDE DEF Bytes
<1>1. pad \in {0, 4} /\ (layout = "padded" => pad = 4)
  BY DEF PadLen
<1>2. /\ bytes \in Seq(Bytes) /\ body \in Seq(Bytes)
      /\ Len(bytes) = 4 + pad + Len(body)
      /\ bytes[1] = <<"header", Len(bytes), list[i].cmd>>
      /\ layout = "padded" => bytes[5] = Pad
      /\ \A k \in 1..Len(body) : bytes[4 + pad + k] = body[k]
  <2>1. HeadShape(i, list[i], layout)
    BY BodyType, EventHead
  <2>2. body \in Seq(Bytes)
    BY BodyType
  <2> QED BY <2>1, <2>2, Zenon DEF HeadShape
<1>3. /\ start \in Nat /\ off[i] \in Nat /\ off[i] = start + Len(bytes) /\ off[i] <= Len(data)
      /\ \A b \in 1..Len(bytes) : data[start + b] = bytes[b]
  <2>1. i \in 0..Len(list) /\ i - 1 \in 0..Len(list)
    OBVIOUS
  <2>2. off \in [0..Len(list) -> Nat]
    BY DEF Laid
  <2>3. /\ off[i] = start + Len(bytes) /\ off[i] <= Len(data)
        /\ \A b \in 1..Len(bytes) : data[start + b] = bytes[b]
    BY Zenon DEF Laid
  <2> QED BY <2>1, <2>2, <2>3
<1>4. Len(body) \in Nat /\ Len(bytes) \in Nat /\ Len(data) \in Nat
  BY <1>2, LenProperties
<1> HIDE DEF body, pad, bytes, start
<1>5. ASSUME NEW b \in 1..Len(bytes) PROVE ByteAt(start + (b - 1)) = bytes[b]
  <2>1. start + (b - 1) < Len(data) /\ start + (b - 1) + 1 = start + b
    BY <1>3, <1>4
  <2> QED BY <1>3, <2>1 DEF ByteAt
<1>6. ByteAt(start) = <<"header", off[i] - start, list[i].cmd>>
  <2>1. 1 \in 1..Len(bytes) /\ start + (1 - 1) = start /\ off[i] - start = Len(bytes)
    BY <1>1, <1>2, <1>3, <1>4
  <2>2. ByteAt(start + (1 - 1)) = bytes[1]
    BY <1>5, <2>1
  <2> QED BY <1>2, <2>1, <2>2
<1>7. layout = "padded" => ByteAt(start + 4) = Pad
  <2>1. layout = "padded" => 5 \in 1..Len(bytes) /\ 5 - 1 = 4
    BY <1>1, <1>2, <1>4
  <2>2. layout = "padded" => ByteAt(start + (5 - 1)) = bytes[5]
    BY <1>5, <2>1
  <2> QED BY <1>2, <2>1, <2>2
<1>8. ASSUME NEW k \in 1..Len(body) PROVE ByteAt(start + 4 + pad + (k - 1)) = body[k]
  <2>1. /\ 4 + pad + k \in 1..Len(bytes)
        /\ start + ((4 + pad + k) - 1) = start + 4 + pad + (k - 1)
    BY <1>1, <1>2, <1>3, <1>4
  <2>2. ByteAt(start + ((4 + pad + k) - 1)) = bytes[4 + pad + k]
    BY <1>5, <2>1
  <2> QED BY <1>2, <2>1, <2>2
<1>9. off[i] = start + 4 + pad + Len(body)
  BY <1>1, <1>2, <1>3, <1>4
<1> QED BY <1>3, <1>4, <1>6, <1>7, <1>8, <1>9 DEF body, pad, start

\* An event with a payload, in a stream.
LEMMA PointAt ==
  ASSUME NEW list, Len(list) \in Nat, NEW layout, NEW off, Laid(list, layout, off),
         data \in Seq(Bytes),
         NEW i \in 1..Len(list), IsEvent(list[i]), HeaderType(list[i].cmd) = "POINT"
  PROVE  LET start == off[i - 1]
             e     == list[i]
             pad   == PadLen(layout)
             len   == TokenLen(e.cmd, e.n)
             point == start + 4 + pad + PointOff
         IN  /\ off[i] = point + 4 + pad + len
             /\ U16At(point) = e.num
             /\ layout = "padded" => U16At(start + 4) = 0
             /\ len > 0 => ByteAt(point + 4 + pad) = <<"payload", i, e.n>>
<1> DEFINE start == off[i - 1]
           e     == list[i]
           pad   == PadLen(layout)
           len   == TokenLen(e.cmd, e.n)
           point == start + 4 + pad + PointOff
           body  == Body(i, e, layout)
<1> HIDE DEF Bytes
<1>1. pad \in {0, 4} /\ PointOff \in Nat /\ len \in Nat /\ e.num \in Nat
  <2>1. PointOff \in {0, Word} /\ Word \in Nat
    BY FixedLens, WordAssumption
  <2>2. len \in Nat
    BY TokenLenType DEF IsEvent
  <2> QED BY <2>1, <2>2 DEF IsEvent, PadLen
<1>2. /\ start \in Nat /\ off[i] = start + 4 + pad + Len(body)
      /\ layout = "padded" => ByteAt(start + 4) = Pad
      /\ \A k \in 1..Len(body) : ByteAt(start + 4 + pad + (k - 1)) = body[k]
  BY EventAt
<1>3. /\ Len(body) = PointOff + 4 + pad + len
      /\ body[PointOff + 1] = <<"point", e.num, i>>
      /\ len > 0 => body[PointOff + 5 + pad] = <<"payload", i, e.n>>
  <2>1. PointShape(i, e, layout)
    BY PointBody
  <2> QED BY <2>1, Zenon DEF PointShape
<1> HIDE DEF body, len, pad, start
<1>4. U16At(point) = e.num
  <2>1. PointOff + 1 \in 1..Len(body) /\ start + 4 + pad + ((PointOff + 1) - 1) = point
    BY <1>1, <1>2, <1>3
  <2>2. ByteAt(point) = <<"point", e.num, i>>
    BY <1>2, <1>3, <2>1
  <2> HIDE DEF point
  <2> QED BY <2>2 DEF U16At
<1>5. len > 0 => ByteAt(point + 4 + pad) = <<"payload", i, e.n>>
  <2>1. len > 0 => /\ PointOff + 5 + pad \in 1..Len(body)
                   /\ start + 4 + pad + ((PointOff + 5 + pad) - 1) = point + 4 + pad
    <3>1. Len(body) = PointOff + 4 + pad + len
      BY <1>3
    <3>2. PICK o, p, l, t \in Nat : o = PointOff /\ p = pad /\ l = len /\ t = start
      BY <1>1, <1>2
    <3>3. /\ PointOff + 5 + pad = o + 5 + p /\ Len(body) = o + 4 + p + l
          /\ start + 4 + pad + ((PointOff + 5 + pad) - 1) = t + 4 + p + ((o + 5 + p) - 1)
          /\ point + 4 + pad = (t + 4 + p + o) + 4 + p
      BY <3>1, <3>2
    <3>4. /\ l > 0 => o + 5 + p \in 1..(o + 4 + p + l)
          /\ t + 4 + p + ((o + 5 + p) - 1) = (t + 4 + p + o) + 4 + p
      OBVIOUS
    <3> HIDE DEF point
    <3> QED BY <3>2, <3>3, <3>4, Zenon
  <2> QED BY <1>2, <1>3, <2>1
<1>6. layout = "padded" => U16At(start + 4) = 0
  BY <1>2 DEF U16At, Pad
<1>7. off[i] = point + 4 + pad + len
  BY <1>1, <1>2, <1>3
<1> QED BY <1>4, <1>5, <1>6, <1>7 DEF len, pad, start, point

\* An event with values, in a stream.
LEMMA ValueAt ==
  ASSUME NEW list, Len(list) \in Nat, NEW layout, NEW off, Laid(list, layout, off),
         data \in Seq(Bytes),
         NEW i \in 1..Len(list), IsEvent(list[i]), HeaderType(list[i].cmd) \notin {"POINT", "NULL"}
  PROVE  LET first == off[i - 1] + 4 + PadLen(layout)
             e     == list[i]
             size  == FixedLen(e.cmd)
         IN  /\ off[i] = first + e.n * size
             /\ \A k \in 1..e.n : ByteAt(first + (k - 1) * size) = <<"value", i, k>>
<1> DEFINE start == off[i - 1]
           e     == list[i]
           pad   == PadLen(layout)
           size  == FixedLen(e.cmd)
           body  == Body(i, e, layout)
           Nth(k) == (k - 1) * size
<1> HIDE DEF Bytes
<1>1. pad \in {0, 4} /\ size \in {4, 8, 16} /\ e.n \in Nat
  BY HeaderTypes, FixedLens DEF IsEvent, PadLen
<1>2. /\ start \in Nat /\ off[i] = start + 4 + pad + Len(body)
      /\ \A k \in 1..Len(body) : ByteAt(start + 4 + pad + (k - 1)) = body[k]
  BY EventAt
<1>3. /\ Len(body) = e.n * size
      /\ \A k \in 1..e.n : /\ Nth(k) + 1 \in 1..Len(body)
                           /\ body[Nth(k) + 1] = <<"value", i, k>>
  <2>1. ValueShape(i, e, layout)
    BY ValueBody
  <2> QED BY <2>1, Zenon DEF ValueShape
<1>4. \A k \in 1..e.n : Nth(k) \in Int
  <2> TAKE k \in 1..e.n
  <2>1. size \in Int /\ k - 1 \in Int
    BY <1>1
  <2> HIDE DEF size
  <2> QED BY <2>1
<1> HIDE DEF body, pad, start, Nth, size
<1>5. ASSUME NEW k \in 1..e.n PROVE ByteAt(start + 4 + pad + Nth(k)) = <<"value", i, k>>
  <2>1. Nth(k) + 1 \in 1..Len(body) /\ body[Nth(k) + 1] = <<"value", i, k>>
    BY <1>3
  <2>2. ByteAt(start + 4 + pad + ((Nth(k) + 1) - 1)) = body[Nth(k) + 1]
    BY <1>2, <2>1
  <2>3. (Nth(k) + 1) - 1 = Nth(k)
    BY <1>4
  <2> QED BY <2>1, <2>2, <2>3
<1>6. off[i] = start + 4 + pad + e.n * size
  BY <1>2, <1>3, Zenon
<1> QED BY <1>5, <1>6, Zenon DEF pad, start, Nth, size

-----------------------------------------------------------------------------
(***************************************************************************)
(* What one call of the decoder makes of a written stream.                  *)
(***************************************************************************)

\* The stream is what a driver wrote of the list.
Written(list, layout, off) ==
  /\ data \in Seq(Bytes) /\ weVersion \in Nat /\ layout \in Layouts
  /\ Len(list) \in Nat /\ \A i \in 1..Len(list) : IsEvent(list[i])
  /\ Laid(list, layout, off)

\* The offset p is the end of event i; if v is not 0, it is where a value of the next
\* event lies, whole and behind its header.
Stands(list, off, i, p, v) ==
  /\ p = off[i]
  /\ v # 0 =>
       /\ i < Len(list) /\ HeaderType(list[i + 1].cmd) \notin {"POINT", "NULL"}
       /\ v \in Nat /\ v >= p + 4
       /\ v + FixedLen(list[i + 1].cmd) <= off[i + 1]

\* What the decoder reads where it stands: the header of the next event, if there is
\* one.
LEMMA AtHeader ==
  ASSUME NEW list, NEW layout, NEW off, Written(list, layout, off),
         NEW i \in 0..Len(list), Stands(list, off, i, current, value)
  PROVE  /\ off[i] \in Nat /\ off[i] <= Len(data) /\ Len(data) \in Nat
         /\ HasHeader <=> i < Len(list)
         /\ i < Len(list) =>
              /\ off[i + 1] \in Nat /\ off[i + 1] <= Len(data)
              /\ EvLen = off[i + 1] - off[i] /\ EvLen >= 4
              /\ Cmd = list[i + 1].cmd
<1> HIDE DEF Bytes
<1>1. Len(data) \in Nat
  BY LenProperties DEF Written
<1>2. off \in [0..Len(list) -> Nat] /\ off[Len(list)] = Len(data)
  BY DEF Written, Laid
<1>3. current = off[i]
  BY DEF Stands
<1>4. Len(list) \in Nat
  BY DEF Written
<1>5. CASE i = Len(list)
  <2>1. ~HasHeader
    BY <1>1, <1>2, <1>3, <1>5 DEF HasHeader, IW_EV_LCP_PK_LEN
  <2> QED BY <1>1, <1>2, <1>5, <2>1
<1>6. CASE i < Len(list)
  <2> DEFINE j == i + 1
  <2>1. j \in 1..Len(list) /\ j - 1 = i /\ j \in 0..Len(list)
    BY <1>4, <1>6
  <2>2. IsEvent(list[j])
    BY <2>1 DEF Written
  <2> HIDE DEF j
  <2>3. /\ off[i] \in Nat /\ off[j] \in Nat
        /\ off[j] = off[i] + 4 + PadLen(layout) + Len(Body(j, list[j], layout))
        /\ Len(Body(j, list[j], layout)) \in Nat
        /\ off[j] <= Len(data)
        /\ ByteAt(off[i]) = <<"header", off[j] - off[i], list[j].cmd>>
    <3>1. data \in Seq(Bytes) /\ Laid(list, layout, off)
      BY DEF Written
    <3> QED BY <1>4, <2>1, <2>2, <3>1, EventAt
  <2>4. PadLen(layout) \in {0, 4}
    BY DEF PadLen
  <2>5. Header = <<"header", off[j] - off[i], list[j].cmd>>
    BY <1>3, <2>3 DEF Header
  <2>6. HasHeader
    BY <1>1, <1>3, <2>3, <2>4, SMTT(30) DEF HasHeader, IW_EV_LCP_PK_LEN
  <2>7. EvLen = off[j] - off[i] /\ Cmd = list[j].cmd
    BY <2>5 DEF EvLen, Cmd
  <2>8. off[j] - off[i] >= 4 /\ off[i] <= Len(data)
    BY <1>1, <2>3, <2>4, SMTT(30)
  <2> QED BY <1>1, <1>6, <2>3, <2>6, <2>7, <2>8 DEF j
<1> QED BY <1>4, <1>5, <1>6

\* A payload that is handed out is within its event, once the pointer has left the stream.
LEMMA PointStep ==
  ASSUME NEW list, NEW layout, NEW off, Written(list, layout, off),
         NEW i \in 0..Len(list), Stands(list, off, i, current, value), PointEvent
  PROVE  /\ i < Len(list) /\ HeaderType(list[i + 1].cmd) = "POINT" /\ value = 0
         /\ current' = off[i + 1] /\ value' = 0 /\ ret' = 1
         /\ iwe' = [cmd |-> list[i + 1].cmd, at |-> iwe'.at, length |-> iwe'.length]
         /\ iwe'.at \in 0..Len(data) /\ iwe'.length \in Nat
         /\ Word = 4 /\ weVersion > 18 /\ iwe'.at # 0 =>
              iwe'.at + TokenLen(iwe'.cmd, iwe'.length) <= current'
<1> DEFINE fixed  == FixedLen(Cmd)
           extra  == EvLen - (fixed + IW_EV_LCP_PK_LEN)
           padded == extra # 0 /\ PointPadded(extra)
           from   == IF padded THEN Pointer + 4 ELSE Pointer
           n      == U16At(IF padded THEN from ELSE from + PointOff)
           tokenLen == TokenLen(Cmd, IF padded THEN U16At(Pointer + fixed) ELSE n)
           payload  == IF padded THEN from + fixed + 4 ELSE from + fixed
<1>1. /\ KnownEvent /\ HeaderType(Cmd) = "POINT"
      /\ iwe' = [cmd |-> Cmd, length |-> n,
                 at |-> IF extra = 0 \/ Discarded(n, tokenLen, extra) THEN 0 ELSE payload]
      /\ current' = current + EvLen
      /\ ret' = 1 /\ value' = value
  BY Zenon DEF PointEvent, Return
<1> HIDE DEF Bytes
<1>2. i < Len(list)
  BY <1>1, AtHeader DEF KnownEvent
<1> DEFINE j == i + 1
<1>3. /\ off[i] \in Nat /\ off[j] \in Nat /\ off[j] <= Len(data) /\ Len(data) \in Nat
      /\ EvLen = off[j] - off[i] /\ Cmd = list[j].cmd /\ current = off[i]
  BY <1>2, AtHeader DEF Stands
<1>L. Laid(list, layout, off)
  BY DEF Written
<1>4. j \in 1..Len(list) /\ j - 1 = i /\ IsEvent(list[j]) /\ Len(list) \in Nat
      /\ data \in Seq(Bytes)
  BY <1>2 DEF Written
<1>5. value = 0
  BY <1>1, <1>3 DEF Stands
<1> DEFINE pad == PadLen(layout)
           len == TokenLen(list[j].cmd, list[j].n)
<1> HIDE DEF j
<1>6. off[j] = off[i] + 4 + pad + PointOff + 4 + pad + len /\ len \in Nat
  <2>1. HeaderType(list[j].cmd) = "POINT"
    BY <1>1, <1>3
  <2>2. len \in Nat
    BY <1>4, TokenLenType DEF IsEvent
  <2>3. off[j] = (off[j - 1] + 4 + pad + PointOff) + 4 + pad + len
    BY <1>4, <1>L, <2>1, PointAt
  <2> QED BY <1>4, <2>2, <2>3
<1>7. /\ Word \in {4, 8} /\ PointOff \in {0, Word} /\ pad \in {0, 4}
      /\ Word = 8 => pad = 4 /\ PointOff = 0
      /\ fixed = Word + PointOff /\ Pointer = off[i] + 4
  <2>1. /\ Word = 8 => layout = "padded" /\ weVersion > 18
    BY DEF Written, Layouts
  <2>2. PointOff \in {0, Word} /\ fixed = Word + PointOff
    BY <1>1, FixedLens
  <2>3. Word = 8 => PointOff = 0
    <3>1. weVersion \in Nat
      BY DEF Written
    <3> QED BY <2>1, <3>1 DEF PointOff
  <2> QED BY <1>3, <1>5, <2>1, <2>2, <2>3, WordAssumption DEF Pointer, PadLen, IW_EV_LCP_PK_LEN
<1> HIDE DEF pad, len, fixed
<1>a. Word \in Int /\ PointOff \in Int /\ pad \in Int /\ fixed \in Int /\ Pointer \in Int
  BY <1>3, <1>7
<1>b. fixed = Word + PointOff /\ Pointer = off[i] + 4
  BY <1>7
<1>c. off[i] \in Int /\ off[j] \in Int /\ len \in Int
  BY <1>3, <1>6
<1>8. extra = off[j] - off[i] - fixed - 4 /\ extra >= 0 /\ extra \in Int
  <2>1. extra = off[j] - off[i] - fixed - 4 /\ extra \in Int
    BY <1>3, <1>7 DEF IW_EV_LCP_PK_LEN
  <2> HIDE DEF extra
  <2>2. extra = 4 + pad + pad + len - Word
    <3>1. PICK a, b, f, p, o, l, w, x \in Int :
                 /\ a = off[i] /\ b = off[j] /\ f = fixed /\ p = pad /\ o = PointOff
                 /\ l = len /\ w = Word /\ x = extra
      BY <1>a, <1>c, <2>1
    <3>2. b = a + 4 + p + o + 4 + p + l /\ f = w + o /\ x = b - a - f - 4
      BY <1>6, <1>b, <2>1, <3>1
    <3>3. x = 4 + p + p + l - w
      BY <3>2
    <3> QED BY <3>1, <3>3
  <2> QED BY <1>6, <1>7, <2>1, <2>2, SMTT(30)
<1> HIDE DEF extra
<1> HIDE DEF padded
<1>9. from \in Nat /\ n \in Nat /\ U16At(Pointer + fixed) \in Nat
  <2>0. Pointer \in Nat /\ fixed \in Nat /\ PointOff \in Nat
    BY <1>3, <1>7
  <2>1. from \in Nat /\ from + PointOff \in Nat /\ Pointer + fixed \in Nat
    BY <2>0
  <2> HIDE DEF from
  <2>2. U16At(from) \in Nat /\ U16At(from + PointOff) \in Nat /\ U16At(Pointer + fixed) \in Nat
    BY <1>4, <2>1, ByteNumbers
  <2> QED BY <2>1, <2>2
<1>10. padded => /\ TokenLen(Cmd, U16At(Pointer + fixed)) + 8 = extra
                 /\ TokenLen(Cmd, U16At(Pointer + fixed)) \in Nat
  <2>1. TokenLen(Cmd, U16At(Pointer + fixed)) \in Nat
    BY <1>9, TokenLenType
  <2> QED BY <2>1 DEF PointPadded, fixed, padded
<1>11. payload + extra = off[j] + (IF padded THEN 8 ELSE 0) /\ payload \in Nat
  <2>0. Pointer \in Nat /\ fixed \in Nat /\ PointOff \in Nat
    BY <1>3, <1>7
  <2>1. payload = off[i] + 4 + fixed + (IF padded THEN 8 ELSE 0)
    BY <1>3, <1>7, <2>0, SMTT(30)
  <2> HIDE DEF payload
  <2>2. payload + extra = off[j] + (IF padded THEN 8 ELSE 0)
    <3>1. PICK a, b, f, x \in Int : a = off[i] /\ b = off[j] /\ f = fixed /\ x = extra
      BY <1>a, <1>c, <1>8
    <3>2. x = b - a - f - 4 /\ payload = a + 4 + f + (IF padded THEN 8 ELSE 0)
      BY <1>8, <2>1, <3>1
    <3>3. payload + x = b + (IF padded THEN 8 ELSE 0)
      BY <3>2
    <3> QED BY <3>1, <3>3
  <2> QED BY <1>c, <1>3, <2>0, <2>1, <2>2, SMTT(30)
<1>12. payload <= off[j]
  <2> HIDE DEF payload, padded
  <2> QED BY <1>3, <1>8, <1>10, <1>11, SMTT(30)
<1>13. ASSUME Word = 4, weVersion > 18, extra # 0, ~Discarded(n, tokenLen, extra)
       PROVE  payload + TokenLen(Cmd, n) <= off[j]
  <2>1. tokenLen <= extra /\ tokenLen \in Nat
    <3>1. tokenLen \in Nat
      BY <1>9, TokenLenType
    <3> HIDE DEF tokenLen, n
    <3> QED BY <1>8, <1>13, <3>1 DEF Discarded
  <2>2. CASE padded
    <3>0. PointOff = 0
      BY <1>13 DEF PointOff, Written
    <3>1. n = U16At(from) /\ from = Pointer + fixed
      BY <1>3, <1>7, <1>13, <2>2, <3>0
    <3>2. TokenLen(Cmd, n) = TokenLen(Cmd, U16At(Pointer + fixed))
      BY <3>1
    <3> HIDE DEF padded, n, payload
    <3> QED BY <1>3, <1>8, <1>10, <1>11, <2>2, <3>2
  <2>3. CASE ~padded
    <3>1. tokenLen = TokenLen(Cmd, n)
      BY <2>3
    <3> HIDE DEF padded, n, payload, tokenLen
    <3> QED BY <1>3, <1>8, <1>11, <2>1, <2>3, <3>1
  <2> QED BY <2>2, <2>3
<1> HIDE DEF payload, n, tokenLen
<1>14. /\ iwe'.cmd = Cmd /\ iwe'.length = n
       /\ iwe'.at = IF extra = 0 \/ Discarded(n, tokenLen, extra) THEN 0 ELSE payload
  BY <1>1
<1>15. current' = off[j]
  BY <1>1, <1>3
<1>16. iwe'.at \in 0..Len(data)
  BY <1>3, <1>11, <1>12, <1>14
<1>17. Word = 4 /\ weVersion > 18 /\ iwe'.at # 0 =>
         iwe'.at + TokenLen(iwe'.cmd, iwe'.length) <= current'
  BY <1>13, <1>14, <1>15
<1>18. iwe' = [cmd |-> list[j].cmd, at |-> iwe'.at, length |-> iwe'.length]
  BY <1>1, <1>3
<1> QED BY <1>1, <1>2, <1>3, <1>5, <1>9, <1>14, <1>15, <1>16, <1>17, <1>18 DEF j

\* A value that is handed out is in the stream, and the next one in the event.
LEMMA ValueStep ==
  ASSUME NEW list, NEW layout, NEW off, Written(list, layout, off),
         NEW i \in 0..Len(list), Stands(list, off, i, current, value), ValueEvent
  PROVE  /\ i < Len(list) /\ HeaderType(list[i + 1].cmd) \notin {"POINT", "NULL"}
         /\ ret' = 1
         /\ iwe' = [cmd |-> list[i + 1].cmd, at |-> iwe'.at, length |-> 0]
         /\ iwe'.at \in 0..Len(data)
         /\ list[i + 1].n > 0 => iwe'.at + FixedLen(list[i + 1].cmd) <= Len(data)
         /\ \/ current' = off[i + 1] /\ value' = 0
            \/ /\ current' = current /\ value' \in Nat /\ value' > value
               /\ value' >= current + 4
               /\ value' + FixedLen(list[i + 1].cmd) <= off[i + 1]
<1> DEFINE from == IF ValuePadded THEN Pointer + 4 ELSE Pointer
           next == from + FixedLen(Cmd)
<1>1. /\ KnownEvent /\ ValueFits /\ HeaderType(Cmd) # "POINT"
      /\ iwe' = [cmd |-> Cmd, at |-> from, length |-> 0]
      /\ IF MoreValues(next)
         THEN value' = next /\ UNCHANGED current
         ELSE value' = 0 /\ current' = current + EvLen
      /\ ret' = 1
  BY Zenon DEF ValueEvent, Return
<1> HIDE DEF Bytes
<1>2. i < Len(list)
  BY <1>1, AtHeader DEF KnownEvent
<1> DEFINE j == i + 1
           size == FixedLen(Cmd)
           n    == list[j].n
           pad  == PadLen(layout)
<1>3. /\ off[i] \in Nat /\ off[j] \in Nat /\ off[j] <= Len(data) /\ Len(data) \in Nat
      /\ EvLen = off[j] - off[i] /\ EvLen >= 4 /\ Cmd = list[j].cmd /\ current = off[i]
  BY <1>2, AtHeader DEF Stands
<1>L. Laid(list, layout, off)
  BY DEF Written
<1>4. j \in 1..Len(list) /\ j - 1 = i /\ IsEvent(list[j]) /\ Len(list) \in Nat
      /\ data \in Seq(Bytes) /\ n \in Nat
  BY <1>2 DEF Written, IsEvent
<1>5. HeaderType(Cmd) \notin {"POINT", "NULL"} /\ size \in {4, 8, 16}
  <2>1. HeaderType(Cmd) # "NULL"
    BY <1>1, FixedLens DEF KnownEvent
  <2> QED BY <1>1, <2>1, HeaderTypes, FixedLens
<1>6. value # 0 => value \in Nat /\ value >= off[i] + 4 /\ value + size <= off[j]
  BY <1>3 DEF Stands
<1> HIDE DEF j, size, n
<1>7. EvLen = 4 + pad + n * size /\ pad \in {0, 4}
  <2>0. HeaderType(list[j].cmd) \notin {"POINT", "NULL"}
    BY <1>3, <1>5
  <2>1. off[j] = off[j - 1] + 4 + pad + n * FixedLen(list[j].cmd)
    BY <1>4, <1>L, <2>0, ValueAt DEF n
  <2>2. pad \in {0, 4}
    BY DEF PadLen
  <2>3. off[j] = off[i] + 4 + pad + n * size
    BY <1>3, <1>4, <2>1, Zenon DEF size
  <2>4. n * size \in Int
    BY <1>4, <1>5
  <2> DEFINE all == n * size
  <2> HIDE DEF all, pad
  <2>5. off[j] = off[i] + 4 + pad + all /\ all \in Int
    BY <2>3, <2>4 DEF all
  <2>6. EvLen = 4 + pad + all
    BY <1>3, <2>2, <2>5, SMTT(30)
  <2> QED BY <2>2, <2>6 DEF all
<1> HIDE DEF pad
<1>8. PICK a, b, v, s, q, p, l \in Nat :
        /\ a = off[i] /\ b = off[j] /\ s = size /\ q = n /\ p = pad /\ l = Len(data)
        /\ v = value
  <2>1. size \in Nat /\ pad \in Nat /\ value \in Nat
    BY <1>5, <1>6, <1>7
  <2> QED BY <1>3, <1>4, <2>1
<1>9. s \in {4, 8, 16} /\ p \in {0, 4} /\ b <= l /\ b - a = 4 + p + q * s
  BY <1>3, <1>5, <1>7, <1>8
<1>10. Pointer = (IF v # 0 THEN v ELSE a + 4) /\ (v # 0 => v >= a + 4 /\ v + s <= b)
  BY <1>3, <1>6, <1>8 DEF Pointer, IW_EV_LCP_PK_LEN
<1>11. Pointer + s <= l
  BY <1>1, <1>8 DEF ValueFits, size
<1>12. ValuePadded => v = 0 /\ ((b - a - 4) % s = 4 \/ (b - a = 12 /\ s = 4))
  <2>1. HeaderType(Cmd) \in {"UINT", "QUAL"} => s = 4
    BY <1>8, FixedLens DEF size
  <2> QED BY <1>3, <1>8, <2>1 DEF ValuePadded, IW_EV_LCP_PK_LEN, size
<1>13. from = (IF ValuePadded THEN Pointer + 4 ELSE Pointer) /\ next = from + s
  BY <1>8 DEF size
<1>14. from \in Nat /\ from >= a + 4
  <2> HIDE DEF from
  <2> QED BY <1>10, <1>13
<1> HIDE DEF from, next
<1>15. ValuePadded => b - a >= 8
  <2>1. ASSUME ValuePadded, b - a < 8 PROVE FALSE
    <3>1. q * s \in Nat
      OBVIOUS
    <3>2. p = 0 /\ q * s < 4
      <4> DEFINE all == q * s
      <4>1. all \in Nat /\ b - a = 4 + p + all
        BY <1>9, <3>1
      <4> HIDE DEF all
      <4>2. p = 0 /\ all < 4
        BY <1>9, <2>1, <4>1
      <4> QED BY <4>2 DEF all
    <3>3. q = 0
      BY <1>9, <3>2
    <3>4. b - a = 4
      BY <1>9, <3>2, <3>3
    <3>5. (b - a - 4) % s = 0
      BY <1>9, <3>4
    <3> QED BY <1>12, <2>1, <3>4, <3>5
  <2> QED BY <2>1
<1>16. from <= l
  <2>1. CASE ValuePadded
    <3>1. v = 0 /\ from = a + 8
      BY <1>10, <1>12, <1>13, <2>1
    <3> QED BY <1>9, <1>15, <2>1, <3>1
  <2>2. CASE ~ValuePadded
    <3>1. Pointer \in Nat /\ from = Pointer
      BY <1>10, <1>13, <2>2
    <3> QED BY <1>9, <1>11, <3>1
  <2> QED BY <2>1, <2>2
<1>17. q > 0 => from + s <= l
  <2>1. CASE ValuePadded
    <3>1. v = 0 /\ from = a + 8
      BY <1>10, <1>12, <1>13, <2>1
    <3>2. q > 0 => b - a >= 8 + s
      <4>1. ASSUME q > 0 PROVE b - a >= 8 + s
        <5>1. CASE s = 4
          <6>1. (b - a - 4) % 4 < 4
            OBVIOUS
          <6> QED BY <1>12, <2>1, <5>1, <6>1
        <5>2. CASE s = 8
          <6>1. b - a >= 12
            BY <1>9, <4>1, <5>2
          <6> QED BY <1>9, <1>12, <2>1, <4>1, <5>2, <6>1
        <5>3. CASE s = 16
          <6>1. b - a >= 20
            BY <1>9, <4>1, <5>3
          <6>2. (b - a - 4) % 16 = 4
            BY <1>12, <2>1, <5>3, <6>1
          <6> QED BY <6>1, <6>2, <5>3
        <5> QED BY <1>9, <5>1, <5>2, <5>3
      <4> QED BY <4>1
    <3> QED BY <1>9, <3>1, <3>2
  <2>2. CASE ~ValuePadded
    BY <1>11, <1>13, <2>2
  <2> QED BY <2>1, <2>2
<1>18. CASE MoreValues(next)
  <2>1. value' = next /\ current' = current
    BY <1>1, <1>18
  <2>2. next + s <= b
    <3>1. next + size <= current + EvLen
      BY <1>18 DEF MoreValues, size
    <3>2. current + EvLen = b
      BY <1>3, <1>8
    <3> QED BY <1>8, <3>1, <3>2
  <2>3. next \in Nat /\ next > v /\ next >= a + 4
    BY <1>9, <1>10, <1>13, <1>14
  <2>4. /\ current' = current /\ value' \in Nat /\ value' > value
        /\ value' >= current + 4 /\ value' + size <= off[j]
    BY <1>3, <1>8, <2>1, <2>2, <2>3
  <2>5. from \in 0..Len(data) /\ (n > 0 => from + size <= Len(data))
    BY <1>8, <1>14, <1>16, <1>17
  <2> QED BY <1>1, <1>2, <1>3, <1>5, <2>4, <2>5 DEF j, size, n
<1>19. CASE ~MoreValues(next)
  <2>1. value' = 0 /\ current' = current + EvLen
    BY <1>1, <1>19
  <2>2. current' = off[j]
    BY <1>3, <2>1
  <2>3. from \in 0..Len(data) /\ (n > 0 => from + size <= Len(data))
    BY <1>8, <1>14, <1>16, <1>17
  <2> QED BY <1>1, <1>2, <1>3, <1>5, <2>1, <2>2, <2>3 DEF j, size, n
<1> QED BY <1>18, <1>19

\* A payload that claims the tokens it has is read where the driver put it, padded or
\* not, within its event, and withheld only when its caller has no room for it.
LEMMA PointArrives ==
  ASSUME Word = 4, NEW list, NEW layout, NEW off, Written(list, layout, off),
         NEW i \in 0..Len(list), Stands(list, off, i, current, value), PointEvent,
         list[i + 1].num = list[i + 1].n
  PROVE  LET e == list[i + 1]
         IN  /\ iwe'.cmd = e.cmd /\ iwe'.length = e.n
             /\ PayloadKept(e) => iwe'.at # 0 /\ ByteAt(iwe'.at) = <<"payload", i + 1, e.n>>
             /\ ~PayloadKept(e) => iwe'.at = 0 \/ e.n = 0
             /\ iwe'.at # 0 => iwe'.at + TokenLen(iwe'.cmd, iwe'.length) <= current'
<1> DEFINE fixed  == FixedLen(Cmd)
           extra  == EvLen - (fixed + IW_EV_LCP_PK_LEN)
           padded == extra # 0 /\ PointPadded(extra)
           from   == IF padded THEN Pointer + 4 ELSE Pointer
           n      == U16At(IF padded THEN from ELSE from + PointOff)
           tokenLen == TokenLen(Cmd, IF padded THEN U16At(Pointer + fixed) ELSE n)
           payload  == IF padded THEN from + fixed + 4 ELSE from + fixed
           j      == i + 1
           e      == list[j]
           len    == TokenLen(e.cmd, e.n)
<1>1. /\ HeaderType(Cmd) = "POINT"
      /\ iwe' = [cmd |-> Cmd, length |-> n,
                 at |-> IF extra = 0 \/ Discarded(n, tokenLen, extra) THEN 0 ELSE payload]
  BY Zenon DEF PointEvent
<1> HIDE DEF Bytes
<1>2. i < Len(list) /\ value = 0
  BY PointStep
<1>3. /\ off[i] \in Nat /\ EvLen = off[j] - off[i] /\ Cmd = e.cmd /\ current = off[i]
  BY <1>2, AtHeader DEF Stands
<1>L. Laid(list, layout, off)
  BY DEF Written
<1>4. /\ j \in 1..Len(list) /\ j - 1 = i /\ IsEvent(e) /\ Len(list) \in Nat
      /\ data \in Seq(Bytes) /\ e.n \in Nat /\ e.num = e.n /\ j \in Nat
  BY <1>2 DEF Written, IsEvent
<1>5. Pointer = off[i] + 4 /\ fixed = 4 + PointOff /\ PointOff \in {0, 4}
  BY <1>1, <1>2, <1>3, FixedLens DEF Pointer, IW_EV_LCP_PK_LEN
<1>6. len \in Nat /\ TokenLen(e.cmd, 0) = 0 /\ (e.n > 0 => len > 0)
  BY <1>1, <1>3, <1>4, TokenLenType
<1>7. /\ off[j] = (off[j - 1] + 4 + PadLen(layout) + PointOff) + 4 + PadLen(layout) + len
      /\ U16At(off[j - 1] + 4 + PadLen(layout) + PointOff) = e.num
      /\ layout = "padded" => U16At(off[j - 1] + 4) = 0
      /\ len > 0 => ByteAt((off[j - 1] + 4 + PadLen(layout) + PointOff) + 4 + PadLen(layout))
                      = <<"payload", j, e.n>>
  BY <1>1, <1>3, <1>4, <1>L, PointAt, ZenonT(30)
<1> HIDE DEF j, len, fixed
<1>8. PICK a, o, l, b, p \in Nat :
        a = off[i] /\ o = PointOff /\ l = len /\ b = off[j] /\ p = PadLen(layout)
  <2>1. off[j] \in Nat
    BY <1>2, AtHeader DEF j
  <2>2. PadLen(layout) \in Nat
    BY DEF PadLen
  <2> QED BY <1>3, <1>5, <1>6, <2>1, <2>2
<1>9. /\ n = e.n /\ payload = a + 8 + o + 2 * PadLen(layout) /\ tokenLen = l
      /\ extra = l + 2 * PadLen(layout)
  <2>1. CASE layout = "packed"
    <3>1. PadLen(layout) = 0
      BY <2>1 DEF PadLen
    <3>2. off[j] = a + 8 + o + l /\ U16At(a + 4 + o) = e.n
      <4>1. /\ b = (a + 4 + p + o) + 4 + p + l
            /\ U16At(a + 4 + p + o) = e.n
        BY <1>4, <1>7, <1>8, Zenon
      <4>2. a + 4 + p + o = a + 4 + o /\ p = 0
        BY <1>8, <3>1
      <4> QED BY <1>8, <4>1, <4>2, SMTT(30)
    <3>3. extra = l
      <4>1. extra = (b - a) - ((4 + o) + 4) /\ b = a + 8 + o + l
        BY <1>3, <1>5, <1>8, <3>2 DEF IW_EV_LCP_PK_LEN
      <4> HIDE DEF extra
      <4> QED BY <4>1
    <3>4. U16At(Pointer + PointOff) = e.n
      BY <1>5, <1>8, <3>2
    <3> HIDE DEF extra
    <3>5. ~padded
      BY <1>3, <1>8, <3>3, <3>4 DEF PointPadded, len
    <3> HIDE DEF padded
    <3>6. from = Pointer
      BY <3>5
    <3>7. n = e.n
      BY <3>4, <3>5, <3>6
    <3>8. payload = a + 8 + o
      <4>1. payload = Pointer + fixed
        BY <3>5, <3>6
      <4>2. Pointer = a + 4 /\ fixed = 4 + o
        BY <1>5, <1>8
      <4> HIDE DEF payload
      <4>3. payload = (a + 4) + (4 + o)
        BY <4>1, <4>2
      <4> QED BY <4>3
    <3>9. tokenLen = l
      BY <1>3, <1>8, <3>5, <3>7 DEF len
    <3> QED BY <3>1, <3>3, <3>7, <3>8, <3>9
  <2>2. CASE layout = "padded"
    <3>1. PadLen(layout) = 4
      BY <2>2 DEF PadLen
    <3>2. o = 0
      <4>1. weVersion > 18 /\ weVersion \in Nat
        BY <2>2 DEF Written, Layouts
      <4> QED BY <1>8, <4>1 DEF PointOff
    <3>3. off[j] = a + 16 + l /\ U16At(a + 8) = e.n /\ U16At(a + 4) = 0
      <4>1. /\ b = (a + 4 + p + o) + 4 + p + l
            /\ U16At(a + 4 + p + o) = e.n /\ U16At(a + 4) = 0
        BY <1>4, <1>7, <1>8, <2>2, Zenon
      <4>2. a + 4 + p + o = a + 8 /\ p = 4
        BY <1>8, <3>1, <3>2
      <4>3. b = (a + 8) + 4 + 4 + l
        BY <4>1, <4>2
      <4>4. b = a + 16 + l
        BY <4>3
      <4> QED BY <1>8, <4>1, <4>2, <4>4
    <3>4. extra = l + 8
      <4>1. extra = (b - a) - ((4 + o) + 4) /\ b = a + 16 + l
        BY <1>3, <1>5, <1>8, <3>3 DEF IW_EV_LCP_PK_LEN
      <4> HIDE DEF extra
      <4> QED BY <3>2, <4>1
    <3>5. U16At(Pointer + PointOff) = 0 /\ U16At(Pointer + fixed) = e.n
      <4>1. Pointer = a + 4 /\ PointOff = 0 /\ fixed = 4
        BY <1>5, <1>8, <3>2
      <4>2. Pointer + PointOff = a + 4 /\ Pointer + fixed = a + 8
        BY <4>1
      <4> QED BY <3>3, <4>2, Zenon
    <3> HIDE DEF extra
    <3>6. padded
      BY <1>3, <1>6, <1>8, <3>4, <3>5, SMTT(30) DEF PointPadded, len, fixed
    <3> HIDE DEF padded
    <3>7. from = Pointer + 4
      BY <3>6
    <3>8. n = e.n
      <4>1. n = U16At(from)
        BY <3>6
      <4>2. Pointer + 4 = a + 8
        BY <1>5, <1>8
      <4> QED BY <3>3, <3>7, <4>1, <4>2
    <3>9. payload = a + 16
      BY <1>5, <1>8, <3>2, <3>6, <3>7, SMTT(30)
    <3>10. tokenLen = l
      BY <1>3, <1>8, <3>5, <3>6 DEF len
    <3> QED BY <3>1, <3>2, <3>4, <3>8, <3>9, <3>10
  <2> QED BY <2>1, <2>2 DEF Written, Layouts
<1> HIDE DEF n, payload, tokenLen, extra, e
<1>10. iwe'.cmd = e.cmd /\ iwe'.length = e.n
  BY <1>1, <1>3, <1>9
<1>11. PadLen(layout) \in {0, 4}
  BY DEF PadLen
<1>12. payload \in Nat /\ payload > 0 /\ (e.n > 0 => extra # 0)
  <2>1. payload = a + 8 + o + 2 * p /\ extra = l + 2 * p
    BY <1>8, <1>9
  <2>2. e.n > 0 => l > 0
    BY <1>6, <1>8
  <2> QED BY <2>1, <2>2
<1>13. Discarded(n, tokenLen, extra) <=> TooMany(e.cmd, e.n) \/ TooFew(e.cmd, e.n)
  <2>1. ~(extra >= 0 /\ tokenLen > extra)
    <3>1. extra = l + 2 * p /\ tokenLen = l
      BY <1>8, <1>9
    <3> QED BY <3>1
  <2>2. n = e.n /\ Cmd = e.cmd
    BY <1>3, <1>9
  <2> QED BY <2>1, <2>2 DEF Discarded
<1>14. ByteAt(payload) = <<"payload", j, e.n>> \/ e.n = 0
  <2>1. ASSUME e.n # 0 PROVE ByteAt(payload) = <<"payload", j, e.n>>
    <3>1. len > 0
      BY <1>4, <1>6, <2>1
    <3>2. (off[j - 1] + 4 + PadLen(layout) + PointOff) + 4 + PadLen(layout) = payload
      <4>1. payload = a + 8 + o + 2 * p
        BY <1>8, <1>9
      <4>2. (off[j - 1] + 4 + PadLen(layout) + PointOff) + 4 + PadLen(layout)
              = (a + 4 + p + o) + 4 + p
        BY <1>4, <1>8
      <4> QED BY <4>1, <4>2
    <3> QED BY <1>7, <3>1, <3>2
  <2> QED BY <2>1
<1>15. iwe'.at = IF extra = 0 \/ Discarded(n, tokenLen, extra) THEN 0 ELSE payload
  BY <1>1
<1>16. PayloadKept(e) => iwe'.at # 0 /\ ByteAt(iwe'.at) = <<"payload", j, e.n>>
  <2>1. ASSUME PayloadKept(e) PROVE iwe'.at = payload /\ e.n # 0
    <3>1. e.n > 0 /\ ~TooMany(e.cmd, e.n) /\ ~TooFew(e.cmd, e.n)
      BY <2>1 DEF PayloadKept
    <3> QED BY <1>4, <1>12, <1>13, <1>15, <3>1
  <2> QED BY <1>12, <1>14, <2>1
<1>17. ~PayloadKept(e) => iwe'.at = 0 \/ e.n = 0
  <2>1. ASSUME ~PayloadKept(e) PROVE e.n = 0 \/ TooMany(e.cmd, e.n) \/ TooFew(e.cmd, e.n)
    BY <1>4, <2>1 DEF PayloadKept
  <2> QED BY <1>13, <1>15, <2>1
<1>18. iwe'.at # 0 => iwe'.at + TokenLen(iwe'.cmd, iwe'.length) <= current'
  <2>1. payload + l = off[j]
    <3>1. off[j] = (a + 4 + p + o) + 4 + p + l
      BY <1>4, <1>7, <1>8, Zenon
    <3>2. payload = a + 8 + o + 2 * p
      BY <1>8, <1>9
    <3> QED BY <3>1, <3>2
  <2>2. current' = off[j]
    BY PointStep DEF j
  <2>3. TokenLen(iwe'.cmd, iwe'.length) = l
    BY <1>8, <1>10 DEF len
  <2> QED BY <1>8, <1>15, <2>1, <2>2, <2>3
<1> QED BY <1>10, <1>16, <1>17, <1>18 DEF j, e

\* The k-th value of an event is read where the driver put it, padded or not, and the
\* event is left behind after its last one.
LEMMA ValueArrives ==
  ASSUME NEW list, NEW layout, NEW off, Written(list, layout, off),
         NEW i \in 0..Len(list), Stands(list, off, i, current, value), ValueEvent,
         NEW k \in Nat, k < list[i + 1].n,
         HeaderType(list[i + 1].cmd) \in {"UINT", "QUAL"} => list[i + 1].n <= 1,
         value = IF k = 0 THEN 0
                 ELSE off[i] + 4 + PadLen(layout) + k * FixedLen(list[i + 1].cmd)
  PROVE  /\ iwe'.at # 0 /\ ByteAt(iwe'.at) = <<"value", i + 1, k + 1>>
         /\ k + 1 < list[i + 1].n =>
              value' = off[i] + 4 + PadLen(layout) + (k + 1) * FixedLen(list[i + 1].cmd)
         /\ k + 1 < list[i + 1].n <=> value' # 0
<1> DEFINE from == IF ValuePadded THEN Pointer + 4 ELSE Pointer
           next == from + FixedLen(Cmd)
           j    == i + 1
           e    == list[j]
           size == FixedLen(Cmd)
           n    == e.n
           pad  == PadLen(layout)
<1>1. /\ KnownEvent /\ HeaderType(Cmd) # "POINT"
      /\ iwe' = [cmd |-> Cmd, at |-> from, length |-> 0]
      /\ IF MoreValues(next)
         THEN value' = next /\ UNCHANGED current
         ELSE value' = 0 /\ current' = current + EvLen
  BY Zenon DEF ValueEvent, Return
<1> HIDE DEF Bytes
<1>2. i < Len(list) /\ HeaderType(e.cmd) \notin {"POINT", "NULL"}
  BY ValueStep
<1>3. /\ off[i] \in Nat /\ off[j] \in Nat /\ EvLen = off[j] - off[i]
      /\ Cmd = e.cmd /\ current = off[i]
  BY <1>2, AtHeader DEF Stands
<1>L. Laid(list, layout, off)
  BY DEF Written
<1>4. /\ j \in 1..Len(list) /\ j - 1 = i /\ IsEvent(e) /\ Len(list) \in Nat
      /\ data \in Seq(Bytes) /\ n \in Nat /\ j \in Nat
  BY <1>2 DEF Written, IsEvent
<1>5. size \in {4, 8, 16} /\ (size = 4 <=> HeaderType(Cmd) \in {"UINT", "QUAL"})
  BY <1>2, <1>3, HeaderTypes, FixedLens
<1>6. /\ off[j] = off[j - 1] + 4 + PadLen(layout) + n * FixedLen(e.cmd)
      /\ \A m \in 1..n : ByteAt((off[j - 1] + 4 + PadLen(layout)) + (m - 1) * FixedLen(e.cmd))
                           = <<"value", j, m>>
  BY <1>2, <1>4, <1>L, ValueAt, SMTT(30) DEF n
<1> HIDE DEF j, size, n, pad
<1>7. pad \in {0, 4}
  BY DEF pad, PadLen
<1>8. PICK a, b, s, q, p \in Nat :
        a = off[i] /\ b = off[j] /\ s = size /\ q = n /\ p = pad
  BY <1>3, <1>4, <1>5, <1>7
<1>9. /\ s \in {4, 8, 16} /\ p \in {0, 4} /\ b = a + 4 + p + q * s /\ k + 1 <= q
      /\ EvLen = b - a
      /\ s = 4 => q <= 1
      /\ value = IF k = 0 THEN 0 ELSE a + 4 + p + k * s
  <2>1. b = a + 4 + p + q * s
    BY <1>3, <1>4, <1>6, <1>8, Zenon DEF size, pad
  <2>2. value = IF k = 0 THEN 0 ELSE a + 4 + p + k * s
    BY <1>3, <1>8, Zenon DEF size, pad, j
  <2>3. q > k
    BY <1>8 DEF n, j
  <2>4. s = 4 => q <= 1
    BY <1>3, <1>5, <1>8 DEF n, j
  <2>5. s \in {4, 8, 16} /\ p \in {0, 4} /\ EvLen = b - a
    BY <1>3, <1>5, <1>7, <1>8
  <2> QED BY <2>1, <2>2, <2>3, <2>4, <2>5
<1>10. k * s \in Nat /\ (k + 1) * s = k * s + s /\ q * s \in Nat /\ k * s + s <= q * s
       /\ (k + 1 < q <=> k * s + s + s <= q * s)
  BY <1>9
<1>11. PICK ks, qs \in Nat : ks = k * s /\ qs = q * s
  BY <1>10
<1>12. ValuePadded <=> k = 0 /\ p = 4
  <2>1. (EvLen - IW_EV_LCP_PK_LEN) % size = (p + q * s) % s
    <3>1. EvLen - IW_EV_LCP_PK_LEN = p + qs
      BY <1>9, <1>11 DEF IW_EV_LCP_PK_LEN
    <3> QED BY <1>8, <1>11, <3>1
  <2>2. EvLen = 4 + p + qs
    BY <1>9, <1>11
  <2>3. value = 0 <=> k = 0
    BY <1>9, <1>10, <1>11
  <2>4. CASE s = 4
    <3>1. q = 1 /\ k = 0 /\ qs = 4
      BY <1>9, <1>11, <2>4
    <3>2. EvLen = 12 <=> p = 4
      BY <1>9, <2>2, <3>1
    <3>3. (p + q * s) % s # 4
      BY <1>9, <2>4
    <3> QED BY <1>5, <1>8, <2>1, <2>3, <2>4, <3>1, <3>2, <3>3 DEF ValuePadded, size
  <2>5. CASE s \in {8, 16}
    <3>1. (p + q * s) % s = 4 <=> p = 4
      BY <1>9, <2>5
    <3>2. HeaderType(Cmd) \notin {"UINT", "QUAL"}
      BY <1>5, <1>8, <2>5
    <3>3. (EvLen - IW_EV_LCP_PK_LEN) % FixedLen(Cmd) = 4 <=> p = 4
      BY <2>1, <3>1 DEF size
    <3> QED BY <2>3, <3>2, <3>3, Zenon DEF ValuePadded
  <2> QED BY <1>9, <2>4, <2>5
<1>13. from = a + 4 + p + ks
  <2>1. Pointer = IF k = 0 THEN a + 4 ELSE a + 4 + p + ks
    <3>1. CASE k = 0
      BY <1>3, <1>8, <1>9, <3>1 DEF Pointer, IW_EV_LCP_PK_LEN
    <3>2. CASE k # 0
      <4>1. value = a + 4 + p + ks
        BY <1>9, <1>11, <3>2
      <4>2. value # 0
        BY <4>1
      <4> QED BY <3>2, <4>1, <4>2 DEF Pointer
    <3> QED BY <3>1, <3>2
  <2>2. k = 0 => ks = 0
    BY <1>9, <1>11
  <2> QED BY <1>9, <1>12, <2>1, <2>2
<1> HIDE DEF from
<1>14. next = a + 4 + p + ks + s /\ (MoreValues(next) <=> k + 1 < q)
  <2>1. next = a + 4 + p + ks + s
    BY <1>8, <1>13 DEF size
  <2> HIDE DEF next
  <2>2. MoreValues(next) <=> next + s <= a + (b - a)
    BY <1>3, <1>8, <1>9 DEF MoreValues, size
  <2> QED BY <1>9, <1>10, <1>11, <2>1, <2>2
<1> HIDE DEF next
<1>15. iwe'.at # 0 /\ ByteAt(iwe'.at) = <<"value", j, k + 1>>
  <2>1. ByteAt(from) = <<"value", j, k + 1>>
    <3>1. k + 1 \in 1..n /\ (k + 1) - 1 = k
      BY <1>8, <1>9
    <3>2. ByteAt((off[j - 1] + 4 + PadLen(layout)) + ((k + 1) - 1) * FixedLen(e.cmd))
            = <<"value", j, k + 1>>
      BY <1>6, <3>1
    <3>3. ByteAt((a + 4 + p) + k * s) = <<"value", j, k + 1>>
      BY <1>3, <1>4, <1>8, <3>1, <3>2, Zenon DEF size, pad
    <3> QED BY <1>11, <1>13, <3>3
  <2>2. from # 0
    BY <1>13
  <2> QED BY <1>1, <2>1, <2>2
<1>16. k + 1 < n =>
         value' = off[i] + 4 + PadLen(layout) + (k + 1) * FixedLen(e.cmd)
  <2>1. ASSUME k + 1 < n PROVE value' = a + 4 + p + (k + 1) * s
    <3>1. value' = next
      BY <1>1, <1>8, <1>14, <2>1
    <3>2. (k + 1) * s = ks + s
      BY <1>10, <1>11
    <3> QED BY <1>14, <3>1, <3>2
  <2> QED BY <1>3, <1>8, <2>1, Zenon DEF size, pad
<1>17. k + 1 < n <=> value' # 0
  BY <1>1, <1>8, <1>14, SMTT(30)
<1> QED BY <1>15, <1>16, <1>17 DEF j, e, n

\* With p and v as its two offsets the decoder has read i events of the list and the
\* first k values of the next one.
HasRead(list, layout, off, i, k, p, v) ==
  /\ Stands(list, off, i, p, v)
  /\ v = IF k = 0 THEN 0 ELSE off[i] + 4 + PadLen(layout) + k * FixedLen(list[i + 1].cmd)
  /\ k # 0 => k < list[i + 1].n

\* The calls: at the end of the list, at an event of no known type, at one with a
\* payload and at the next value of one.
AtEnd(list, i, k) ==
  /\ i = Len(list) /\ k = 0
  /\ ret' = 0 /\ UNCHANGED <<current, value, iwe>>

PassesEvent(list, layout, off, i, k) ==
  LET e == list[i + 1] IN
  /\ i < Len(list) /\ HeaderType(e.cmd) = "NULL" /\ k = 0
  /\ ret' = 2 /\ iwe'.cmd = e.cmd
  /\ HasRead(list, layout, off, i + 1, 0, current', value')

ReadsPayload(list, layout, off, i, k) ==
  LET e == list[i + 1] IN
  /\ i < Len(list) /\ HeaderType(e.cmd) = "POINT" /\ k = 0
  /\ ret' = 1 /\ iwe'.cmd = e.cmd /\ iwe'.length = e.n
  /\ PayloadKept(e) => iwe'.at # 0 /\ ByteAt(iwe'.at) = <<"payload", i + 1, e.n>>
  /\ ~PayloadKept(e) => iwe'.at = 0 \/ e.n = 0
  /\ HasRead(list, layout, off, i + 1, 0, current', value')

ReadsValue(list, layout, off, i, k) ==
  LET e == list[i + 1] IN
  /\ i < Len(list) /\ HeaderType(e.cmd) \notin {"POINT", "NULL"} /\ k < e.n
  /\ ret' = 1 /\ iwe'.cmd = e.cmd /\ iwe'.length = 0
  /\ iwe'.at # 0 /\ ByteAt(iwe'.at) = <<"value", i + 1, k + 1>>
  /\ IF k + 1 < e.n THEN HasRead(list, layout, off, i, k + 1, current', value')
                    ELSE HasRead(list, layout, off, i + 1, 0, current', value')

\* An event of a proper list has a body.
LEMMA LongEvent ==
  ASSUME NEW list, NEW layout, NEW off, Written(list, layout, off),
         NEW i \in 0..Len(list), Stands(list, off, i, current, value),
         i < Len(list), ProperEvent(list[i + 1])
  PROVE  EvLen > 4
<1> HIDE DEF Bytes
<1> DEFINE j   == i + 1
           e   == list[j]
           pad == PadLen(layout)
<1>1. /\ j \in 1..Len(list) /\ j - 1 = i /\ IsEvent(e) /\ e.n \in Nat /\ j \in Nat
      /\ Len(list) \in Nat /\ data \in Seq(Bytes) /\ Laid(list, layout, off)
  BY DEF Written, IsEvent
<1>2. EvLen = off[j] - off[i] /\ off[i] \in Nat /\ off[j] \in Nat
  BY AtHeader
<1> DEFINE body == Body(j, e, layout)
<1>a. ProperEvent(e)
  OBVIOUS
<1> HIDE DEF j
<1>3. off[j] = off[i] + 4 + pad + Len(body) /\ Len(body) \in Nat
  <2>1. off[j] = off[j - 1] + 4 + PadLen(layout) + Len(body) /\ Len(body) \in Nat
    BY <1>1, EventAt, SMTT(30)
  <2> QED BY <1>1, <2>1
<1>4. Len(body) > 0
  <2>1. CASE HeaderType(e.cmd) = "POINT"
    <3>1. off[j] = (off[j - 1] + 4 + PadLen(layout) + PointOff) + 4 + PadLen(layout)
                     + TokenLen(e.cmd, e.n)
      BY <1>1, <2>1, PointAt
    <3>2. TokenLen(e.cmd, e.n) \in Nat /\ PointOff \in Nat /\ pad \in {0, 4}
      BY <1>1, TokenLenType, FixedLens, WordAssumption DEF PadLen
    <3>3. PICK a, b, o, p, t, l \in Nat : /\ a = off[i] /\ b = off[j] /\ o = PointOff /\ p = pad
                                          /\ t = TokenLen(e.cmd, e.n) /\ l = Len(body)
      BY <1>2, <1>3, <3>2
    <3>4. b = (a + 4 + p + o) + 4 + p + t /\ b = a + 4 + p + l
      BY <1>1, <1>3, <3>1, <3>3
    <3> QED BY <3>3, <3>4, SMTT(30)
  <2>2. CASE HeaderType(e.cmd) = "NULL"
    <3>1. body = Field(Rest, e.n)
      BY <2>2 DEF Body
    <3>2. Rest \in Bytes
      BY ByteType DEF Rest, Kinds
    <3>3. Len(body) = e.n
      BY <1>1, <3>1, <3>2, FieldBytes
    <3> QED BY <1>1, <1>a, <2>2, <3>3 DEF ProperEvent
  <2>3. CASE HeaderType(e.cmd) \notin {"POINT", "NULL"}
    <3>1. off[j] = off[j - 1] + 4 + PadLen(layout) + e.n * FixedLen(e.cmd)
      BY <1>1, <2>3, ValueAt
    <3>2. FixedLen(e.cmd) \in {4, 8, 16} /\ e.n > 0
      BY <1>a, <2>3, HeaderTypes, FixedLens DEF ProperEvent
    <3>3. pad \in {0, 4}
      BY DEF PadLen
    <3>4. PICK a, b, p, t, n, l \in Nat : /\ a = off[i] /\ b = off[j] /\ p = pad
                                          /\ t = FixedLen(e.cmd) /\ n = e.n /\ l = Len(body)
      BY <1>1, <1>2, <1>3, <3>2, <3>3
    <3>5. b = a + 4 + p + n * t /\ b = a + 4 + p + l
      BY <1>1, <1>3, <3>1, <3>4
    <3>6. n * t > 0
      BY <3>2, <3>4, SMTT(30)
    <3>7. PICK all \in Nat : all = n * t
      OBVIOUS
    <3>8. b = a + 4 + p + all /\ all > 0
      BY <3>5, <3>6, <3>7
    <3>9. l > 0
      BY <3>5, <3>8
    <3> QED BY <3>4, <3>9
  <2> QED BY <2>1, <2>2, <2>3
<1>5. pad \in {0, 4}
  BY DEF PadLen
<1> HIDE DEF body, pad
<1> QED BY <1>2, <1>3, <1>4, <1>5

\* The first value of an event of a proper list is whole, and so is its length.
LEMMA WholeEvent ==
  ASSUME Word = 4, NEW list, NEW layout, NEW off, Written(list, layout, off),
         NEW i \in 0..Len(list), Stands(list, off, i, current, value),
         i < Len(list), ProperEvent(list[i + 1]), KnownEvent
  PROVE  ValueFits
<1> HIDE DEF Bytes
<1> DEFINE j   == i + 1
           e   == list[j]
           pad == PadLen(layout)
<1>1. /\ j \in 1..Len(list) /\ j - 1 = i /\ IsEvent(e) /\ e.n \in Nat /\ j \in Nat
      /\ Len(list) \in Nat /\ data \in Seq(Bytes) /\ Laid(list, layout, off)
  BY DEF Written, IsEvent
<1>2. /\ off[i] \in Nat /\ off[j] \in Nat /\ off[j] <= Len(data) /\ Len(data) \in Nat
      /\ Cmd = e.cmd /\ FixedLen(e.cmd) > 0 /\ current = off[i]
  BY AtHeader DEF KnownEvent, Stands
<1>a. ProperEvent(e)
  OBVIOUS
<1>b. value # 0 => /\ HeaderType(e.cmd) \notin {"POINT", "NULL"}
                   /\ value \in Nat /\ value + FixedLen(e.cmd) <= off[j]
  BY DEF Stands
<1>3. pad \in {0, 4}
  BY DEF PadLen
<1> HIDE DEF pad, j
<1>4. CASE HeaderType(e.cmd) = "POINT"
  <2>1. value = 0
    BY <1>4, <1>b
  <2>2. off[j] = (off[j - 1] + 4 + PadLen(layout) + PointOff) + 4 + PadLen(layout)
                   + TokenLen(e.cmd, e.n)
    BY <1>1, <1>4, PointAt
  <2>3. TokenLen(e.cmd, e.n) \in Nat /\ PointOff \in {0, 4} /\ FixedLen(e.cmd) = 4 + PointOff
    BY <1>1, <1>4, TokenLenType, FixedLens
  <2>4. PICK a, b, o, p, t, l \in Nat : /\ a = off[i] /\ b = off[j] /\ o = PointOff /\ p = pad
                                        /\ t = TokenLen(e.cmd, e.n) /\ l = Len(data)
    BY <1>2, <1>3, <2>3
  <2>5. b = (a + 4 + p + o) + 4 + p + t /\ b <= l
    BY <1>1, <1>2, <2>2, <2>4 DEF pad
  <2>6. Pointer + FixedLen(Cmd) = (a + 4) + (4 + o)
    BY <1>2, <2>1, <2>3, <2>4 DEF Pointer, IW_EV_LCP_PK_LEN
  <2>7. (a + 4) + (4 + o) <= l
    BY <2>5
  <2> QED BY <2>4, <2>6, <2>7 DEF ValueFits
<1>5. CASE HeaderType(e.cmd) # "POINT"
  <2>1. HeaderType(e.cmd) # "NULL"
    BY <1>2, FixedLens
  <2>2. FixedLen(e.cmd) \in {4, 8, 16} /\ e.n > 0
    BY <1>5, <1>a, <2>1, HeaderTypes, FixedLens DEF ProperEvent
  <2>3. CASE value # 0
    BY <1>2, <1>b, <2>2, <2>3 DEF Pointer, ValueFits
  <2>4. CASE value = 0
    <3>1. off[j] = off[j - 1] + 4 + PadLen(layout) + e.n * FixedLen(e.cmd)
      BY <1>1, <1>5, <2>1, ValueAt
    <3>2. PICK a, b, p, s, n, l \in Nat : /\ a = off[i] /\ b = off[j] /\ p = pad
                                          /\ s = FixedLen(e.cmd) /\ n = e.n /\ l = Len(data)
      BY <1>1, <1>2, <1>3, <2>2
    <3>3. b = a + 4 + p + n * s /\ b <= l
      BY <1>1, <1>2, <3>1, <3>2, Zenon DEF pad
    <3>4. n * s >= s /\ n * s \in Nat
      <4>1. s \in {4, 8, 16} /\ n >= 1
        BY <2>2, <3>2
      <4> QED BY <4>1
    <3>5. Pointer + FixedLen(Cmd) = a + 4 + s
      BY <1>2, <2>4, <3>2 DEF Pointer, IW_EV_LCP_PK_LEN
    <3>6. a + 4 + s <= l
      BY <3>3, <3>4
    <3> QED BY <3>2, <3>5, <3>6 DEF ValueFits
  <2> QED BY <2>3, <2>4
<1> QED BY <1>4, <1>5

\* In a 32-bit program a call passes the next event of a proper list, or reads its
\* payload or its next value, from the place where the driver put it.
LEMMA Arrives ==
  ASSUME Word = 4, NEW list, NEW layout, NEW off, Written(list, layout, off),
         \A j \in 1..Len(list) : ProperEvent(list[j]),
         NEW i \in 0..Len(list), NEW k \in Nat,
         HasRead(list, layout, off, i, k, current, value), Extract
  PROVE  \/ AtEnd(list, i, k)
         \/ PassesEvent(list, layout, off, i, k)
         \/ ReadsPayload(list, layout, off, i, k)
         \/ ReadsValue(list, layout, off, i, k)
<1> HIDE DEF Bytes
<1> DEFINE j   == i + 1
           e   == list[j]
           pad == PadLen(layout)
<1>1. Stands(list, off, i, current, value)
  BY DEF HasRead
<1>2. /\ off[i] \in Nat /\ off[i] <= Len(data) /\ Len(data) \in Nat
      /\ HasHeader <=> i < Len(list)
      /\ i < Len(list) =>
           /\ off[j] \in Nat /\ off[j] <= Len(data)
           /\ EvLen = off[j] - off[i] /\ EvLen >= 4
           /\ Cmd = list[j].cmd
      /\ current = off[i]
  BY <1>1, AtHeader DEF Stands
<1>3. /\ Len(list) \in Nat /\ data \in Seq(Bytes)
      /\ \A m \in 1..Len(list) : IsEvent(list[m])
  BY DEF Written
<1>4. ASSUME i < Len(list)
      PROVE  /\ j \in 1..Len(list) /\ j - 1 = i /\ IsEvent(e) /\ e.n \in Nat
             /\ ProperEvent(e) /\ EvLen > 4 /\ j \in 0..Len(list)
  <2>1. j \in 1..Len(list) /\ j - 1 = i /\ j \in 0..Len(list)
    BY <1>3, <1>4
  <2>2. ProperEvent(e) /\ IsEvent(e)
    BY <1>3, <2>1
  <2>3. EvLen > 4
    BY <1>1, <1>4, <2>2, LongEvent
  <2> QED BY <2>1, <2>2, <2>3 DEF IsEvent
<1>5. value # 0 <=> k # 0
  <2>1. value = IF k = 0 THEN 0 ELSE off[i] + 4 + PadLen(layout) + k * FixedLen(e.cmd)
    BY DEF HasRead
  <2>2. k * FixedLen(e.cmd) \in Nat /\ PadLen(layout) \in Nat
    <3>1. FixedLen(e.cmd) \in Nat
      BY FixedLens
    <3>2. PICK s \in Nat : s = FixedLen(e.cmd)
      BY <3>1
    <3> QED BY <3>2 DEF PadLen
  <2>3. PICK all \in Nat : all = k * FixedLen(e.cmd)
    BY <2>2
  <2> QED BY <1>2, <2>1, <2>2, <2>3
<1>6. value # 0 => i < Len(list) /\ HeaderType(e.cmd) \notin {"POINT", "NULL"}
  BY <1>1 DEF Stands
<1>7. ASSUME current' = off[j], value' = 0
      PROVE  HasRead(list, layout, off, j, 0, current', value')
  BY <1>7 DEF HasRead, Stands
<1>8. CASE EndOfStream
  <2>1. ~HasHeader /\ value' = value /\ current' = current /\ ret' = 0 /\ iwe' = iwe
    BY <1>8 DEF EndOfStream, Return
  <2>2. i \in 0..Len(list) /\ ~(i < Len(list))
    BY <1>2, <2>1
  <2>3. i = Len(list)
    BY <1>3, <2>2
  <2> QED BY <1>5, <1>6, <2>1, <2>2, <2>3 DEF AtEnd
<1>9. CASE InvalidEvent
  <2>1. HasHeader /\ EvLen <= 4
    BY <1>9 DEF InvalidEvent, IW_EV_LCP_PK_LEN
  <2>2. i < Len(list)
    BY <1>2, <2>1
  <2>3. EvLen > 4 /\ EvLen \in Int
    BY <1>2, <1>4, <2>2
  <2> QED BY <2>1, <2>3
<1>10. CASE UnknownEvent
  <2>1. /\ HasHeader /\ FixedLen(Cmd) = 0 /\ current' = current + EvLen /\ value' = value
        /\ ret' = 2 /\ iwe' = [iwe EXCEPT !.cmd = Cmd]
    BY <1>10 DEF UnknownEvent, Return
  <2>2. i < Len(list) /\ Cmd = e.cmd
    BY <1>2, <2>1
  <2>3. HeaderType(e.cmd) = "NULL"
    <3>1. Word + PointOff # 0
      BY FixedLens
    <3> QED BY <2>1, <2>2, <3>1, HeaderTypes, FixedLens
  <2>4. value = 0 /\ k = 0
    BY <1>5, <1>6, <2>3
  <2>5. current' = off[j]
    BY <1>2, <2>1, <2>2
  <2>6. HasRead(list, layout, off, j, 0, current', value')
    BY <1>7, <2>1, <2>4, <2>5
  <2> QED BY <2>1, <2>2, <2>3, <2>4, <2>6 DEF PassesEvent
<1>11. CASE TruncatedEvent
  <2>1. KnownEvent /\ ~ValueFits
    BY <1>11 DEF TruncatedEvent
  <2>2. i < Len(list)
    BY <1>2, <2>1 DEF KnownEvent
  <2> QED BY <1>1, <1>4, <2>1, <2>2, WholeEvent
<1>12. CASE PointEvent
  <2>1. /\ i < Len(list) /\ HeaderType(e.cmd) = "POINT" /\ value = 0
        /\ current' = off[j] /\ value' = 0 /\ ret' = 1
    BY <1>1, <1>12, PointStep
  <2>2. /\ iwe'.cmd = e.cmd /\ iwe'.length = e.n
        /\ PayloadKept(e) => iwe'.at # 0 /\ ByteAt(iwe'.at) = <<"payload", j, e.n>>
        /\ ~PayloadKept(e) => iwe'.at = 0 \/ e.n = 0
    <3>1. e.num = e.n
      BY <1>4, <2>1 DEF ProperEvent
    <3> QED BY <1>1, <1>12, <3>1, PointArrives
  <2>3. HasRead(list, layout, off, j, 0, current', value')
    BY <1>7, <2>1
  <2> QED BY <1>5, <2>1, <2>2, <2>3 DEF ReadsPayload
<1>13. CASE ValueEvent
  <2>1. /\ i < Len(list) /\ HeaderType(e.cmd) \notin {"POINT", "NULL"} /\ ret' = 1
        /\ iwe' = [cmd |-> e.cmd, at |-> iwe'.at, length |-> 0]
        /\ \/ current' = off[j] /\ value' = 0
           \/ /\ current' = current /\ value' \in Nat /\ value' > value
              /\ value' >= current + 4
              /\ value' + FixedLen(e.cmd) <= off[j]
    BY <1>1, <1>13, ValueStep
  <2>2. /\ k < e.n
        /\ value = IF k = 0 THEN 0
                   ELSE off[i] + 4 + PadLen(layout) + k * FixedLen(e.cmd)
    BY <1>4, <2>1 DEF HasRead, ProperEvent
  <2>3. /\ iwe'.at # 0 /\ ByteAt(iwe'.at) = <<"value", j, k + 1>>
        /\ k + 1 < e.n => value' = off[i] + 4 + PadLen(layout) + (k + 1) * FixedLen(e.cmd)
        /\ k + 1 < e.n <=> value' # 0
    <3>1. HeaderType(e.cmd) \in {"UINT", "QUAL"} => e.n <= 1
      BY <1>4, <2>1 DEF ProperEvent
    <3> QED BY <1>1, <1>13, <2>2, <3>1, ValueArrives
  <2>4. iwe'.cmd = e.cmd /\ iwe'.length = 0
    BY <2>1
  <2>5. CASE k + 1 < e.n
    <3>1. /\ current' = off[i] /\ value' # 0
          /\ value' \in Nat /\ value' >= current' + 4 /\ value' + FixedLen(e.cmd) <= off[j]
      BY <1>2, <2>1, <2>3, <2>5
    <3>2. Stands(list, off, i, current', value')
      BY <2>1, <3>1 DEF Stands
    <3>3. k + 1 # 0
      OBVIOUS
    <3>4. HasRead(list, layout, off, i, k + 1, current', value')
      BY <2>3, <2>5, <3>2, <3>3, Zenon DEF HasRead
    <3> QED BY <2>1, <2>2, <2>3, <2>4, <2>5, <3>4 DEF ReadsValue
  <2>6. CASE ~(k + 1 < e.n)
    <3>1. value' = 0 /\ current' = off[j]
      BY <1>2, <2>1, <2>3, <2>6
    <3>2. HasRead(list, layout, off, j, 0, current', value')
      BY <1>7, <3>1
    <3> QED BY <2>1, <2>2, <2>3, <2>4, <2>6, <3>2 DEF ReadsValue
  <2> QED BY <2>5, <2>6
<1> QED BY <1>8, <1>9, <1>10, <1>11, <1>12, <1>13 DEF Extract
=============================================================================
