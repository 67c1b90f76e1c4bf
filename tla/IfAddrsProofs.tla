------------------------------ MODULE IfAddrsProofs ----------------------------
(***************************************************************************)
(* Theorems about the lists that ifshow walks, for any lists of addresses,  *)
(* any devices of /proc/net/dev, netmasks of any width, and any number of   *)
(* changes and faults.                                                      *)
(***************************************************************************)
EXTENDS IfAddrs, WellFoundedInduction, SequenceTheorems, FiniteSetTheorems, TLAPS

-----------------------------------------------------------------------------
(* Numbers *)

\* A non-empty set of numbers has a least one.
LEMMA LeastNumber ==
  ASSUME NEW S, S \subseteq Nat, S # {}
  PROVE  \E n \in S : \A m \in S : n <= m
<1> DEFINE Less == OpToRel(<, Nat)
<1>1. \E x \in S : \A y \in S : <<y, x>> \notin Less
  <2>1. IsWellFoundedOn(Less, Nat)
    BY NatLessThanWellFounded
  <2> HIDE DEF Less
  <2> QED BY <2>1, WFMin
<1>2. \A x, y \in Nat : y < x => <<y, x>> \in Less
  BY DEF OpToRel
<1>3. PICK n \in S : \A m \in S : <<m, n>> \notin Less
  BY <1>1
<1> HIDE DEF Less
<1>4. ASSUME NEW m \in S PROVE n <= m
  <2>1. ~(m < n)
    BY <1>2, <1>3
  <2> QED BY <2>1
<1> QED BY <1>4

\* Powers of two up to some one.
PowersTo(g, hi) == g = [n \in 0 .. hi |-> IF n = 0 THEN 1 ELSE 2 * g[n - 1]]

\* The definition of the powers has a solution.
LEMMA PowersExist == \E g : PowersTo(g, Width)
<1> DEFINE Bad == {h \in 0 .. Width : ~ \E g : PowersTo(g, h)}
<1>0. Width \in Nat
  BY IfAddrsAssumption
<1>1. SUFFICES ASSUME Bad # {} PROVE FALSE
  BY <1>0
<1>2. PICK h \in Bad : \A k \in Bad : h <= k
  <2>1. Bad \subseteq Nat
    OBVIOUS
  <2> HIDE DEF Bad
  <2> QED BY <1>1, <2>1, LeastNumber
<1>3. h # 0
  <2> DEFINE f == [n \in 0 .. 0 |-> 1]
  <2>1. PowersTo(f, 0)
    BY DEF PowersTo
  <2> QED BY <1>2, <2>1
<1>4. h \in 1 .. Width /\ h - 1 \in 0 .. Width /\ ~(h <= h - 1)
  BY <1>0, <1>2, <1>3
<1>5. PICK f : PowersTo(f, h - 1)
  BY <1>2, <1>4
<1> DEFINE g == [n \in 0 .. h |-> IF n = 0 THEN 1 ELSE 2 * f[n - 1]]
<1>6. \A n \in 0 .. h - 1 : g[n] = f[n]
  BY <1>4, <1>5 DEF PowersTo
<1>7. PowersTo(g, h)
  <2>1. \A n \in 0 .. h : n # 0 => n - 1 \in 0 .. h - 1
    BY <1>4
  <2>2. \A n \in 0 .. h : g[n] = IF n = 0 THEN 1 ELSE 2 * g[n - 1]
    <3> TAKE n \in 0 .. h
    <3>1. g[n] = IF n = 0 THEN 1 ELSE 2 * f[n - 1]
      OBVIOUS
    <3> HIDE DEF g
    <3> QED BY <1>6, <2>1, <3>1
  <2>3. g = [n \in 0 .. h |-> g[n]]
    OBVIOUS
  <2> HIDE DEF g
  <2> QED BY <2>2, <2>3 DEF PowersTo
<1> HIDE DEF g
<1> QED BY <1>2, <1>7

\* Each power of two is twice the one before.
LEMMA Powers ==
  /\ Pow2[0] = 1
  /\ \A n \in 1 .. Width : Pow2[n] = 2 * Pow2[n - 1]
  /\ \A n \in 0 .. Width : Pow2[n] \in Nat \ {0}
<1>0. Width \in Nat
  BY IfAddrsAssumption
<1>1. Pow2 = CHOOSE g : PowersTo(g, Width)
  BY Zenon DEF Pow2, PowersTo
<1>2. Pow2 = [n \in 0 .. Width |-> IF n = 0 THEN 1 ELSE 2 * Pow2[n - 1]]
  BY <1>1, PowersExist DEF PowersTo
<1>3. Pow2[0] = 1
  BY <1>0, <1>2
<1>4. \A n \in 1 .. Width : Pow2[n] = 2 * Pow2[n - 1]
  BY <1>0, <1>2
<1> DEFINE Bad == {n \in 0 .. Width : Pow2[n] \notin Nat \ {0}}
<1>5. Bad = {}
  <2>1. SUFFICES ASSUME Bad # {} PROVE FALSE
    OBVIOUS
  <2>2. PICK n \in Bad : \A k \in Bad : n <= k
    <3>1. Bad \subseteq Nat
      OBVIOUS
    <3> HIDE DEF Bad
    <3> QED BY <2>1, <3>1, LeastNumber
  <2>3. n \in 1 .. Width /\ n - 1 \in 0 .. Width /\ ~(n <= n - 1)
    BY <1>0, <1>3, <2>2
  <2>4. Pow2[n - 1] \in Nat \ {0}
    BY <2>2, <2>3
  <2> QED BY <1>4, <2>2, <2>3, <2>4
<1> QED BY <1>3, <1>4, <1>5

\* The ones of the numbers up to some one.
OnesTo(g, hi) == g = [m \in 0 .. hi |-> IF m = 0 THEN 0 ELSE (m % 2) + g[m \div 2]]

\* The definition of the ones has a solution.
LEMMA OnesExist ==
  ASSUME NEW hi \in Nat
  PROVE  \E g : OnesTo(g, hi)
<1> DEFINE Bad == {h \in 0 .. hi : ~ \E g : OnesTo(g, h)}
<1>1. SUFFICES ASSUME Bad # {} PROVE FALSE
  OBVIOUS
<1>2. PICK h \in Bad : \A k \in Bad : h <= k
  <2>1. Bad \subseteq Nat
    OBVIOUS
  <2> HIDE DEF Bad
  <2> QED BY <1>1, <2>1, LeastNumber
<1>3. h # 0
  <2> DEFINE f == [m \in 0 .. 0 |-> 0]
  <2>1. OnesTo(f, 0)
    BY DEF OnesTo
  <2> QED BY <1>2, <2>1
<1>4. h \in 1 .. hi /\ h - 1 \in 0 .. hi /\ ~(h <= h - 1)
  BY <1>2, <1>3
<1>5. PICK f : OnesTo(f, h - 1)
  BY <1>2, <1>4
<1> DEFINE g == [m \in 0 .. h |-> IF m = 0 THEN 0 ELSE (m % 2) + f[m \div 2]]
<1>6. \A m \in 0 .. h - 1 : g[m] = f[m]
  BY <1>4, <1>5 DEF OnesTo
<1>7. OnesTo(g, h)
  <2>1. \A m \in 0 .. h : m # 0 => m \div 2 \in 0 .. h - 1
    BY <1>4
  <2>2. \A m \in 0 .. h : g[m] = IF m = 0 THEN 0 ELSE (m % 2) + g[m \div 2]
    <3> TAKE m \in 0 .. h
    <3>1. g[m] = IF m = 0 THEN 0 ELSE (m % 2) + f[m \div 2]
      OBVIOUS
    <3> HIDE DEF g
    <3> QED BY <1>6, <2>1, <3>1
  <2>3. g = [m \in 0 .. h |-> g[m]]
    OBVIOUS
  <2> HIDE DEF g
  <2> QED BY <2>2, <2>3 DEF OnesTo
<1> HIDE DEF g
<1> QED BY <1>2, <1>7

\* The ones of a mask are those of its half, and its last bit.
LEMMA OnesOfHalf ==
  /\ Ones[0] = 0
  /\ \A m \in Masks : Ones[m] \in Nat
  /\ \A q \in Nat : 2 * q \in Masks => q \in Masks /\ Ones[2 * q] = Ones[q]
  /\ \A q \in Nat : 2 * q + 1 \in Masks => q \in Masks /\ Ones[2 * q + 1] = 1 + Ones[q]
<1>0. Width \in Nat /\ Pow2[Width] \in Nat \ {0} /\ Masks = 0 .. Pow2[Width] - 1
  BY IfAddrsAssumption, Powers DEF Masks
<1>1. Ones = CHOOSE g : OnesTo(g, Pow2[Width] - 1)
  BY Zenon DEF Ones, OnesTo, Masks
<1>2. Ones = [m \in Masks |-> IF m = 0 THEN 0 ELSE (m % 2) + Ones[m \div 2]]
  <2>1. Pow2[Width] - 1 \in Nat
    BY <1>0
  <2>2. OnesTo(Ones, Pow2[Width] - 1)
    BY <1>1, <2>1, OnesExist
  <2> QED BY <1>0, <2>2, Zenon DEF OnesTo
<1>3. Ones[0] = 0
  BY <1>0, <1>2
<1> DEFINE Bad == {m \in Masks : Ones[m] \notin Nat}
<1>6. Bad = {}
  <2>1. SUFFICES ASSUME Bad # {} PROVE FALSE
    OBVIOUS
  <2>2. PICK m \in Bad : \A k \in Bad : m <= k
    <3>1. Bad \subseteq Nat
      BY <1>0
    <3> HIDE DEF Bad
    <3> QED BY <2>1, <3>1, LeastNumber
  <2>3. m \in Masks /\ m # 0 /\ m \div 2 \in Masks /\ ~(m <= m \div 2) /\ m % 2 \in Nat
    BY <1>0, <1>3, <2>2
  <2>4. Ones[m \div 2] \in Nat
    BY <2>2, <2>3
  <2>5. Ones[m] = (m % 2) + Ones[m \div 2]
    BY <1>2, <2>3
  <2> QED BY <2>2, <2>3, <2>4, <2>5
<1>4. ASSUME NEW q \in Nat, 2 * q \in Masks
      PROVE  q \in Masks /\ Ones[2 * q] = Ones[q]
  <2>1. q \in Masks /\ (2 * q) % 2 = 0 /\ (2 * q) \div 2 = q /\ (2 * q = 0 => q = 0)
    BY <1>0, <1>4
  <2>2. Ones[2 * q] = IF 2 * q = 0 THEN 0 ELSE 0 + Ones[q]
    BY <1>2, <1>4, <2>1
  <2>3. Ones[q] \in Nat
    BY <1>6, <2>1
  <2> QED BY <1>3, <2>1, <2>2, <2>3
<1>5. ASSUME NEW q \in Nat, 2 * q + 1 \in Masks
      PROVE  q \in Masks /\ Ones[2 * q + 1] = 1 + Ones[q]
  <2>1. q \in Masks /\ (2 * q + 1) % 2 = 1 /\ (2 * q + 1) \div 2 = q /\ 2 * q + 1 # 0
    BY <1>0, <1>5
  <2> QED BY <1>2, <1>5, <2>1
<1> QED BY <1>3, <1>4, <1>5, <1>6

\* Divisibility, by what is left over.
LEMMA Divides ==
  ASSUME NEW a \in Nat, NEW b \in Nat \ {0}
  PROVE  /\ a % b = 0 => \E c \in Nat : a = c * b
         /\ \A c \in Nat : a = c * b => a % b = 0
<1>1. a % b = 0 => a = (a \div b) * b /\ a \div b \in Nat
  OBVIOUS
<1>2. \A c \in Nat : a = c * b => a % b = 0
  OBVIOUS
<1> QED BY <1>1, <1>2

\* It stays when both numbers are doubled.
LEMMA DoubleDivides ==
  ASSUME NEW a \in Nat, NEW b \in Nat \ {0}
  PROVE  (2 * a) % (2 * b) = 0 <=> a % b = 0
<1>1. ASSUME a % b = 0 PROVE (2 * a) % (2 * b) = 0
  <2>1. PICK c \in Nat : a = c * b
    BY <1>1, Divides
  <2> DEFINE x == 2 * a
             y == 2 * b
  <2>2. x = c * y /\ x \in Nat /\ y \in Nat \ {0}
    BY <2>1
  <2> HIDE DEF x, y
  <2>3. x % y = 0
    BY <2>2, Divides
  <2> QED BY <2>3 DEF x, y
<1>2. ASSUME (2 * a) % (2 * b) = 0 PROVE a % b = 0
  <2>1. PICK c \in Nat : 2 * a = c * (2 * b)
    BY <1>2, Divides
  <2>2. c * (2 * b) = 2 * (c * b)
    OBVIOUS
  <2>3. a = c * b
    BY <2>1, <2>2
  <2> QED BY <2>3, Divides
<1> QED BY <1>1, <1>2

\* A shift by one more empties a mask of one bit more.
LEMMA ShiftOnce ==
  ASSUME NEW w \in 1 .. Width, NEW m \in Nat, NEW n \in 0 .. w - 1
  PROVE  /\ Empties(w, m, n + 1) <=> Empties(w - 1, m, n)
         /\ Empties(w, 2 * m, n) <=> Empties(w - 1, m, n)
<1>0. Width \in Nat
  BY IfAddrsAssumption
<1>1. /\ n + 1 \in 1 .. Width /\ (n + 1) - 1 = n /\ w - 1 \in 0 .. Width /\ n \in 0 .. Width
      /\ w \in 0 .. Width
  BY <1>0
<1>2. /\ Pow2[n + 1] = 2 * Pow2[n] /\ Pow2[w] = 2 * Pow2[w - 1]
      /\ Pow2[n] \in Nat /\ Pow2[w - 1] \in Nat \ {0}
  BY <1>1, Powers
<1> DEFINE a == m * Pow2[n]
<1>3. a \in Nat /\ m * Pow2[n + 1] = 2 * a /\ (2 * m) * Pow2[n] = 2 * a
  BY <1>2
<1> HIDE DEF a
<1>4. (2 * a) % Pow2[w] = 0 <=> a % Pow2[w - 1] = 0
  BY <1>2, <1>3, DoubleDivides
<1> QED BY <1>3, <1>4 DEF Empties, a

\* A shift by the whole width empties any mask.
LEMMA ShiftAll ==
  ASSUME NEW w \in 0 .. Width, NEW m \in Nat
  PROVE  Empties(w, m, w)
<1>1. Pow2[w] \in Nat \ {0}
  BY Powers
<1>2. m * Pow2[w] \in Nat
  BY <1>1
<1> QED BY <1>1, <1>2, Divides DEF Empties

\* No shorter one empties an odd mask.
LEMMA OddStays ==
  ASSUME NEW q \in Nat
  PROVE  \A w \in 0 .. Width : \A n \in 0 .. w - 1 : ~ Empties(w, 2 * q + 1, n)
<1> DEFINE m == 2 * q + 1
           Bad == {n \in Nat : \E w \in 0 .. Width : n <= w - 1 /\ Empties(w, m, n)}
<1>0. Width \in Nat /\ m \in Nat
  BY IfAddrsAssumption
<1>1. SUFFICES ASSUME Bad # {} PROVE FALSE
  BY <1>0
<1>2. PICK n \in Bad : \A k \in Bad : n <= k
  <2>1. Bad \subseteq Nat
    OBVIOUS
  <2> HIDE DEF Bad
  <2> QED BY <1>1, <2>1, LeastNumber
<1>3. PICK w \in 0 .. Width : n <= w - 1 /\ Empties(w, m, n)
  BY <1>2
<1>4. n \in Nat /\ w \in 1 .. Width /\ w - 1 \in 0 .. Width
  BY <1>0, <1>2, <1>3
<1>5. CASE n = 0
  <2>1. Pow2[0] = 1 /\ Pow2[w] = 2 * Pow2[w - 1] /\ Pow2[w] \in Nat \ {0} /\ Pow2[w - 1] \in Nat
    BY <1>4, Powers
  <2>2. m % Pow2[w] = 0
    BY <1>0, <1>3, <1>5, <2>1 DEF Empties
  <2>3. PICK c \in Nat : m = c * Pow2[w]
    BY <1>0, <2>1, <2>2, Divides
  <2>4. c * Pow2[w] = 2 * (c * Pow2[w - 1]) /\ c * Pow2[w - 1] \in Nat
    BY <2>1
  <2> DEFINE d == c * Pow2[w - 1]
  <2>5. d \in Nat /\ 2 * q + 1 = 2 * d
    BY <2>3, <2>4
  <2> HIDE DEF d
  <2> QED BY <2>5
<1>6. CASE n # 0
  <2>1. n - 1 \in 0 .. w - 1 /\ (n - 1) + 1 = n /\ ~(n <= n - 1) /\ n - 1 <= (w - 1) - 1 /\ n - 1 \in Nat
    BY <1>3, <1>4, <1>6
  <2> HIDE DEF m
  <2>2. Empties(w - 1, m, n - 1)
    BY <1>0, <1>3, <1>4, <2>1, ShiftOnce
  <2>3. n - 1 \in Bad
    BY <1>4, <2>1, <2>2
  <2> QED BY <1>2, <2>1, <2>3
<1> QED BY <1>5, <1>6

\* The shifts that empty a mask.
Shifts(w, m, s) == s \in 0 .. w /\ \A n \in 0 .. w : Empties(w, m, n) <=> s <= n

\* What the two ways to look at a mask of a width make of it.
MaskRight(w, m) ==
  /\ Ones[m] \in 0 .. w
  /\ Ones[m] = w => m = Pow2[w] - 1
  /\ \A p \in 0 .. w : Leading(w, m, p) => Ones[m] = p
  /\ \E s \in 0 .. w : /\ Shifts(w, m, s)
                       /\ s = Ones[m] <=> \E p \in 0 .. w : Leading(w, m, p)

\* A mask that ends in a zero is a mask of one bit less, shifted.
LEMMA EvenMask ==
  ASSUME NEW w \in 1 .. Width, NEW q \in 0 .. Pow2[w - 1] - 1, 2 * q \in Masks,
         MaskRight(w - 1, q)
  PROVE  MaskRight(w, 2 * q)
<1>0. Width \in Nat /\ w \in 0 .. Width /\ w - 1 \in 0 .. Width
  BY IfAddrsAssumption
<1>1. /\ Pow2[w] = 2 * Pow2[w - 1] /\ Pow2[w - 1] \in Nat \ {0} /\ Pow2[0] = 1
      /\ \A k \in 1 .. Width : Pow2[k] = 2 * Pow2[k - 1]
      /\ \A k \in 0 .. Width : Pow2[k] \in Nat
  BY <1>0, Powers
<1>2. q \in Nat /\ Ones[2 * q] = Ones[q]
  BY <1>1, OnesOfHalf
<1>3. Ones[q] \in 0 .. w - 1
  BY DEF MaskRight
<1>4. \A p \in 0 .. w - 1 : Leading(w, 2 * q, p) <=> Leading(w - 1, q, p)
  <2> TAKE p \in 0 .. w - 1
  <2>1. w - p \in 1 .. Width /\ (w - p) - 1 = (w - 1) - p /\ (w - 1) - p \in 0 .. Width
    BY <1>0
  <2>2. Pow2[w - p] = 2 * Pow2[(w - 1) - p] /\ Pow2[(w - 1) - p] \in Nat
    BY <1>1, <2>1
  <2> QED BY <1>1, <1>2, <2>2 DEF Leading
<1>5. ~ Leading(w, 2 * q, w)
  <2>1. w - w = 0
    BY <1>0
  <2>2. 2 * q # 2 * Pow2[w - 1] - 1
    BY <1>1, <1>2
  <2> QED BY <1>1, <2>1, <2>2 DEF Leading
<1>6. PICK s \in 0 .. w - 1 : /\ Shifts(w - 1, q, s)
                              /\ s = Ones[q] <=> \E p \in 0 .. w - 1 : Leading(w - 1, q, p)
  BY DEF MaskRight
<1>7. Shifts(w, 2 * q, s)
  <2>1. ASSUME NEW n \in 0 .. w PROVE Empties(w, 2 * q, n) <=> s <= n
    <3>1. CASE n = w
      <4>1. Empties(w, 2 * q, w)
        BY <1>0, <1>2, ShiftAll
      <4> QED BY <1>0, <3>1, <4>1
    <3>2. CASE n # w
      <4>1. n \in 0 .. w - 1
        BY <1>0, <3>2
      <4>2. Empties(w, 2 * q, n) <=> Empties(w - 1, q, n)
        BY <1>2, <4>1, ShiftOnce
      <4> QED BY <1>6, <4>1, <4>2 DEF Shifts
    <3> QED BY <3>1, <3>2
  <2> QED BY <1>0, <2>1 DEF Shifts
<1>8. (\E p \in 0 .. w : Leading(w, 2 * q, p)) <=> (\E p \in 0 .. w - 1 : Leading(w - 1, q, p))
  <2>1. \A p \in 0 .. w : p = w \/ p \in 0 .. w - 1
    BY <1>0
  <2>2. \A p \in 0 .. w - 1 : p \in 0 .. w
    BY <1>0
  <2> QED BY <1>4, <1>5, <2>1, <2>2
<1>9. \A p \in 0 .. w : Leading(w, 2 * q, p) => Ones[2 * q] = p
  <2> TAKE p \in 0 .. w
  <2>1. p = w \/ p \in 0 .. w - 1
    BY <1>0
  <2> QED BY <1>2, <1>4, <1>5, <2>1 DEF MaskRight
<1>10. Ones[2 * q] \in 0 .. w /\ Ones[2 * q] # w /\ s \in 0 .. w
  BY <1>0, <1>2, <1>3
<1> QED BY <1>2, <1>6, <1>7, <1>8, <1>9, <1>10 DEF MaskRight

\* A mask that ends in a one is emptied by its whole width only.
LEMMA OddMask ==
  ASSUME NEW w \in 1 .. Width, NEW q \in 0 .. Pow2[w - 1] - 1, 2 * q + 1 \in Masks,
         MaskRight(w - 1, q)
  PROVE  MaskRight(w, 2 * q + 1)
<1>0. Width \in Nat /\ w \in 0 .. Width /\ w - 1 \in 0 .. Width
  BY IfAddrsAssumption
<1>1. /\ Pow2[w] = 2 * Pow2[w - 1] /\ Pow2[w - 1] \in Nat \ {0} /\ Pow2[0] = 1
      /\ \A k \in 1 .. Width : Pow2[k] = 2 * Pow2[k - 1]
      /\ \A k \in 0 .. Width : Pow2[k] \in Nat
  BY <1>0, Powers
<1>2. q \in Nat /\ Ones[2 * q + 1] = 1 + Ones[q]
  BY <1>1, OnesOfHalf
<1>3. Ones[q] \in 0 .. w - 1 /\ (Ones[q] = w - 1 => q = Pow2[w - 1] - 1)
  BY DEF MaskRight
<1>4. Ones[2 * q + 1] \in 0 .. w /\ (Ones[2 * q + 1] = w => 2 * q + 1 = Pow2[w] - 1)
  <2>1. Ones[2 * q + 1] \in 0 .. w
    BY <1>0, <1>2, <1>3
  <2>2. ASSUME Ones[2 * q + 1] = w PROVE 2 * q + 1 = Pow2[w] - 1
    <3>1. Ones[q] = w - 1
      BY <1>0, <1>2, <1>3, <2>2
    <3>2. q = Pow2[w - 1] - 1
      BY <1>3, <3>1
    <3> QED BY <1>1, <3>2
  <2> QED BY <2>1, <2>2
<1>5. \A p \in 0 .. w - 1 : ~ Leading(w, 2 * q + 1, p)
  <2> TAKE p \in 0 .. w - 1
  <2>1. w - p \in 1 .. Width /\ (w - p) - 1 \in 0 .. Width
    BY <1>0
  <2>2. Pow2[w - p] = 2 * Pow2[(w - p) - 1] /\ Pow2[(w - p) - 1] \in Nat
    BY <1>1, <2>1
  <2> DEFINE x == Pow2[(w - p) - 1]
             y == Pow2[w - 1]
  <2>3. x \in Nat /\ y \in Nat /\ Pow2[w - p] = 2 * x /\ Pow2[w] = 2 * y
    BY <1>1, <2>2
  <2> HIDE DEF x, y
  <2>4. 2 * q + 1 # 2 * y - 2 * x
    BY <1>2, <2>3
  <2> QED BY <2>3, <2>4 DEF Leading
<1>6. Leading(w, 2 * q + 1, w) <=> q = Pow2[w - 1] - 1
  <2>1. w - w = 0
    BY <1>0
  <2> QED BY <1>1, <1>2, <2>1 DEF Leading
<1>7. q = Pow2[w - 1] - 1 => Ones[q] = w - 1
  <2>1. (w - 1) - (w - 1) = 0 /\ w - 1 \in 0 .. w - 1
    BY <1>0
  <2>2. q = Pow2[w - 1] - 1 => Leading(w - 1, q, w - 1)
    BY <1>1, <2>1 DEF Leading
  <2> QED BY <2>1, <2>2 DEF MaskRight
<1>8. \A p \in 0 .. w : Leading(w, 2 * q + 1, p) => Ones[2 * q + 1] = p
  <2> TAKE p \in 0 .. w
  <2>1. p = w \/ p \in 0 .. w - 1
    BY <1>0
  <2>2. Leading(w, 2 * q + 1, p) => p = w
    BY <1>5, <2>1
  <2> QED BY <1>0, <1>2, <1>6, <1>7, <2>2
<1>9. Shifts(w, 2 * q + 1, w)
  <2>1. ASSUME NEW n \in 0 .. w PROVE Empties(w, 2 * q + 1, n) <=> w <= n
    <3>1. CASE n = w
      <4>1. Empties(w, 2 * q + 1, w)
        BY <1>0, <1>2, ShiftAll
      <4> QED BY <1>0, <3>1, <4>1
    <3>2. CASE n # w
      <4>1. n \in 0 .. w - 1 /\ ~(w <= n)
        BY <1>0, <3>2
      <4> QED BY <1>0, <1>2, <4>1, OddStays
    <3> QED BY <3>1, <3>2
  <2> QED BY <1>0, <2>1 DEF Shifts
<1>10. w \in 0 .. w /\ (w = Ones[2 * q + 1] <=> q = Pow2[w - 1] - 1)
  BY <1>0, <1>2, <1>3, <1>7
<1>11. w = Ones[2 * q + 1] <=> \E p \in 0 .. w : Leading(w, 2 * q + 1, p)
  <2>1. \A p \in 0 .. w : p = w \/ p \in 0 .. w - 1
    BY <1>0
  <2> QED BY <1>5, <1>6, <1>10, <2>1
<1> QED BY <1>4, <1>8, <1>9, <1>10, <1>11 DEF MaskRight

\* For a mask of any width.
LEMMA MaskCounts ==
  \A w \in 0 .. Width : \A m \in 0 .. Pow2[w] - 1 : MaskRight(w, m)
<1> DEFINE Bad == {w \in 0 .. Width : \E m \in 0 .. Pow2[w] - 1 : ~ MaskRight(w, m)}
<1>0. Width \in Nat
  BY IfAddrsAssumption
<1>1. SUFFICES ASSUME Bad # {} PROVE FALSE
  OBVIOUS
<1>2. PICK w \in Bad : \A k \in Bad : w <= k
  <2>1. Bad \subseteq Nat
    OBVIOUS
  <2> HIDE DEF Bad
  <2> QED BY <1>1, <2>1, LeastNumber
<1>3. PICK m \in 0 .. Pow2[w] - 1 : ~ MaskRight(w, m)
  BY <1>2
<1>4. w # 0
  <2> SUFFICES ASSUME w = 0 PROVE FALSE
    OBVIOUS
  <2>1. m = 0 /\ Pow2[0] = 1 /\ Ones[0] = 0
    BY <1>3, Powers, OnesOfHalf
  <2>2. Leading(0, 0, 0)
    BY <2>1 DEF Leading
  <2>3. Empties(0, 0, 0)
    BY <2>1 DEF Empties
  <2>4. Shifts(0, 0, 0)
    BY <2>3 DEF Shifts
  <2>5. MaskRight(0, 0)
    BY <2>1, <2>2, <2>4 DEF MaskRight
  <2> QED BY <1>3, <2>1, <2>5
<1>5. w \in 1 .. Width /\ w - 1 \in 0 .. Width /\ ~(w <= w - 1)
  BY <1>0, <1>2, <1>4
<1>6. \A k \in 0 .. Pow2[w - 1] - 1 : MaskRight(w - 1, k)
  BY <1>2, <1>5
<1>7. Pow2[w] = 2 * Pow2[w - 1] /\ Pow2[w - 1] \in Nat \ {0}
  BY <1>5, Powers
<1>8. \A k \in 0 .. Width : Pow2[k] <= Pow2[Width]
  <2> DEFINE Large == {d \in 0 .. Width : ~(Pow2[Width - d] <= Pow2[Width])}
  <2>1. Large = {}
    <3>1. SUFFICES ASSUME Large # {} PROVE FALSE
      OBVIOUS
    <3>2. PICK d \in Large : \A e \in Large : d <= e
      <4>1. Large \subseteq Nat
        OBVIOUS
      <4> HIDE DEF Large
      <4> QED BY <3>1, <4>1, LeastNumber
    <3>3. d # 0
      <4>1. Width - 0 = Width /\ Width \in 0 .. Width
        BY <1>0
      <4>2. Pow2[Width] \in Nat
        BY <4>1, Powers
      <4> QED BY <3>2, <4>1, <4>2
    <3>4. /\ d - 1 \in 0 .. Width /\ ~(d <= d - 1) /\ Width - (d - 1) \in 1 .. Width
          /\ (Width - (d - 1)) - 1 = Width - d /\ Width - d \in 0 .. Width /\ Width \in 0 .. Width
      BY <1>0, <3>2, <3>3
    <3>5. Pow2[Width - (d - 1)] <= Pow2[Width]
      BY <3>2, <3>4
    <3>6. /\ Pow2[Width - (d - 1)] = 2 * Pow2[Width - d]
          /\ Pow2[Width - d] \in Nat /\ Pow2[Width] \in Nat
      BY <3>4, Powers
    <3>7. Pow2[Width - d] <= Pow2[Width]
      BY <3>5, <3>6
    <3> QED BY <3>2, <3>7
  <2> TAKE k \in 0 .. Width
  <2>2. Width - k \in 0 .. Width /\ Width - (Width - k) = k
    BY <1>0
  <2> QED BY <2>1, <2>2
<1>9. m \in Masks
  <2>1. w \in 0 .. Width /\ Width \in 0 .. Width
    BY <1>0, <1>5
  <2>2. Pow2[w] <= Pow2[Width] /\ Pow2[w] \in Nat /\ Pow2[Width] \in Nat
    BY <1>8, <2>1, Powers
  <2> QED BY <1>3, <2>2 DEF Masks
<1>10. PICK q \in 0 .. Pow2[w - 1] - 1 : m = 2 * q \/ m = 2 * q + 1
  <2>1. m \div 2 \in 0 .. Pow2[w - 1] - 1 /\ (m = 2 * (m \div 2) \/ m = 2 * (m \div 2) + 1)
    BY <1>3, <1>7
  <2> QED BY <2>1
<1>11. MaskRight(w, m)
  BY <1>5, <1>6, <1>9, <1>10, EvenMask, OddMask
<1> QED BY <1>3, <1>11

\* What the two programs make of a netmask.
LEMMA NetmaskCounts ==
  ASSUME NEW mask \in Masks
  PROVE  /\ CountOnes(mask) \in 0 .. Width
         /\ \A p \in 0 .. Width : Leading(Width, mask, p) => CountOnes(mask) = p
         /\ (\E p \in 0 .. Width : Leading(Width, mask, p)) <=> LegacyPrefix(mask) = CountOnes(mask)
<1>0. Width \in Nat /\ Width \in 0 .. Width
  BY IfAddrsAssumption
<1>1. MaskRight(Width, mask)
  BY <1>0, MaskCounts DEF Masks
<1>2. PICK s \in 0 .. Width :
        /\ Shifts(Width, mask, s)
        /\ s = Ones[mask] <=> \E p \in 0 .. Width : Leading(Width, mask, p)
  BY <1>1 DEF MaskRight
<1> DEFINE Least(n) == Empties(Width, mask, n) /\ \A k \in 0 .. n - 1 : ~ Empties(Width, mask, k)
<1>3. \A n \in 0 .. Width : Least(n) <=> n = s
  <2> TAKE n \in 0 .. Width
  <2>1. Empties(Width, mask, s) /\ \A k \in 0 .. Width : Empties(Width, mask, k) => s <= k
    BY <1>0, <1>2 DEF Shifts
  <2>2. ASSUME n = s PROVE Least(n)
    <3>1. \A k \in 0 .. n - 1 : k \in 0 .. Width /\ ~(s <= k)
      BY <1>0, <2>2
    <3> QED BY <2>1, <2>2, <3>1
  <2>3. ASSUME Least(n) PROVE n = s
    <3>1. s <= n
      BY <2>1, <2>3
    <3>2. ~(s \in 0 .. n - 1)
      BY <2>1, <2>3
    <3> QED BY <1>0, <3>1, <3>2
  <2> QED BY <2>2, <2>3
<1>4. LegacyPrefix(mask) = s
  <2>1. LegacyPrefix(mask) = CHOOSE n \in 0 .. Width : Least(n)
    BY DEF LegacyPrefix
  <2> HIDE DEF Least
  <2> QED BY <1>3, <2>1
<1> QED BY <1>1, <1>2, <1>4 DEF MaskRight, CountOnes

-----------------------------------------------------------------------------
(* Enumerations *)

Sortable(S) ==
  \E s \in [1 .. Cardinality(S) -> S] : \A i, j \in DOMAIN s : i < j => s[i] < s[j]

\* A finite set of numbers can be sorted: its least one comes first.
LEMMA SetsSort ==
  ASSUME NEW S, S \subseteq Nat, IsFiniteSet(S)
  PROVE  Sortable(S)
<1> DEFINE Bad == {n \in Nat : \E T \in SUBSET Nat :
                     IsFiniteSet(T) /\ Cardinality(T) = n /\ ~ Sortable(T)}
<1>1. Bad = {}
  <2>1. SUFFICES ASSUME Bad # {} PROVE FALSE
    OBVIOUS
  <2>2. PICK n \in Bad : \A k \in Bad : n <= k
    <3>1. Bad \subseteq Nat
      OBVIOUS
    <3> HIDE DEF Bad
    <3> QED BY <2>1, <3>1, LeastNumber
  <2>3. PICK T \in SUBSET Nat : IsFiniteSet(T) /\ Cardinality(T) = n /\ ~ Sortable(T)
    BY <2>2
  <2>4. n \in Nat
    BY <2>2
  <2>5. n # 0
    <3> SUFFICES ASSUME n = 0 PROVE FALSE
      OBVIOUS
    <3> DEFINE s == [i \in 1 .. 0 |-> 0]
    <3>1. s \in [1 .. 0 -> T] /\ \A i, j \in DOMAIN s : i < j => s[i] < s[j]
      OBVIOUS
    <3> HIDE DEF s
    <3> QED BY <2>3, <3>1 DEF Sortable
  <2>6. T # {}
    BY <2>3, <2>5, FS_EmptySet
  <2>7. PICK m \in T : \A k \in T : m <= k
    BY <2>6, LeastNumber
  <2> DEFINE U == T \ {m}
  <2>8. U \in SUBSET Nat /\ IsFiniteSet(U) /\ Cardinality(U) = n - 1
    BY <2>3, FS_RemoveElement
  <2>9. n - 1 \in Nat /\ ~(n <= n - 1)
    BY <2>4, <2>5
  <2>10. Sortable(U)
    <3> HIDE DEF U
    <3> QED BY <2>2, <2>8, <2>9
  <2>11. PICK t \in [1 .. n - 1 -> U] : \A i, j \in DOMAIN t : i < j => t[i] < t[j]
    BY <2>8, <2>10 DEF Sortable
  <2> DEFINE s == [i \in 1 .. n |-> IF i = 1 THEN m ELSE t[i - 1]]
  <2>12. \A i \in 2 .. n : i - 1 \in 1 .. n - 1 /\ t[i - 1] \in T /\ m < t[i - 1] /\ s[i] = t[i - 1]
    <3> TAKE i \in 2 .. n
    <3>1. i - 1 \in 1 .. n - 1 /\ i \in 1 .. n /\ i # 1
      BY <2>4
    <3>2. t[i - 1] \in U
      BY <2>11, <3>1
    <3>3. t[i - 1] \in T /\ t[i - 1] # m /\ t[i - 1] \in Nat /\ m \in Nat
      BY <2>3, <2>7, <3>2
    <3>4. m <= t[i - 1]
      BY <2>7, <3>3
    <3> QED BY <3>1, <3>3, <3>4
  <2>13. s[1] = m /\ 1 \in 1 .. n
    BY <2>4, <2>5
  <2>14. s \in [1 .. n -> T]
    <3>1. \A i \in 1 .. n : i = 1 \/ i \in 2 .. n
      BY <2>4
    <3>2. \A i \in 1 .. n : s[i] \in T
      <4> HIDE DEF s
      <4> QED BY <2>7, <2>12, <2>13, <3>1
    <3>3. s = [i \in 1 .. n |-> s[i]]
      OBVIOUS
    <3> HIDE DEF s
    <3> QED BY <3>2, <3>3
  <2>15. ASSUME NEW i \in 1 .. n, NEW j \in 1 .. n, i < j PROVE s[i] < s[j]
    <3>1. j \in 2 .. n /\ (i = 1 \/ i \in 2 .. n)
      BY <2>4, <2>15
    <3>2. CASE i = 1
      <4> HIDE DEF s
      <4> QED BY <2>12, <2>13, <3>1, <3>2
    <3>3. CASE i \in 2 .. n
      <4>1. i - 1 \in DOMAIN t /\ j - 1 \in DOMAIN t /\ i - 1 < j - 1
        BY <2>4, <2>11, <2>15, <3>1, <3>3
      <4>2. t[i - 1] < t[j - 1]
        BY <2>11, <4>1
      <4> HIDE DEF s
      <4> QED BY <2>12, <3>1, <3>3, <4>2
    <3> QED BY <3>1, <3>2, <3>3
  <2>16. Sortable(T)
    <3>1. DOMAIN s = 1 .. n
      OBVIOUS
    <3> HIDE DEF s
    <3> QED BY <2>3, <2>14, <2>15, <3>1 DEF Sortable
  <2> QED BY <2>3, <2>16
<1>2. Cardinality(S) \in Nat
  BY FS_CardinalityType
<1> QED BY <1>1, <1>2

Increasing(s) == \A i, j \in 1 .. Len(s) : i < j => s[i] < s[j]

\* Every number of the set comes once.
LEMMA AscendingIs ==
  ASSUME NEW S, S \subseteq Nat, IsFiniteSet(S)
  PROVE  /\ Ascending(S) \in Seq(S) /\ Len(Ascending(S)) = Cardinality(S)
         /\ Increasing(Ascending(S))
         /\ \A x \in S : \E i \in 1 .. Len(Ascending(S)) : Ascending(S)[i] = x
<1> DEFINE s == Ascending(S)
           n == Cardinality(S)
<1>1. n \in Nat
  BY FS_CardinalityType
<1>2. s \in [1 .. n -> S] /\ \A i, j \in DOMAIN s : i < j => s[i] < s[j]
  BY SetsSort DEF Ascending, Sortable
<1> HIDE DEF s, n
<1>3. s \in Seq(S) /\ Len(s) = n /\ DOMAIN s = 1 .. n
  BY <1>1, <1>2, LenProperties, SeqDef
<1>4. \A i, j \in 1 .. n : s[i] = s[j] => i = j
  <2> TAKE i, j \in 1 .. n
  <2>1. s[i] \in Nat /\ s[j] \in Nat /\ (i < j => s[i] < s[j]) /\ (j < i => s[j] < s[i])
    BY <1>2, <1>3
  <2> QED BY <1>1, <2>1
<1>5. s \in Injection(1 .. n, S)
  BY <1>2, <1>4, Zenon DEF Injection, IsInjective
<1>6. Cardinality(1 .. n) = n
  BY <1>1, FS_Interval
<1>7. s \in Surjection(1 .. n, S)
  BY <1>5, <1>6, FS_Injection DEF n
<1>8. Increasing(s)
  BY <1>2, <1>3 DEF Increasing
<1>9. \A x \in S : \E i \in 1 .. n : s[i] = x
  BY <1>7 DEF Surjection
<1> QED BY <1>3, <1>8, <1>9 DEF s, n

\* The names and the entries that are enumerated are finitely many.
LEMMA ListsFinite ==
  ASSUME NEW list \in Lists
  PROVE  /\ list \in Seq(Entries) /\ Len(list) \in Nat /\ DOMAIN list = 1 .. Len(list)
         /\ \A k \in 1 .. Len(list) : list[k] \in Entries
         /\ NamesOf(list) \subseteq Nat /\ IsFiniteSet(NamesOf(list))
         /\ \A K \in SUBSET (1 .. Len(list)) : K \subseteq Nat /\ IsFiniteSet(K)
<1>1. list \in Seq(Entries)
  BY IfAddrsAssumption
<1>2. /\ Len(list) \in Nat /\ DOMAIN list = 1 .. Len(list)
      /\ \A k \in 1 .. Len(list) : list[k] \in Entries
  BY <1>1
<1>3. IsFiniteSet(1 .. Len(list))
  BY <1>2, FS_Interval
<1>4. NamesOf(list) \subseteq Nat
  BY <1>2 DEF NamesOf, Entries
<1>5. IsFiniteSet(NamesOf(list))
  <2> DEFINE name == [k \in 1 .. Len(list) |-> list[k].name]
  <2>1. NamesOf(list) = {list[k].name : k \in 1 .. Len(list)}
    BY <1>2 DEF NamesOf
  <2>2. name \in Surjection(1 .. Len(list), NamesOf(list))
    BY <2>1 DEF Surjection
  <2> HIDE DEF name
  <2> QED BY <1>3, <2>2, FS_Surjection
<1>6. \A K \in SUBSET (1 .. Len(list)) : K \subseteq Nat /\ IsFiniteSet(K)
  <2> TAKE K \in SUBSET (1 .. Len(list))
  <2>1. K \subseteq Nat
    BY <1>2
  <2> DEFINE R == 1 .. Len(list)
  <2>2. IsFiniteSet(R) /\ K \in SUBSET R
    BY <1>3
  <2> HIDE DEF R
  <2>3. IsFiniteSet(K)
    BY <2>2, FS_Subset
  <2> QED BY <2>1, <2>3
<1> QED BY <1>1, <1>2, <1>4, <1>5, <1>6

-----------------------------------------------------------------------------
(* The lines of /proc/net/dev *)

Part(d, c) == IF c \in d.bad THEN NoNumber ELSE Counter(d.name, c)

\* A line starts with the name, by itself or with its first counter, and the other
\* parts are the counters.
LEMMA LineParts ==
  ASSUME NEW d \in Devices
  PROVE  /\ d.glued => \A name : Line(d)[1] # <<name>>
         /\ ~ d.glued => /\ Len(Line(d)) = d.columns + 1 /\ Line(d)[1] = <<d.name>>
                         /\ \A c \in 1 .. d.columns : Line(d)[c + 1] = Part(d, c)
<1>1. d.name \in Nat /\ d.columns \in 1 .. 16 /\ d.glued \in BOOLEAN /\ d.bad \subseteq 1 .. 16
  BY DEF Devices
<1>2. \A c \in 1 .. 16 : Counter(d.name, c) \in Int /\ Part(d, c) \in Int
  BY <1>1 DEF Counter, Part, NoNumber
<1>3. ASSUME NEW x, NEW s \in Seq(Int)
      PROVE  /\ (<<x>> \o s)[1] = x /\ Len(<<x>> \o s) = 1 + Len(s) /\ Len(s) \in Nat
             /\ \A c \in 1 .. Len(s) : (<<x>> \o s)[c + 1] = s[c]
  <2> DEFINE S == Int \cup {x}
             h == <<x>>
  <2>1. h \in Seq(S) /\ s \in Seq(S) /\ Len(h) = 1 /\ h[1] = x /\ Len(s) \in Nat
    BY SeqMonotonic
  <2> HIDE DEF S, h
  <2>2. /\ Len(h \o s) = Len(h) + Len(s)
        /\ \A i \in 1 .. Len(h) + Len(s) : (h \o s)[i] = IF i <= Len(h) THEN h[i] ELSE s[i - Len(h)]
    BY <2>1, ConcatProperties
  <2>3. \A c \in 1 .. Len(s) : c + 1 \in 1 .. 1 + Len(s) /\ ~(c + 1 <= 1) /\ (c + 1) - 1 = c
    BY <2>1
  <2>4. 1 \in 1 .. 1 + Len(s)
    BY <2>1
  <2>5. (h \o s)[1] = x /\ Len(h \o s) = 1 + Len(s) /\ \A c \in 1 .. Len(s) : (h \o s)[c + 1] = s[c]
    BY <2>1, <2>2, <2>3, <2>4
  <2> QED BY <2>1, <2>5 DEF h
<1>4. ASSUME d.glued PROVE \A name : Line(d)[1] # <<name>>
  <2> DEFINE h == <<d.name, Counter(d.name, 1)>>
             s == [k \in 1 .. d.columns - 1 |-> Part(d, k + 1)]
  <2>1. Line(d) = <<h>> \o s
    BY <1>4 DEF Line, Part
  <2>2. \A k \in 1 .. d.columns - 1 : k + 1 \in 1 .. 16
    BY <1>1
  <2>3. \A k \in 1 .. d.columns - 1 : s[k] \in Int
    BY <1>2, <2>2
  <2>4. s \in Seq(Int)
    <3>1. d.columns - 1 \in Nat /\ s = [k \in 1 .. d.columns - 1 |-> s[k]]
      BY <1>1
    <3> HIDE DEF s
    <3>2. s \in [1 .. d.columns - 1 -> Int]
      BY <2>3, <3>1
    <3> QED BY <3>1, <3>2, SeqDef
  <2>5. \A name : h # <<name>>
    OBVIOUS
  <2> HIDE DEF h, s
  <2> QED BY <1>3, <2>1, <2>4, <2>5
<1>5. ASSUME ~ d.glued
      PROVE  /\ Len(Line(d)) = d.columns + 1 /\ Line(d)[1] = <<d.name>>
             /\ \A c \in 1 .. d.columns : Line(d)[c + 1] = Part(d, c)
  <2> DEFINE h == <<d.name>>
             s == [k \in 1 .. d.columns |-> Part(d, k)]
  <2>1. Line(d) = <<h>> \o s
    BY <1>5 DEF Line, Part
  <2>2. \A k \in 1 .. d.columns : k \in 1 .. 16
    BY <1>1
  <2>3. \A k \in 1 .. d.columns : s[k] \in Int /\ s[k] = Part(d, k)
    BY <1>2, <2>2
  <2>4. s \in Seq(Int) /\ Len(s) = d.columns
    <3>1. d.columns \in Nat /\ s = [k \in 1 .. d.columns |-> s[k]]
      BY <1>1
    <3> HIDE DEF s
    <3>2. s \in [1 .. d.columns -> Int]
      BY <2>3, <3>1
    <3> QED BY <3>1, <3>2, SeqDef, LenProperties
  <2> HIDE DEF h, s
  <2>5. Len(Line(d)) = d.columns + 1 /\ Line(d)[1] = h
    <3>1. Len(Line(d)) = 1 + d.columns /\ Line(d)[1] = h
      BY <1>3, <2>1, <2>4
    <3>2. 1 + d.columns = d.columns + 1
      BY <1>1
    <3> QED BY <3>1, <3>2
  <2>6. \A c \in 1 .. d.columns : Line(d)[c + 1] = Part(d, c)
    <3> TAKE c \in 1 .. d.columns
    <3>1. (<<h>> \o s)[c + 1] = s[c]
      BY <1>3, <2>4
    <3> QED BY <2>1, <2>3, <3>1
  <2> QED BY <2>5, <2>6 DEF h
<1> QED BY <1>1, <1>4, <1>5

\* A counter, or nothing.
Got(s, name, column) == s \in {0, Counter(name, column)}

\* What is read for a name: its own counters, each in its place.
OwnStats(stats, name) ==
  /\ Got(stats.rx_bytes, name, 1) /\ Got(stats.rx_packets, name, 2)
  /\ Got(stats.tx_bytes, name, 9) /\ Got(stats.tx_packets, name, 10)

FullStats(stats, d) ==
  /\ stats.rx_bytes = 0 <=> 1 \in d.bad
  /\ stats.rx_packets = 0 <=> 2 \in d.bad
  /\ stats.tx_bytes = 0 <=> 9 \in d.bad
  /\ stats.tx_packets = 0 <=> 10 \in d.bad

FullLine(d) == ~ d.glued /\ d.columns >= 10

StatsType == [rx_bytes : Nat, rx_packets : Nat, tx_bytes : Nat, tx_packets : Nat]

\* What is read of the line of a device.
LEMMA LineStats ==
  ASSUME NEW d \in Devices, ~ d.glued
  PROVE  /\ StatsIn(Line(d)) \in StatsType
         /\ OwnStats(StatsIn(Line(d)), d.name)
         /\ d.columns >= 10 => FullStats(StatsIn(Line(d)), d)
<1>1. d.name \in Nat /\ d.columns \in 1 .. 16
  BY DEF Devices
<1>2. Len(Line(d)) = d.columns + 1
  BY LineParts
<1>0. \A c \in 1 .. d.columns : Line(d)[c + 1] = Part(d, c)
  BY LineParts
<1> DEFINE Read(c) == Number(Part(d, c))
<1>3. \A c \in 1 .. 16 : /\ Read(c) \in Nat /\ Got(Read(c), d.name, c)
                         /\ Read(c) = 0 <=> c \in d.bad
  BY <1>1 DEF Part, Number, NoNumber, Counter, Got
<1>4. CASE Len(Line(d)) < 11
  <2>1. ~(d.columns >= 10)
    <3> DEFINE n == d.columns
    <3>1. n \in Nat /\ n + 1 < 11
      BY <1>1, <1>2, <1>4
    <3> HIDE DEF n
    <3>2. ~(n >= 10)
      BY <3>1
    <3> QED BY <3>2 DEF n
  <2>2. StatsIn(Line(d)) = NoStats
    BY <1>4 DEF StatsIn
  <2>3. NoStats \in StatsType /\ OwnStats(NoStats, d.name)
    BY DEF NoStats, StatsType, OwnStats, Got
  <2> QED BY <2>1, <2>2, <2>3
<1>5. CASE ~(Len(Line(d)) < 11)
  <2>1. d.columns \in 10 .. 16
    <3> DEFINE n == d.columns
    <3>1. n \in 1 .. 16 /\ ~(n + 1 < 11)
      BY <1>1, <1>2, <1>5
    <3> HIDE DEF n
    <3>2. n \in 10 .. 16
      BY <3>1
    <3> QED BY <3>2 DEF n
  <2>2. /\ Line(d)[2] = Part(d, 1) /\ Line(d)[3] = Part(d, 2)
        /\ Line(d)[10] = Part(d, 9) /\ Line(d)[11] = Part(d, 10)
    <3>1. 1 \in 1 .. d.columns /\ 2 \in 1 .. d.columns /\ 9 \in 1 .. d.columns /\ 10 \in 1 .. d.columns
      BY <2>1
    <3>2. 1 + 1 = 2 /\ 2 + 1 = 3 /\ 9 + 1 = 10 /\ 10 + 1 = 11
      OBVIOUS
    <3> QED BY <1>0, <3>1, <3>2
  <2>3. StatsIn(Line(d)) = [rx_bytes |-> Read(1), rx_packets |-> Read(2),
                            tx_bytes |-> Read(9), tx_packets |-> Read(10)]
    BY <1>5, <2>2 DEF StatsIn
  <2>4. 1 \in 1 .. 16 /\ 2 \in 1 .. 16 /\ 9 \in 1 .. 16 /\ 10 \in 1 .. 16
    OBVIOUS
  <2> HIDE DEF Read
  <2> DEFINE got == StatsIn(Line(d))
  <2>5. /\ got.rx_bytes = Read(1) /\ got.rx_packets = Read(2)
        /\ got.tx_bytes = Read(9) /\ got.tx_packets = Read(10)
    BY <2>3
  <2>6. got \in StatsType
    BY <1>3, <2>3, <2>4 DEF StatsType
  <2> HIDE DEF got
  <2>7. OwnStats(got, d.name)
    BY <1>3, <2>4, <2>5 DEF OwnStats
  <2>8. FullStats(got, d)
    BY <1>3, <2>4, <2>5 DEF FullStats
  <2> QED BY <2>6, <2>7, <2>8 DEF got
<1> QED BY <1>4, <1>5

\* What is read for a name, whatever lines there are.
LEMMA StatsRead ==
  ASSUME NEW name \in Nat, table \in Tables
  PROVE  /\ StatsOf(Lines, name) \in StatsType
         /\ OwnStats(StatsOf(Lines, name), name)
         /\ \A k \in DOMAIN table : table[k].name = name /\ FullLine(table[k]) =>
              FullStats(StatsOf(Lines, name), table[k])
<1>1. /\ table \in Seq(Devices) /\ Len(table) \in Nat /\ DOMAIN table = 1 .. Len(table)
      /\ \A j, k \in DOMAIN table : table[j].name = table[k].name => j = k
  BY IfAddrsAssumption
<1>2. \A k \in DOMAIN table : table[k] \in Devices /\ Lines[k] = Line(table[k])
  BY <1>1 DEF Lines
<1>3. \A k \in DOMAIN table : k \in LinesOf(Lines, name) <=> ~ table[k].glued /\ table[k].name = name
  <2> TAKE k \in DOMAIN table
  <2>1. k \in LinesOf(Lines, name) <=> Line(table[k])[1] = <<name>>
    BY <1>2 DEF LinesOf, Lines
  <2>2. <<table[k].name>> = <<name>> <=> table[k].name = name
    OBVIOUS
  <2>3. table[k].glued \in BOOLEAN
    BY <1>2 DEF Devices
  <2> QED BY <1>2, <2>1, <2>2, <2>3, LineParts
<1>4. LinesOf(Lines, name) \subseteq DOMAIN table
  BY DEF LinesOf, Lines
<1>5. CASE LinesOf(Lines, name) = {}
  <2>1. StatsOf(Lines, name) = NoStats
    BY <1>5 DEF StatsOf
  <2>2. \A k \in DOMAIN table : ~(table[k].name = name /\ FullLine(table[k]))
    BY <1>3, <1>5 DEF FullLine
  <2> QED BY <2>1, <2>2 DEF NoStats, StatsType, OwnStats, Got
<1>6. CASE LinesOf(Lines, name) # {}
  <2>1. PICK k \in LinesOf(Lines, name) : TRUE
    BY <1>6
  <2>2. /\ k \in DOMAIN table /\ ~ table[k].glued /\ table[k].name = name /\ k \in Nat
        /\ \A j \in LinesOf(Lines, name) : j = k
    BY <1>1, <1>3, <1>4, <2>1
  <2>3. (CHOOSE j \in LinesOf(Lines, name) : \A l \in LinesOf(Lines, name) : j <= l) = k
    <3> DEFINE L == LinesOf(Lines, name)
    <3>1. \A j \in L : j = k
      BY <2>2
    <3>2. \E j \in L : \A l \in L : j <= l
      BY <2>1, <2>2
    <3> HIDE DEF L
    <3>3. (CHOOSE j \in L : \A l \in L : j <= l) \in L
      BY <3>2
    <3>4. (CHOOSE j \in L : \A l \in L : j <= l) = k
      BY <3>1, <3>3
    <3> QED BY <3>4 DEF L
  <2>4. StatsOf(Lines, name) = StatsIn(Line(table[k]))
    BY <1>2, <1>6, <2>2, <2>3 DEF StatsOf
  <2>5. /\ StatsIn(Line(table[k])) \in StatsType /\ OwnStats(StatsIn(Line(table[k])), table[k].name)
        /\ table[k].columns >= 10 => FullStats(StatsIn(Line(table[k])), table[k])
    BY <1>2, <2>2, LineStats
  <2>6. \A j \in DOMAIN table : table[j].name = name => j = k
    BY <1>1, <2>2
  <2> QED BY <2>2, <2>4, <2>5, <2>6 DEF FullLine
<1> QED BY <1>5, <1>6

-----------------------------------------------------------------------------
(* The walk over the names *)

ShownType   == [name : Nat, family : {"inet", "inet6"}, addr : Nat,
                mask : {NoMask} \cup Masks, prefix : 0 .. Width]
CountedType == [name : Nat, stats : StatsType]

Types ==
  /\ entries \in Lists /\ first \in Lists /\ table \in Tables
  /\ changes \in 0 .. MaxChanges /\ faults \in 0 .. MaxFaults
  /\ pc \in {"names", "next", "inet", "inet6", "stats", "done", "failed"}
  /\ todo \in Seq(Nat) /\ cur \in Nat /\ listed \subseteq Nat
  /\ shown \in Seq(ShownType) /\ counted \in Seq(CountedType)

InTurn == pc \in {"inet", "inet6", "stats"}
Ahead  == {todo[i] : i \in 1 .. Len(todo)}
Done   == {n \in listed : n \notin Ahead /\ ~ (InTurn /\ n = cur)}

\* The names listed are, in order, those done with, the one at hand and those ahead.
Walk ==
  /\ Increasing(todo) /\ Ahead \subseteq listed
  /\ pc = "names" => listed = {} /\ shown = << >> /\ counted = << >>
  /\ pc = "done" => todo = << >>
  /\ InTurn => cur \in listed /\ \A a \in Ahead : cur < a
  /\ \A n \in Done : (InTurn => n < cur) /\ \A a \in Ahead : n < a

\* Each line is of a listed name, and has the prefix of its mask.
OwnLines ==
  \A i \in 1 .. Len(shown) : /\ shown[i].name \in listed
                             /\ shown[i].prefix = PrefixOf(shown[i].mask)

\* What stays as long as the names and the one at hand do.
LEMMA SameNames ==
  ASSUME UNCHANGED <<todo, cur, listed>>, InTurn' <=> InTurn
  PROVE  Ahead' = Ahead /\ Done' = Done
BY DEF Ahead, Done

\* The first name ahead is taken.
LEMMA TakeName ==
  ASSUME Types, Walk, pc = "next", todo # << >>, cur' = Head(todo), todo' = Tail(todo),
         pc' = "inet", UNCHANGED listed
  PROVE  /\ cur' \in Ahead /\ todo' \in Seq(Nat) /\ Increasing(todo')
         /\ Ahead' = Ahead \ {cur'} /\ Done' = Done /\ \A a \in Ahead' : cur' < a
<1>1. /\ todo \in Seq(Nat) /\ Len(todo) \in Nat \ {0} /\ todo' \in Seq(Nat)
      /\ Len(todo') = Len(todo) - 1 /\ cur' = todo[1]
      /\ \A i \in 1 .. Len(todo) : todo[i] \in Nat
  BY HeadTailProperties, EmptySeq DEF Types
<1>2. \A i \in 1 .. Len(todo') : i + 1 \in 1 .. Len(todo) /\ todo'[i] = todo[i + 1]
  BY <1>1
<1>3. \A i, j \in 1 .. Len(todo) : i < j => todo[i] < todo[j]
  BY DEF Walk, Increasing
<1>4. Increasing(todo')
  <2> SUFFICES ASSUME NEW i \in 1 .. Len(todo'), NEW j \in 1 .. Len(todo'), i < j
               PROVE  todo'[i] < todo'[j]
    BY DEF Increasing
  <2>1. i + 1 < j + 1
    BY <1>1
  <2> QED BY <1>2, <1>3, <2>1
<1>5. 1 \in 1 .. Len(todo) /\ cur' \in Ahead
  BY <1>1 DEF Ahead
<1>6. \A i \in 2 .. Len(todo) : i \in 1 .. Len(todo) /\ cur' < todo[i] /\ todo[i] # cur'
  <2> TAKE i \in 2 .. Len(todo)
  <2>1. i \in 1 .. Len(todo) /\ 1 < i
    BY <1>1
  <2>2. todo[1] < todo[i] /\ todo[1] \in Nat /\ todo[i] \in Nat
    BY <1>1, <1>3, <1>5, <2>1
  <2> QED BY <1>1, <2>1, <2>2
<1>7. Ahead' = {todo[i] : i \in 2 .. Len(todo)}
  <2>1. Ahead' = {todo'[i] : i \in 1 .. Len(todo')}
    BY DEF Ahead
  <2>2. \A i \in 1 .. Len(todo') : \E j \in 2 .. Len(todo) : todo'[i] = todo[j]
    <3> TAKE i \in 1 .. Len(todo')
    <3>1. i + 1 \in 2 .. Len(todo)
      BY <1>1
    <3> QED BY <1>2, <3>1
  <2>3. \A j \in 2 .. Len(todo) : \E i \in 1 .. Len(todo') : todo'[i] = todo[j]
    <3> TAKE j \in 2 .. Len(todo)
    <3>1. j - 1 \in 1 .. Len(todo') /\ (j - 1) + 1 = j
      BY <1>1
    <3> QED BY <1>2, <3>1
  <2> DEFINE rest == {todo[i] : i \in 2 .. Len(todo)}
  <2>4. Ahead' \subseteq rest
    BY <2>1, <2>2
  <2>5. rest \subseteq Ahead'
    BY <2>1, <2>3
  <2> HIDE DEF rest
  <2>6. Ahead' = rest
    BY <2>4, <2>5
  <2> QED BY <2>6 DEF rest
<1>8. Ahead' = Ahead \ {cur'}
  <2>1. \A i \in 1 .. Len(todo) : i = 1 \/ i \in 2 .. Len(todo)
    BY <1>1
  <2> QED BY <1>1, <1>6, <1>7, <2>1 DEF Ahead
<1>9. \A a \in Ahead' : cur' < a
  BY <1>6, <1>7
<1>10. Done' = Done
  <2>1. InTurn' /\ ~ InTurn
    BY DEF InTurn
  <2> QED BY <1>5, <1>8, <2>1 DEF Done
<1> QED BY <1>1, <1>4, <1>5, <1>8, <1>9, <1>10

\* What new is of the lines of a name, for entries number own of a list.
NameLines(list, name, family, own, new) ==
  /\ own \in Seq(DOMAIN list) /\ Increasing(own)
  /\ \A i \in 1 .. Len(own) : list[own[i]].name = name /\ list[own[i]].family = family
  /\ \A k \in DOMAIN list : list[k].name = name /\ list[k].family = family =>
       \E i \in 1 .. Len(own) : own[i] = k
  /\ new \in Seq(ShownType) /\ Len(new) = Len(own)
  /\ \A i \in 1 .. Len(new) : /\ new[i] = Shown(list[own[i]])
                              /\ new[i].name = name
                              /\ new[i].prefix = PrefixOf(new[i].mask)

\* The addresses of a name, and where they are in the list.
LEMMA AddressLines ==
  ASSUME NEW list \in Lists, NEW name, NEW family \in {"inet", "inet6"}
  PROVE  NameLines(list, name, family, OwnEntries(list, name, family),
                   AddressesOf(list, name, family))
<1> DEFINE K == {k \in DOMAIN list : list[k].name = name /\ list[k].family = family}
           own == OwnEntries(list, name, family)
           new == AddressesOf(list, name, family)
<1>1. /\ DOMAIN list = 1 .. Len(list) /\ \A k \in DOMAIN list : list[k] \in Entries
      /\ K \subseteq Nat /\ IsFiniteSet(K)
  <2>1. /\ DOMAIN list = 1 .. Len(list) /\ \A k \in DOMAIN list : list[k] \in Entries
        /\ IsFiniteSet(DOMAIN list) /\ Len(list) \in Nat
    BY ListsFinite
  <2>2. K \subseteq DOMAIN list /\ DOMAIN list \subseteq Nat
    BY <2>1
  <2> QED BY <2>1, <2>2, FS_Subset
<1>2. own = Ascending(K)
  BY DEF OwnEntries
<1> HIDE DEF K
<1>3. /\ own \in Seq(K) /\ Increasing(own)
      /\ \A x \in K : \E i \in 1 .. Len(own) : own[i] = x
  BY <1>1, <1>2, AscendingIs
<1>4. \A i \in 1 .. Len(own) : own[i] \in K
  BY <1>3
<1>5. /\ own \in Seq(DOMAIN list)
      /\ \A i \in 1 .. Len(own) : /\ own[i] \in DOMAIN list
                                  /\ list[own[i]].name = name /\ list[own[i]].family = family
  <2>1. K \subseteq DOMAIN list
    BY DEF K
  <2>2. own \in Seq(DOMAIN list)
    BY <1>3, <2>1, SeqMonotonic
  <2>3. \A x \in K : x \in DOMAIN list /\ list[x].name = name /\ list[x].family = family
    BY DEF K
  <2> QED BY <1>4, <2>2, <2>3
<1>6. Len(own) \in Nat /\ DOMAIN own = 1 .. Len(own)
  BY <1>3
<1>7. new = [i \in 1 .. Len(own) |-> Shown(list[own[i]])]
  BY <1>6 DEF AddressesOf
<1> HIDE DEF own, new
<1>8. \A i \in 1 .. Len(own) : /\ Shown(list[own[i]]) \in ShownType
                               /\ Shown(list[own[i]]).name = name
                               /\ Shown(list[own[i]]).prefix = PrefixOf(Shown(list[own[i]]).mask)
  <2> TAKE i \in 1 .. Len(own)
  <2> DEFINE e == list[own[i]]
  <2>1. e \in Entries /\ e.name = name /\ e.family = family
    BY <1>1, <1>5
  <2> HIDE DEF e
  <2>2. e.mask \in {NoMask} \cup Masks
    BY <2>1 DEF Entries
  <2>3. PrefixOf(e.mask) \in 0 .. Width
    <3>1. 0 \in 0 .. Width
      BY IfAddrsAssumption
    <3> QED BY <2>2, <3>1, NetmaskCounts DEF PrefixOf
  <2>4. Shown(e) \in ShownType /\ Shown(e).name = name /\ Shown(e).prefix = PrefixOf(Shown(e).mask)
    BY <2>1, <2>2, <2>3 DEF Shown, ShownType, Entries
  <2> QED BY <2>4 DEF e
<1>9. new \in Seq(ShownType) /\ Len(new) = Len(own)
  <2>1. new \in [1 .. Len(own) -> ShownType]
    BY <1>7, <1>8
  <2> QED BY <1>6, <2>1, SeqDef, LenProperties
<1>10. \A i \in 1 .. Len(new) : /\ new[i] = Shown(list[own[i]]) /\ new[i].name = name
                                /\ new[i].prefix = PrefixOf(new[i].mask)
  BY <1>7, <1>8, <1>9
<1>11. \A k \in DOMAIN list : list[k].name = name /\ list[k].family = family =>
         \E i \in 1 .. Len(own) : own[i] = k
  BY <1>3 DEF K
<1>12. NameLines(list, name, family, own, new)
  BY <1>3, <1>5, <1>9, <1>10, <1>11 DEF NameLines
<1> QED BY <1>12 DEF own, new

LEMMA TypesInit == Init => Types /\ Walk /\ OwnLines
<1> SUFFICES ASSUME Init PROVE Types /\ Walk /\ OwnLines
  OBVIOUS
<1>1. /\ entries \in Lists /\ first \in Lists /\ table \in Tables
      /\ changes = 0 /\ faults = 0 /\ pc = "names" /\ todo = << >> /\ cur = 0
      /\ shown = << >> /\ counted = << >> /\ listed = {}
  BY DEF Init
<1>2. MaxChanges \in Nat /\ MaxFaults \in Nat
  BY IfAddrsAssumption
<1>3. Types
  BY <1>1, <1>2, EmptySeq DEF Types
<1>4. Ahead = {} /\ Done = {} /\ Len(todo) = 0 /\ Len(shown) = 0 /\ ~ InTurn
  BY <1>1 DEF Ahead, Done, InTurn
<1>5. Walk
  BY <1>1, <1>4 DEF Walk, Increasing
<1>6. OwnLines
  BY <1>4 DEF OwnLines
<1> QED BY <1>3, <1>5, <1>6

\* A failure leaves everything but its count.
LEMMA FaultCounts == Types /\ Fault => faults' \in 1 .. MaxFaults
BY IfAddrsAssumption DEF Types, Fault

LEMMA TypesNext == Types /\ Walk /\ OwnLines /\ [Next]_vars => Types' /\ Walk' /\ OwnLines'
<1> SUFFICES ASSUME Types, Walk, OwnLines, [Next]_vars PROVE Types' /\ Walk' /\ OwnLines'
  OBVIOUS
<1>0. \A n : n \in 1 .. MaxFaults => n \in 0 .. MaxFaults
  OBVIOUS
<1>1. CASE KernelChanges
  <2>1. /\ entries' \in Lists /\ table' \in Tables /\ changes' \in 0 .. MaxChanges
        /\ UNCHANGED <<faults, pc, todo, cur, shown, counted, listed, first>>
    BY <1>1, IfAddrsAssumption DEF KernelChanges, Types
  <2>2. Types'
    BY <2>1 DEF Types
  <2>3. Ahead' = Ahead /\ Done' = Done /\ (InTurn' <=> InTurn)
    BY <2>1, SameNames DEF InTurn
  <2>4. Walk'
    BY <2>1, <2>3 DEF Walk, Increasing
  <2>5. OwnLines'
    BY <2>1 DEF OwnLines
  <2> QED BY <2>2, <2>4, <2>5
<1>2. CASE ListNames
  <2>1. /\ pc = "names" /\ pc' = "next" /\ todo' = Ascending(NamesOf(entries))
        /\ listed' = NamesOf(entries) /\ first' = entries
        /\ UNCHANGED <<entries, table, changes, faults, cur, shown, counted>>
    BY <1>2 DEF ListNames, Sorted, kernelVars
  <2>2. NamesOf(entries) \subseteq Nat /\ IsFiniteSet(NamesOf(entries))
    BY ListsFinite DEF Types
  <2>3. /\ todo' \in Seq(NamesOf(entries)) /\ Increasing(todo')
        /\ \A n \in NamesOf(entries) : \E i \in 1 .. Len(todo') : todo'[i] = n
    BY <2>1, <2>2, AscendingIs
  <2>4. todo' \in Seq(Nat) /\ \A i \in 1 .. Len(todo') : todo'[i] \in listed'
    BY <2>1, <2>2, <2>3, SeqMonotonic
  <2>5. Types'
    BY <2>1, <2>2, <2>4 DEF Types
  <2>6. Ahead' = listed' /\ Done' = {}
    BY <2>1, <2>3, <2>4 DEF Ahead, Done
  <2>7. ~ InTurn'
    BY <2>1 DEF InTurn
  <2>8. Increasing(todo)'
    BY <2>3 DEF Increasing
  <2>9. Walk'
    BY <2>1, <2>6, <2>7, <2>8 DEF Walk
  <2>10. shown' = << >>
    BY <2>1 DEF Walk
  <2>11. OwnLines'
    BY <2>10 DEF OwnLines
  <2> QED BY <2>5, <2>9, <2>11
<1>3. CASE NamesFail
  <2>1. /\ pc = "names" /\ pc' = "failed" /\ Fault
        /\ UNCHANGED <<entries, table, changes, todo, cur, shown, counted, listed, first>>
    BY <1>3 DEF NamesFail, kernelVars
  <2>2. Types'
    BY <1>0, <2>1, FaultCounts DEF Types
  <2>3. ~ InTurn /\ ~ InTurn' /\ Ahead' = Ahead /\ Done' = Done
    BY <2>1, SameNames DEF InTurn
  <2>4. Walk'
    BY <2>1, <2>3 DEF Walk, Increasing
  <2>5. OwnLines'
    BY <2>1 DEF OwnLines
  <2> QED BY <2>2, <2>4, <2>5
<1>4. CASE NextName
  <2>1. /\ pc = "next"
        /\ UNCHANGED <<entries, table, changes, faults, shown, counted, listed, first>>
    BY <1>4 DEF NextName, kernelVars
  <2>2. OwnLines'
    BY <2>1 DEF OwnLines
  <2>3. CASE todo = << >>
    <3>1. pc' = "done" /\ UNCHANGED <<cur, todo>>
      BY <1>4, <2>3 DEF NextName
    <3>2. Types'
      BY <2>1, <3>1 DEF Types
    <3>3. ~ InTurn /\ ~ InTurn' /\ Ahead' = Ahead /\ Done' = Done
      BY <2>1, <3>1, SameNames DEF InTurn
    <3>4. Walk'
      BY <2>1, <2>3, <3>1, <3>3 DEF Walk, Increasing
    <3> QED BY <2>2, <3>2, <3>4
  <2>4. CASE todo # << >>
    <3>1. pc' = "inet" /\ cur' = Head(todo) /\ todo' = Tail(todo)
      BY <1>4, <2>4 DEF NextName
    <3>2. /\ cur' \in Ahead /\ todo' \in Seq(Nat) /\ Increasing(todo')
          /\ Ahead' = Ahead \ {cur'} /\ Done' = Done /\ \A a \in Ahead' : cur' < a
      BY <2>1, <2>4, <3>1, TakeName
    <3>3. cur' \in listed /\ listed \subseteq Nat
      BY <3>2 DEF Walk, Types
    <3>4. Types'
      BY <2>1, <3>1, <3>2, <3>3 DEF Types
    <3>5. ~ InTurn /\ InTurn'
      BY <2>1, <3>1 DEF InTurn
    <3>6. \A n \in Done : n < cur' /\ \A a \in Ahead' : n < a
      BY <3>2, <3>5 DEF Walk
    <3>7. Increasing(todo)'
      BY <3>2 DEF Increasing
    <3>8. Ahead' \subseteq listed' /\ cur' \in listed'
      BY <2>1, <3>2, <3>3 DEF Walk
    <3>9. pc' \notin {"names", "done"}
      BY <3>1
    <3>10. Walk'
      BY <3>2, <3>6, <3>7, <3>8, <3>9 DEF Walk
    <3> QED BY <2>2, <3>4, <3>10
  <2> QED BY <2>3, <2>4
<1>5. ASSUME NEW family \in {"inet", "inet6"}, NEW next \in {"inet6", "stats"},
             ShowAddresses(family, next)
      PROVE  Types' /\ Walk' /\ OwnLines'
  <2>1. /\ pc = family /\ pc' = next
        /\ UNCHANGED <<entries, table, changes, todo, cur, counted, listed, first>>
    BY <1>5 DEF ShowAddresses, kernelVars
  <2>2. InTurn /\ InTurn' /\ Ahead' = Ahead /\ Done' = Done
    BY <2>1, SameNames DEF InTurn
  <2>3. cur \in listed
    BY <2>2 DEF Walk
  <2>4. Walk'
    BY <2>1, <2>2 DEF Walk, Increasing
  <2>5. /\ shown' \in Seq(ShownType) /\ faults' \in 0 .. MaxFaults
        /\ OwnLines'
    <3>1. CASE shown' = shown \o AddressesOf(entries, cur, family) /\ UNCHANGED faults
      <4> DEFINE new == AddressesOf(entries, cur, family)
      <4>1. /\ new \in Seq(ShownType) /\ Len(new) \in Nat
            /\ \A i \in 1 .. Len(new) : new[i].name = cur /\ new[i].prefix = PrefixOf(new[i].mask)
        <5>1. entries \in Lists
          BY DEF Types
        <5>2. NameLines(entries, cur, family, OwnEntries(entries, cur, family), new)
          BY <5>1, AddressLines
        <5> QED BY <5>2 DEF NameLines
      <4> HIDE DEF new
      <4>2. shown \in Seq(ShownType) /\ Len(shown) \in Nat
        BY DEF Types
      <4>3. /\ shown' \in Seq(ShownType) /\ Len(shown') = Len(shown) + Len(new)
            /\ \A i \in 1 .. Len(shown) + Len(new) : shown'[i] =
                 IF i <= Len(shown) THEN shown[i] ELSE new[i - Len(shown)]
        BY <3>1, <4>1, <4>2, ConcatProperties DEF new
      <4>4. ASSUME NEW i \in 1 .. Len(shown')
            PROVE  shown'[i].name \in listed /\ shown'[i].prefix = PrefixOf(shown'[i].mask)
        <5>1. CASE i <= Len(shown)
          <6>1. i \in 1 .. Len(shown) /\ shown'[i] = shown[i]
            BY <4>1, <4>2, <4>3, <5>1
          <6> QED BY <6>1 DEF OwnLines
        <5>2. CASE ~(i <= Len(shown))
          <6>1. i - Len(shown) \in 1 .. Len(new) /\ shown'[i] = new[i - Len(shown)]
            BY <4>1, <4>2, <4>3, <5>2
          <6> QED BY <2>3, <4>1, <6>1
        <5> QED BY <5>1, <5>2
      <4>5. OwnLines'
        BY <2>1, <4>4 DEF OwnLines
      <4> QED BY <3>1, <4>3, <4>5 DEF Types
    <3>2. CASE Fault /\ UNCHANGED shown
      <4>1. shown' \in Seq(ShownType) /\ faults' \in 0 .. MaxFaults
        BY <1>0, <3>2, FaultCounts DEF Types
      <4>2. OwnLines'
        BY <2>1, <3>2 DEF OwnLines
      <4> QED BY <4>1, <4>2
    <3> QED BY <1>5, <3>1, <3>2 DEF ShowAddresses
  <2>6. Types'
    BY <2>1, <2>5 DEF Types
  <2> QED BY <2>4, <2>5, <2>6
<1>6. CASE InetAddrs
  BY <1>5, <1>6 DEF InetAddrs
<1>7. CASE Inet6Addr
  BY <1>5, <1>7 DEF Inet6Addr
<1>8. CASE GetStats
  <2>1. /\ pc = "stats" /\ pc' = "next"
        /\ UNCHANGED <<entries, table, changes, todo, cur, shown, listed, first>>
    BY <1>8 DEF GetStats, kernelVars
  <2>2. OwnLines'
    BY <2>1 DEF OwnLines
  <2>3. Ahead' = Ahead /\ InTurn /\ ~ InTurn' /\ Done' \subseteq Done \cup {cur}
    BY <2>1 DEF Ahead, InTurn, Done
  <2>4. \A n \in Done' : \A a \in Ahead' : n < a
    BY <2>3 DEF Walk
  <2>5. Walk'
    BY <2>1, <2>3, <2>4 DEF Walk, Increasing
  <2> DEFINE stats == StatsOf(Lines, cur)
  <2>6. stats \in StatsType
    BY StatsRead DEF Types
  <2>7. counted' \in Seq(CountedType) /\ faults' \in 0 .. MaxFaults
    <3>1. CASE Fault /\ UNCHANGED counted
      BY <1>0, <3>1, FaultCounts DEF Types
    <3>2. CASE /\ counted' = IF stats.rx_bytes > 0 \/ stats.tx_bytes > 0
                             THEN Append(counted, [name |-> cur, stats |-> stats]) ELSE counted
               /\ UNCHANGED faults
      <4> HIDE DEF stats
      <4>1. [name |-> cur, stats |-> stats] \in CountedType
        BY <2>6 DEF CountedType, Types
      <4> QED BY <3>2, <4>1, AppendProperties DEF Types
    <3> QED BY <1>8, <3>1, <3>2 DEF GetStats
  <2>8. Types'
    BY <2>1, <2>7 DEF Types
  <2> QED BY <2>2, <2>5, <2>8
<1>9. CASE UNCHANGED vars
  <2>1. UNCHANGED <<entries, table, changes, faults, pc, todo, cur, shown, counted, listed, first>>
    BY <1>9 DEF vars, kernelVars
  <2>2. Ahead' = Ahead /\ Done' = Done /\ (InTurn' <=> InTurn)
    BY <2>1, SameNames DEF InTurn
  <2> QED BY <2>1, <2>2 DEF Types, Walk, OwnLines, Increasing
<1> QED BY <1>1, <1>2, <1>3, <1>4, <1>6, <1>7, <1>8, <1>9 DEF Next

LEMMA WalkCorrect == Spec => [](Types /\ Walk /\ OwnLines)
BY TypesInit, TypesNext, PTL DEF Spec

-----------------------------------------------------------------------------
(* The counters *)

\* The counters printed are of names done with, one line a name, and are its own; while
\* nothing changes or fails, those of a full line with a byte are printed and are all.
Counts ==
  /\ \A i \in 1 .. Len(counted) : /\ counted[i].name \in Done
                                  /\ OwnStats(counted[i].stats, counted[i].name)
  /\ \A i, j \in 1 .. Len(counted) : counted[i].name = counted[j].name => i = j
  /\ changes = 0 /\ faults = 0 =>
       \A k \in DOMAIN table :
         table[k].name \in Done /\ FullLine(table[k]) /\ ~ {1, 9} \subseteq table[k].bad =>
           \E i \in 1 .. Len(counted) : /\ counted[i].name = table[k].name
                                        /\ FullStats(counted[i].stats, table[k])

LEMMA CountsInit == Init => Counts
<1> SUFFICES ASSUME Init PROVE Counts
  OBVIOUS
<1>1. counted = << >> /\ listed = {}
  BY DEF Init
<1>2. Done = {} /\ Len(counted) = 0
  BY <1>1 DEF Done
<1> QED BY <1>2 DEF Counts

\* Nothing changes the counters printed but printing.
LEMMA SameCounts ==
  ASSUME Counts, UNCHANGED counted, Done' = Done,
         UNCHANGED <<table, changes, faults>> \/ changes' # 0 \/ faults' # 0
  PROVE  Counts'
<1>1. ASSUME changes' = 0, faults' = 0, NEW k \in DOMAIN table',
             table'[k].name \in Done', FullLine(table'[k]), ~ {1, 9} \subseteq table'[k].bad
      PROVE  \E i \in 1 .. Len(counted') : /\ counted'[i].name = table'[k].name
                                           /\ FullStats(counted'[i].stats, table'[k])
  <2>1. table' = table /\ changes = 0 /\ faults = 0
    BY <1>1
  <2> QED BY <1>1, <2>1 DEF Counts
<1>2. \A i \in 1 .. Len(counted') : /\ counted'[i].name \in Done'
                                    /\ OwnStats(counted'[i].stats, counted'[i].name)
  BY DEF Counts
<1>3. \A i, j \in 1 .. Len(counted') : counted'[i].name = counted'[j].name => i = j
  BY DEF Counts
<1> QED BY <1>1, <1>2, <1>3 DEF Counts

LEMMA CountsNext == Types /\ Walk /\ Counts /\ [Next]_vars => Counts'
<1> SUFFICES ASSUME Types, Walk, Counts, [Next]_vars PROVE Counts'
  OBVIOUS
<1>0. Fault => faults' # 0
  <2>1. ASSUME Fault PROVE faults' # 0
    <3>1. faults' \in 1 .. MaxFaults
      BY <2>1, FaultCounts
    <3> QED BY <3>1
  <2> QED BY <2>1
<1>1. CASE KernelChanges
  <2>1. changes' # 0 /\ UNCHANGED <<faults, pc, todo, cur, counted, listed>>
    BY <1>1 DEF KernelChanges, Types
  <2>2. Done' = Done
    BY <2>1, SameNames DEF InTurn
  <2> QED BY <2>1, <2>2, SameCounts
<1>2. CASE ListNames
  <2>1. /\ pc = "names" /\ pc' = "next" /\ counted' = counted
        /\ todo' = Ascending(NamesOf(entries)) /\ listed' = NamesOf(entries)
    BY <1>2 DEF ListNames, Sorted
  <2>2. counted' = << >>
    BY <2>1 DEF Walk
  <2>3. Done' = {}
    <3>1. NamesOf(entries) \subseteq Nat /\ IsFiniteSet(NamesOf(entries))
      BY ListsFinite DEF Types
    <3>2. \A n \in listed' : \E i \in 1 .. Len(todo') : todo'[i] = n
      BY <2>1, <3>1, AscendingIs
    <3> QED BY <3>2 DEF Ahead, Done
  <2> QED BY <2>2, <2>3 DEF Counts
<1>3. CASE NamesFail
  <2>1. /\ pc = "names" /\ pc' = "failed" /\ Fault /\ UNCHANGED <<todo, cur, counted, listed>>
    BY <1>3 DEF NamesFail
  <2>2. Done' = Done
    BY <2>1, SameNames DEF InTurn
  <2> QED BY <1>0, <2>1, <2>2, SameCounts
<1>4. CASE NextName
  <2>1. pc = "next" /\ UNCHANGED <<table, changes, faults, counted, listed>>
    BY <1>4 DEF NextName, kernelVars
  <2>2. CASE todo = << >>
    <3>1. pc' = "done" /\ UNCHANGED <<cur, todo>>
      BY <1>4, <2>2 DEF NextName
    <3>2. Done' = Done
      BY <2>1, <3>1, SameNames DEF InTurn
    <3> QED BY <2>1, <3>2, SameCounts
  <2>3. CASE todo # << >>
    <3>1. pc' = "inet" /\ cur' = Head(todo) /\ todo' = Tail(todo)
      BY <1>4, <2>3 DEF NextName
    <3>2. Done' = Done
      BY <2>1, <2>3, <3>1, TakeName
    <3> QED BY <2>1, <3>2, SameCounts
  <2> QED BY <2>2, <2>3
<1>5. ASSUME NEW family \in {"inet", "inet6"}, NEW next \in {"inet6", "stats"},
             ShowAddresses(family, next)
      PROVE  Counts'
  <2>1. /\ pc = family /\ pc' = next
        /\ UNCHANGED <<table, changes, todo, cur, counted, listed>>
    BY <1>5 DEF ShowAddresses, kernelVars
  <2>2. Done' = Done
    BY <2>1, SameNames DEF InTurn
  <2>3. UNCHANGED faults \/ faults' # 0
    BY <1>0, <1>5 DEF ShowAddresses
  <2> QED BY <2>1, <2>2, <2>3, SameCounts
<1>6. CASE InetAddrs
  BY <1>5, <1>6 DEF InetAddrs
<1>7. CASE Inet6Addr
  BY <1>5, <1>7 DEF Inet6Addr
<1>8. CASE GetStats
  <2> DEFINE stats == StatsOf(Lines, cur)
             new == [name |-> cur, stats |-> stats]
  <2>1. /\ pc = "stats" /\ pc' = "next"
        /\ UNCHANGED <<table, changes, todo, cur, listed>>
    BY <1>8 DEF GetStats, kernelVars
  <2>2. InTurn /\ ~ InTurn' /\ Ahead' = Ahead
    BY <2>1 DEF Ahead, InTurn
  <2>3. cur \in listed /\ cur \notin Ahead /\ cur \notin Done /\ cur \in Nat
    <3>1. cur \in listed /\ \A a \in Ahead : cur < a
      BY <2>2 DEF Walk
    <3>2. cur \in Nat
      BY DEF Types
    <3> QED BY <2>2, <3>1, <3>2 DEF Done
  <2>4. Done' = Done \cup {cur}
    BY <2>1, <2>2, <2>3 DEF Done
  <2>5. /\ stats \in StatsType /\ OwnStats(stats, cur)
        /\ \A k \in DOMAIN table : table[k].name = cur /\ FullLine(table[k]) =>
             FullStats(stats, table[k])
    BY <2>3, StatsRead DEF Types
  <2> HIDE DEF stats
  <2>6. counted \in Seq(CountedType) /\ Len(counted) \in Nat /\ new \in CountedType
    BY <2>3, <2>5 DEF Types, CountedType
  <2>7. \A i \in 1 .. Len(counted) : counted[i].name \in Done /\ counted[i].name # cur
    BY <2>3 DEF Counts
  <2>8. new.name = cur /\ new.stats = stats
    OBVIOUS
  <2> HIDE DEF new
  <2>9. CASE counted' = Append(counted, new) /\ UNCHANGED faults
    <3>1. /\ Len(counted') = Len(counted) + 1 /\ counted'[Len(counted) + 1] = new
          /\ \A i \in 1 .. Len(counted) : counted'[i] = counted[i]
      BY <2>6, <2>9, AppendProperties
    <3>2. \A i \in 1 .. Len(counted') : i \in 1 .. Len(counted) \/ i = Len(counted) + 1
      BY <2>6, <3>1
    <3>3. \A i \in 1 .. Len(counted) : i \in 1 .. Len(counted')
      BY <2>6, <3>1
    <3>4. Len(counted) + 1 \in 1 .. Len(counted')
      BY <2>6, <3>1
    <3>5. \A i \in 1 .. Len(counted') : /\ counted'[i].name \in Done'
                                        /\ OwnStats(counted'[i].stats, counted'[i].name)
      BY <2>4, <2>5, <2>8, <3>1, <3>2 DEF Counts
    <3>6. \A i, j \in 1 .. Len(counted') : counted'[i].name = counted'[j].name => i = j
      BY <2>7, <2>8, <3>1, <3>2 DEF Counts
    <3>7. ASSUME changes' = 0, faults' = 0, NEW k \in DOMAIN table,
                 table[k].name \in Done', FullLine(table[k]), ~ {1, 9} \subseteq table[k].bad
          PROVE  \E i \in 1 .. Len(counted') : /\ counted'[i].name = table[k].name
                                               /\ FullStats(counted'[i].stats, table[k])
      <4>1. changes = 0 /\ faults = 0
        BY <2>1, <2>9, <3>7
      <4>2. CASE table[k].name = cur
        BY <2>5, <2>8, <3>1, <3>4, <3>7, <4>2
      <4>3. CASE table[k].name # cur
        <5>1. table[k].name \in Done
          BY <2>4, <3>7, <4>3
        <5>2. PICK i \in 1 .. Len(counted) : /\ counted[i].name = table[k].name
                                             /\ FullStats(counted[i].stats, table[k])
          BY <3>7, <4>1, <5>1 DEF Counts
        <5> QED BY <3>1, <3>3, <5>2
      <4> QED BY <4>2, <4>3
    <3> QED BY <2>1, <3>5, <3>6, <3>7 DEF Counts
  <2>10. CASE UNCHANGED counted /\ (faults' # 0 \/ (UNCHANGED faults /\ stats.rx_bytes = 0 /\ stats.tx_bytes = 0))
    <3>1. \A i \in 1 .. Len(counted') : /\ counted'[i].name \in Done'
                                        /\ OwnStats(counted'[i].stats, counted'[i].name)
      BY <2>4, <2>10 DEF Counts
    <3>2. \A i, j \in 1 .. Len(counted') : counted'[i].name = counted'[j].name => i = j
      BY <2>10 DEF Counts
    <3>3. ASSUME changes' = 0, faults' = 0, NEW k \in DOMAIN table,
                 table[k].name \in Done', FullLine(table[k]), ~ {1, 9} \subseteq table[k].bad
          PROVE  \E i \in 1 .. Len(counted') : /\ counted'[i].name = table[k].name
                                               /\ FullStats(counted'[i].stats, table[k])
      <4>1. changes = 0 /\ faults = 0 /\ stats.rx_bytes = 0 /\ stats.tx_bytes = 0
        BY <2>1, <2>10, <3>3
      <4>2. table[k].name # cur
        <5>1. SUFFICES ASSUME table[k].name = cur PROVE FALSE
          OBVIOUS
        <5>2. FullStats(stats, table[k])
          BY <2>5, <3>3, <5>1
        <5> QED BY <3>3, <4>1, <5>2 DEF FullStats
      <4>3. table[k].name \in Done
        BY <2>4, <3>3, <4>2
      <4> QED BY <2>10, <3>3, <4>1, <4>3 DEF Counts
    <3> QED BY <2>1, <3>1, <3>2, <3>3 DEF Counts
  <2>11. stats.rx_bytes \in Nat /\ stats.tx_bytes \in Nat
    BY <2>5 DEF StatsType
  <2>12. \/ /\ counted' = IF stats.rx_bytes > 0 \/ stats.tx_bytes > 0
                          THEN Append(counted, new) ELSE counted
            /\ UNCHANGED faults
         \/ Fault /\ UNCHANGED counted
    BY <1>8 DEF GetStats, stats, new
  <2> QED BY <1>0, <2>9, <2>10, <2>11, <2>12
<1>9. CASE UNCHANGED vars
  <2>1. UNCHANGED <<table, changes, faults, pc, todo, cur, counted, listed>>
    BY <1>9 DEF vars, kernelVars
  <2>2. Done' = Done
    BY <2>1, SameNames DEF InTurn
  <2> QED BY <2>1, <2>2, SameCounts
<1> QED BY <1>1, <1>2, <1>3, <1>4, <1>6, <1>7, <1>8, <1>9 DEF Next

LEMMA CountsCorrect == Spec => []Counts
BY WalkCorrect, CountsInit, CountsNext, PTL DEF Spec

\* Every variable has its type: lines are of listed names, prefixes no longer than the
\* mask, and counters numbers.
THEOREM TypeCorrect == Spec => []TypeOK
<1>1. Types /\ OwnLines /\ Counts => TypeOK
  <2> SUFFICES ASSUME Types, OwnLines, Counts PROVE TypeOK
    OBVIOUS
  <2>1. \A i \in DOMAIN shown : /\ shown[i].family \in {"inet", "inet6"} /\ shown[i].name \in listed
                                /\ shown[i].prefix \in 0 .. Width
    <3>1. DOMAIN shown = 1 .. Len(shown) /\ \A i \in 1 .. Len(shown) : shown[i] \in ShownType
      BY DEF Types
    <3> QED BY <3>1 DEF OwnLines, ShownType
  <2>2. \A i \in DOMAIN counted :
          /\ counted[i].name \in listed
          /\ \A field \in {"rx_bytes", "rx_packets", "tx_bytes", "tx_packets"} :
               counted[i].stats[field] \in Nat
    <3>1. DOMAIN counted = 1 .. Len(counted) /\ \A i \in 1 .. Len(counted) : counted[i] \in CountedType
      BY DEF Types
    <3>2. \A i \in 1 .. Len(counted) : counted[i].name \in listed
      BY DEF Counts, Done
    <3> QED BY <3>1, <3>2 DEF CountedType, StatsType
  <2> QED BY <2>1, <2>2 DEF Types, TypeOK
<1> QED BY <1>1, WalkCorrect, CountsCorrect, PTL

\* For netmasks of any width, the prefix shown is the number of leading ones of a
\* contiguous mask, and is what the legacy program shows for these and no others.
THEOREM PrefixesAgreeCorrect == Spec => []PrefixesAgree
<1>1. Types /\ OwnLines => PrefixesAgree
  <2> SUFFICES ASSUME Types, OwnLines, NEW i \in DOMAIN shown, shown[i].mask # NoMask
               PROVE  /\ \A p \in 0 .. Width : Leading(Width, shown[i].mask, p) => shown[i].prefix = p
                      /\ (\E p \in 0 .. Width : Leading(Width, shown[i].mask, p))
                           <=> LegacyPrefix(shown[i].mask) = shown[i].prefix
    BY DEF PrefixesAgree
  <2>1. i \in 1 .. Len(shown) /\ shown[i] \in ShownType
    BY DEF Types
  <2> DEFINE mask == shown[i].mask
  <2>2. mask \in Masks /\ shown[i].prefix = CountOnes(mask)
    BY <2>1 DEF OwnLines, ShownType, PrefixOf
  <2> HIDE DEF mask
  <2>3. /\ \A p \in 0 .. Width : Leading(Width, mask, p) => CountOnes(mask) = p
        /\ (\E p \in 0 .. Width : Leading(Width, mask, p)) <=> LegacyPrefix(mask) = CountOnes(mask)
    BY <2>2, NetmaskCounts
  <2> QED BY <2>2, <2>3 DEF mask
<1> QED BY <1>1, WalkCorrect, PTL

\* Whatever the file has, and however it changes, counters are those of their own
\* interface and column, and none is lost that was there all the time.
THEOREM StatsOfInterfaceCorrect == Spec => []StatsOfInterface
<1>1. Types /\ Walk /\ Counts => StatsOfInterface
  <2> SUFFICES ASSUME Types, Walk, Counts PROVE StatsOfInterface
    OBVIOUS
  <2>1. DOMAIN counted = 1 .. Len(counted)
    BY DEF Types
  <2>2. \A i \in DOMAIN counted : OwnStats(counted[i].stats, counted[i].name)
    BY <2>1 DEF Counts
  <2>3. ASSUME pc = "done", changes = 0, faults = 0, NEW k \in DOMAIN table,
               table[k].name \in listed, ~ table[k].glued, table[k].columns >= 10,
               ~ {1, 9} \subseteq table[k].bad
        PROVE  \E i \in {j \in DOMAIN counted : counted[j].name = table[k].name} :
                 /\ {j \in DOMAIN counted : counted[j].name = table[k].name} = {i}
                 /\ FullStats(counted[i].stats, table[k])
    <3>1. Done = listed
      <4>1. ~ InTurn /\ todo = << >>
        BY <2>3 DEF InTurn, Walk
      <4>2. Ahead = {}
        BY <4>1 DEF Ahead
      <4> QED BY <4>1, <4>2 DEF Done
    <3>2. PICK i \in 1 .. Len(counted) : /\ counted[i].name = table[k].name
                                         /\ FullStats(counted[i].stats, table[k])
      BY <2>3, <3>1 DEF Counts, FullLine
    <3>3. \A j \in 1 .. Len(counted) : counted[j].name = table[k].name => j = i
      BY <3>2 DEF Counts
    <3> QED BY <2>1, <3>2, <3>3
  <2> QED BY <2>2, <2>3 DEF StatsOfInterface, OwnStats, Got, FullStats
<1> QED BY <1>1, WalkCorrect, CountsCorrect, PTL

-----------------------------------------------------------------------------
(* The order of the addresses *)

\* The entries whose lines have been printed, if no call failed.
Printed(k) ==
  \/ first[k].name \in Done
  \/ /\ InTurn /\ first[k].name = cur
     /\ IF first[k].family = "inet" THEN pc # "inet" ELSE pc = "stats"

Ready == {k \in DOMAIN first : first[k].family \in {"inet", "inet6"} /\ Printed(k)}

\* The lines are those of these entries, each once, in this order.
InOrder(order) ==
  /\ \A i \in 1 .. Len(shown) : shown[i] = Shown(first[order[i]])
  /\ \A i, j \in 1 .. Len(shown) :
       i < j => Before(first[order[i]], order[i], first[order[j]], order[j])
  /\ \A k \in Ready : \E i \in 1 .. Len(shown) : order[i] = k

Ordered ==
  changes = 0 =>
    /\ entries = first
    /\ pc \notin {"names", "failed"} => listed = NamesOf(first)
    /\ faults = 0 => \E order \in [1 .. Len(shown) -> Ready] : InOrder(order)

\* The order stays when nothing is printed and nothing else is to be.
LEMMA SameOrder ==
  ASSUME Ordered, UNCHANGED <<changes, entries, first, listed, shown>>, Ready' = Ready,
         UNCHANGED faults \/ faults' # 0,
         pc' \notin {"names", "failed"} => pc \notin {"names", "failed"}
  PROVE  Ordered'
<1>1. ASSUME changes' = 0, faults' = 0
      PROVE  \E order \in [1 .. Len(shown') -> Ready'] : InOrder(order)'
  <2>1. PICK order \in [1 .. Len(shown) -> Ready] : InOrder(order)
    BY <1>1 DEF Ordered
  <2>2. InOrder(order)'
    BY <2>1 DEF InOrder
  <2> QED BY <2>1, <2>2
<1> QED BY <1>1 DEF Ordered

\* What is printed of nothing is in order.
LEMMA NoLinesOrdered ==
  ASSUME shown' = << >>, Ready' = {}, entries' = first',
         pc' \notin {"names", "failed"} => listed' = NamesOf(first)'
  PROVE  Ordered'
<1>1. Len(shown') = 0
  BY EmptySeq
<1> DEFINE order == [i \in 1 .. 0 |-> 0]
<1>2. order \in [1 .. Len(shown') -> Ready']
  BY <1>1
<1>3. InOrder(order)'
  BY <1>1 DEF InOrder
<1> QED BY <1>2, <1>3 DEF Ordered

LEMMA OrderedInit == Init => Ordered
<1> SUFFICES ASSUME Init PROVE Ordered
  OBVIOUS
<1>1. shown = << >> /\ listed = {} /\ pc = "names" /\ first = entries
  BY DEF Init
<1>2. Ready = {} /\ Len(shown) = 0
  BY <1>1 DEF Ready, Printed, Done, InTurn
<1> DEFINE order == [i \in 1 .. 0 |-> 0]
<1>3. order \in [1 .. Len(shown) -> Ready] /\ InOrder(order)
  BY <1>2 DEF InOrder
<1> QED BY <1>1, <1>3 DEF Ordered

\* The addresses of the name at hand and of a family are the next in the order.
LEMMA NextAddresses ==
  ASSUME Types, Walk, NEW family \in {"inet", "inet6"}, pc = family,
         pc' = IF family = "inet" THEN "inet6" ELSE "stats",
         UNCHANGED <<todo, cur, listed, first>>,
         shown' = shown \o AddressesOf(first, cur, family),
         NEW order \in [1 .. Len(shown) -> Ready], InOrder(order)
  PROVE  \E order2 \in [1 .. Len(shown') -> Ready'] : InOrder(order2)'
<1> DEFINE own == OwnEntries(first, cur, family)
           new == AddressesOf(first, cur, family)
           L   == Len(shown)
<1>1. /\ first \in Lists /\ shown \in Seq(ShownType) /\ L \in Nat /\ cur \in Nat
      /\ DOMAIN first = 1 .. Len(first) /\ Len(first) \in Nat
  <2>1. first \in Lists /\ shown \in Seq(ShownType) /\ cur \in Nat
    BY DEF Types
  <2> QED BY <2>1, ListsFinite
<1>2. /\ own \in Seq(DOMAIN first) /\ Increasing(own)
      /\ \A i \in 1 .. Len(own) : first[own[i]].name = cur /\ first[own[i]].family = family
      /\ \A k \in DOMAIN first : first[k].name = cur /\ first[k].family = family =>
           \E i \in 1 .. Len(own) : own[i] = k
      /\ new \in Seq(ShownType) /\ Len(new) = Len(own)
      /\ \A i \in 1 .. Len(new) : new[i] = Shown(first[own[i]])
  <2>1. NameLines(first, cur, family, own, new)
    <3>1. first \in Lists
      BY <1>1
    <3> QED BY <3>1, AddressLines
  <2> HIDE DEF own, new
  <2> QED BY <2>1 DEF NameLines
<1> HIDE DEF own, new
<1>3. /\ Len(own) \in Nat /\ \A i \in 1 .. Len(own) : own[i] \in DOMAIN first
  BY <1>2
<1>4. /\ shown' \in Seq(ShownType) /\ Len(shown') = L + Len(own)
      /\ \A i \in 1 .. L + Len(own) : shown'[i] = IF i <= L THEN shown[i] ELSE new[i - L]
  <2>1. shown' = shown \o new
    BY DEF new
  <2> HIDE DEF L
  <2>2. /\ shown' \in Seq(ShownType) /\ Len(shown') = Len(shown) + Len(new)
        /\ \A i \in 1 .. Len(shown) + Len(new) : shown'[i] =
             IF i <= Len(shown) THEN shown[i] ELSE new[i - Len(shown)]
    <3>1. shown \in Seq(ShownType) /\ new \in Seq(ShownType)
      BY <1>1, <1>2
    <3> QED BY <2>1, <3>1, ConcatProperties
  <2> QED BY <1>2, <2>2 DEF L
<1>5. order \in [1 .. L -> Ready]
  OBVIOUS
<1> HIDE DEF L
<1>6. \A i \in 1 .. Len(shown') :
        \/ i \in 1 .. L /\ shown'[i] = shown[i]
        \/ i > L /\ ~(i <= L) /\ i - L \in 1 .. Len(own) /\ shown'[i] = new[i - L]
  <2> TAKE i \in 1 .. Len(shown')
  <2>1. CASE i <= L
    <3>1. i \in 1 .. L /\ i \in 1 .. L + Len(own)
      BY <1>1, <1>3, <1>4, <2>1
    <3> QED BY <1>4, <2>1, <3>1
  <2>2. CASE ~(i <= L)
    <3>1. i > L /\ i - L \in 1 .. Len(own) /\ i \in 1 .. L + Len(own)
      BY <1>1, <1>3, <1>4, <2>2
    <3> QED BY <1>4, <2>2, <3>1
  <2> QED BY <2>1, <2>2
<1>7. Ready' = Ready \cup {k \in DOMAIN first : first[k].name = cur /\ first[k].family = family}
  <2>1. InTurn /\ InTurn' /\ Done' = Done /\ cur \notin Done
    <3>1. InTurn /\ InTurn'
      BY DEF InTurn
    <3> QED BY <3>1, SameNames DEF Done
  <2>2. ASSUME NEW k \in DOMAIN first, first[k].family \in {"inet", "inet6"}
        PROVE  Printed(k)' <=> Printed(k) \/ (first[k].name = cur /\ first[k].family = family)
    <3>1. CASE first[k].name \in Done
      BY <2>1, <3>1 DEF Printed
    <3>2. CASE first[k].name \notin Done
      <4>1. CASE family = "inet"
        BY <2>1, <2>2, <3>2, <4>1 DEF Printed
      <4>2. CASE family = "inet6"
        BY <2>1, <2>2, <3>2, <4>2 DEF Printed
      <4> QED BY <4>1, <4>2
    <3> QED BY <3>1, <3>2
  <2> QED BY <2>2 DEF Ready
<1>8. PICK order2 \in [1 .. Len(shown') -> Ready'] :
             /\ \A i \in 1 .. Len(shown') : i \in 1 .. L => order2[i] = order[i]
             /\ \A i \in 1 .. Len(shown') : i > L => order2[i] = own[i - L]
  <2> DEFINE both == [i \in 1 .. Len(shown') |-> IF i <= L THEN order[i] ELSE own[i - L]]
  <2>1. /\ \A i \in 1 .. Len(shown') : i \in 1 .. L => both[i] = order[i]
        /\ \A i \in 1 .. Len(shown') : i > L => both[i] = own[i - L]
    BY <1>1, <1>3, <1>4
  <2>2. both = [i \in 1 .. Len(shown') |-> both[i]]
    OBVIOUS
  <2> HIDE DEF both
  <2>3. \A i \in 1 .. L : order[i] \in Ready'
    BY <1>5, <1>7
  <2>4. \A i \in 1 .. Len(own) : own[i] \in Ready'
    BY <1>2, <1>3, <1>7
  <2>5. \A i \in 1 .. Len(shown') : both[i] \in Ready'
    BY <1>6, <2>1, <2>3, <2>4
  <2>6. both \in [1 .. Len(shown') -> Ready']
    BY <2>2, <2>5
  <2> QED BY <2>1, <2>6
<1>9. \A i \in 1 .. Len(shown') : shown'[i] = Shown(first[order2[i]])
  <2> TAKE i \in 1 .. Len(shown')
  <2>1. CASE i \in 1 .. L /\ shown'[i] = shown[i]
    BY <1>8, <2>1 DEF InOrder, L
  <2>2. CASE i > L /\ i - L \in 1 .. Len(own) /\ shown'[i] = new[i - L]
    BY <1>2, <1>8, <2>2
  <2> QED BY <1>6, <2>1, <2>2
<1>10. ASSUME NEW i \in 1 .. Len(shown'), NEW j \in 1 .. Len(shown'), i < j
       PROVE  Before(first[order2[i]], order2[i], first[order2[j]], order2[j])
  <2>1. i \in Nat /\ j \in Nat
    BY <1>1, <1>3, <1>4
  <2>2. CASE i \in 1 .. L /\ j \in 1 .. L
    <3>1. order2[i] = order[i] /\ order2[j] = order[j]
      BY <1>8, <2>2
    <3> QED BY <1>10, <2>2, <3>1 DEF InOrder, L
  <2>3. CASE i \in 1 .. L /\ j > L
    <3>1. order2[i] = order[i] /\ j - L \in 1 .. Len(own) /\ order2[j] = own[j - L]
      BY <1>1, <1>6, <1>8, <2>1, <2>3
    <3>2. order2[i] \in Ready
      BY <1>5, <2>3, <3>1
    <3>3. first[order2[j]].name = cur /\ first[order2[j]].family = family
      BY <1>2, <3>1
    <3>4. CASE first[order2[i]].name \in Done
      <4>1. InTurn
        BY DEF InTurn
      <4>2. first[order2[i]].name < cur
        BY <3>4, <4>1 DEF Walk
      <4> QED BY <3>3, <4>2 DEF Before
    <3>5. CASE first[order2[i]].name \notin Done
      <4>1. /\ first[order2[i]].name = cur
            /\ IF first[order2[i]].family = "inet" THEN pc # "inet" ELSE pc = "stats"
        BY <3>2, <3>5 DEF Ready, Printed
      <4>2. family = "inet6" /\ first[order2[i]].family = "inet"
        BY <4>1
      <4>3. Rank(first[order2[i]]) = 1 /\ Rank(first[order2[j]]) = 2
        BY <3>3, <4>2 DEF Rank
      <4>4. Rank(first[order2[i]]) < Rank(first[order2[j]])
        BY <4>3
      <4> QED BY <3>3, <4>1, <4>4 DEF Before
    <3> QED BY <3>4, <3>5
  <2>4. CASE i > L /\ j > L
    <3>1. /\ i - L \in 1 .. Len(own) /\ order2[i] = own[i - L]
          /\ j - L \in 1 .. Len(own) /\ order2[j] = own[j - L] /\ i - L < j - L
      <4>1. i - L \in 1 .. Len(own) /\ order2[i] = own[i - L]
        BY <1>1, <1>6, <1>8, <2>1, <2>4
      <4>2. j - L \in 1 .. Len(own) /\ order2[j] = own[j - L]
        BY <1>1, <1>6, <1>8, <2>1, <2>4
      <4>3. i - L < j - L
        BY <1>1, <1>10, <2>1
      <4> QED BY <4>1, <4>2, <4>3
    <3>2. own[i - L] < own[j - L]
      BY <1>2, <3>1 DEF Increasing
    <3>3. /\ first[order2[i]].name = cur /\ first[order2[i]].family = family
          /\ first[order2[j]].name = cur /\ first[order2[j]].family = family
      BY <1>2, <3>1
    <3> QED BY <3>1, <3>2, <3>3 DEF Before, Rank
  <2>5. (i \in 1 .. L \/ i > L) /\ (j \in 1 .. L \/ j > L) /\ ~(i > L /\ j \in 1 .. L)
    BY <1>1, <1>6, <1>10, <2>1
  <2> QED BY <2>2, <2>3, <2>4, <2>5
<1>11. ASSUME NEW k \in Ready' PROVE \E i \in 1 .. Len(shown') : order2[i] = k
  <2>1. CASE k \in Ready
    <3>1. PICK i \in 1 .. L : order[i] = k
      BY <2>1 DEF InOrder, L
    <3>2. i \in 1 .. Len(shown')
      BY <1>1, <1>3, <1>4
    <3> QED BY <1>8, <3>1, <3>2
  <2>2. CASE k \notin Ready
    <3>1. k \in DOMAIN first /\ first[k].name = cur /\ first[k].family = family
      BY <1>7, <2>2
    <3>2. PICK i \in 1 .. Len(own) : own[i] = k
      BY <1>2, <3>1
    <3>3. L + i \in 1 .. Len(shown') /\ L + i > L /\ (L + i) - L = i
      BY <1>1, <1>3, <1>4
    <3> QED BY <1>8, <3>2, <3>3
  <2> QED BY <2>1, <2>2
<1>12. InOrder(order2)'
  BY <1>9, <1>10, <1>11 DEF InOrder
<1> QED BY <1>8, <1>12

LEMMA OrderedNext == Types /\ Walk /\ Ordered /\ [Next]_vars => Ordered'
<1> SUFFICES ASSUME Types, Walk, Ordered, [Next]_vars PROVE Ordered'
  OBVIOUS
<1>0. Fault => faults' # 0
  <2>1. ASSUME Fault PROVE faults' # 0
    <3>1. faults' \in 1 .. MaxFaults
      BY <2>1, FaultCounts
    <3> QED BY <3>1
  <2> QED BY <2>1
<1>1. CASE KernelChanges
  <2>1. changes' # 0
    BY <1>1 DEF KernelChanges, Types
  <2> QED BY <2>1 DEF Ordered
<1>2. CASE ListNames
  <2>1. /\ pc = "names" /\ pc' = "next" /\ first' = entries
        /\ todo' = Ascending(NamesOf(entries)) /\ listed' = NamesOf(entries)
        /\ UNCHANGED <<entries, shown>>
    BY <1>2 DEF ListNames, Sorted, kernelVars
  <2>2. shown' = << >>
    BY <2>1 DEF Walk
  <2>3. Ready' = {}
    <3>1. NamesOf(entries) \subseteq Nat /\ IsFiniteSet(NamesOf(entries))
      BY ListsFinite DEF Types
    <3>2. \A n \in listed' : \E i \in 1 .. Len(todo') : todo'[i] = n
      BY <2>1, <3>1, AscendingIs
    <3>3. Done' = {} /\ ~ InTurn'
      BY <2>1, <3>2 DEF Ahead, Done, InTurn
    <3> QED BY <3>3 DEF Ready, Printed
  <2>4. listed' = NamesOf(first)' /\ entries' = first'
    BY <2>1 DEF NamesOf
  <2> QED BY <2>2, <2>3, <2>4, NoLinesOrdered
<1>3. CASE NamesFail
  <2>1. pc' = "failed" /\ Fault /\ UNCHANGED <<entries, changes, first>>
    BY <1>3 DEF NamesFail, kernelVars
  <2> QED BY <1>0, <2>1 DEF Ordered
<1>4. CASE NextName
  <2>1. pc = "next" /\ UNCHANGED <<entries, changes, faults, first, listed, shown>>
    BY <1>4 DEF NextName, kernelVars
  <2>2. CASE todo = << >>
    <3>1. pc' = "done" /\ UNCHANGED <<cur, todo>>
      BY <1>4, <2>2 DEF NextName
    <3>2. Done' = Done /\ ~ InTurn /\ ~ InTurn'
      BY <2>1, <3>1, SameNames DEF InTurn
    <3>3. Ready' = Ready
      BY <2>1, <3>2 DEF Ready, Printed
    <3> QED BY <2>1, <3>1, <3>3, SameOrder
  <2>3. CASE todo # << >>
    <3>1. pc' = "inet" /\ cur' = Head(todo) /\ todo' = Tail(todo)
      BY <1>4, <2>3 DEF NextName
    <3>2. Done' = Done
      BY <2>1, <2>3, <3>1, TakeName
    <3>3. ~ InTurn
      BY <2>1 DEF InTurn
    <3>4. Ready' = Ready
      BY <2>1, <3>1, <3>2, <3>3 DEF Ready, Printed
    <3> QED BY <2>1, <3>1, <3>4, SameOrder
  <2> QED BY <2>2, <2>3
<1>5. ASSUME NEW family \in {"inet", "inet6"},
             ShowAddresses(family, IF family = "inet" THEN "inet6" ELSE "stats")
      PROVE  Ordered'
  <2>1. /\ pc = family /\ pc' = IF family = "inet" THEN "inet6" ELSE "stats"
        /\ UNCHANGED <<entries, changes, todo, cur, listed, first>>
    BY <1>5 DEF ShowAddresses, kernelVars
  <2>2. pc \notin {"names", "failed"} /\ pc' \notin {"names", "failed"}
    BY <2>1
  <2>3. ASSUME changes = 0, faults' = 0
        PROVE  \E order \in [1 .. Len(shown') -> Ready'] : InOrder(order)'
    <3>1. shown' = shown \o AddressesOf(entries, cur, family) /\ UNCHANGED faults
      BY <1>0, <1>5, <2>3 DEF ShowAddresses
    <3>2. entries = first
      BY <2>3 DEF Ordered
    <3>3. PICK order \in [1 .. Len(shown) -> Ready] : InOrder(order)
      BY <2>3, <3>1 DEF Ordered
    <3> QED BY <2>1, <3>1, <3>2, <3>3, NextAddresses
  <2>4. changes = 0 => entries' = first' /\ listed' = NamesOf(first)'
    BY <2>1, <2>2 DEF Ordered, NamesOf
  <2> QED BY <2>1, <2>3, <2>4 DEF Ordered
<1>6. CASE InetAddrs
  BY <1>5, <1>6 DEF InetAddrs
<1>7. CASE Inet6Addr
  BY <1>5, <1>7 DEF Inet6Addr
<1>8. CASE GetStats
  <2>1. /\ pc = "stats" /\ pc' = "next"
        /\ UNCHANGED <<entries, changes, todo, cur, listed, first, shown>>
    BY <1>8 DEF GetStats, kernelVars
  <2>2. InTurn /\ ~ InTurn' /\ Ahead' = Ahead /\ cur \in listed /\ \A a \in Ahead : cur < a
    BY <2>1 DEF InTurn, Ahead, Walk
  <2>3. cur \notin Ahead
    <3>1. cur \in Nat
      BY DEF Types
    <3> QED BY <2>2, <3>1
  <2>4. Done' = Done \cup {cur}
    BY <2>1, <2>2, <2>3 DEF Done
  <2>5. Ready' = Ready
    BY <2>1, <2>2, <2>4 DEF Ready, Printed
  <2>6. UNCHANGED faults \/ faults' # 0
    BY <1>0, <1>8 DEF GetStats
  <2> QED BY <2>1, <2>5, <2>6, SameOrder
<1>9. CASE UNCHANGED vars
  <2>1. UNCHANGED <<entries, table, changes, faults, pc, todo, cur, shown, counted, listed, first>>
    BY <1>9 DEF vars, kernelVars
  <2>2. Done' = Done /\ (InTurn' <=> InTurn)
    BY <2>1, SameNames DEF InTurn
  <2>3. Ready' = Ready
    BY <2>1, <2>2 DEF Ready, Printed
  <2> QED BY <2>1, <2>3, SameOrder
<1> QED BY <1>1, <1>2, <1>3, <1>4, <1>6, <1>7, <1>8, <1>9 DEF Next

\* For any list of addresses: each is printed once, whatever labels and names share it, the
\* names in their order, and the addresses of a name by family and in the order of the list.
THEOREM EveryAddressOnceCorrect == Spec => []EveryAddressOnce
<1>1. Types /\ Walk /\ Ordered => EveryAddressOnce
  <2> SUFFICES ASSUME Types, Walk, Ordered, pc = "done", changes = 0, faults = 0
               PROVE  EveryAddressOnce
    BY DEF EveryAddressOnce
  <2> DEFINE addressed == {k \in DOMAIN first : first[k].family \in {"inet", "inet6"}}
  <2>1. /\ Len(shown) \in Nat /\ DOMAIN shown = 1 .. Len(shown) /\ first \in Lists
        /\ DOMAIN first = 1 .. Len(first) /\ \A k \in DOMAIN first : first[k].name \in Nat
        /\ Len(first) \in Nat
    <3>1. first \in Lists /\ shown \in Seq(ShownType)
      BY DEF Types
    <3>2. /\ DOMAIN first = 1 .. Len(first) /\ Len(first) \in Nat
          /\ \A k \in DOMAIN first : first[k] \in Entries
      BY <3>1, ListsFinite
    <3>3. \A k \in DOMAIN first : first[k].name \in Nat
      BY <3>2 DEF Entries
    <3> QED BY <3>1, <3>2, <3>3
  <2>2. Ready = addressed
    <3>1. ~ InTurn /\ todo = << >>
      BY DEF InTurn, Walk
    <3>2. Done = listed
      BY <3>1 DEF Ahead, Done
    <3>3. listed = NamesOf(first)
      BY DEF Ordered
    <3>4. \A k \in DOMAIN first : first[k].name \in Done
      BY <3>2, <3>3 DEF NamesOf
    <3> QED BY <3>4 DEF Ready, Printed
  <2> HIDE DEF addressed
  <2>3. PICK order \in [1 .. Len(shown) -> addressed] : InOrder(order)
    BY <2>2 DEF Ordered
  <2>4. \A i \in 1 .. Len(shown) : /\ shown[i].name = first[order[i]].name
                                   /\ shown[i].family = first[order[i]].family
                                   /\ shown[i].addr = first[order[i]].addr
    <3>1. \A i \in 1 .. Len(shown) : shown[i] = Shown(first[order[i]])
      BY <2>3 DEF InOrder
    <3>2. \A e : Shown(e).name = e.name /\ Shown(e).family = e.family /\ Shown(e).addr = e.addr
      BY DEF Shown
    <3> QED BY <3>1, <3>2
  <2>5. \A i, j \in 1 .. Len(shown) :
          i < j => Before(first[order[i]], order[i], first[order[j]], order[j])
    BY <2>3 DEF InOrder
  <2>6. \A k \in addressed : ~ Before(first[k], k, first[k], k)
    <3> TAKE k \in addressed
    <3>1. k \in Nat /\ first[k].name \in Nat /\ Rank(first[k]) \in Nat
      BY <2>1 DEF addressed, Rank
    <3> QED BY <3>1 DEF Before
  <2>7. \A i, j \in 1 .. Len(shown) : order[i] = order[j] => i = j
    <3> TAKE i, j \in 1 .. Len(shown)
    <3>1. i < j \/ j < i \/ i = j
      BY <2>1
    <3>2. order[i] \in addressed
      BY <2>3
    <3> QED BY <2>5, <2>6, <3>1, <3>2
  <2>8. Cardinality(addressed) = Len(shown)
    <3> DEFINE n == Len(shown)
    <3>1. n \in Nat /\ order \in Injection(1 .. n, addressed)
      BY <2>1, <2>3, <2>7 DEF Injection, IsInjective
    <3>2. order \in Surjection(1 .. n, addressed)
      BY <2>2, <2>3 DEF InOrder, Surjection
    <3> HIDE DEF n
    <3>3. ExistsBijection(1 .. n, addressed)
      BY <3>1, <3>2 DEF ExistsBijection, Bijection
    <3> QED BY <3>1, <3>3, FS_CountingElements DEF n
  <2> QED BY <2>1, <2>3, <2>4, <2>5, <2>8 DEF EveryAddressOnce, addressed
<1>2. Spec => []Ordered
  BY WalkCorrect, OrderedInit, OrderedNext, PTL DEF Spec
<1> QED BY <1>1, <1>2, WalkCorrect, PTL
=============================================================================
