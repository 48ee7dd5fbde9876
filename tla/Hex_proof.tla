------------------------------ MODULE Hex_proof ------------------------------
(***************************************************************************)
(* For words of any size: the console reads from every string the number   *)
(* its leading digits denote, and prints digits that denote the number.    *)
(* The loops are recursive functions; what justifies them, and induction   *)
(* over them, is the least element of a set of natural numbers.            *)
(***************************************************************************)
EXTENDS Hex, SequenceTheorems, WellFoundedInduction, TLAPS

\* A set of natural numbers has a least element.
LEMMA Least ==
    ASSUME NEW S, S \subseteq Nat, S # {}
    PROVE  \E m \in S : \A n \in S : m <= n
<1> DEFINE R == OpToRel(<, Nat)
<1>1. IsWellFoundedOn(R, Nat) BY NatLessThanWellFounded, Zenon
<1>2. \A n, m \in Nat : n < m => <<n, m>> \in R BY DEF OpToRel
<1> HIDE DEF R
<1>3. PICK m \in S : \A n \in S : ~ (<<n, m>> \in R) BY <1>1, WFMin
<1>4. ASSUME NEW n \in S PROVE m <= n
  <2>1. n \in Nat /\ m \in Nat OBVIOUS
  <2>2. ~ (n < m) BY <1>2, <1>3, <2>1
  <2> QED BY <2>1, <2>2
<1> QED BY <1>4

\* Induction, for the set of the numbers of which something holds.
LEMMA AllNaturals ==
    ASSUME NEW S, 0 \in S, \A n \in Nat : n \in S => n + 1 \in S
    PROVE  \A n \in Nat : n \in S
<1> SUFFICES ASSUME NEW n \in Nat, n \notin S PROVE FALSE OBVIOUS
<1>1. PICK m \in Nat \ S : \A l \in Nat \ S : m <= l BY Least
<1>2. m # 0 OBVIOUS
<1>3. m - 1 \in Nat /\ ~(m <= m - 1) /\ (m - 1) + 1 = m BY <1>2
<1>4. m - 1 \in S BY <1>1, <1>3
<1> QED BY <1>3, <1>4

-----------------------------------------------------------------------------
(* Definitions by recursion.                                               *)

\* g is the function that starts with base and goes on with F, up to n.
UpTo(n, g, X, base, F) ==
    /\ g \in [0..n -> X]
    /\ g[0] = base
    /\ \A m \in Nat : m < n => g[m + 1] = F[m][g[m]]

LEMMA UpToExists ==
    ASSUME NEW X, NEW base \in X, NEW F \in [Nat -> [X -> X]]
    PROVE  \A n \in Nat : \E g : UpTo(n, g, X, base, F)
<1> DEFINE S == {n \in Nat : \E g : UpTo(n, g, X, base, F)}
<1>1. 0 \in S
  <2>1. UpTo(0, [m \in 0..0 |-> base], X, base, F) BY DEF UpTo
  <2> QED BY <2>1
<1>2. ASSUME NEW n \in Nat, n \in S PROVE n + 1 \in S
  <2>1. PICK g : UpTo(n, g, X, base, F) BY <1>2
  <2> DEFINE h == [m \in 0..(n + 1) |-> IF m = n + 1 THEN F[n][g[n]] ELSE g[m]]
  <2>2. g \in [0..n -> X] /\ g[0] = base BY <2>1 DEF UpTo
  <2>3. g[n] \in X /\ F[n][g[n]] \in X BY <2>2
  <2>4. h \in [0..(n + 1) -> X]
    <3>1. \A m \in 0..(n + 1) : m # n + 1 => m \in 0..n OBVIOUS
    <3> QED BY <2>2, <2>3, <3>1
  <2>5. h[0] = base BY <2>2
  <2>6. ASSUME NEW m \in Nat, m < n + 1 PROVE h[m + 1] = F[m][h[m]]
    <3>1. /\ m \in 0..(n + 1) /\ m # n + 1 /\ m + 1 \in 0..(n + 1)
          /\ m = n \/ (m < n /\ m + 1 # n + 1)
      BY <2>6
    <3>2. m < n => g[m + 1] = F[m][g[m]] BY <2>1 DEF UpTo
    <3> QED BY <3>1, <3>2
  <2> HIDE DEF h
  <2>7. UpTo(n + 1, h, X, base, F) BY <2>4, <2>5, <2>6 DEF UpTo
  <2> QED BY <2>7
<1> HIDE DEF S
<1>3. \A n \in Nat : n \in S BY <1>1, <1>2, AllNaturals
<1> QED BY <1>3 DEF S

LEMMA UpToUnique ==
    ASSUME NEW X, NEW base \in X, NEW F \in [Nat -> [X -> X]],
           NEW n \in Nat, NEW g, UpTo(n, g, X, base, F),
           NEW l \in Nat, NEW h, UpTo(l, h, X, base, F)
    PROVE  \A m \in Nat : m <= n /\ m <= l => g[m] = h[m]
<1> DEFINE S == {m \in Nat : m <= n /\ m <= l => g[m] = h[m]}
<1>1. 0 \in S BY DEF UpTo
<1>2. ASSUME NEW m \in Nat, m \in S PROVE m + 1 \in S
  <2> SUFFICES ASSUME m + 1 <= n, m + 1 <= l PROVE g[m + 1] = h[m + 1] OBVIOUS
  <2>1. m < n /\ m < l /\ m <= n /\ m <= l OBVIOUS
  <2>2. g[m] = h[m] BY <1>2, <2>1
  <2>3. g[m + 1] = F[m][g[m]] /\ h[m + 1] = F[m][h[m]] BY <2>1 DEF UpTo
  <2> QED BY <2>2, <2>3
<1> HIDE DEF S
<1>3. \A m \in Nat : m \in S BY <1>1, <1>2, AllNaturals
<1> QED BY <1>3 DEF S

Rule(X) == [Nat -> [X -> X]]
Obeys(g, X, base, F) ==
    g \in [Nat -> X] /\ g[0] = base /\ \A n \in Nat : g[n + 1] = F[n][g[n]]

LEMMA Recursion ==
    ASSUME NEW X, NEW base \in X, NEW F \in Rule(X)
    PROVE  \E g : Obeys(g, X, base, F)
<1> USE DEF Rule
<1> DEFINE Part(n) == CHOOSE g : UpTo(n, g, X, base, F)
           G == [n \in Nat |-> Part(n)[n]]
<1>1. ASSUME NEW n \in Nat PROVE UpTo(n, Part(n), X, base, F)
  BY UpToExists, Zenon
<1> HIDE DEF Part
<1>2. G \in [Nat -> X]
  <2>1. ASSUME NEW n \in Nat PROVE Part(n)[n] \in X
    <3>1. Part(n) \in [0..n -> X] /\ n \in 0..n BY <1>1 DEF UpTo
    <3> QED BY <3>1
  <2> QED BY <2>1
<1>3. G[0] = base BY <1>1 DEF UpTo
<1>4. ASSUME NEW n \in Nat PROVE G[n + 1] = F[n][G[n]]
  <2>1. n + 1 \in Nat /\ n < n + 1 /\ n <= n /\ n <= n + 1 OBVIOUS
  <2>2. UpTo(n + 1, Part(n + 1), X, base, F) /\ UpTo(n, Part(n), X, base, F)
    BY <1>1, <2>1
  <2>3. Part(n + 1)[n + 1] = F[n][Part(n + 1)[n]] BY <2>1, <2>2 DEF UpTo
  <2>4. Part(n + 1)[n] = Part(n)[n] BY <2>1, <2>2, UpToUnique
  <2> QED BY <2>1, <2>3, <2>4
<1> HIDE DEF G
<1> QED BY <1>2, <1>3, <1>4 DEF Obeys

-----------------------------------------------------------------------------
(* Powers.                                                                 *)

LEMMA Powers ==
    /\ Power16 \in [Nat -> Nat \ {0}]
    /\ Power16[0] = 1
    /\ \A n \in Nat : Power16[n + 1] = 16 * Power16[n]
<1> DEFINE X == Nat \ {0}
           F == [n \in Nat |-> [x \in X |-> 16 * x]]
<1>1. 1 \in X /\ F \in Rule(X) BY DEF Rule
<1>2. \A n \in Nat, x \in X : F[n][x] = 16 * x OBVIOUS
<1> HIDE DEF F, X
<1>3. PICK g : Obeys(g, X, 1, F) BY <1>1, Recursion
<1> USE DEF X, Obeys
<1>4. \A n \in Nat : g[n + 1] = 16 * g[n] BY <1>2, <1>3
<1>5. g = [n \in Nat |-> IF n = 0 THEN 1 ELSE 16 * g[n - 1]]
  <2>1. ASSUME NEW n \in Nat PROVE g[n] = IF n = 0 THEN 1 ELSE 16 * g[n - 1]
    <3>1. n # 0 => n - 1 \in Nat /\ (n - 1) + 1 = n OBVIOUS
    <3> QED BY <1>3, <1>4, <3>1
  <2> QED BY <1>3, <2>1
<1>6. Power16 = [n \in Nat |-> IF n = 0 THEN 1 ELSE 16 * Power16[n - 1]]
  BY <1>5, Zenon DEF Power16
<1>7. Power16[0] = 1 BY <1>6
<1>8. ASSUME NEW n \in Nat PROVE Power16[n + 1] = 16 * Power16[n]
  <2>1. n + 1 \in Nat /\ n + 1 # 0 /\ (n + 1) - 1 = n OBVIOUS
  <2> QED BY <1>6, <2>1
<1>9. \A n \in Nat : Power16[n] \in Nat \ {0}
  <2> DEFINE S == {n \in Nat : Power16[n] \in Nat \ {0}}
  <2>1. 0 \in S BY <1>7
  <2>2. \A n \in Nat : n \in S => n + 1 \in S BY <1>8
  <2> HIDE DEF S
  <2>3. \A n \in Nat : n \in S BY <2>1, <2>2, AllNaturals
  <2> QED BY <2>3 DEF S
<1>10. Power16 \in [Nat -> Nat \ {0}] BY <1>6, <1>9
<1> QED BY <1>7, <1>8, <1>10

\* The weight of a digit is a number.
LEMMA Weighed == \A d, p \in Nat : d * p \in Nat OBVIOUS

-----------------------------------------------------------------------------
(* Digits.                                                                 *)

LEMMA DigitTypes ==
    ASSUME NEW c, IsDigit(c)
    PROVE  DigitValue(c) \in 0..15
<1> DEFINE Is(n) == c \in {Upper[n], Lower[n]}
<1>1. \E n \in 1..16 : Is(n) BY DEF IsDigit
<1>2. DigitValue(c) = (CHOOSE n \in 1..16 : Is(n)) - 1 BY DEF DigitValue
<1> HIDE DEF Is
<1>3. (CHOOSE n \in 1..16 : Is(n)) \in 1..16 BY <1>1
<1> QED BY <1>2, <1>3

\* No digit is written in two ways of the same case, and none stands for two values.
LEMMA DigitsDiffer ==
    \A n, m \in 1..16 : Upper[n] \in {Upper[m], Lower[m]} => n = m
  BY DEF Upper, Lower

LEMMA DigitShown ==
    ASSUME NEW d \in 0..15
    PROVE  IsDigit(Upper[1 + d]) /\ DigitValue(Upper[1 + d]) = d
<1> DEFINE c == Upper[1 + d]
           Is(n) == c \in {Upper[n], Lower[n]}
<1>1. 1 + d \in 1..16 /\ Is(1 + d) OBVIOUS
<1>2. IsDigit(c) BY <1>1 DEF IsDigit
<1>3. DigitValue(c) = (CHOOSE n \in 1..16 : Is(n)) - 1 BY DEF DigitValue
<1>4. \A n \in 1..16 : Is(n) => n = 1 + d BY <1>1, DigitsDiffer
<1> HIDE DEF Is, c
<1>5. (CHOOSE n \in 1..16 : Is(n)) = 1 + d BY <1>1, <1>4
<1>6. (1 + d) - 1 = d OBVIOUS
<1> QED BY <1>2, <1>3, <1>5, <1>6 DEF c

-----------------------------------------------------------------------------
(* What a sequence of digits denotes.                                      *)

AllDigits(s) == \A k \in 1..Len(s) : IsDigit(s[k])

LEMMA Placed ==
    ASSUME NEW C, NEW s \in Seq(C), AllDigits(s)
    PROVE  /\ PlaceSums(s) \in [0..Len(s) -> Nat]
           /\ PlaceSums(s)[0] = 0
           /\ \A n \in Nat : n < Len(s) =>
                 PlaceSums(s)[n + 1] = PlaceSums(s)[n]
                     + DigitValue(s[n + 1]) * Power16[Len(s) - (n + 1)]
<1> DEFINE len == Len(s)
           Weight(n) == DigitValue(s[n]) * Power16[len - n]
<1>1. len \in Nat OBVIOUS
<1>2. ASSUME NEW n \in 1..len PROVE Weight(n) \in Nat
  <2>1. DigitValue(s[n]) \in Nat BY <1>2, DigitTypes DEF AllDigits
  <2>2. Power16[len - n] \in Nat
    <3>1. len - n \in Nat BY <1>1
    <3> QED BY <3>1, Powers
  <2> QED BY <2>1, <2>2, Weighed
<1> HIDE DEF Weight
<1> DEFINE F == [n \in Nat |-> [x \in Nat |-> IF n < len THEN x + Weight(n + 1) ELSE x]]
<1>3. \A n \in Nat : n < len => n + 1 \in 1..len BY <1>1
<1>4. 0 \in Nat /\ F \in Rule(Nat) BY <1>2, <1>3 DEF Rule
<1>5. \A n, x \in Nat : n < len => F[n][x] = x + Weight(n + 1) OBVIOUS
<1> HIDE DEF F
<1>6. PICK g : Obeys(g, Nat, 0, F) BY <1>4, Recursion
<1>7. g \in [Nat -> Nat] /\ g[0] = 0 BY <1>6 DEF Obeys
<1>8. \A n \in Nat : n < len => g[n + 1] = g[n] + Weight(n + 1)
  BY <1>5, <1>6 DEF Obeys
<1> DEFINE h == [n \in 0..len |-> g[n]]
<1>9. h = [n \in 0..len |-> IF n = 0 THEN 0 ELSE h[n - 1] + Weight(n)]
  <2>1. ASSUME NEW n \in 0..len PROVE h[n] = IF n = 0 THEN 0 ELSE h[n - 1] + Weight(n)
    <3>1. n # 0 => n - 1 \in Nat /\ n - 1 < len /\ (n - 1) + 1 = n /\ n - 1 \in 0..len
      BY <1>1
    <3> QED BY <1>7, <1>8, <3>1
  <2> QED BY <2>1
<1> HIDE DEF h
<1>10. PlaceSums(s) = [n \in 0..len |-> IF n = 0 THEN 0
                                         ELSE PlaceSums(s)[n - 1] + Weight(n)]
  BY <1>9, Zenon DEF PlaceSums, Weight
<1> DEFINE p == PlaceSums(s)
<1> HIDE DEF p
<1>11. p[0] = 0 BY <1>1, <1>10 DEF p
<1>12. ASSUME NEW n \in Nat, n < len PROVE p[n + 1] = p[n] + Weight(n + 1)
  <2>1. n + 1 \in 0..len /\ n + 1 # 0 /\ (n + 1) - 1 = n BY <1>1, <1>12
  <2> QED BY <1>10, <2>1 DEF p
<1>13. \A n \in 0..len : p[n] \in Nat
  <2> DEFINE S == {n \in Nat : n <= len => p[n] \in Nat}
  <2>1. 0 \in S BY <1>11
  <2>2. ASSUME NEW n \in Nat, n \in S PROVE n + 1 \in S
    <3> SUFFICES ASSUME n + 1 <= len PROVE p[n + 1] \in Nat OBVIOUS
    <3>1. n < len /\ n <= len /\ n + 1 \in 1..len BY <1>1
    <3> QED BY <1>2, <1>12, <2>2, <3>1
  <2> HIDE DEF S
  <2>3. \A n \in Nat : n \in S BY <2>1, <2>2, AllNaturals
  <2> QED BY <1>1, <2>3 DEF S
<1>14. p \in [0..len -> Nat] BY <1>10, <1>13 DEF p
<1> QED BY <1>11, <1>12, <1>14 DEF p, Weight

LEMMA Prefix ==
    ASSUME NEW C, NEW s \in Seq(C), NEW n \in 0..Len(s)
    PROVE  /\ SubSeq(s, 1, n) \in Seq(C) /\ Len(SubSeq(s, 1, n)) = n
           /\ \A k \in 1..n : SubSeq(s, 1, n)[k] = s[k]
<1>1. Len(s) \in Nat /\ s \in [1..Len(s) -> C] OBVIOUS
<1>2. SubSeq(s, 1, n) = [k \in 1..n |-> s[k]] BY <1>1
<1>3. \A k \in 1..n : s[k] \in C BY <1>1
<1> QED BY <1>1, <1>2, <1>3

\* Another digit on the right moves all others a place to the left.
LEMMA Shifted ==
    ASSUME NEW C, NEW t \in Seq(C), NEW u \in Seq(C), AllDigits(u),
           Len(u) = Len(t) + 1, \A k \in 1..Len(t) : u[k] = t[k]
    PROVE  /\ Denoted(t) \in Nat /\ Denoted(u) \in Nat
           /\ Denoted(u) = 16 * Denoted(t) + DigitValue(u[Len(u)])
<1> DEFINE n == Len(t)
<1>1. n \in Nat /\ Len(u) = n + 1 OBVIOUS
<1>2. AllDigits(t) BY <1>1 DEF AllDigits
<1> DEFINE p == PlaceSums(t)
           q == PlaceSums(u)
           d(k) == DigitValue(u[k])
<1>3. /\ p \in [0..n -> Nat] /\ p[0] = 0
      /\ \A m \in Nat : m < n =>
            p[m + 1] = p[m] + DigitValue(t[m + 1]) * Power16[n - (m + 1)]
  BY <1>2, Placed
<1>4. /\ q \in [0..(n + 1) -> Nat] /\ q[0] = 0
      /\ \A m \in Nat : m < n + 1 => q[m + 1] = q[m] + d(m + 1) * Power16[(n + 1) - (m + 1)]
  BY <1>1, Placed
<1>5. ASSUME NEW k \in 1..(n + 1) PROVE d(k) \in Nat
  BY <1>1, <1>5, DigitTypes DEF AllDigits
<1> HIDE DEF p, q, d
<1>6. \A m \in 0..n : q[m] = 16 * p[m]
  <2> DEFINE S == {m \in Nat : m <= n => q[m] = 16 * p[m]}
  <2>1. 0 \in S BY <1>3, <1>4
  <2>2. ASSUME NEW m \in Nat, m \in S PROVE m + 1 \in S
    <3> SUFFICES ASSUME m + 1 <= n PROVE q[m + 1] = 16 * p[m + 1] OBVIOUS
    <3>1. /\ m < n /\ m < n + 1 /\ m <= n /\ m \in 0..n /\ m + 1 \in 1..(n + 1)
          /\ m + 1 \in 1..n
          /\ n - (m + 1) \in Nat /\ (n + 1) - (m + 1) = (n - (m + 1)) + 1
      BY <1>1
    <3> DEFINE w == Power16[n - (m + 1)]
    <3>2. w \in Nat /\ Power16[(n + 1) - (m + 1)] = 16 * w BY <3>1, Powers
    <3> HIDE DEF w
    <3>3. q[m] = 16 * p[m] /\ p[m] \in Nat BY <1>3, <2>2, <3>1
    <3>4. DigitValue(t[m + 1]) = d(m + 1) BY <3>1 DEF d
    <3>5. p[m + 1] = p[m] + d(m + 1) * w BY <1>3, <3>1, <3>4 DEF w
    <3>6. q[m + 1] = q[m] + d(m + 1) * (16 * w) BY <1>4, <3>1, <3>2
    <3>7. d(m + 1) * (16 * w) = 16 * (d(m + 1) * w) /\ d(m + 1) * w \in Nat
      BY <1>5, <3>1, <3>2, Weighed
    <3> QED BY <3>3, <3>5, <3>6, <3>7
  <2> HIDE DEF S
  <2>3. \A m \in Nat : m \in S BY <2>1, <2>2, AllNaturals
  <2> QED BY <1>1, <2>3 DEF S
<1>7. q[n + 1] = q[n] + d(n + 1) * Power16[(n + 1) - (n + 1)] BY <1>1, <1>4
<1>8. (n + 1) - (n + 1) = 0 /\ n + 1 \in 1..(n + 1) BY <1>1
<1>9. d(n + 1) * Power16[(n + 1) - (n + 1)] = d(n + 1)
  <2>1. Power16[(n + 1) - (n + 1)] = 1 BY <1>8, Powers
  <2>2. d(n + 1) \in Nat BY <1>5, <1>8
  <2> QED BY <2>1, <2>2
<1>10. q[n] = 16 * p[n] BY <1>1, <1>6
<1>11. p[n] \in Nat /\ q[n + 1] \in Nat BY <1>1, <1>3, <1>4
<1>12. Denoted(t) = p[n] /\ Denoted(u) = q[n + 1] BY <1>1 DEF Denoted, p, q
<1> QED BY <1>1, <1>7, <1>9, <1>10, <1>11, <1>12 DEF d

LEMMA DenotedEmpty ==
    ASSUME NEW C, NEW s \in Seq(C), Len(s) = 0
    PROVE  Denoted(s) = 0
<1>1. AllDigits(s) BY DEF AllDigits
<1> QED BY <1>1, Placed DEF Denoted

LEMMA Carried == \A v, p \in Nat, d \in 0..15 : v < p => 16 * v + d < 16 * p OBVIOUS

\* A digit less, a sixteenth; so n digits stay below 16^n.
LEMMA DenotedBelow ==
    ASSUME NEW C, NEW s \in Seq(C), NEW top \in 0..Len(s), \A k \in 1..top : IsDigit(s[k])
    PROVE  \A n \in 0..top :
              /\ Denoted(SubSeq(s, 1, n)) \in Nat
              /\ Denoted(SubSeq(s, 1, n)) < Power16[n]
              /\ n < top => Denoted(SubSeq(s, 1, n + 1))
                               = 16 * Denoted(SubSeq(s, 1, n)) + DigitValue(s[n + 1])
<1> DEFINE v(n) == Denoted(SubSeq(s, 1, n))
<1>1. top \in Nat /\ Len(s) \in Nat OBVIOUS
<1>2. ASSUME NEW n \in Nat, n < top
      PROVE  /\ v(n) \in Nat /\ v(n + 1) \in Nat
             /\ v(n + 1) = 16 * v(n) + DigitValue(s[n + 1])
  <2> DEFINE t == SubSeq(s, 1, n)
             u == SubSeq(s, 1, n + 1)
  <2>1. n \in 0..Len(s) /\ n + 1 \in 0..Len(s) /\ n + 1 \in 1..(n + 1)
        /\ \A k \in 1..n : k \in 1..(n + 1)
    BY <1>1, <1>2
  <2>2. /\ t \in Seq(C) /\ Len(t) = n /\ \A k \in 1..n : t[k] = s[k]
        /\ u \in Seq(C) /\ Len(u) = n + 1 /\ \A k \in 1..(n + 1) : u[k] = s[k]
    BY <2>1, Prefix
  <2>3. AllDigits(u)
    <3>1. \A k \in 1..(n + 1) : k \in 1..top BY <1>1, <1>2
    <3> QED BY <2>2, <3>1 DEF AllDigits
  <2> HIDE DEF t, u
  <2>4. /\ Denoted(t) \in Nat /\ Denoted(u) \in Nat
        /\ Denoted(u) = 16 * Denoted(t) + DigitValue(u[Len(u)])
    BY <2>1, <2>2, <2>3, Shifted
  <2> QED BY <2>1, <2>2, <2>4 DEF t, u
<1>3. v(0) = 0
  <2>1. SubSeq(s, 1, 0) \in Seq(C) /\ Len(SubSeq(s, 1, 0)) = 0 BY <1>1, Prefix
  <2> QED BY <2>1, DenotedEmpty
<1> HIDE DEF v
<1> DEFINE S == {n \in Nat : n <= top => (v(n) \in Nat /\ v(n) < Power16[n])}
<1>4. 0 \in S
  <2>1. v(0) \in Nat /\ v(0) < 1 BY <1>3
  <2>2. Power16[0] = 1 BY Powers
  <2> QED BY <2>1, <2>2
<1>5. ASSUME NEW n \in Nat, n \in S PROVE n + 1 \in S
  <2> SUFFICES ASSUME n + 1 <= top PROVE v(n + 1) \in Nat /\ v(n + 1) < Power16[n + 1]
    OBVIOUS
  <2>1. n < top /\ n <= top /\ n + 1 \in 1..top BY <1>1
  <2>2. /\ v(n) \in Nat /\ v(n + 1) \in Nat
        /\ v(n + 1) = 16 * v(n) + DigitValue(s[n + 1])
    BY <1>2, <2>1
  <2>3. v(n) < Power16[n] BY <1>5, <2>1
  <2>4. DigitValue(s[n + 1]) \in 0..15 BY <2>1, DigitTypes
  <2>5. Power16[n] \in Nat /\ Power16[n + 1] = 16 * Power16[n] BY Powers
  <2>6. 16 * v(n) + DigitValue(s[n + 1]) < 16 * Power16[n]
    BY <2>2, <2>3, <2>4, <2>5, Carried
  <2>7. v(n + 1) < Power16[n + 1] BY <2>2, <2>5, <2>6
  <2> QED BY <2>2, <2>7
<1> HIDE DEF S
<1>6. \A n \in Nat : n \in S BY <1>4, <1>5, AllNaturals
<1> SUFFICES ASSUME NEW n \in 0..top
             PROVE  /\ v(n) \in Nat /\ v(n) < Power16[n]
                    /\ n < top => v(n + 1) = 16 * v(n) + DigitValue(s[n + 1])
  BY DEF v
<1>7. n \in Nat /\ n <= top BY <1>1
<1> QED BY <1>2, <1>6, <1>7 DEF S

LEMMA PowersGrow ==
    ASSUME NEW m \in Nat, NEW n \in Nat, m <= n
    PROVE  Power16[m] <= Power16[n]
<1> DEFINE S == {l \in Nat : m <= l => Power16[m] <= Power16[l]}
<1>1. 0 \in S
  <2>1. m <= 0 => m = 0 OBVIOUS
  <2>2. Power16[0] <= Power16[0] BY Powers
  <2> QED BY <2>1, <2>2
<1>2. ASSUME NEW l \in Nat, l \in S PROVE l + 1 \in S
  <2>1. Power16[m] \in Nat /\ Power16[l] \in Nat /\ Power16[l + 1] = 16 * Power16[l]
    BY Powers
  <2>2. m <= l + 1 => m <= l \/ m = l + 1 OBVIOUS
  <2> QED BY <1>2, <2>1, <2>2
<1> HIDE DEF S
<1>3. \A l \in Nat : l \in S BY <1>1, <1>2, AllNaturals
<1> QED BY <1>3 DEF S

-----------------------------------------------------------------------------
(* console_uint64_from_hex.                                                *)

LEMMA Modulo == \A W \in Nat \ {0}, x \in Nat : x % W \in Nat /\ (x < W => x % W = x)
  OBVIOUS

LEMMA Joined == \A v \in Nat, d \in 0..15 : v * 16 + d \in Nat /\ v * 16 + d = 16 * v + d
  OBVIOUS

\* A round of the loop.
LEMMA Round ==
    ASSUME NEW v, NEW c
    PROVE  /\ IsDigit(c) => ReadDigit([value |-> v, done |-> FALSE], c)
                 = [value |-> (v * 16 + DigitValue(c)) % WordValues, done |-> FALSE]
           /\ ~IsDigit(c) => ReadDigit([value |-> v, done |-> FALSE], c)
                 = [value |-> v, done |-> TRUE]
           /\ ReadDigit([value |-> v, done |-> TRUE], c) = [value |-> v, done |-> TRUE]
  BY DEF ReadDigit

ReadState == [value : Nat, done : BOOLEAN]
Unread == [value |-> 0, done |-> FALSE]

LEMMA Read ==
    ASSUME NEW C, NEW s \in Seq(C)
    PROVE  /\ Reading(s)[0] = Unread
           /\ \A n \in Nat : n < Len(s) =>
                 Reading(s)[n + 1] = ReadDigit(Reading(s)[n], s[n + 1])
<1> DEFINE len == Len(s)
           F == [n \in Nat |-> [t \in ReadState |-> ReadDigit(t, s[n + 1])]]
<1>1. len \in Nat OBVIOUS
<1>2. ASSUME NEW t \in ReadState, NEW c PROVE ReadDigit(t, c) \in ReadState
  <2>1. CASE t.done \/ ~IsDigit(c) BY <2>1 DEF ReadDigit, ReadState
  <2>2. CASE ~(t.done \/ ~IsDigit(c))
    <3>1. t.value \in Nat BY DEF ReadState
    <3>2. DigitValue(c) \in 0..15 BY <2>2, DigitTypes
    <3>3. WordValues \in Nat \ {0} BY Powers, HexAssumption DEF WordValues
    <3>4. (t.value * 16 + DigitValue(c)) % WordValues \in Nat
      <4>1. t.value * 16 + DigitValue(c) \in Nat BY <3>1, <3>2, Joined
      <4> QED BY <3>3, <4>1, Modulo
    <3> QED BY <2>2, <3>4 DEF ReadDigit, ReadState
  <2> QED BY <2>1, <2>2
<1>3. Unread \in ReadState /\ F \in Rule(ReadState) BY <1>2 DEF Rule, ReadState, Unread
<1>4. \A n \in Nat, t \in ReadState : F[n][t] = ReadDigit(t, s[n + 1]) OBVIOUS
<1> HIDE DEF F
<1>5. PICK g : Obeys(g, ReadState, Unread, F) BY <1>3, Recursion
<1>6. g \in [Nat -> ReadState] /\ g[0] = Unread BY <1>5 DEF Obeys
<1>7. \A n \in Nat : g[n + 1] = ReadDigit(g[n], s[n + 1])
  BY <1>4, <1>5 DEF Obeys
<1> DEFINE h == [n \in 0..len |-> g[n]]
<1>8. h = [n \in 0..len |-> IF n = 0 THEN Unread ELSE ReadDigit(h[n - 1], s[n])]
  <2>1. ASSUME NEW n \in 0..len
        PROVE  h[n] = IF n = 0 THEN Unread ELSE ReadDigit(h[n - 1], s[n])
    <3>1. n # 0 => n - 1 \in Nat /\ (n - 1) + 1 = n /\ n - 1 \in 0..len BY <1>1
    <3> QED BY <1>6, <1>7, <3>1
  <2> QED BY <2>1
<1> HIDE DEF h
<1>9. Reading(s) = [n \in 0..len |-> IF n = 0 THEN Unread
                                      ELSE ReadDigit(Reading(s)[n - 1], s[n])]
  BY <1>8, Zenon DEF Reading, Unread
<1> DEFINE r == Reading(s)
<1> HIDE DEF r
<1>10. r[0] = Unread BY <1>1, <1>9 DEF r
<1>11. ASSUME NEW n \in Nat, n < len PROVE r[n + 1] = ReadDigit(r[n], s[n + 1])
  <2>1. n + 1 \in 0..len /\ n + 1 # 0 /\ (n + 1) - 1 = n BY <1>1, <1>11
  <2> QED BY <1>9, <2>1 DEF r
<1> QED BY <1>10, <1>11 DEF r

\* As long as there are digits, and no more than a word holds, nothing overflows.
LEMMA DigitsRead ==
    ASSUME NEW C, NEW s \in Seq(C), NEW top \in 0..Len(s), top <= Digits,
           \A k \in 1..top : IsDigit(s[k])
    PROVE  \A n \in 0..top :
              Reading(s)[n] = [value |-> Denoted(SubSeq(s, 1, n)), done |-> FALSE]
<1> DEFINE v(n) == Denoted(SubSeq(s, 1, n))
           S == {n \in Nat : n <= top => Reading(s)[n] = [value |-> v(n), done |-> FALSE]}
<1>1. top \in Nat /\ Len(s) \in Nat /\ Digits \in Nat BY HexAssumption
<1>2. \A n \in 0..top : /\ v(n) \in Nat /\ v(n) < Power16[n]
                        /\ n < top => v(n + 1) = 16 * v(n) + DigitValue(s[n + 1])
  BY DenotedBelow
<1>3. v(0) = 0
  <2>1. SubSeq(s, 1, 0) \in Seq(C) /\ Len(SubSeq(s, 1, 0)) = 0 BY <1>1, Prefix
  <2> QED BY <2>1, DenotedEmpty
<1> HIDE DEF v
<1>4. 0 \in S BY <1>3, Read DEF Unread
<1>5. ASSUME NEW n \in Nat, n \in S PROVE n + 1 \in S
  <2> SUFFICES ASSUME n + 1 <= top
               PROVE  Reading(s)[n + 1] = [value |-> v(n + 1), done |-> FALSE]
    OBVIOUS
  <2>1. /\ n \in 0..top /\ n < top /\ n <= top /\ n < Len(s) /\ n + 1 \in 1..top
        /\ n + 1 \in 0..top /\ n + 1 <= Digits
    BY <1>1
  <2>2. Reading(s)[n] = [value |-> v(n), done |-> FALSE] BY <1>5, <2>1
  <2>3. IsDigit(s[n + 1]) /\ DigitValue(s[n + 1]) \in 0..15 BY <2>1, DigitTypes
  <2>4. v(n) * 16 + DigitValue(s[n + 1]) = v(n + 1) BY <1>2, <2>1, <2>3, Joined
  <2>5. v(n + 1) % WordValues = v(n + 1)
    <3>1. v(n + 1) \in Nat /\ v(n + 1) < Power16[n + 1] BY <1>2, <2>1
    <3>2. Power16[n + 1] <= WordValues /\ WordValues \in Nat \ {0} /\ Power16[n + 1] \in Nat
      <4>1. n + 1 \in Nat BY <2>1
      <4>2. Power16[n + 1] <= Power16[Digits] BY <1>1, <2>1, <4>1, PowersGrow
      <4>3. Power16[n + 1] \in Nat /\ Power16[Digits] \in Nat \ {0}
        BY <1>1, <4>1, Powers
      <4> QED BY <4>2, <4>3 DEF WordValues
    <3>3. v(n + 1) < WordValues BY <3>1, <3>2
    <3> QED BY <3>1, <3>2, <3>3, Modulo
  <2>6. Reading(s)[n + 1] = ReadDigit(Reading(s)[n], s[n + 1]) BY <2>1, Read
  <2>7. Reading(s)[n + 1]
           = [value |-> (v(n) * 16 + DigitValue(s[n + 1])) % WordValues, done |-> FALSE]
    BY <2>2, <2>3, <2>6, Round
  <2> QED BY <2>4, <2>5, <2>7
<1> HIDE DEF S
<1>6. \A n \in Nat : n \in S BY <1>4, <1>5, AllNaturals
<1> SUFFICES ASSUME NEW n \in 0..top
             PROVE  Reading(s)[n] = [value |-> v(n), done |-> FALSE]
  BY DEF v
<1>7. n \in Nat /\ n <= top BY <1>1
<1> QED BY <1>6, <1>7 DEF S

\* What is no digit ends the number, whatever follows.
LEMMA ReadingStops ==
    ASSUME NEW C, NEW s \in Seq(C), NEW n \in Nat, n < Len(s), ~IsDigit(s[n + 1]),
           NEW v, Reading(s)[n] = [value |-> v, done |-> FALSE]
    PROVE  Reading(s)[Len(s)].value = v
<1> DEFINE stopped == [value |-> v, done |-> TRUE]
           S == {m \in Nat : n < m /\ m <= Len(s) => Reading(s)[m] = stopped}
<1>1. Len(s) \in Nat OBVIOUS
<1>2. 0 \in S OBVIOUS
<1>3. ASSUME NEW m \in Nat, m \in S PROVE m + 1 \in S
  <2> SUFFICES ASSUME n < m + 1, m + 1 <= Len(s) PROVE Reading(s)[m + 1] = stopped
    OBVIOUS
  <2>1. m < Len(s) /\ m <= Len(s) /\ (n < m \/ m = n) BY <1>1
  <2>2. Reading(s)[m + 1] = ReadDigit(Reading(s)[m], s[m + 1]) BY <2>1, Read
  <2>3. CASE m = n BY <2>2, <2>3, Round
  <2>4. CASE n < m
    <3>1. Reading(s)[m] = stopped BY <1>3, <2>1, <2>4
    <3> QED BY <2>2, <3>1, Round
  <2> QED BY <2>1, <2>3, <2>4
<1> HIDE DEF S
<1>4. \A m \in Nat : m \in S BY <1>2, <1>3, AllNaturals
<1>5. Reading(s)[Len(s)] = stopped
  <2>1. Len(s) \in S /\ n < Len(s) /\ Len(s) <= Len(s) BY <1>1, <1>4
  <2> QED BY <2>1 DEF S
<1> QED BY <1>5

LEMMA Piece ==
    ASSUME NEW C, NEW s \in Seq(C), NEW a \in 1..(Len(s) + 1), NEW b \in (a - 1)..Len(s)
    PROVE  /\ SubSeq(s, a, b) \in Seq(C) /\ Len(SubSeq(s, a, b)) = b - a + 1
           /\ \A k \in 1..(b - a + 1) : SubSeq(s, a, b)[k] = s[a + k - 1]
<1>1. a \in Int /\ b \in Int /\ (a <= b \/ b - a + 1 = 0) OBVIOUS
<1>2. \A k \in a..b : s[k] \in C OBVIOUS
<1> QED BY <1>1, <1>2, SubSeqProperties

LEMMA MinIs ==
    ASSUME NEW S, S \subseteq Nat, NEW m \in S, \A n \in S : m <= n
    PROVE  Min(S) = m
<1> DEFINE Low(x) == \A n \in S : x <= n
<1>1. Min(S) = CHOOSE x \in S : Low(x) BY DEF Min
<1>2. Low(m) OBVIOUS
<1>3. Min(S) \in S /\ Low(Min(S))
  <2> HIDE DEF Low
  <2> QED BY <1>1, <1>2
<1>4. Min(S) <= m /\ m <= Min(S) /\ Min(S) \in Nat /\ m \in Nat BY <1>3
<1> HIDE DEF Low
<1> QED BY <1>4

LEMMA MinOfTwo ==
    ASSUME NEW a \in Nat, NEW b \in Nat
    PROVE  Min({a, b}) = IF a <= b THEN a ELSE b
<1>1. CASE a <= b BY <1>1, MinIs
<1>2. CASE ~(a <= b)
  <2>1. b <= a /\ b <= b BY <1>2
  <2> QED BY <1>2, <2>1, MinIs
<1> QED BY <1>1, <1>2

LEMMA MaxFound ==
    ASSUME NEW top \in Nat, NEW S, S \subseteq 0..top, S # {}
    PROVE  Max(S) \in S /\ \A n \in S : n <= Max(S)
<1> DEFINE High(x) == \A n \in S : x >= n
           T == {top - n : n \in S}
<1>1. T \subseteq Nat /\ T # {} OBVIOUS
<1>2. PICK l \in T : \A n \in T : l <= n
  <2> HIDE DEF T
  <2> QED BY <1>1, Least
<1>3. PICK m \in S : l = top - m OBVIOUS
<1>4. High(m)
  <2> SUFFICES ASSUME NEW n \in S PROVE m >= n OBVIOUS
  <2>1. top - m <= top - n BY <1>2, <1>3
  <2>2. m \in Nat /\ n \in Nat OBVIOUS
  <2> QED BY <2>1, <2>2
<1>5. Max(S) = CHOOSE x \in S : High(x) BY DEF Max
<1>6. Max(S) \in S /\ High(Max(S))
  <2> HIDE DEF High
  <2> QED BY <1>4, <1>5
<1>7. \A n \in S : n \in Nat OBVIOUS
<1>8. \A n \in S : n <= Max(S) BY <1>6, <1>7
<1> QED BY <1>6, <1>8

\* From every string of characters, console_uint64_from_hex reads the number its leading
\* digits denote, prefixed or not, as many of them as fit a word of any size; and it fits.
THEOREM ReadsNumber ==
    ASSUME NEW C, NEW s \in Seq(C)
    PROVE  /\ console_uint64_from_hex(s) = NumberIn(s)
           /\ NumberIn(s) \in Nat /\ NumberIn(s) < WordValues
<1> DEFINE p == PrefixLength(s)
           rest == SubSeq(s, p + 1, Len(s))
           body == SubSeq(s, p + 1, Min({Len(s), MaxChars(s)}))
           top == Min({Digits, Len(rest)})
           lengths == {n \in 0..top : \A k \in 1..n : IsDigit(rest[k])}
           N == Max(lengths)
<1>1. Len(s) \in Nat /\ p \in 0..Len(s) /\ Digits \in Nat /\ MaxChars(s) = Digits + p
  BY HexAssumption DEF PrefixLength, MaxChars
<1>2. /\ console_uint64_from_hex(s) = Reading(body)[Len(body)].value
      /\ NumberIn(s) = Denoted(SubSeq(rest, 1, N))
  BY DEF console_uint64_from_hex, NumberIn
<1> HIDE DEF p, N
<1>3. /\ rest \in Seq(C) /\ Len(rest) = Len(s) - p /\ Len(rest) \in Nat
      /\ \A k \in 1..Len(rest) : rest[k] = s[p + k]
  <2>1. /\ p + 1 \in 1..(Len(s) + 1) /\ Len(s) \in ((p + 1) - 1)..Len(s)
        /\ Len(s) - (p + 1) + 1 = Len(s) - p /\ Len(s) - p \in Nat
        /\ \A k \in 1..(Len(s) - p) : (p + 1) + k - 1 = p + k
    BY <1>1
  <2> QED BY <2>1, Piece
<1> HIDE DEF rest
<1>4. /\ top \in 0..Len(rest) /\ top <= Digits
      /\ Min({Len(s), MaxChars(s)}) = p + top
  <2> DEFINE l == Len(rest)
  <2>1. top = IF Digits <= l THEN Digits ELSE l BY <1>1, <1>3, MinOfTwo
  <2>2. Min({Len(s), MaxChars(s)}) = IF Len(s) <= Digits + p THEN Len(s) ELSE Digits + p
    <3>1. Digits + p \in Nat BY <1>1
    <3> QED BY <1>1, <3>1, MinOfTwo
  <2>3. l \in Nat /\ Len(s) = p + l BY <1>1, <1>3
  <2> HIDE DEF l, top
  <2>4. CASE Digits <= l
    <3>1. Digits + p <= Len(s) BY <1>1, <2>3, <2>4
    <3>2. Len(s) <= Digits + p => Len(s) = Digits + p BY <1>1, <3>1
    <3>3. top = Digits /\ Min({Len(s), MaxChars(s)}) = Digits + p
      BY <2>1, <2>2, <2>4, <3>2
    <3> QED BY <1>1, <2>3, <2>4, <3>3 DEF l
  <2>5. CASE ~(Digits <= l)
    <3>1. Len(s) <= Digits + p BY <1>1, <2>3, <2>5
    <3>2. top = l /\ Min({Len(s), MaxChars(s)}) = Len(s) BY <2>1, <2>2, <2>5, <3>1
    <3> QED BY <1>1, <2>3, <2>5, <3>2 DEF l
  <2> QED BY <2>4, <2>5
<1> HIDE DEF top
<1>5. /\ body \in Seq(C) /\ Len(body) = top /\ top \in Nat
      /\ \A k \in 1..top : body[k] = rest[k]
  <2>1. /\ p + 1 \in 1..(Len(s) + 1) /\ p + top \in ((p + 1) - 1)..Len(s) /\ top \in Nat
        /\ (p + top) - (p + 1) + 1 = top
        /\ \A k \in 1..top : (p + 1) + k - 1 = p + k /\ k \in 1..Len(rest)
    BY <1>1, <1>3, <1>4
  <2>2. body = SubSeq(s, p + 1, p + top) BY <1>4
  <2> HIDE DEF body
  <2>3. /\ body \in Seq(C) /\ Len(body) = (p + top) - (p + 1) + 1
        /\ \A k \in 1..((p + top) - (p + 1) + 1) : body[k] = s[(p + 1) + k - 1]
    BY <2>1, <2>2, Piece
  <2> QED BY <1>3, <2>1, <2>3
<1> HIDE DEF body
<1>6. N \in lengths /\ \A n \in lengths : n <= N
  <2>1. 0 \in lengths BY <1>5
  <2>2. lengths \subseteq 0..top /\ top \in Nat BY <1>5
  <2> HIDE DEF lengths
  <2> QED BY <2>1, <2>2, MaxFound DEF N
<1>7. N \in 0..top /\ \A k \in 1..N : IsDigit(rest[k]) BY <1>6
<1>8. N < top => ~IsDigit(rest[N + 1])
  <2> SUFFICES ASSUME N < top, IsDigit(rest[N + 1]) PROVE FALSE OBVIOUS
  <2>1. N + 1 \in 0..top /\ ~(N + 1 <= N) BY <1>5, <1>7
  <2>2. \A k \in 1..(N + 1) : k \in 1..N \/ k = N + 1 BY <1>7
  <2>3. N + 1 \in lengths BY <1>7, <2>1, <2>2
  <2> QED BY <1>6, <2>1, <2>3
<1>9. SubSeq(rest, 1, N) = SubSeq(body, 1, N)
  <2>1. N \in 0..Len(rest) /\ N \in 0..Len(body) /\ \A k \in 1..N : k \in 1..top
    BY <1>3, <1>4, <1>5, <1>7
  <2>2. SubSeq(rest, 1, N) \in Seq(C) /\ SubSeq(body, 1, N) \in Seq(C)
    BY <1>3, <1>5, <2>1, Prefix
  <2>3. Len(SubSeq(rest, 1, N)) = N /\ Len(SubSeq(body, 1, N)) = N
    BY <1>3, <1>5, <2>1, Prefix
  <2>4. \A k \in 1..N : SubSeq(rest, 1, N)[k] = SubSeq(body, 1, N)[k]
    BY <1>3, <1>5, <2>1, Prefix
  <2> QED BY <2>2, <2>3, <2>4
<1>10. Reading(body)[N] = [value |-> Denoted(SubSeq(body, 1, N)), done |-> FALSE]
  <2>1. /\ N \in 0..Len(body) /\ N <= Digits /\ N \in 0..N
        /\ \A k \in 1..N : k \in 1..top
    BY <1>1, <1>4, <1>5, <1>7
  <2>2. \A k \in 1..N : IsDigit(body[k]) BY <1>5, <1>7, <2>1
  <2> QED BY <1>5, <2>1, <2>2, DigitsRead
<1>11. Reading(body)[Len(body)].value = Denoted(SubSeq(body, 1, N))
  <2>1. CASE N = top BY <1>5, <1>10, <2>1
  <2>2. CASE N < top
    <3>1. N + 1 \in 1..top /\ N \in Nat BY <1>5, <1>7, <2>2
    <3>2. ~IsDigit(body[N + 1]) BY <1>5, <1>8, <2>2, <3>1
    <3> QED BY <1>5, <1>10, <2>2, <3>1, <3>2, ReadingStops
  <2>3. N = top \/ N < top BY <1>5, <1>7
  <2> QED BY <2>1, <2>2, <2>3
<1>12. /\ Denoted(SubSeq(body, 1, N)) \in Nat
       /\ Denoted(SubSeq(body, 1, N)) < WordValues
  <2>1. /\ N \in 0..Len(body) /\ N \in 0..N /\ N \in Nat /\ N <= Digits
        /\ \A k \in 1..N : k \in 1..top
    BY <1>1, <1>4, <1>5, <1>7
  <2>2. \A k \in 1..N : IsDigit(body[k]) BY <1>5, <1>7, <2>1
  <2> DEFINE v == Denoted(SubSeq(body, 1, N))
  <2>3. v \in Nat /\ v < Power16[N] BY <1>5, <2>1, <2>2, DenotedBelow
  <2> HIDE DEF v
  <2>4. Power16[N] <= Power16[Digits] BY <1>1, <2>1, PowersGrow
  <2>5. Power16[N] \in Nat /\ Power16[Digits] \in Nat BY <1>1, <2>1, Powers
  <2>6. v < Power16[Digits] BY <2>3, <2>4, <2>5
  <2> QED BY <2>3, <2>6 DEF v, WordValues
<1> QED BY <1>2, <1>9, <1>11, <1>12

-----------------------------------------------------------------------------
(* console_print_hex_value.                                                *)

LEMMA Divided == \A n \in Nat, b \in Nat \ {0} :
    /\ n \div b \in Nat /\ n % b \in Nat /\ n % b < b
    /\ n = b * (n \div b) + (n % b)
  OBVIOUS

LEMMA OneQuotient ==
    ASSUME NEW b \in Nat \ {0}, NEW q \in Nat, NEW r \in Nat, r < b,
           NEW p \in Nat, NEW t \in Nat, t < b, b * q + r = b * p + t
    PROVE  q = p
<1>1. ASSUME NEW u \in Nat, NEW v \in Nat, u < v PROVE b * u + b <= b * v
  <2>1. PICK d \in Nat : v = u + 1 + d
    <3>1. v - (u + 1) \in Nat /\ v = u + 1 + (v - (u + 1)) BY <1>1
    <3> QED BY <3>1
  <2>2. b * v = b * u + b + b * d /\ b * d \in Nat /\ b * u \in Nat BY <2>1
  <2> QED BY <2>2
<1>2. b * q \in Nat /\ b * p \in Nat OBVIOUS
<1>3. ~(q < p)
  <2> SUFFICES ASSUME q < p PROVE FALSE OBVIOUS
  <2>1. b * q + b <= b * p BY <1>1
  <2> QED BY <1>2, <2>1
<1>4. ~(p < q)
  <2> SUFFICES ASSUME p < q PROVE FALSE OBVIOUS
  <2>1. b * p + b <= b * q BY <1>1
  <2> QED BY <1>2, <2>1
<1> QED BY <1>3, <1>4

\* Dividing again by sixteen.
LEMMA DividedTwice ==
    ASSUME NEW n \in Nat, NEW b \in Nat \ {0}
    PROVE  (n \div b) \div 16 = n \div (16 * b)
<1> DEFINE x == n \div b
           y == n % b
           u == x \div 16
           z == x % 16
           q == n \div (16 * b)
           r == n % (16 * b)
<1>1. x \in Nat /\ y \in Nat /\ y < b /\ n = b * x + y BY Divided
<1>2. 16 * b \in Nat \ {0} OBVIOUS
<1>3. q \in Nat /\ r \in Nat /\ r < 16 * b /\ n = (16 * b) * q + r BY <1>2, Divided
<1> HIDE DEF y, q, r, x
<1>4. u \in Nat /\ z \in 0..15 /\ x = 16 * u + z BY <1>1
<1> HIDE DEF u, z
<1>5. b * x = (16 * b) * u + b * z /\ b * z \in Nat /\ b * z <= b * 15
  <2>1. b * (16 * u + z) = (16 * b) * u + b * z BY <1>4
  <2>2. b * z <= b * 15
    <3>1. z = 0 \/ z = 1 \/ z = 2 \/ z = 3 \/ z = 4 \/ z = 5 \/ z = 6 \/ z = 7 \/ z = 8
          \/ z = 9 \/ z = 10 \/ z = 11 \/ z = 12 \/ z = 13 \/ z = 14 \/ z = 15
      BY <1>4
    <3> QED BY <3>1
  <2> QED BY <1>4, <2>1, <2>2
<1>6. (16 * b) * u \in Nat BY <1>4
<1>7. b * z + y \in Nat /\ b * z + y < 16 * b /\ n = (16 * b) * u + (b * z + y)
  BY <1>1, <1>5, <1>6
<1>8. u = q BY <1>2, <1>3, <1>4, <1>7, OneQuotient
<1> QED BY <1>8 DEF u, x, q

\* The digit of n with the weight 16^e.
DigitAt(n, e) == (n \div Power16[e]) % 16

LEMMA PrintsDigits ==
    ASSUME NEW n \in Nat, NEW k \in 1..Digits
    PROVE  /\ DigitAt(n, Digits - k) \in 0..15
           /\ console_print_hex_value(n)[k] = Upper[1 + DigitAt(n, Digits - k)]
<1> DEFINE e == Digits - k
           x == n \div Power16[2 * (e \div 2)]
           d == IF k % 2 = 1 THEN (x % 256) \div 16 ELSE (x % 256) % 16
<1>1. Digits \in Nat /\ Digits % 2 = 0 /\ e \in Nat /\ k \in Nat BY HexAssumption
<1>2. console_print_hex_value(n)[k] = Upper[1 + d] BY DEF console_print_hex_value
<1>3. \A m \in Nat : Power16[m] \in Nat \ {0} BY Powers
<1>4. DigitAt(n, e) \in 0..15
  <2>1. n \div Power16[e] \in Nat BY <1>1, <1>3, Divided
  <2> QED BY <2>1 DEF DigitAt
<1>5. CASE k % 2 = 1
  <2>1. e % 2 = 1 BY <1>1, <1>5
  <2> HIDE DEF e
  <2>2. 2 * (e \div 2) = e - 1 /\ e - 1 \in Nat /\ (e - 1) + 1 = e BY <1>1, <2>1
  <2> DEFINE b == Power16[e - 1]
  <2>3. b \in Nat \ {0} /\ Power16[e] = 16 * b BY <2>2, Powers
  <2>4. x = n \div b BY <2>2
  <2> HIDE DEF x, b
  <2>5. x \in Nat /\ x \div 16 = n \div Power16[e] BY <2>3, <2>4, Divided, DividedTwice
  <2>6. (x % 256) \div 16 = (x \div 16) % 16 BY <2>5
  <2> QED BY <1>2, <1>4, <1>5, <2>5, <2>6 DEF DigitAt, e
<1>6. CASE k % 2 # 1
  <2>1. e % 2 = 0 BY <1>1, <1>6
  <2> HIDE DEF e
  <2>2. 2 * (e \div 2) = e BY <1>1, <2>1
  <2>3. x = n \div Power16[e] BY <2>2
  <2>4. x \in Nat BY <1>1, <1>3, <2>3, Divided
  <2> HIDE DEF x
  <2>5. (x % 256) % 16 = x % 16 BY <2>4
  <2> QED BY <1>2, <1>4, <1>6, <2>3, <2>5 DEF DigitAt, e
<1> QED BY <1>5, <1>6

\* console_print_hex_value prints digits that denote the number, for words of any size.
THEOREM PrintsNumber ==
    ASSUME NEW n \in Nat, n < WordValues
    PROVE  Denoted(console_print_hex_value(n)) = n
<1> DEFINE s == console_print_hex_value(n)
           C == {Upper[m] : m \in 1..16}
           x(m) == n \div Power16[Digits - m]
<1>1. Digits \in Nat BY HexAssumption
<1>2. \A k \in 1..Digits : /\ DigitAt(n, Digits - k) \in 0..15
                           /\ s[k] = Upper[1 + DigitAt(n, Digits - k)]
  BY PrintsDigits
<1>3. s = [k \in 1..Digits |-> s[k]] BY DEF console_print_hex_value
<1> HIDE DEF s
<1>4. \A k \in 1..Digits : s[k] \in C
  <2>1. \A d \in 0..15 : 1 + d \in 1..16 OBVIOUS
  <2> QED BY <1>2, <2>1
<1> HIDE DEF C
<1>5. s \in Seq(C) /\ Len(s) = Digits BY <1>1, <1>3, <1>4
<1>6. ASSUME NEW k \in 1..Digits
      PROVE  IsDigit(s[k]) /\ DigitValue(s[k]) = DigitAt(n, Digits - k)
  BY <1>2, DigitShown
<1>7. AllDigits(s) BY <1>5, <1>6 DEF AllDigits
<1> DEFINE p == PlaceSums(s)
<1>8. p[0] = 0 /\ \A m \in Nat : m < Digits =>
         p[m + 1] = p[m] + DigitValue(s[m + 1]) * Power16[Digits - (m + 1)]
  BY <1>5, <1>7, Placed
<1> HIDE DEF p
<1>9. \A m \in 0..Digits : Power16[Digits - m] \in Nat \ {0} /\ x(m) \in Nat
  <2> SUFFICES ASSUME NEW m \in 0..Digits
               PROVE  Power16[Digits - m] \in Nat \ {0} /\ x(m) \in Nat
    OBVIOUS
  <2>1. Digits - m \in Nat BY <1>1
  <2>2. Power16[Digits - m] \in Nat \ {0} BY <2>1, Powers
  <2> QED BY <2>2, Divided
<1>10. x(0) = 0
  <2>1. Digits - 0 = Digits /\ Power16[Digits] \in Nat \ {0} BY <1>1, Powers
  <2>2. n < Power16[Digits] BY DEF WordValues
  <2> QED BY <2>1, <2>2
<1> HIDE DEF x
<1> DEFINE S == {m \in Nat : m <= Digits => p[m] = Power16[Digits - m] * x(m)}
<1>11. 0 \in S
  <2>1. Power16[Digits - 0] * x(0) = 0 BY <1>1, <1>9, <1>10
  <2> QED BY <1>8, <2>1
<1>12. ASSUME NEW m \in Nat, m \in S PROVE m + 1 \in S
  <2> SUFFICES ASSUME m + 1 <= Digits
               PROVE  p[m + 1] = Power16[Digits - (m + 1)] * x(m + 1)
    OBVIOUS
  <2> DEFINE e == Digits - (m + 1)
             w == Power16[e]
             y == x(m + 1)
  <2>1. /\ m < Digits /\ m <= Digits /\ m + 1 \in 1..Digits /\ m \in 0..Digits
        /\ m + 1 \in 0..Digits /\ e \in Nat /\ e + 1 = Digits - m
    BY <1>1
  <2>2. w \in Nat \ {0} /\ y \in Nat BY <1>9, <2>1
  <2>3. Power16[Digits - m] = 16 * w BY <2>1, Powers
  <2>4. y = n \div w BY DEF x
  <2>5. x(m) = y \div 16
    <3>1. x(m) = n \div (16 * w) BY <2>3 DEF x
    <3> HIDE DEF w, y
    <3> QED BY <2>2, <2>4, <3>1, DividedTwice
  <2>6. DigitValue(s[m + 1]) = y % 16 BY <1>6, <2>1 DEF DigitAt, x
  <2>7. p[m] = (16 * w) * (y \div 16) BY <1>12, <2>1, <2>3, <2>5
  <2>8. p[m + 1] = (16 * w) * (y \div 16) + (y % 16) * w BY <1>8, <2>1, <2>6, <2>7
  <2> HIDE DEF w, y
  <2>9. (16 * w) * (y \div 16) + (y % 16) * w = w * y
    <3> DEFINE a == y \div 16
               c == y % 16
    <3>1. a \in Nat /\ c \in Nat /\ y = 16 * a + c BY <2>2
    <3> HIDE DEF a, c
    <3>2. (16 * w) * a + c * w = w * (16 * a + c) BY <2>2, <3>1
    <3> QED BY <3>1, <3>2 DEF a, c
  <2> QED BY <2>8, <2>9 DEF w, y
<1> HIDE DEF S
<1>13. \A m \in Nat : m \in S BY <1>11, <1>12, AllNaturals
<1>14. p[Digits] = Power16[Digits - Digits] * x(Digits) BY <1>1, <1>13 DEF S
<1>15. Digits - Digits = 0 /\ Power16[0] = 1 BY <1>1, Powers
<1>16. x(Digits) = n
  <2>1. x(Digits) = n \div 1 BY <1>15 DEF x
  <2> QED BY <2>1
<1>17. Denoted(s) = p[Digits] BY <1>5 DEF Denoted, p
<1> QED BY <1>14, <1>15, <1>16, <1>17 DEF s
=============================================================================
